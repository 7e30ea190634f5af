----------------------------- MODULE SpongeProofs -----------------------------
(***************************************************************************)
(* Proofs about Sponge for every rate, capacity and padding: a context     *)
(* that absorbs has exactly its message, a digest is that of SHAKE, and    *)
(* different messages are permuted differently.  First what one step does  *)
(* to the values a context consists of, then the steps of the module.      *)
(***************************************************************************)
EXTENDS Sponge, SequenceTheorems, TLAPS

-----------------------------------------------------------------------------
(* \div and %, which the SMT backend does not reason about by itself.      *)

(* Quotient and remainder are determined by their defining equation. *)
LEMMA DivUnique ==
  ASSUME NEW d \in Nat \ {0}, NEW q \in Int, NEW r \in Int, 0 <= r, r < d
  PROVE  /\ (q * d + r) \div d = q
         /\ (q * d + r) % d = r
<1> DEFINE num == q * d + r
           p == num \div d
           s == num % d
<1>1. num \in Int /\ p \in Int /\ s \in Int /\ num = d * p + s /\ 0 <= s /\ s < d
  OBVIOUS
<1>2. d * (p - q) = r - s
  BY <1>1
<1>3. p - q < 1
  <2>1. SUFFICES ASSUME p - q >= 1 PROVE FALSE
    BY <1>1
  <2>2. d * (p - q) >= d
    BY <2>1, <1>1
  <2> QED BY <2>2, <1>2, <1>1
<1>4. p - q > -1
  <2>1. SUFFICES ASSUME p - q <= -1 PROVE FALSE
    BY <1>1
  <2>2. d * (p - q) <= -d
    BY <2>1, <1>1
  <2> QED BY <2>2, <1>2, <1>1
<1>5. p = q
  BY <1>3, <1>4, <1>1
<1> QED BY <1>5, <1>1

(* Division with remainder, as the SMT backend needs it spelled out. *)
LEMMA DivMod ==
  ASSUME NEW d \in Nat \ {0}, NEW num \in Int
  PROVE  /\ num \div d \in Int
         /\ num % d \in 0 .. d - 1
         /\ num = (num \div d) * d + (num % d)
  OBVIOUS

-----------------------------------------------------------------------------
(* Blocks bs and state s, filled up to p, have msg but for its last left   *)
(* bytes: what AbsorbsMessage says of one context.                         *)
Holds(bs, s, p, msg, left) ==
  /\ (Len(bs) * Rate) + p + left = Len(msg)
  /\ \A b \in 1 .. Len(bs), k \in 0 .. Width - 1 :
       bs[b][k] = IF k < Rate THEN msg[(((b - 1) * Rate) + k) + 1] ELSE {}
  /\ \A k \in 0 .. Width - 1 :
       s[k] = IF k < p THEN msg[((Len(bs) * Rate) + k) + 1] ELSE {}

(* Block b of the padded message, and zeros behind it. *)
BlockOf(msg, b) ==
  [k \in 0 .. Width - 1 |->
     IF k < Rate THEN PaddedByte(msg, ((b - 1) * Rate) + k) ELSE {}]

(* What has been squeezed, and what is in the state: blocks of the padded  *)
(* message, and then zeros.                                                *)
Squeezes(bs, s, msg) ==
  /\ \A b \in 1 .. Len(bs) : bs[b] = BlockOf(msg, b)
  /\ s = BlockOf(msg, Len(bs) + 1)
  /\ Len(bs) >= LastBlock(msg)

-----------------------------------------------------------------------------
LEMMA Constants ==
  /\ Rate \in Nat \ {0} /\ Capacity \in Nat
  /\ Width \in Nat /\ Rate <= Width /\ Width >= 1
  /\ P \in Byte /\ E \in Byte /\ {} \in Byte /\ Bytes \subseteq Byte
  /\ MaxChunk \in Nat /\ MaxMessage \in Nat /\ MaxOut \in Nat
BY RateAssumption, BytesAssumption, BoundsAssumption DEF Width, Byte

LEMMA XorBytes ==
  ASSUME NEW x \in Byte, NEW z \in Byte
  PROVE  Xor(x, z) \in Byte /\ Xor({}, x) = x /\ Xor(x, {}) = x
BY DEF Xor, Byte

LEMMA XorAtState ==
  ASSUME NEW s \in State, NEW k \in 0 .. Width - 1, NEW b \in Byte
  PROVE  /\ XorAt(s, k, b) \in State
         /\ XorAt(s, k, b)[k] = Xor(s[k], b)
         /\ \A n \in 0 .. Width - 1 : n # k => XorAt(s, k, b)[n] = s[n]
<1>1. s[k] \in Byte
  BY DEF State
<1>2. Xor(s[k], b) \in Byte
  BY <1>1, XorBytes
<1> QED BY <1>2 DEF XorAt, State

LEMMA ZeroStateType ==
  /\ ZeroState \in State
  /\ \A k \in 0 .. Width - 1 : ~(k < 0) /\ ZeroState[k] = {}
BY Constants DEF ZeroState, State

(* Indices into the message, block by block. *)
LEMMA Indices ==
  ASSUME NEW n \in Nat, NEW m \in Int
  PROVE  /\ n * Rate \in Nat
         /\ (n + 1) * Rate = (n * Rate) + Rate
         /\ m \in 1 .. n => /\ (m - 1) * Rate \in Nat
                            /\ ((m - 1) * Rate) + Rate <= n * Rate
<1>1. n * Rate \in Nat /\ (n + 1) * Rate = (n * Rate) + Rate
  BY Constants
<1>2. ASSUME m \in 1 .. n
      PROVE  (m - 1) * Rate \in Nat /\ ((m - 1) * Rate) + Rate <= n * Rate
  <2> DEFINE u == (m - 1) * Rate
             w == (n - m) * Rate
             v == n * Rate
  <2>1. m - 1 \in Nat /\ n - m \in Nat
    BY <1>2
  <2>2. u \in Nat /\ w \in Nat /\ v \in Nat
    BY <2>1, Constants
  <2>3. v = w + (u + Rate)
    BY <1>2, Constants
  <2> HIDE DEF u, w, v
  <2>4. u + Rate <= v
    BY <2>2, <2>3, Constants
  <2> QED BY <2>2, <2>4 DEF u, v
<1> QED BY <1>1, <1>2

-----------------------------------------------------------------------------
(* One step of absorbing. *)
LEMMA HoldsNothing == Holds(<<>>, ZeroState, 0, <<>>, 0)
<1>1. (0 * Rate) + 0 + 0 = 0
  BY Constants
<1>2. Len(<<>>) = 0 /\ 1 .. 0 = {}
  OBVIOUS
<1>3. \A k \in 0 .. Width - 1 :
        ZeroState[k] = IF k < 0 THEN <<>>[((Len(<<>>) * Rate) + k) + 1] ELSE {}
  BY ZeroStateType, Zenon
<1>4. (Len(<<>>) * Rate) + 0 + 0 = Len(<<>>)
  BY <1>1, <1>2
<1>5. \A b \in 1 .. Len(<<>>), k \in 0 .. Width - 1 :
        <<>>[b][k] = IF k < Rate THEN <<>>[(((b - 1) * Rate) + k) + 1] ELSE {}
  BY <1>2, Zenon
<1> QED BY <1>3, <1>4, <1>5, Zenon DEF Holds

LEMMA HoldsChunk ==
  ASSUME NEW bs \in Seq(State), NEW s \in State, NEW p \in 0 .. Rate,
         NEW msg \in Seq(Byte), NEW chunk \in Seq(Byte),
         Holds(bs, s, p, msg, 0)
  PROVE  Holds(bs, s, p, msg \o chunk, Len(chunk))
<1> DEFINE n == Len(bs)
<1>1. n \in Nat /\ Len(msg) \in Nat /\ Len(chunk) \in Nat
  OBVIOUS
<1>2. /\ Len(msg \o chunk) = Len(msg) + Len(chunk)
      /\ \A k \in 1 .. Len(msg) : (msg \o chunk)[k] = msg[k]
  OBVIOUS
<1>3. n * Rate \in Nat /\ (n * Rate) + p = Len(msg)
  BY <1>1, Constants, Indices DEF Holds
<1>4. (n * Rate) + p + Len(chunk) = Len(msg \o chunk)
  BY <1>1, <1>2, <1>3
<1>5. ASSUME NEW b \in 1 .. n, NEW k \in 0 .. Width - 1, k < Rate
      PROVE  (((b - 1) * Rate) + k) + 1 \in 1 .. Len(msg)
  <2> DEFINE u == (b - 1) * Rate
             v == n * Rate
  <2>1. u \in Nat /\ u + Rate <= v
    BY <1>1, Indices
  <2>2. v \in Nat /\ v + p = Len(msg)
    BY <1>3
  <2> HIDE DEF u, v
  <2>3. (u + k) + 1 \in 1 .. Len(msg)
    BY <2>1, <2>2, <1>5, <1>1, Constants
  <2> QED BY <2>3 DEF u
<1>6. ASSUME NEW k \in 0 .. Width - 1, k < p
      PROVE  ((n * Rate) + k) + 1 \in 1 .. Len(msg)
  BY <1>3, <1>6, <1>1, Constants
<1> QED BY <1>2, <1>4, <1>5, <1>6 DEF Holds

LEMMA HoldsXor ==
  ASSUME NEW bs \in Seq(State), NEW s \in State, NEW p \in 0 .. Rate - 1,
         NEW msg \in Seq(Byte), NEW left \in Nat \ {0},
         Holds(bs, s, p, msg, left)
  PROVE  Holds(bs, XorAt(s, p, msg[((Len(bs) * Rate) + p) + 1]), p + 1, msg, left - 1)
<1> DEFINE n == Len(bs)
           x == msg[((n * Rate) + p) + 1]
<1>1. n \in Nat /\ n * Rate \in Nat /\ Len(msg) \in Nat /\ p \in 0 .. Width - 1
  BY Constants, Indices
<1>2. (n * Rate) + p + left = Len(msg)
  BY DEF Holds
<1>3. ((n * Rate) + p) + 1 \in 1 .. Len(msg)
  BY <1>1, <1>2
<1>4. x \in Byte
  BY <1>3
<1>5. s[p] = {}
  BY <1>1 DEF Holds
<1> HIDE DEF x
<1>6. XorAt(s, p, x)[p] = x
  <2>1. XorAt(s, p, x)[p] = Xor(s[p], x)
    BY <1>1, <1>4, XorAtState
  <2>2. Xor({}, x) = x
    BY <1>4, XorBytes
  <2> QED BY <2>1, <2>2, <1>5
<1>7. (n * Rate) + (p + 1) + (left - 1) = Len(msg)
  BY <1>1, <1>2
<1>8. ASSUME NEW k \in 0 .. Width - 1
      PROVE  XorAt(s, p, x)[k] = IF k < p + 1 THEN msg[((n * Rate) + k) + 1] ELSE {}
  <2>1. CASE k = p
    BY <2>1, <1>1, <1>6 DEF x
  <2>2. CASE k # p
    <3>1. XorAt(s, p, x)[k] = s[k]
      BY <2>2, <1>1, <1>4, XorAtState
    <3>2. s[k] = IF k < p THEN msg[((n * Rate) + k) + 1] ELSE {}
      BY DEF Holds
    <3>3. k < p <=> k < p + 1
      BY <2>2, <1>1, Constants
    <3> QED BY <3>1, <3>2, <3>3
  <2> QED BY <2>1, <2>2
<1>9. Holds(bs, XorAt(s, p, x), p + 1, msg, left - 1)
  BY <1>7, <1>8 DEF Holds
<1> QED BY <1>9 DEF x

LEMMA HoldsPermute ==
  ASSUME NEW bs \in Seq(State), NEW s \in State,
         NEW msg \in Seq(Byte), NEW left \in Nat,
         Holds(bs, s, Rate, msg, left)
  PROVE  Holds(Append(bs, s), ZeroState, 0, msg, left)
<1> DEFINE n == Len(bs)
           bs1 == Append(bs, s)
<1>1. n \in Nat /\ n * Rate \in Nat /\ (n + 1) * Rate = (n * Rate) + Rate
  BY Indices
<1>2. /\ Len(bs1) = n + 1
      /\ \A b \in 1 .. n : bs1[b] = bs[b]
      /\ bs1[n + 1] = s
  OBVIOUS
<1>3. (Len(bs1) * Rate) + 0 + left = Len(msg)
  BY <1>1, <1>2, Constants DEF Holds
<1>4. ASSUME NEW b \in 1 .. n + 1, NEW k \in 0 .. Width - 1
      PROVE  bs1[b][k] = IF k < Rate THEN msg[(((b - 1) * Rate) + k) + 1] ELSE {}
  <2>1. CASE b = n + 1
    <3>1. b - 1 = n
      BY <2>1, <1>1
    <3> QED BY <2>1, <3>1, <1>2 DEF Holds
  <2>2. CASE b # n + 1
    <3>1. b \in 1 .. n
      BY <2>2, <1>1
    <3> QED BY <3>1, <1>2 DEF Holds
  <2> QED BY <2>1, <2>2
<1> HIDE DEF bs1
<1>5. \A k \in 0 .. Width - 1 :
        ZeroState[k] = IF k < 0 THEN msg[((Len(bs1) * Rate) + k) + 1] ELSE {}
  BY ZeroStateType, Zenon
<1>6. Holds(bs1, ZeroState, 0, msg, left)
  BY <1>2, <1>3, <1>4, <1>5 DEF Holds
<1> QED BY <1>6 DEF bs1

-----------------------------------------------------------------------------
(* Padding. *)
Padded(s, p) == XorAt(XorAt(s, p, P), Rate - 1, E)

LEMMA PaddedByteType ==
  ASSUME NEW msg \in Seq(Byte), NEW j \in Nat
  PROVE  /\ PaddedByte(msg, j) \in Byte
         /\ j < Len(msg) => PaddedByte(msg, j) = msg[j + 1]
<1>1. CASE j < Len(msg)
  <2>1. j + 1 \in 1 .. Len(msg)
    BY <1>1
  <2>2. msg[j + 1] \in Byte
    BY <2>1
  <2> QED BY <1>1, <2>2 DEF PaddedByte
<1>2. CASE ~(j < Len(msg))
  <2> DEFINE x == IF j = Len(msg) THEN P ELSE {}
             z == IF j = (LastBlock(msg) * Rate) + (Rate - 1) THEN E ELSE {}
  <2>1. x \in Byte /\ z \in Byte
    BY Constants
  <2> HIDE DEF x, z
  <2>2. Xor(x, z) \in Byte
    BY <2>1, XorBytes
  <2>3. PaddedByte(msg, j) = Xor(x, z)
    BY <1>2 DEF PaddedByte, x, z
  <2> QED BY <1>2, <2>2, <2>3
<1> QED BY <1>1, <1>2

LEMMA BlockOfType ==
  ASSUME NEW msg \in Seq(Byte), NEW b \in Nat \ {0}
  PROVE  BlockOf(msg, b) \in State
<1>1. ASSUME NEW k \in 0 .. Width - 1, k < Rate
      PROVE  PaddedByte(msg, ((b - 1) * Rate) + k) \in Byte
  <2>1. (b - 1) * Rate \in Nat
    BY Constants
  <2>2. ((b - 1) * Rate) + k \in Nat
    BY <2>1, Constants
  <2> QED BY <2>2, PaddedByteType
<1> QED BY <1>1, Constants DEF BlockOf, State

(* The number of whole blocks, and where the last byte is. *)
LEMMA LastBlockIs ==
  ASSUME NEW msg \in Seq(Byte), NEW n \in Nat, NEW p \in 0 .. Rate - 1,
         (n * Rate) + p = Len(msg)
  PROVE  LastBlock(msg) = n
<1>1. ((n * Rate) + p) \div Rate = n
  BY Constants, DivUnique
<1> QED BY <1>1 DEF LastBlock

LEMMA LastBlockBounds ==
  ASSUME NEW msg \in Seq(Byte)
  PROVE  /\ LastBlock(msg) \in Nat
         /\ LastBlock(msg) * Rate <= Len(msg)
         /\ Len(msg) < (LastBlock(msg) * Rate) + Rate
<1> DEFINE n == LastBlock(msg)
           v == n * Rate
<1>1. /\ n \in Int
      /\ Len(msg) % Rate \in 0 .. Rate - 1
      /\ Len(msg) = v + (Len(msg) % Rate)
  BY Constants, DivMod DEF LastBlock
<1>2. v \in Int
  BY <1>1, Constants
<1> DEFINE r == Len(msg) % Rate
<1> HIDE DEF n, r
<1>3. v <= Len(msg) /\ Len(msg) < v + Rate
  <2> HIDE DEF v
  <2> QED BY <1>1, <1>2, Constants DEF r
<1>4. n \in Nat
  <2>1. SUFFICES ASSUME n <= -1 PROVE FALSE
    BY <1>1
  <2>2. (n + 1) * Rate = v + Rate
    BY <1>1, Constants
  <2>3. (n + 1) * Rate <= 0
    <3>1. -(n + 1) \in Nat
      BY <2>1, <1>1
    <3>2. (-(n + 1)) * Rate \in Nat
      BY <3>1, Constants
    <3> QED BY <3>2, <1>1, Constants
  <2>4. Len(msg) \in Nat
    OBVIOUS
  <2> QED BY <2>2, <2>3, <2>4, <1>2, <1>3, Constants
<1> QED BY <1>3, <1>4 DEF n

(* A full message block is a block of the padded message. *)
LEMMA WholeBlock ==
  ASSUME NEW bs \in Seq(State), NEW s \in State, NEW p \in 0 .. Rate - 1,
         NEW msg \in Seq(Byte), Holds(bs, s, p, msg, 0),
         NEW b \in 1 .. Len(bs)
  PROVE  bs[b] = BlockOf(msg, b)
<1> DEFINE n == Len(bs)
           u == (b - 1) * Rate
           v == n * Rate
<1>1. n \in Nat /\ Len(msg) \in Nat /\ b \in Int
  OBVIOUS
<1>2. u \in Nat /\ u + Rate <= v /\ v \in Nat
  BY <1>1, Indices
<1>3. v + p = Len(msg)
  BY <1>1, <1>2, Constants DEF Holds
<1>4. bs[b] \in State
  OBVIOUS
<1>5. ASSUME NEW k \in 0 .. Width - 1
      PROVE  bs[b][k] = IF k < Rate THEN PaddedByte(msg, u + k) ELSE {}
  <2>1. CASE k < Rate
    <3>1. u + k \in Nat /\ u + k < Len(msg)
      <4> HIDE DEF u, v
      <4> QED BY <1>1, <1>2, <1>3, <2>1, Constants
    <3>2. PaddedByte(msg, u + k) = msg[(u + k) + 1]
      BY <3>1, PaddedByteType
    <3> QED BY <2>1, <3>2 DEF Holds
  <2>2. CASE ~(k < Rate)
    BY <2>2 DEF Holds
  <2> QED BY <2>1, <2>2
<1> QED BY <1>4, <1>5 DEF BlockOf, State

(* keccak_finalize makes of the state the last block of the padded         *)
(* message, also when its padding is a single byte.                        *)
LEMMA PaddedBlock ==
  ASSUME NEW bs \in Seq(State), NEW s \in State, NEW p \in 0 .. Rate - 1,
         NEW msg \in Seq(Byte), Holds(bs, s, p, msg, 0)
  PROVE  Padded(s, p) \in State /\ Padded(s, p) = BlockOf(msg, Len(bs) + 1)
<1> DEFINE n == Len(bs)
           v == n * Rate
           s1 == XorAt(s, p, P)
           s2 == XorAt(s1, Rate - 1, E)
<1>1. n \in Nat /\ Len(msg) \in Nat /\ v \in Nat
  BY Constants
<1>2. v + p = Len(msg)
  BY <1>1, Constants DEF Holds
<1>3. LastBlock(msg) = n
  BY <1>1, <1>2, LastBlockIs
<1>4. p \in 0 .. Width - 1 /\ Rate - 1 \in 0 .. Width - 1 /\ P \in Byte /\ E \in Byte
  BY Constants
<1>5. /\ s1 \in State
      /\ s1[p] = Xor(s[p], P)
      /\ \A k \in 0 .. Width - 1 : k # p => s1[k] = s[k]
  BY <1>4, XorAtState
<1> HIDE DEF s1
<1>6. /\ s2 \in State
      /\ s2[Rate - 1] = Xor(s1[Rate - 1], E)
      /\ \A k \in 0 .. Width - 1 : k # Rate - 1 => s2[k] = s1[k]
  BY <1>4, <1>5, XorAtState
<1> HIDE DEF s2
<1>7. \A k \in 0 .. Width - 1 : s[k] = IF k < p THEN msg[(v + k) + 1] ELSE {}
  BY DEF Holds
<1>8. s[p] = {} /\ s1[p] = P
  <2>1. s[p] = {}
    BY <1>4, <1>7
  <2>2. Xor({}, P) = P
    BY <1>4, XorBytes
  <2> QED BY <2>1, <2>2, <1>5
<1>9. ASSUME NEW k \in 0 .. Width - 1
      PROVE  s2[k] = IF k < Rate THEN PaddedByte(msg, v + k) ELSE {}
  <2>0. k \in Int /\ p \in Int /\ v + k \in Nat
    BY <1>1
  <2>1. CASE k < p
    <3>1. s2[k] = msg[(v + k) + 1] /\ k < Rate /\ v + k < Len(msg)
      <4> HIDE DEF v
      <4> QED BY <2>1, <2>0, <1>1, <1>2, <1>5, <1>6, <1>7, Constants
    <3> QED BY <3>1, <2>0, PaddedByteType
  <2>2. CASE k >= p /\ k < Rate
    <3> DEFINE x == IF k = p THEN P ELSE {}
               z == IF k = Rate - 1 THEN E ELSE {}
    <3>1. PaddedByte(msg, v + k) = Xor(x, z)
      <4>1. ~(v + k < Len(msg)) /\ (v + k = Len(msg) <=> k = p)
        <5> HIDE DEF v
        <5> QED BY <2>2, <2>0, <1>1, <1>2
      <4>2. v + k = (LastBlock(msg) * Rate) + (Rate - 1) <=> k = Rate - 1
        BY <1>3, <2>0, <1>1, Constants
      <4> QED BY <4>1, <4>2 DEF PaddedByte
    <3>2. s1[k] = x
      BY <2>2, <2>0, <1>5, <1>7, <1>8
    <3>3. x \in Byte /\ z \in Byte
      BY Constants
    <3> HIDE DEF x
    <3>4. s2[k] = Xor(x, z)
      <4>1. CASE k = Rate - 1
        BY <4>1, <3>2, <1>6
      <4>2. CASE k # Rate - 1
        BY <4>2, <3>2, <3>3, <1>6, XorBytes
      <4> QED BY <4>1, <4>2
    <3> QED BY <2>2, <3>1, <3>4
  <2>3. CASE k >= Rate
    BY <2>3, <2>0, <1>5, <1>6, <1>7, Constants
  <2> QED BY <2>0, <2>1, <2>2, <2>3, Constants
<1>10. BlockOf(msg, n + 1) = [k \in 0 .. Width - 1 |->
                               IF k < Rate THEN PaddedByte(msg, v + k) ELSE {}]
  <2>1. (n + 1) - 1 = n
    BY <1>1
  <2> QED BY <2>1 DEF BlockOf
<1>11. s2 = BlockOf(msg, n + 1)
  BY <1>6, <1>9, <1>10 DEF State
<1> QED BY <1>6, <1>11 DEF Padded, s1, s2

-----------------------------------------------------------------------------
(* Squeezing: behind the padded message there are only zeros. *)
LEMMA PastEnd ==
  ASSUME NEW msg \in Seq(Byte), NEW n \in Nat, n >= LastBlock(msg) + 2
  PROVE  BlockOf(msg, n) = ZeroState
<1> DEFINE l == LastBlock(msg)
           v == l * Rate
           u == (n - 1) * Rate
<1>1. l \in Nat /\ Len(msg) < v + Rate /\ Len(msg) \in Nat
  BY LastBlockBounds
<1>2. v \in Nat /\ u \in Nat /\ v + Rate <= u
  <2>1. n - 1 \in Nat /\ l + 1 \in 1 .. n - 1
    BY <1>1
  <2>2. ((l + 1) - 1) * Rate \in Nat /\ (((l + 1) - 1) * Rate) + Rate <= (n - 1) * Rate
    BY <2>1, Indices
  <2>3. (l + 1) - 1 = l /\ (n - 1) * Rate \in Nat
    BY <1>1, <2>1, Constants
  <2> QED BY <2>2, <2>3
<1>3. ASSUME NEW k \in 0 .. Width - 1
      PROVE  PaddedByte(msg, u + k) = {}
  <2> HIDE DEF u, v
  <2>1. ~(u + k < Len(msg)) /\ u + k # Len(msg) /\ u + k # v + (Rate - 1)
    BY <1>1, <1>2, Constants
  <2>2. PaddedByte(msg, u + k) = Xor({}, {})
    BY <2>1 DEF PaddedByte, v
  <2> QED BY <2>2, Constants, XorBytes
<1> QED BY <1>3 DEF BlockOf, ZeroState

LEMMA SqueezesPermute ==
  ASSUME NEW bs \in Seq(State), NEW s \in State, NEW msg \in Seq(Byte),
         Squeezes(bs, s, msg)
  PROVE  Squeezes(Append(bs, s), ZeroState, msg)
<1> DEFINE n == Len(bs)
           bs1 == Append(bs, s)
<1>1. n \in Nat /\ LastBlock(msg) \in Nat /\ n >= LastBlock(msg)
  BY LastBlockBounds DEF Squeezes
<1>2. /\ Len(bs1) = n + 1
      /\ \A b \in 1 .. n : bs1[b] = bs[b]
      /\ bs1[n + 1] = s
  OBVIOUS
<1> HIDE DEF bs1
<1>3. ASSUME NEW b \in 1 .. n + 1
      PROVE  bs1[b] = BlockOf(msg, b)
  <2>1. CASE b = n + 1
    BY <2>1, <1>2 DEF Squeezes
  <2>2. CASE b # n + 1
    <3>1. b \in 1 .. n
      BY <2>2, <1>1
    <3> QED BY <3>1, <1>2 DEF Squeezes
  <2> QED BY <2>1, <2>2
<1>4. ZeroState = BlockOf(msg, Len(bs1) + 1)
  <2>1. (n + 1) + 1 \in Nat /\ (n + 1) + 1 >= LastBlock(msg) + 2
    BY <1>1
  <2> QED BY <2>1, <1>2, PastEnd
<1>5. Squeezes(bs1, ZeroState, msg)
  BY <1>1, <1>2, <1>3, <1>4 DEF Squeezes
<1> QED BY <1>5 DEF bs1

(* The byte at p of the n-th block squeezed is the byte of SHAKE's output  *)
(* with that place in it.                                                  *)
LEMMA SqueezedByte ==
  ASSUME NEW bs \in Seq(State), NEW s \in State, NEW msg \in Seq(Byte),
         Squeezes(bs, s, msg),
         NEW n \in Nat \ {0}, Len(bs) = LastBlock(msg) + n,
         NEW p \in 0 .. Rate - 1
  PROVE  XofByte(msg, ((n - 1) * Rate) + p) = StateByte(bs, s, p)
<1> DEFINE j == ((n - 1) * Rate) + p
<1>1. j \div Rate = n - 1 /\ j % Rate = p
  <2>1. n - 1 \in Int /\ p \in Int /\ 0 <= p /\ p < Rate /\ Rate \in Nat \ {0}
    BY Constants
  <2> QED BY <2>1, DivUnique
<1>2. LastBlock(msg) \in Nat
  BY LastBlockBounds
<1>3. (LastBlock(msg) + 1) + (n - 1) = Len(bs)
  BY <1>2
<1>4. bs = XofBlocks(msg, Len(bs))
  <2>1. bs = [b \in 1 .. Len(bs) |-> bs[b]]
    OBVIOUS
  <2>2. \A b \in 1 .. Len(bs) : bs[b] = BlockOf(msg, b)
    BY DEF Squeezes
  <2> QED BY <2>1, <2>2 DEF XofBlocks, BlockOf
<1>5. s = ZeroState
  <2>1. Len(bs) + 1 \in Nat /\ Len(bs) + 1 >= LastBlock(msg) + 2
    BY <1>2
  <2> QED BY <2>1, PastEnd DEF Squeezes
<1> HIDE DEF j
<1>6. XofByte(msg, j) = StateByte(XofBlocks(msg, Len(bs)), ZeroState, p)
  BY <1>1, <1>3 DEF XofByte
<1> QED BY <1>4, <1>5, <1>6 DEF j

-----------------------------------------------------------------------------
(* Different messages have different padded blocks. *)
SameBlocks(msg1, msg2) ==
  /\ LastBlock(msg1) = LastBlock(msg2)
  /\ \A b \in 1 .. LastBlock(msg1) + 1 : BlockOf(msg1, b) = BlockOf(msg2, b)

LEMMA SamePaddedBytes ==
  ASSUME NEW msg1 \in Seq(Byte), NEW msg2 \in Seq(Byte), SameBlocks(msg1, msg2),
         NEW j \in Nat, j < (LastBlock(msg1) * Rate) + Rate
  PROVE  PaddedByte(msg1, j) = PaddedByte(msg2, j)
<1> DEFINE n == LastBlock(msg1)
           q == j \div Rate
           r == j % Rate
           v == n * Rate
           u == q * Rate
<1>1. q \in Int /\ r \in 0 .. Rate - 1 /\ j = u + r /\ n \in Nat
  <2>1. n \in Nat
    BY LastBlockBounds
  <2>2. j \in Int /\ Rate \in Nat \ {0}
    BY Constants
  <2>3. /\ j \div Rate \in Int
        /\ j % Rate \in 0 .. Rate - 1
        /\ j = (j \div Rate) * Rate + (j % Rate)
    BY ONLY <2>2, DivMod
  <2> QED BY <2>1, <2>3
<1> HIDE DEF q, r, n
<1>2. u \in Int /\ v \in Nat
  BY <1>1, Constants
<1>3. q >= 0
  <2>1. SUFFICES ASSUME q <= -1 PROVE FALSE
    BY <1>1
  <2>2. -q - 1 \in Nat
    BY <1>1, <2>1
  <2>3. (-q - 1) * Rate \in Nat
    BY <2>2, Constants
  <2>4. u + Rate <= 0
    <3>1. (-q - 1) * Rate = -(u + Rate)
      BY <1>1, Constants
    <3> HIDE DEF u
    <3> QED BY <2>3, <3>1, <1>2, Constants
  <2> HIDE DEF u
  <2> QED BY <2>4, <1>1, <1>2, Constants
<1>4. q <= n
  <2>1. SUFFICES ASSUME q >= n + 1 PROVE FALSE
    BY <1>1
  <2>2. (q - (n + 1)) * Rate \in Nat
    <3>1. q - (n + 1) \in Nat
      BY <1>1, <2>1
    <3> QED BY <3>1, Constants
  <2>3. (q - (n + 1)) * Rate = u - (v + Rate)
    BY <1>1, Constants
  <2>4. j < v + Rate
    BY DEF n
  <2> HIDE DEF u, v
  <2> QED BY <2>2, <2>3, <2>4, <1>1, <1>2, Constants
<1>5. BlockOf(msg1, q + 1) = BlockOf(msg2, q + 1)
  BY <1>1, <1>3, <1>4 DEF SameBlocks, n
<1>6. (q + 1) - 1 = q /\ r \in 0 .. Width - 1 /\ r < Rate
  BY <1>1, Constants
<1>7. /\ BlockOf(msg1, q + 1)[r] = PaddedByte(msg1, u + r)
      /\ BlockOf(msg2, q + 1)[r] = PaddedByte(msg2, u + r)
  BY <1>6 DEF BlockOf
<1> QED BY <1>1, <1>5, <1>7

LEMMA NotShorter ==
  ASSUME NEW msg1 \in Seq(Byte), NEW msg2 \in Seq(Byte), SameBlocks(msg1, msg2)
  PROVE  ~(Len(msg1) < Len(msg2))
<1>1. SUFFICES ASSUME Len(msg1) < Len(msg2) PROVE FALSE
  OBVIOUS
<1> DEFINE j == Len(msg2)
           z == IF j = (LastBlock(msg1) * Rate) + (Rate - 1) THEN E ELSE {}
<1>2. j \in Nat /\ j < (LastBlock(msg1) * Rate) + Rate
  BY LastBlockBounds DEF SameBlocks
<1>3. PaddedByte(msg1, j) = PaddedByte(msg2, j)
  BY <1>2, SamePaddedBytes
<1>4. ~(j < Len(msg1)) /\ j # Len(msg1) /\ ~(j < Len(msg2))
  BY <1>1, <1>2
<1>5. PaddedByte(msg1, j) = Xor({}, z) /\ PaddedByte(msg2, j) = Xor(P, z)
  BY <1>4 DEF PaddedByte, SameBlocks
<1> HIDE DEF z, j
<1>6. Xor({}, z) = Xor(P, z)
  BY <1>3, <1>5
<1>7. P = {}
  BY <1>6 DEF Xor
<1> QED BY <1>7, PaddingAssumption

LEMMA PaddingInjective ==
  ASSUME NEW msg1 \in Seq(Byte), NEW msg2 \in Seq(Byte), SameBlocks(msg1, msg2)
  PROVE  msg1 = msg2
<1>1. SameBlocks(msg2, msg1)
  BY DEF SameBlocks
<1>2. Len(msg1) = Len(msg2)
  <2>1. ~(Len(msg1) < Len(msg2)) /\ ~(Len(msg2) < Len(msg1))
    BY <1>1, NotShorter
  <2> QED BY <2>1
<1>3. ASSUME NEW k \in 1 .. Len(msg1)
      PROVE  msg1[k] = msg2[k]
  <2>1. k - 1 \in Nat /\ k - 1 < Len(msg1) /\ k - 1 < Len(msg2) /\ (k - 1) + 1 = k
    BY <1>2
  <2>2. k - 1 < (LastBlock(msg1) * Rate) + Rate
    <3>1. Len(msg1) < (LastBlock(msg1) * Rate) + Rate /\ LastBlock(msg1) \in Nat
      BY LastBlockBounds
    <3>2. LastBlock(msg1) * Rate \in Nat
      BY <3>1, Constants
    <3> QED BY <2>1, <3>1, <3>2, Constants
  <2>3. PaddedByte(msg1, k - 1) = PaddedByte(msg2, k - 1)
    BY <2>1, <2>2, SamePaddedBytes
  <2> QED BY <2>1, <2>3, PaddedByteType
<1> QED BY <1>2, <1>3

-----------------------------------------------------------------------------
(* The invariant. *)
Squeezed == Seq(State) \X Byte \X (0 .. Width - 1)
OutType == out \in Seq(Squeezed)

(* The phase of the context in a call, and the bounds a loop of            *)
(* keccak_absorb was entered with.                                         *)
Control ==
  /\ pc \in {"while", "fill", "rest"} => phase[ctx] = "absorbing"
  /\ pc \in {"blocks", "squeeze"} => phase[ctx] = "squeezing"
  /\ pc = "fill" => Rate - i <= Len(input)
  /\ pc = "rest" => i + Len(input) < Rate

(* What is left of the input is the message's end. *)
InputLeft ==
  pc \in {"while", "fill", "rest"} =>
    \A k \in 1 .. Len(input) : input[k] = message[ctx][Absorbed(ctx) + k]

(* AbsorbsMessage, context by context. *)
AbsorbedIn(c) ==
  phase[c] = "absorbing" => Holds(blocks[c], st[c], Place(c), message[c], Pending(c))
Absorbs == \A c \in Ctx : AbsorbedIn(c)

(* Where squeezing stands: the place in the state follows from the bytes   *)
(* handed out, whole blocks leaving pos at the end of the block.           *)
Squeezing ==
  pc \in {"blocks", "squeeze"} =>
    /\ Squeezes(blocks[ctx], st[ctx], message[ctx])
    /\ Len(out) + Rate = ((Len(blocks[ctx]) - LastBlock(message[ctx])) * Rate) + pos[ctx]
    /\ pc = "blocks" => pos[ctx] = Rate /\ nblocks * Rate <= outlen

IInv ==
  TypeOK /\ OutType /\ Control /\ InputLeft /\ Absorbs /\ Squeezing /\ DigestIsXof

LEMMA AbsorbsIs == Absorbs <=> AbsorbsMessage
BY DEF Absorbs, AbsorbedIn, Holds, AbsorbsMessage, Absorbed

(* Between calls only the contexts matter. *)
LEMMA IdleInv ==
  ASSUME TypeOK', OutType', Absorbs', pc' = "idle"
  PROVE  IInv'
BY DEF IInv, Control, InputLeft, Squeezing, DigestIsXof

(* In a call only its context changes. *)
LEMMA OthersAbsorb ==
  ASSUME NEW c \in Ctx, Absorbs, AbsorbedIn(c)',
         \A d \in Ctx \ {c} : \/ phase'[d] # "absorbing"
                               \/ /\ phase'[d] = phase[d] /\ blocks'[d] = blocks[d]
                                  /\ st'[d] = st[d] /\ message'[d] = message[d]
                                  /\ Place(d)' = Place(d) /\ Pending(d)' = Pending(d)
  PROVE  Absorbs'
BY DEF Absorbs, AbsorbedIn

LEMMA InitInv == Init => IInv
<1> SUFFICES ASSUME Init PROVE IInv
  OBVIOUS
<1>1. TypeOK
  BY Constants, ZeroStateType DEF Init, TypeOK
<1>2. OutType
  BY DEF Init, OutType
<1> QED BY <1>1, <1>2 DEF Init, IInv, Control, InputLeft, Absorbs, AbsorbedIn, Squeezing,
                          DigestIsXof

-----------------------------------------------------------------------------
LEMMA HashInitInv ==
  ASSUME IInv, NEW c \in Ctx, HashInit(c)
  PROVE  IInv'
<1>1. TypeOK'
  BY Constants, ZeroStateType DEF IInv, TypeOK, HashInit, squeezing
<1>2. OutType' /\ pc' = "idle" /\ pc = "idle"
  BY DEF IInv, OutType, HashInit, squeezing
<1>3. AbsorbedIn(c)'
  <2>1. blocks'[c] = <<>> /\ st'[c] = ZeroState /\ message'[c] = <<>> /\ pos'[c] = 0
    BY DEF IInv, TypeOK, HashInit
  <2>2. Place(c)' = 0 /\ Pending(c)' = 0
    BY <2>1, <1>2 DEF Place, Pending
  <2> QED BY <2>1, <2>2, HoldsNothing DEF AbsorbedIn
<1>4. \A d \in Ctx \ {c} :
        /\ phase'[d] = phase[d] /\ blocks'[d] = blocks[d]
        /\ st'[d] = st[d] /\ message'[d] = message[d]
        /\ Place(d)' = Place(d) /\ Pending(d)' = Pending(d)
  BY <1>2 DEF IInv, TypeOK, HashInit, Place, Pending
<1>5. Absorbs'
  BY <1>3, <1>4, OthersAbsorb DEF IInv
<1> QED BY <1>1, <1>2, <1>5, IdleInv

LEMMA HashCopyInv ==
  ASSUME IInv, NEW c \in Ctx, NEW d \in Ctx, HashCopy(c, d)
  PROVE  IInv'
<1>1. TypeOK'
  BY DEF IInv, TypeOK, HashCopy, squeezing
<1>2. OutType' /\ pc' = "idle" /\ pc = "idle"
  BY DEF IInv, OutType, HashCopy, squeezing
<1>3. AbsorbedIn(d)'
  <2>1. /\ blocks'[d] = blocks[c] /\ st'[d] = st[c] /\ message'[d] = message[c]
        /\ pos'[d] = pos[c]
    BY DEF IInv, TypeOK, HashCopy
  <2>2. Place(d)' = Place(c) /\ Pending(d)' = Pending(c)
    BY <2>1, <1>2 DEF Place, Pending
  <2>3. Holds(blocks[c], st[c], Place(c), message[c], Pending(c))
    BY DEF IInv, Absorbs, AbsorbedIn, HashCopy
  <2> QED BY <2>1, <2>2, <2>3 DEF AbsorbedIn
<1>4. \A e \in Ctx \ {d} :
        /\ phase'[e] = phase[e] /\ blocks'[e] = blocks[e]
        /\ st'[e] = st[e] /\ message'[e] = message[e]
        /\ Place(e)' = Place(e) /\ Pending(e)' = Pending(e)
  BY <1>2 DEF IInv, TypeOK, HashCopy, Place, Pending
<1>5. Absorbs'
  BY <1>3, <1>4, OthersAbsorb DEF IInv
<1> QED BY <1>1, <1>2, <1>5, IdleInv

LEMMA ChunkType ==
  ASSUME NEW chunk \in Chunks
  PROVE  chunk \in Seq(Byte)
<1>1. PICK n \in 0 .. MaxChunk : chunk \in [1 .. n -> Bytes]
  BY DEF Chunks
<1>2. n \in Nat
  BY Constants
<1>3. chunk \in [1 .. n -> Byte]
  BY <1>1, Constants
<1> QED BY <1>2, <1>3

LEMMA HashUpdateInv ==
  ASSUME IInv, NEW c \in Ctx, NEW chunk \in Chunks, HashUpdate(c, chunk)
  PROVE  IInv'
<1> DEFINE msg == message[c]
           bs == blocks[c]
<1>1. chunk \in Seq(Byte) /\ msg \in Seq(Byte) /\ bs \in Seq(State) /\ pos[c] \in 0 .. Rate
  BY ChunkType DEF IInv, TypeOK
<1>2. /\ pc = "idle" /\ phase[c] = "absorbing" /\ pc' = "while" /\ ctx' = c
      /\ input' = chunk /\ message'[c] = msg \o chunk
      /\ phase' = phase /\ blocks' = blocks /\ st' = st /\ pos' = pos
  BY DEF IInv, TypeOK, HashUpdate
<1>3. TypeOK'
  <2>1. msg \o chunk \in Seq(Byte)
    BY <1>1
  <2>2. message' \in [Ctx -> Seq(Byte)]
    BY <2>1 DEF IInv, TypeOK, HashUpdate
  <2> QED BY <1>1, <1>2, <2>2 DEF IInv, TypeOK, HashUpdate, squeezing
<1>4. OutType'
  BY DEF IInv, OutType, HashUpdate, squeezing
<1>5. Control'
  BY <1>2 DEF Control
<1>6. Holds(bs, st[c], pos[c], msg, 0)
  BY <1>2 DEF IInv, Absorbs, AbsorbedIn, Place, Pending
<1>7. Place(c)' = pos[c] /\ Pending(c)' = Len(chunk)
  BY <1>2 DEF Place, Pending
<1>8. InputLeft'
  <2>1. Absorbed(ctx)' = Len(msg)
    <3>1. (Len(bs) * Rate) + pos[c] + 0 = Len(msg)
      BY <1>6 DEF Holds
    <3>2. Absorbed(ctx)' = (Len(bs) * Rate) + pos[c]
      BY <1>2, <1>7 DEF Absorbed
    <3>3. (Len(bs) * Rate) \in Nat
      BY <1>1, Constants
    <3> QED BY <3>1, <3>2, <3>3, <1>1
  <2>2. \A k \in 1 .. Len(chunk) : chunk[k] = (msg \o chunk)[Len(msg) + k]
    BY <1>1
  <2> QED BY <2>1, <2>2, <1>2 DEF InputLeft
<1>9. Absorbs'
  <2>1. AbsorbedIn(c)'
    <3>1. Holds(bs, st[c], pos[c], msg \o chunk, Len(chunk))
      BY <1>1, <1>6, HoldsChunk DEF IInv, TypeOK
    <3> QED BY <3>1, <1>2, <1>7 DEF AbsorbedIn
  <2>2. \A d \in Ctx \ {c} :
          /\ phase'[d] = phase[d] /\ blocks'[d] = blocks[d]
          /\ st'[d] = st[d] /\ message'[d] = message[d]
          /\ Place(d)' = Place(d) /\ Pending(d)' = Pending(d)
    BY <1>2 DEF IInv, TypeOK, HashUpdate, Place, Pending
  <2> QED BY <2>1, <2>2, OthersAbsorb DEF IInv
<1>10. Squeezing' /\ DigestIsXof'
  BY <1>2 DEF Squeezing, DigestIsXof
<1> QED BY <1>3, <1>4, <1>5, <1>8, <1>9, <1>10 DEF IInv

-----------------------------------------------------------------------------
LEMMA AbsorbWhileInv ==
  ASSUME IInv, AbsorbWhile
  PROVE  IInv'
<1>1. /\ pc = "while" /\ i' = pos[ctx] /\ pc' \in {"fill", "rest"}
      /\ pc' = "fill" <=> Fills
      /\ phase' = phase /\ blocks' = blocks /\ st' = st /\ pos' = pos
      /\ message' = message /\ ctx' = ctx /\ input' = input
      /\ outlen' = outlen /\ nblocks' = nblocks /\ out' = out /\ asked' = asked
  BY DEF AbsorbWhile, context, squeezing
<1>2. /\ phase[ctx] = "absorbing" /\ ctx \in Ctx
      /\ pos[ctx] \in 0 .. Rate /\ pos[ctx] < Rate /\ input \in Seq(Byte)
  BY <1>1 DEF IInv, TypeOK, Control
<1>3. TypeOK' /\ OutType'
  BY <1>1, <1>2 DEF IInv, TypeOK, OutType
<1>4. Control'
  <2>1. Len(input) \in Nat /\ i' \in Int
    BY <1>1, <1>2
  <2> QED BY <2>1, <1>1, <1>2, Constants DEF Control, Fills
<1>5. Place(ctx)' = Place(ctx) /\ Pending(ctx)' = Pending(ctx)
  BY <1>1 DEF Place, Pending
<1>6. InputLeft'
  <2>1. Absorbed(ctx)' = Absorbed(ctx)
    BY <1>1, <1>5 DEF Absorbed
  <2> QED BY <2>1, <1>1 DEF IInv, InputLeft
<1>7. Absorbs'
  <2>1. AbsorbedIn(ctx)'
    BY <1>1, <1>2, <1>5 DEF IInv, Absorbs, AbsorbedIn
  <2>2. \A d \in Ctx \ {ctx} : Place(d)' = Place(d) /\ Pending(d)' = Pending(d)
    BY <1>1 DEF Place, Pending
  <2> QED BY <2>1, <2>2, <1>1, <1>2, OthersAbsorb DEF IInv
<1>8. Squeezing' /\ DigestIsXof'
  BY <1>1 DEF Squeezing, DigestIsXof
<1> QED BY <1>3, <1>4, <1>6, <1>7, <1>8 DEF IInv

LEMMA XorInputInv ==
  ASSUME IInv, pc \in {"fill", "rest"}, i < Rate, input # <<>>, XorInput
  PROVE  IInv'
<1> DEFINE bs == blocks[ctx]
           msg == message[ctx]
           at == (Len(bs) * Rate) + i
<1>1. /\ i' = i + 1 /\ input' = Tail(input)
      /\ st' = [st EXCEPT ![ctx] = XorAt(@, i, Head(input))]
      /\ phase' = phase /\ blocks' = blocks /\ pos' = pos
      /\ message' = message /\ pc' = pc /\ ctx' = ctx
      /\ outlen' = outlen /\ nblocks' = nblocks /\ out' = out /\ asked' = asked
  BY DEF XorInput, squeezing
<1>2. /\ phase[ctx] = "absorbing" /\ ctx \in Ctx /\ bs \in Seq(State) /\ st[ctx] \in State
      /\ i \in 0 .. Rate - 1 /\ i \in 0 .. Width - 1 /\ input \in Seq(Byte)
      /\ msg \in Seq(Byte)
  BY Constants DEF IInv, TypeOK, Control
<1>3. /\ Len(input) \in Nat \ {0} /\ Head(input) = input[1] /\ Head(input) \in Byte
      /\ Tail(input) \in Seq(Byte) /\ Len(Tail(input)) = Len(input) - 1
      /\ \A k \in 1 .. Len(Tail(input)) : Tail(input)[k] = input[k + 1]
  BY <1>2
<1>4. st'[ctx] = XorAt(st[ctx], i, Head(input)) /\ st'[ctx] \in State
  BY <1>1, <1>2, <1>3, XorAtState DEF IInv, TypeOK
<1>5. TypeOK' /\ OutType'
  <2>1. st' \in [Ctx -> State]
    BY <1>1, <1>2, <1>3, XorAtState DEF IInv, TypeOK
  <2>2. i' \in 0 .. Rate
    BY <1>1, <1>2, Constants
  <2> QED BY <1>1, <1>3, <2>1, <2>2 DEF IInv, TypeOK, OutType
<1>6. Control'
  BY <1>1, <1>2, <1>3, Constants DEF IInv, Control
<1>7. /\ Place(ctx) = i /\ Pending(ctx) = Len(input)
      /\ Place(ctx)' = i + 1 /\ Pending(ctx)' = Len(input) - 1
  BY <1>1, <1>3 DEF Place, Pending
<1>8. at \in Nat /\ Absorbed(ctx) = at /\ Absorbed(ctx)' = at + 1
  <2>1. Len(bs) * Rate \in Nat
    BY <1>2, Constants
  <2>2. Absorbed(ctx)' = (Len(bs) * Rate) + (i + 1)
    BY <1>1, <1>7 DEF Absorbed
  <2>3. Absorbed(ctx) = (Len(bs) * Rate) + i
    BY <1>7 DEF Absorbed
  <2>4. i \in Nat
    BY <1>2, Constants
  <2> QED BY <2>1, <2>2, <2>3, <2>4
<1> HIDE DEF at
<1>9. \A k \in 1 .. Len(input) : input[k] = msg[at + k]
  BY <1>8 DEF IInv, InputLeft
<1>10. InputLeft'
  <2>1. ASSUME NEW k \in 1 .. Len(input) - 1
        PROVE  Tail(input)[k] = msg[(at + 1) + k]
    <3>1. k + 1 \in 1 .. Len(input) /\ at + (k + 1) = (at + 1) + k
      BY <1>3, <1>8
    <3> QED BY <3>1, <1>3, <1>9
  <2> QED BY <2>1, <1>1, <1>3, <1>8 DEF InputLeft
<1>11. Absorbs'
  <2>1. AbsorbedIn(ctx)'
    <3>1. Head(input) = msg[at + 1]
      BY <1>3, <1>9
    <3>2. Holds(bs, st[ctx], i, msg, Len(input))
      BY <1>2, <1>7 DEF IInv, Absorbs, AbsorbedIn
    <3>3. Holds(bs, XorAt(st[ctx], i, msg[at + 1]), i + 1, msg, Len(input) - 1)
      BY <3>2, <1>2, <1>3, HoldsXor DEF at
    <3> QED BY <3>1, <3>3, <1>1, <1>4, <1>7 DEF AbsorbedIn
  <2>2. \A d \in Ctx \ {ctx} :
          st'[d] = st[d] /\ Place(d)' = Place(d) /\ Pending(d)' = Pending(d)
    BY <1>1 DEF IInv, TypeOK, Place, Pending
  <2> QED BY <2>1, <2>2, <1>1, <1>2, OthersAbsorb DEF IInv
<1>12. Squeezing' /\ DigestIsXof'
  BY <1>1 DEF Squeezing, DigestIsXof
<1> QED BY <1>5, <1>6, <1>10, <1>11, <1>12 DEF IInv

LEMMA AbsorbPermuteInv ==
  ASSUME IInv, AbsorbPermute
  PROVE  IInv'
<1> DEFINE bs == blocks[ctx]
           msg == message[ctx]
<1>1. /\ pc = "fill" /\ ~(i < Rate) /\ pc' = "while"
      /\ blocks' = [blocks EXCEPT ![ctx] = Append(@, st[ctx])]
      /\ st' = [st EXCEPT ![ctx] = ZeroState]
      /\ pos' = [pos EXCEPT ![ctx] = 0]
      /\ phase' = phase /\ message' = message /\ ctx' = ctx /\ input' = input /\ i' = i
      /\ outlen' = outlen /\ nblocks' = nblocks /\ out' = out /\ asked' = asked
  BY DEF AbsorbPermute, Permute, NextPos, squeezing
<1>2. /\ phase[ctx] = "absorbing" /\ ctx \in Ctx /\ bs \in Seq(State) /\ st[ctx] \in State
      /\ i = Rate /\ input \in Seq(Byte) /\ msg \in Seq(Byte) /\ Len(input) \in Nat
  BY <1>1, Constants DEF IInv, TypeOK, Control
<1>3. /\ blocks'[ctx] = Append(bs, st[ctx]) /\ Append(bs, st[ctx]) \in Seq(State)
      /\ st'[ctx] = ZeroState /\ pos'[ctx] = 0
  BY <1>1, <1>2, ZeroStateType DEF IInv, TypeOK
<1>4. TypeOK' /\ OutType'
  <2>1. blocks' \in [Ctx -> Seq(State)]
    BY <1>1, <1>2, <1>3 DEF IInv, TypeOK
  <2>2. st' \in [Ctx -> State] /\ pos' \in [Ctx -> 0 .. Rate]
    BY <1>1, <1>2, Constants, ZeroStateType DEF IInv, TypeOK
  <2>3. \A c \in Ctx : phase'[c] = "absorbing" => pos'[c] < Rate
    BY <1>1, <1>2, Constants DEF IInv, TypeOK
  <2> QED BY <1>1, <2>1, <2>2, <2>3 DEF IInv, TypeOK, OutType
<1>5. Control'
  BY <1>1, <1>2 DEF Control
<1>6. /\ Place(ctx) = Rate /\ Pending(ctx) = Len(input)
      /\ Place(ctx)' = 0 /\ Pending(ctx)' = Len(input)
  BY <1>1, <1>2, <1>3 DEF Place, Pending
<1>7. InputLeft'
  <2>1. Absorbed(ctx)' = Absorbed(ctx)
    <3> DEFINE n == Len(bs)
    <3>1. n \in Nat /\ Len(Append(bs, st[ctx])) = n + 1
      BY <1>2
    <3>2. (n + 1) * Rate = (n * Rate) + Rate /\ n * Rate \in Nat
      BY <3>1, Indices
    <3>3. Absorbed(ctx)' = ((n + 1) * Rate) + 0 /\ Absorbed(ctx) = (n * Rate) + Rate
      BY <3>1, <1>1, <1>3, <1>6 DEF Absorbed
    <3> QED BY <3>2, <3>3, Constants
  <2> QED BY <2>1, <1>1 DEF IInv, InputLeft
<1>8. Absorbs'
  <2>1. AbsorbedIn(ctx)'
    <3>1. Holds(bs, st[ctx], Rate, msg, Len(input))
      BY <1>2, <1>6 DEF IInv, Absorbs, AbsorbedIn
    <3>2. Holds(Append(bs, st[ctx]), ZeroState, 0, msg, Len(input))
      BY <3>1, <1>2, HoldsPermute
    <3> QED BY <3>2, <1>1, <1>3, <1>6 DEF AbsorbedIn
  <2>2. \A d \in Ctx \ {ctx} :
          /\ blocks'[d] = blocks[d] /\ st'[d] = st[d]
          /\ Place(d)' = Place(d) /\ Pending(d)' = Pending(d)
    BY <1>1 DEF IInv, TypeOK, Place, Pending
  <2> QED BY <2>1, <2>2, <1>1, <1>2, OthersAbsorb DEF IInv
<1>9. Squeezing' /\ DigestIsXof'
  BY <1>1 DEF Squeezing, DigestIsXof
<1> QED BY <1>4, <1>5, <1>7, <1>8, <1>9 DEF IInv

LEMMA AbsorbReturnInv ==
  ASSUME IInv, AbsorbReturn
  PROVE  IInv'
<1>1. /\ pc = "rest" /\ input = <<>> /\ pc' = "idle" /\ i' = 0
      /\ pos' = [pos EXCEPT ![ctx] = i]
      /\ phase' = phase /\ blocks' = blocks /\ st' = st
      /\ message' = message /\ ctx' = ctx /\ input' = input
      /\ outlen' = outlen /\ nblocks' = nblocks /\ out' = out /\ asked' = asked
  BY DEF AbsorbReturn, squeezing
<1>2. phase[ctx] = "absorbing" /\ ctx \in Ctx /\ i \in 0 .. Rate /\ i < Rate
  BY <1>1, Constants DEF IInv, TypeOK, Control
<1>3. TypeOK' /\ OutType'
  <2>1. pos' \in [Ctx -> 0 .. Rate] /\ \A c \in Ctx : phase'[c] = "absorbing" => pos'[c] < Rate
    BY <1>1, <1>2 DEF IInv, TypeOK
  <2> QED BY <1>1, <2>1, Constants DEF IInv, TypeOK, OutType
<1>4. Absorbs'
  <2>1. AbsorbedIn(ctx)'
    <3>1. pos'[ctx] = i
      BY <1>1, <1>2 DEF IInv, TypeOK
    <3>2. /\ Place(ctx) = i /\ Pending(ctx) = 0
          /\ Place(ctx)' = i /\ Pending(ctx)' = 0
      BY <3>1, <1>1 DEF Place, Pending
    <3> QED BY <3>2, <1>1, <1>2 DEF IInv, Absorbs, AbsorbedIn
  <2>2. \A d \in Ctx \ {ctx} : Place(d)' = Place(d) /\ Pending(d)' = Pending(d)
    BY <1>1 DEF IInv, TypeOK, Place, Pending
  <2> QED BY <2>1, <2>2, <1>1, <1>2, OthersAbsorb DEF IInv
<1> QED BY <1>1, <1>3, <1>4, IdleInv

-----------------------------------------------------------------------------
LEMMA HashFinalInv ==
  ASSUME IInv, NEW c \in Ctx, NEW n \in 0 .. MaxOut, HashFinal(c, n)
  PROVE  IInv'
<1> DEFINE bs == blocks[c]
           msg == message[c]
           p == pos[c]
<1>1. /\ pc = "idle" /\ phase[c] = "absorbing" /\ pc' = "blocks" /\ ctx' = c
      /\ phase' = [phase EXCEPT ![c] = "squeezing"]
      /\ st' = [st EXCEPT ![c] = Padded(st[c], p)]
      /\ pos' = [pos EXCEPT ![c] = Rate]
      /\ outlen' = n /\ nblocks' = n \div Rate /\ out' = <<>> /\ asked' = n
      /\ blocks' = blocks /\ message' = message /\ input' = input /\ i' = i
  BY DEF HashFinal, Finalized, Padded, FinalPos
<1>2. /\ bs \in Seq(State) /\ st[c] \in State /\ msg \in Seq(Byte)
      /\ p \in 0 .. Rate - 1 /\ n \in Nat
  BY <1>1, Constants DEF IInv, TypeOK
<1>3. Holds(bs, st[c], p, msg, 0)
  BY <1>1 DEF IInv, Absorbs, AbsorbedIn, Place, Pending
<1>4. Padded(st[c], p) \in State /\ Padded(st[c], p) = BlockOf(msg, Len(bs) + 1)
  BY <1>2, <1>3, PaddedBlock
<1>5. LastBlock(msg) = Len(bs)
  <2>1. (Len(bs) * Rate) + p = Len(msg)
    <3>1. Len(bs) * Rate \in Nat
      BY <1>2, Constants
    <3>2. (Len(bs) * Rate) + p + 0 = Len(msg)
      BY <1>3 DEF Holds
    <3> QED BY <3>1, <3>2, <1>2
  <2> QED BY <2>1, <1>2, LastBlockIs
<1>6. nblocks' \in Nat /\ nblocks' * Rate <= n
  <2> DEFINE q == n \div Rate
             v == q * Rate
  <2>1. n \in Int /\ Rate \in Nat \ {0}
    BY <1>2, Constants
  <2>2. q \in Int /\ n % Rate \in 0 .. Rate - 1 /\ n = (q * Rate) + (n % Rate)
    BY ONLY <2>1, DivMod
  <2> DEFINE r == n % Rate
  <2> HIDE DEF q, r
  <2>3. v \in Int /\ v <= n /\ n < v + Rate
    <3>1. v \in Int
      BY <2>1, <2>2
    <3> HIDE DEF v
    <3> QED BY <2>1, <2>2, <3>1 DEF v, r
  <2>4. q >= 0
    <3>1. SUFFICES ASSUME q <= -1 PROVE FALSE
      BY <2>2
    <3>2. -q - 1 \in Nat
      BY <2>2, <3>1
    <3>3. (-q - 1) * Rate \in Nat /\ (-q - 1) * Rate = -(v + Rate)
      BY <3>2, <2>1, <2>2
    <3> HIDE DEF v
    <3> QED BY <3>3, <2>1, <2>3, <1>2
  <2> QED BY <2>2, <2>3, <2>4, <1>1 DEF q
<1>7. st'[c] = Padded(st[c], p) /\ pos'[c] = Rate /\ phase'[c] = "squeezing"
  BY <1>1 DEF IInv, TypeOK
<1>8. TypeOK' /\ OutType'
  <2>1. st' \in [Ctx -> State] /\ pos' \in [Ctx -> 0 .. Rate]
    BY <1>1, <1>4, Constants DEF IInv, TypeOK
  <2>2. \A d \in Ctx : phase'[d] = "absorbing" => pos'[d] < Rate
    BY <1>1 DEF IInv, TypeOK
  <2>3. phase' \in [Ctx -> {"none", "absorbing", "squeezing"}]
    BY <1>1 DEF IInv, TypeOK
  <2>4. <<>> \in Seq(Squeezed)
    OBVIOUS
  <2> QED BY <1>1, <1>2, <1>6, <2>1, <2>2, <2>3, <2>4 DEF IInv, TypeOK, OutType
<1>9. Control' /\ InputLeft'
  BY <1>1, <1>7 DEF Control, InputLeft
<1>10. Absorbs'
  <2>1. AbsorbedIn(c)'
    BY <1>7 DEF AbsorbedIn
  <2>2. \A d \in Ctx \ {c} :
          /\ phase'[d] = phase[d] /\ st'[d] = st[d]
          /\ Place(d)' = Place(d) /\ Pending(d)' = Pending(d)
    BY <1>1 DEF IInv, TypeOK, Place, Pending
  <2> QED BY <2>1, <2>2, <1>1, OthersAbsorb DEF IInv
<1>11. Squeezing'
  <2>1. Squeezes(bs, st'[c], msg)
    <3>1. \A b \in 1 .. Len(bs) : bs[b] = BlockOf(msg, b)
      BY <1>2, <1>3, WholeBlock
    <3> QED BY <3>1, <1>4, <1>5, <1>7, <1>2 DEF Squeezes
  <2>2. Len(out') + Rate = ((Len(bs) - LastBlock(msg)) * Rate) + pos'[c]
    <3>1. Len(bs) - LastBlock(msg) = 0 /\ 0 * Rate = 0 /\ Len(<<>>) = 0
      BY <1>2, <1>5, Constants
    <3> QED BY <3>1, <1>1, <1>7, Constants
  <2> QED BY <2>1, <2>2, <1>1, <1>6, <1>7 DEF Squeezing
<1>12. DigestIsXof'
  BY <1>1, <1>2 DEF DigestIsXof
<1> QED BY <1>8, <1>9, <1>10, <1>11, <1>12 DEF IInv

(* Squeezing leaves the contexts that absorb alone. *)
LEMMA SqueezeAbsorbs ==
  ASSUME IInv, pc \in {"blocks", "squeeze"}, pc' \in {"blocks", "squeeze"},
         phase' = phase, message' = message, ctx' = ctx,
         \A d \in Ctx \ {ctx} :
           blocks'[d] = blocks[d] /\ st'[d] = st[d] /\ pos'[d] = pos[d]
  PROVE  Absorbs' /\ Control' /\ InputLeft'
<1>1. ctx \in Ctx /\ phase[ctx] = "squeezing"
  BY DEF IInv, TypeOK, Control
<1>2. AbsorbedIn(ctx)'
  BY <1>1 DEF AbsorbedIn
<1>3. \A d \in Ctx \ {ctx} : Place(d)' = Place(d) /\ Pending(d)' = Pending(d)
  BY DEF Place, Pending
<1>4. Absorbs'
  BY <1>1, <1>2, <1>3, OthersAbsorb DEF IInv
<1> QED BY <1>1, <1>4 DEF Control, InputLeft

(* One permutation while squeezing. *)
LEMMA PermuteSqueezes ==
  ASSUME IInv, pc \in {"blocks", "squeeze"}, Permute
  PROVE  /\ blocks' \in [Ctx -> Seq(State)] /\ st' \in [Ctx -> State]
         /\ Len(blocks'[ctx]) = Len(blocks[ctx]) + 1
         /\ Squeezes(blocks'[ctx], st'[ctx], message[ctx])
         /\ \A d \in Ctx \ {ctx} : blocks'[d] = blocks[d] /\ st'[d] = st[d]
<1>1. /\ ctx \in Ctx /\ blocks[ctx] \in Seq(State) /\ st[ctx] \in State
      /\ message[ctx] \in Seq(Byte)
  BY DEF IInv, TypeOK
<1>2. /\ blocks' = [blocks EXCEPT ![ctx] = Append(blocks[ctx], st[ctx])]
      /\ st' = [st EXCEPT ![ctx] = ZeroState]
  BY DEF Permute
<1>3. /\ blocks'[ctx] = Append(blocks[ctx], st[ctx]) /\ st'[ctx] = ZeroState
      /\ \A d \in Ctx \ {ctx} : blocks'[d] = blocks[d] /\ st'[d] = st[d]
  BY <1>1, <1>2 DEF IInv, TypeOK
<1>4. /\ Append(blocks[ctx], st[ctx]) \in Seq(State)
      /\ Len(Append(blocks[ctx], st[ctx])) = Len(blocks[ctx]) + 1
  BY <1>1
<1>5. blocks' \in [Ctx -> Seq(State)] /\ st' \in [Ctx -> State]
  BY <1>2, <1>4, ZeroStateType DEF IInv, TypeOK
<1>6. Squeezes(blocks'[ctx], st'[ctx], message[ctx])
  <2>1. Squeezes(blocks[ctx], st[ctx], message[ctx])
    BY DEF IInv, Squeezing
  <2> QED BY <2>1, <1>1, <1>3, SqueezesPermute
<1> QED BY <1>3, <1>4, <1>5, <1>6

LEMMA SqueezeBlockInv ==
  ASSUME IInv, SqueezeBlock
  PROVE  IInv'
<1> DEFINE bs == blocks'[ctx]
           s == st'[ctx]
           msg == message[ctx]
           m == Len(bs) - LastBlock(msg)
           before == (m - 1) * Rate
           block == [k \in 1 .. Rate |-> StateByte(bs, s, k - 1)]
<1>1. /\ pc = "blocks" /\ pc' = pc /\ nblocks > 0 /\ Permute
      /\ out' = out \o block /\ nblocks' = nblocks - 1 /\ outlen' = outlen - Rate
      /\ phase' = phase /\ pos' = pos /\ message' = message /\ ctx' = ctx
      /\ input' = input /\ i' = i /\ asked' = asked
  BY DEF SqueezeBlock
<1>2. /\ bs \in Seq(State) /\ s \in State /\ ctx \in Ctx /\ msg \in Seq(Byte)
      /\ Len(bs) = Len(blocks[ctx]) + 1
      /\ Squeezes(bs, s, msg)
  BY <1>1, PermuteSqueezes DEF IInv, TypeOK
<1>3. /\ Squeezes(blocks[ctx], st[ctx], msg)
      /\ Len(out) + Rate = ((Len(blocks[ctx]) - LastBlock(msg)) * Rate) + Rate
      /\ pos[ctx] = Rate /\ nblocks * Rate <= outlen
  BY <1>1 DEF IInv, Squeezing
<1>4. /\ out \in Seq(Squeezed) /\ Len(out) \in Nat /\ nblocks \in Nat /\ outlen \in Nat
      /\ asked \in Nat /\ LastBlock(msg) \in Nat /\ Len(blocks[ctx]) \in Nat
  BY <1>2, LastBlockBounds DEF IInv, TypeOK, OutType
<1>5. m \in Nat \ {0} /\ m - 1 = Len(blocks[ctx]) - LastBlock(msg)
  BY <1>2, <1>3, <1>4 DEF Squeezes
<1>6. Len(bs) = LastBlock(msg) + m
  BY <1>2, <1>4
<1> HIDE DEF m, bs, s
<1>7. before \in Nat /\ Len(out) = before /\ m * Rate = before + Rate
  <2>1. before \in Nat /\ m * Rate = before + Rate
    BY <1>5, Constants
  <2> QED BY <2>1, <1>3, <1>4, <1>5, Constants
<1>8. block \in Seq(Squeezed) /\ Len(block) = Rate
      /\ \A k \in 1 .. Rate : block[k] = StateByte(bs, s, k - 1)
  <2>1. \A k \in 1 .. Rate : StateByte(bs, s, k - 1) \in Squeezed
    BY <1>2, Constants DEF StateByte, Squeezed, State
  <2>2. block \in [1 .. Rate -> Squeezed]
    BY <2>1
  <2> QED BY <2>2, Constants
<1> HIDE DEF block
<1>9. /\ out' \in Seq(Squeezed) /\ Len(out') = before + Rate
      /\ \A j \in 1 .. before : out'[j] = out[j]
      /\ \A k \in 1 .. Rate : out'[before + k] = block[k]
  <2> HIDE DEF before
  <2>1. Len(out) = before /\ Len(block) = Rate /\ Rate \in Nat
    BY <1>7, <1>8, Constants
  <2>2. /\ out \o block \in Seq(Squeezed)
        /\ Len(out \o block) = Len(out) + Len(block)
        /\ \A j \in 1 .. Len(out) : (out \o block)[j] = out[j]
        /\ \A k \in 1 .. Len(block) : (out \o block)[Len(out) + k] = block[k]
    BY <1>4, <1>8
  <2> QED BY <2>1, <2>2, <1>1
<1>10. /\ nblocks' \in Nat /\ outlen' \in Nat /\ nblocks' * Rate <= outlen'
       /\ outlen' = outlen - Rate
  <2> DEFINE v == (nblocks - 1) * Rate
  <2>1. v \in Nat /\ nblocks * Rate = v + Rate
    <3>1. nblocks - 1 \in Nat /\ (nblocks - 1) + 1 = nblocks
      BY <1>1, <1>4
    <3>2. v \in Nat /\ ((nblocks - 1) + 1) * Rate = v + Rate
      BY <3>1, Indices
    <3> QED BY <3>1, <3>2
  <2>2. nblocks' * Rate = v
    BY <1>1
  <2> HIDE DEF v
  <2> QED BY <2>1, <2>2, <1>1, <1>3, <1>4, Constants
<1>11. TypeOK' /\ OutType'
  <2>1. blocks' \in [Ctx -> Seq(State)] /\ st' \in [Ctx -> State]
    BY <1>1, PermuteSqueezes
  <2> QED BY <2>1, <1>1, <1>9, <1>10 DEF IInv, TypeOK, OutType
<1>12. Absorbs' /\ Control' /\ InputLeft'
  <2>1. \A d \in Ctx \ {ctx} : blocks'[d] = blocks[d] /\ st'[d] = st[d]
    BY <1>1, PermuteSqueezes
  <2> QED BY <2>1, <1>1, SqueezeAbsorbs
<1>13. Squeezing'
  <2>1. Len(out') + Rate = (m * Rate) + Rate
    BY <1>7, <1>9
  <2>2. (m * Rate) = ((Len(bs) - LastBlock(msg)) * Rate)
    BY DEF m
  <2> QED BY <2>1, <2>2, <1>1, <1>2, <1>3, <1>10 DEF Squeezing, bs, s
<1>14. DigestIsXof'
  <2>1. ASSUME NEW j \in 1 .. before + Rate
        PROVE  out'[j] = XofByte(msg, j - 1)
    <3>1. CASE j <= before
      <4>1. j \in 1 .. before
        BY <3>1, <1>7
      <4>2. out[j] = XofByte(msg, j - 1)
        BY <4>1, <1>1, <1>7 DEF IInv, DigestIsXof
      <4> QED BY <4>1, <4>2, <1>9
    <3>2. CASE j > before
      <4> DEFINE k == j - before
      <4> HIDE DEF before
      <4>1. k \in 1 .. Rate /\ j = before + k /\ j - 1 = before + (k - 1) /\ k - 1 \in 0 .. Rate - 1
        BY <3>2, <1>7, Constants
      <4>2. out'[j] = StateByte(bs, s, k - 1)
        BY <4>1, <1>8, <1>9
      <4>3. XofByte(msg, before + (k - 1)) = StateByte(bs, s, k - 1)
        <5> HIDE DEF k
        <5> USE DEF before
        <5> QED BY <4>1, <1>2, <1>5, <1>6, SqueezedByte
      <4> QED BY <4>1, <4>2, <4>3
    <3> QED BY <3>1, <3>2, <1>7
  <2>2. Len(out') + outlen' = asked'
    <3>1. Len(out) + outlen = asked
      BY <1>1 DEF IInv, DigestIsXof
    <3>2. Len(out) = before /\ before \in Nat /\ Len(out') = before + Rate
      BY <1>7, <1>9
    <3>3. outlen' = outlen - Rate /\ outlen \in Nat /\ Rate \in Nat /\ asked \in Nat /\ asked' = asked
      BY <1>1, <1>4, <1>10, Constants
    <3> HIDE DEF before
    <3> QED BY ONLY <3>1, <3>2, <3>3
  <2> QED BY <2>1, <2>2, <1>1, <1>9 DEF DigestIsXof
<1> QED BY <1>11, <1>12, <1>13, <1>14 DEF IInv

LEMMA SqueezeBlocksReturnInv ==
  ASSUME IInv, SqueezeBlocksReturn
  PROVE  IInv'
<1>1. /\ pc = "blocks" /\ pc' = "squeeze"
      /\ phase' = phase /\ blocks' = blocks /\ st' = st /\ pos' = pos
      /\ message' = message /\ ctx' = ctx /\ input' = input /\ i' = i
      /\ outlen' = outlen /\ nblocks' = nblocks /\ out' = out /\ asked' = asked
  BY DEF SqueezeBlocksReturn, context, squeezing
<1>2. TypeOK' /\ OutType'
  BY <1>1 DEF IInv, TypeOK, OutType
<1>3. Absorbs' /\ Control' /\ InputLeft'
  BY <1>1, SqueezeAbsorbs
<1>4. Squeezing' /\ DigestIsXof'
  BY <1>1 DEF IInv, Squeezing, DigestIsXof
<1> QED BY <1>2, <1>3, <1>4 DEF IInv

LEMMA SqueezePermuteInv ==
  ASSUME IInv, SqueezePermute
  PROVE  IInv'
<1> DEFINE bs == blocks'[ctx]
           msg == message[ctx]
           m == Len(bs) - LastBlock(msg)
<1>1. /\ pc = "squeeze" /\ pc' = pc /\ pos[ctx] = Rate /\ Permute
      /\ pos' = [pos EXCEPT ![ctx] = 0]
      /\ phase' = phase /\ message' = message /\ ctx' = ctx /\ input' = input /\ i' = i
      /\ outlen' = outlen /\ nblocks' = nblocks /\ out' = out /\ asked' = asked
  BY DEF SqueezePermute, squeezing
<1>2. /\ bs \in Seq(State) /\ ctx \in Ctx /\ msg \in Seq(Byte) /\ phase[ctx] = "squeezing"
      /\ Len(bs) = Len(blocks[ctx]) + 1 /\ Len(blocks[ctx]) \in Nat
      /\ Squeezes(bs, st'[ctx], msg)
      /\ blocks' \in [Ctx -> Seq(State)] /\ st' \in [Ctx -> State]
      /\ \A d \in Ctx \ {ctx} : blocks'[d] = blocks[d] /\ st'[d] = st[d]
  BY <1>1, PermuteSqueezes DEF IInv, TypeOK, Control
<1>3. /\ pos'[ctx] = 0 /\ pos' \in [Ctx -> 0 .. Rate]
      /\ \A d \in Ctx \ {ctx} : pos'[d] = pos[d]
  BY <1>1, <1>2, Constants DEF IInv, TypeOK
<1>4. TypeOK' /\ OutType'
  <2>1. \A d \in Ctx : phase'[d] = "absorbing" => pos'[d] < Rate
    BY <1>1, <1>2, <1>3 DEF IInv, TypeOK
  <2> QED BY <2>1, <1>1, <1>2, <1>3 DEF IInv, TypeOK, OutType
<1>5. Absorbs' /\ Control' /\ InputLeft'
  BY <1>1, <1>2, <1>3, SqueezeAbsorbs
<1>6. Squeezing'
  <2>1. /\ Len(out) + Rate = ((Len(blocks[ctx]) - LastBlock(msg)) * Rate) + Rate
        /\ Squeezes(blocks[ctx], st[ctx], msg)
    BY <1>1 DEF IInv, Squeezing
  <2>2. m - 1 \in Nat /\ m - 1 = Len(blocks[ctx]) - LastBlock(msg) /\ (m - 1) + 1 = m
    BY <2>1, <1>2, LastBlockBounds DEF Squeezes
  <2> HIDE DEF m
  <2>3. (m - 1) * Rate \in Nat /\ ((m - 1) + 1) * Rate = ((m - 1) * Rate) + Rate
    BY <2>2, Indices
  <2>4. Len(out) + Rate = (m * Rate) + 0
    BY <2>1, <2>2, <2>3, Constants
  <2> QED BY <2>4, <1>1, <1>2, <1>3 DEF Squeezing, m
<1>7. DigestIsXof'
  BY <1>1 DEF IInv, DigestIsXof
<1> QED BY <1>4, <1>5, <1>6, <1>7 DEF IInv

LEMMA SqueezeByteInv ==
  ASSUME IInv, SqueezeByte
  PROVE  IInv'
<1> DEFINE bs == blocks[ctx]
           s == st[ctx]
           p == pos[ctx]
           msg == message[ctx]
           m == Len(bs) - LastBlock(msg)
           before == (m - 1) * Rate
<1>1. /\ pc = "squeeze" /\ pc' = pc /\ outlen > 0 /\ p < Rate
      /\ out' = Append(out, StateByte(bs, s, p))
      /\ pos' = [pos EXCEPT ![ctx] = p + 1]
      /\ outlen' = outlen - 1
      /\ phase' = phase /\ blocks' = blocks /\ st' = st /\ message' = message
      /\ ctx' = ctx /\ input' = input /\ i' = i /\ nblocks' = nblocks /\ asked' = asked
  BY DEF SqueezeByte
<1>2. /\ bs \in Seq(State) /\ s \in State /\ ctx \in Ctx /\ msg \in Seq(Byte)
      /\ p \in 0 .. Rate - 1 /\ phase[ctx] = "squeezing"
      /\ out \in Seq(Squeezed) /\ Len(out) \in Nat /\ outlen \in Nat /\ asked \in Nat
  BY <1>1, Constants DEF IInv, TypeOK, Control, OutType
<1>3. /\ Squeezes(bs, s, msg)
      /\ Len(out) + Rate = (m * Rate) + p
      /\ Len(bs) >= LastBlock(msg) /\ LastBlock(msg) \in Nat
  BY <1>1, <1>2, LastBlockBounds DEF IInv, Squeezing, Squeezes
<1>4. m \in Nat /\ Len(bs) = LastBlock(msg) + m
  BY <1>2, <1>3
<1> HIDE DEF m, bs, s, p
<1>5. m # 0
  <2>1. SUFFICES ASSUME m = 0 PROVE FALSE
    OBVIOUS
  <2>2. m * Rate = 0
    BY <2>1, Constants
  <2> QED BY <2>2, <1>2, <1>3, Constants
<1>6. before \in Nat /\ Len(out) = before + p
  <2>1. m - 1 \in Nat /\ (m - 1) + 1 = m
    BY <1>4, <1>5
  <2>2. before \in Nat /\ ((m - 1) + 1) * Rate = before + Rate
    BY <2>1, Indices
  <2>3. Len(out) + Rate = (before + Rate) + p
    BY <2>1, <2>2, <1>3
  <2> HIDE DEF before
  <2>4. before \in Nat
    BY <2>2
  <2> QED BY ONLY <2>3, <2>4, <1>2, Constants
<1>7. XofByte(msg, Len(out)) = StateByte(bs, s, p)
  BY <1>2, <1>3, <1>4, <1>5, <1>6, SqueezedByte
<1> HIDE DEF before
<1>8. StateByte(bs, s, p) \in Squeezed
  BY <1>2, Constants DEF StateByte, Squeezed, State
<1>9. /\ out' \in Seq(Squeezed) /\ Len(out') = Len(out) + 1
      /\ \A j \in 1 .. Len(out) : out'[j] = out[j]
      /\ out'[Len(out) + 1] = StateByte(bs, s, p)
  BY <1>1, <1>2, <1>8
<1>10. /\ pos'[ctx] = p + 1 /\ pos' \in [Ctx -> 0 .. Rate]
       /\ \A d \in Ctx \ {ctx} : pos'[d] = pos[d]
  BY <1>1, <1>2, Constants DEF IInv, TypeOK
<1>11. TypeOK' /\ OutType'
  <2>1. \A d \in Ctx : phase'[d] = "absorbing" => pos'[d] < Rate
    BY <1>1, <1>2, <1>10 DEF IInv, TypeOK
  <2>2. outlen' \in Nat
    BY <1>1, <1>2
  <2> QED BY <2>1, <2>2, <1>1, <1>9, <1>10 DEF IInv, TypeOK, OutType
<1>12. Absorbs' /\ Control' /\ InputLeft'
  BY <1>1, <1>10, SqueezeAbsorbs
<1>13. Squeezing'
  <2>1. Len(out') + Rate = (m * Rate) + (p + 1)
    <3> DEFINE v == m * Rate
    <3>1. v \in Nat /\ Rate \in Nat /\ p \in Nat
      BY <1>2, <1>4, Constants
    <3>2. Len(out) + Rate = v + p /\ Len(out') = Len(out) + 1 /\ Len(out) \in Nat
      BY <1>2, <1>3, <1>9
    <3> HIDE DEF v
    <3>3. Len(out') + Rate = v + (p + 1)
      BY ONLY <3>1, <3>2
    <3> QED BY <3>3 DEF v
  <2> QED BY <2>1, <1>1, <1>3, <1>10 DEF Squeezing, m, bs, s
<1>14. DigestIsXof'
  <2>1. ASSUME NEW j \in 1 .. Len(out) + 1
        PROVE  out'[j] = XofByte(msg, j - 1)
    <3>1. CASE j \in 1 .. Len(out)
      BY <3>1, <1>1, <1>9 DEF IInv, DigestIsXof
    <3>2. CASE j = Len(out) + 1
      <4>1. j - 1 = Len(out)
        BY <3>2, <1>2
      <4> QED BY <4>1, <3>2, <1>7, <1>9
    <3> QED BY <3>1, <3>2, <1>2
  <2>2. Len(out') + outlen' = asked'
    <3>1. Len(out) + outlen = asked
      BY <1>1 DEF IInv, DigestIsXof
    <3>2. Len(out') = Len(out) + 1 /\ outlen' = outlen - 1 /\ asked' = asked
      BY <1>1, <1>9
    <3>3. Len(out) \in Nat /\ outlen \in Nat /\ asked \in Nat
      BY <1>2
    <3> QED BY ONLY <3>1, <3>2, <3>3
  <2> QED BY <2>1, <2>2, <1>1, <1>9 DEF DigestIsXof
<1> QED BY <1>11, <1>12, <1>13, <1>14 DEF IInv

LEMMA SqueezeReturnInv ==
  ASSUME IInv, SqueezeReturn
  PROVE  IInv'
<1>1. /\ pc = "squeeze" /\ pc' = "idle" /\ out' = <<>> /\ asked' = 0
      /\ phase' = [phase EXCEPT ![ctx] = "none"]
      /\ blocks' = blocks /\ st' = st /\ pos' = pos /\ message' = message
      /\ ctx' = ctx /\ input' = input /\ i' = i
      /\ outlen' = outlen /\ nblocks' = nblocks
  BY DEF SqueezeReturn
<1>2. ctx \in Ctx
  BY DEF IInv, TypeOK
<1>3. TypeOK' /\ OutType'
  BY <1>1, <1>2 DEF IInv, TypeOK, OutType
<1>4. Absorbs'
  <2>1. AbsorbedIn(ctx)'
    BY <1>1, <1>2 DEF IInv, TypeOK, AbsorbedIn
  <2>2. \A d \in Ctx \ {ctx} :
          phase'[d] = phase[d] /\ Place(d)' = Place(d) /\ Pending(d)' = Pending(d)
    BY <1>1 DEF IInv, TypeOK, Place, Pending
  <2> QED BY <2>1, <2>2, <1>1, <1>2, OthersAbsorb DEF IInv
<1> QED BY <1>1, <1>3, <1>4, IdleInv

-----------------------------------------------------------------------------
LEMMA StepInv == IInv /\ [Next]_vars => IInv'
<1> SUFFICES ASSUME IInv, [Next]_vars PROVE IInv'
  OBVIOUS
<1>1. ASSUME NEW c \in Ctx, HashInit(c) PROVE IInv'
  BY <1>1, HashInitInv
<1>2. ASSUME NEW c \in Ctx, NEW d \in Ctx, HashCopy(c, d) PROVE IInv'
  BY <1>2, HashCopyInv
<1>3. ASSUME NEW c \in Ctx, NEW chunk \in Chunks, HashUpdate(c, chunk) PROVE IInv'
  BY <1>3, HashUpdateInv
<1>4. CASE AbsorbWhile
  BY <1>4, AbsorbWhileInv
<1>5. CASE AbsorbFill
  <2>1. input # <<>>
    <3>1. Rate - i <= Len(input) /\ i < Rate /\ i \in Int
      BY <1>5, Constants DEF AbsorbFill, IInv, TypeOK, Control
    <3>2. Len(input) > 0
      BY <3>1, Constants DEF IInv, TypeOK
    <3> QED BY <3>2
  <2> QED BY <2>1, <1>5, XorInputInv DEF AbsorbFill
<1>6. CASE AbsorbPermute
  BY <1>6, AbsorbPermuteInv
<1>7. CASE AbsorbRest
  <2>1. i < Rate
    <3>1. i + Len(input) < Rate /\ Len(input) \in Nat /\ i \in Nat
      BY <1>7, Constants DEF AbsorbRest, IInv, TypeOK, Control
    <3> QED BY <3>1, Constants
  <2> QED BY <2>1, <1>7, XorInputInv DEF AbsorbRest
<1>8. CASE AbsorbReturn
  BY <1>8, AbsorbReturnInv
<1>9. ASSUME NEW c \in Ctx, NEW n \in 0 .. MaxOut, HashFinal(c, n) PROVE IInv'
  BY <1>9, HashFinalInv
<1>10. CASE SqueezeBlock
  BY <1>10, SqueezeBlockInv
<1>11. CASE SqueezeBlocksReturn
  BY <1>11, SqueezeBlocksReturnInv
<1>12. CASE SqueezePermute
  BY <1>12, SqueezePermuteInv
<1>13. CASE SqueezeByte
  BY <1>13, SqueezeByteInv
<1>14. CASE SqueezeReturn
  BY <1>14, SqueezeReturnInv
<1>15. CASE UNCHANGED vars
  <2>1. /\ phase' = phase /\ blocks' = blocks /\ st' = st /\ pos' = pos
        /\ message' = message /\ pc' = pc /\ ctx' = ctx /\ input' = input /\ i' = i
        /\ outlen' = outlen /\ nblocks' = nblocks /\ out' = out /\ asked' = asked
    BY <1>15 DEF vars
  <2> QED BY <2>1 DEF IInv, TypeOK, OutType, Control, InputLeft, Absorbs, AbsorbedIn,
                      Absorbed, Place, Pending, Squeezing, DigestIsXof
<1> QED BY <1>1, <1>2, <1>3, <1>4, <1>5, <1>6, <1>7, <1>8, <1>9, <1>10, <1>11, <1>12,
           <1>13, <1>14, <1>15 DEF Next

LEMMA Invariant == Spec => []IInv
<1> QED BY InitInv, StepInv, PTL DEF Spec

(* The types of the hash contexts and of the loops of fips202.c over them: *)
(* the indices stay inside the rate, and a context that absorbs has room   *)
(* for a byte.                                                             *)
THEOREM TypeCorrect == Spec => []TypeOK
<1>1. IInv => TypeOK
  BY DEF IInv
<1> QED BY <1>1, Invariant, PTL

(* However hash_update is called, at every step of keccak_absorb a context *)
(* has exactly its message up to where it is, in order and without gaps.   *)
THEOREM AbsorbsMessageAlways == Spec => []AbsorbsMessage
<1>1. IInv => AbsorbsMessage
  BY AbsorbsIs DEF IInv
<1> QED BY <1>1, Invariant, PTL

(* However the message is cut and whatever the length asked for, the       *)
(* digest of hash_final_digest is that of SHAKE, byte by byte.             *)
THEOREM DigestAlwaysXof == Spec => []DigestIsXof
<1>1. IInv => DigestIsXof
  BY DEF IInv
<1> QED BY <1>1, Invariant, PTL

(* keccak_finalize keeps messages apart: two contexts whose permutations   *)
(* are the same have the same message.                                     *)
THEOREM NoCollisionsEver == Spec => []NoCollisions
<1>1. IInv => NoCollisions
  <2> SUFFICES ASSUME IInv, pc = "idle", NEW c \in Ctx, NEW d \in Ctx,
                      phase[c] = "absorbing", phase[d] = "absorbing",
                      Append(blocks[c], Finalized(c)) = Append(blocks[d], Finalized(d))
               PROVE  message[c] = message[d]
    BY DEF NoCollisions
  <2> DEFINE Blocks(e) == Append(blocks[e], Padded(st[e], pos[e]))
  <2>1. ASSUME NEW e \in Ctx, phase[e] = "absorbing"
        PROVE  /\ message[e] \in Seq(Byte)
               /\ Len(Blocks(e)) = LastBlock(message[e]) + 1
               /\ \A b \in 1 .. LastBlock(message[e]) + 1 :
                    Blocks(e)[b] = BlockOf(message[e], b)
    <3> DEFINE bs == blocks[e]
               msg == message[e]
               n == Len(bs)
    <3>1. /\ bs \in Seq(State) /\ st[e] \in State /\ msg \in Seq(Byte)
          /\ pos[e] \in 0 .. Rate - 1 /\ n \in Nat
      BY <2>1, Constants DEF IInv, TypeOK
    <3>2. Holds(bs, st[e], pos[e], msg, 0)
      BY <2>1 DEF IInv, Absorbs, AbsorbedIn, Place, Pending
    <3>3. LastBlock(msg) = n
      <4>1. n * Rate \in Nat /\ (n * Rate) + pos[e] + 0 = Len(msg)
        BY <3>1, <3>2, Constants DEF Holds
      <4>2. (n * Rate) + pos[e] = Len(msg)
        BY <4>1, <3>1
      <4> QED BY <4>2, <3>1, LastBlockIs
    <3>4. /\ Padded(st[e], pos[e]) = BlockOf(msg, n + 1)
          /\ \A b \in 1 .. n : bs[b] = BlockOf(msg, b)
      BY <3>1, <3>2, PaddedBlock, WholeBlock
    <3>5. /\ Len(Blocks(e)) = n + 1
          /\ Blocks(e)[n + 1] = Padded(st[e], pos[e])
          /\ \A b \in 1 .. n : Blocks(e)[b] = bs[b]
      BY <3>1
    <3> HIDE DEF Blocks
    <3>6. \A b \in 1 .. n + 1 : b = n + 1 \/ b \in 1 .. n
      BY <3>1
    <3> QED BY <3>1, <3>3, <3>4, <3>5, <3>6
  <2>2. Blocks(c) = Blocks(d)
    BY DEF Finalized, Padded
  <2> HIDE DEF Blocks
  <2>3. LastBlock(message[c]) \in Nat /\ LastBlock(message[d]) \in Nat
    BY <2>1, LastBlockBounds
  <2>4. SameBlocks(message[c], message[d])
    BY <2>1, <2>2, <2>3 DEF SameBlocks
  <2> QED BY <2>1, <2>4, PaddingInjective
<1> QED BY <1>1, Invariant, PTL
=============================================================================

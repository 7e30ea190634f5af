---------------------------- MODULE SignApiProofs ----------------------------
(***************************************************************************)
(* The safety of the signature API for every size of the memory, of a      *)
(* signature and of a message, every placement of the buffers and every    *)
(* width of the loops' counter: what is signed comes out whole, only what  *)
(* was signed is opened, and what is rejected is cleared.                  *)
(***************************************************************************)
EXTENDS SignApi, TLAPS

Cells == 0 .. MemSize - 1
Opening == pc \in {"open", "verify", "copy", "clear", "opened"}

(* The buffers lie in the memory, and unsigned i is below its range. *)
Inside ==
  /\ DOMAIN mem = Cells
  /\ message \in Messages
  /\ m \in Nat /\ sm \in Nat /\ mlen \in Nat /\ smlen \in Nat
  /\ i \in 0 .. UIntRange - 1
  /\ pc \in {"signature", "memmove"} =>
       mlen = Len(message) /\ m + mlen <= MemSize /\ sm + mlen + SigBytes <= MemSize
  /\ Opening => m + smlen <= MemSize /\ sm + smlen <= MemSize

(* A cell holds a plain byte or a byte of the message's signature: there   *)
(* is no signature of anything else.                                       *)
OneSignature ==
  \A cell \in Cells : \/ Len(mem[cell]) = 1
                      \/ pc # "idle" /\ mem[cell][2] = Data(message)

(* The two placements a copy of n cells from the lower end up is right in. *)
Movable(n) == m <= sm \/ m >= sm + n

(* The next client starts anew. *)
Idle == pc = "idle" => r = 0 /\ i = 0

Signing ==
  /\ pc = "signature" => r = 0 /\ At(m, mlen) = Data(message)
  /\ pc = "memmove" /\ r = 0 =>
       /\ At(sm + mlen, SigBytes) = SignatureOf(Data(message))
       /\ Movable(mlen + SigBytes) => At(m, mlen) = Data(message)

Opened ==
  /\ pc \in {"open", "verify"} => received = At(sm, smlen) /\ i = 0
  /\ pc = "verify" => smlen = mlen + SigBytes

Copying ==
  pc = "copy" =>
    /\ r = 0 /\ received = SignedForm(message)
    /\ mlen = Len(message) /\ smlen = mlen + SigBytes
    /\ Movable(mlen) /\ mlen < UIntRange =>
         /\ i <= mlen
         /\ \A k \in 0 .. i - 1 : mem[m + k] = Plain(message[k + 1])
         /\ \A k \in i .. mlen - 1 : mem[sm + k] = Plain(message[k + 1])

Clearing ==
  pc = "clear" =>
    /\ mlen = 0
    /\ smlen < UIntRange =>
         i <= smlen /\ \A k \in 0 .. i - 1 : mem[m + k] = Cleared

IInv ==
  /\ Inside /\ OneSignature
  /\ Idle /\ Signing /\ SignedWhole
  /\ Opened /\ Copying /\ Clearing
  /\ OpensOnlySigned /\ RejectedIsCleared
-----------------------------------------------------------------------------
LEMMA Sizes ==
  MemSize \in Nat /\ SigBytes \in Nat \ {0} /\ MaxLen \in Nat /\ UIntRange \in Nat \ {0}
  BY SizesAssumption

LEMMA Room ==
  ASSUME NEW n \in Nat, NEW a \in 0 .. MemSize - n
  PROVE  a \in Nat /\ a + n <= MemSize /\ n + a <= MemSize
  BY Sizes

LEMMA MessageShape ==
  ASSUME NEW msg \in Messages
  PROVE  Len(msg) \in Nat /\ Len(msg) <= MaxLen /\ DOMAIN msg = 1 .. Len(msg)
<1>1. PICK n \in 0 .. MaxLen : msg \in [1 .. n -> Bytes]
  BY DEF Messages
<1>2. n \in Nat /\ msg \in Seq(Bytes)
  BY <1>1, Sizes
<1> QED BY <1>1, <1>2, Sizes

LEMMA EmptyMessage == << >> \in Messages
<1>1. << >> \in [1 .. 0 -> Bytes]
  OBVIOUS
<1> QED BY <1>1, Sizes DEF Messages

LEMMA CellLengths ==
  /\ Len(Garbage) = 1 /\ Len(Cleared) = 1
  /\ \A b : Len(Plain(b)) = 1
  /\ \A k, d : Len(SigCell(k, d)) = 2 /\ SigCell(k, d)[2] = d
  BY DEF Garbage, Cleared, Plain, SigCell

(* The data, the signature and both together, cell by cell. *)
LEMMA DataShape ==
  ASSUME NEW msg \in Messages
  PROVE  /\ DOMAIN Data(msg) = 1 .. Len(msg)
         /\ Len(Data(msg)) = Len(msg)
         /\ \A k \in 1 .. Len(msg) : Data(msg)[k] = Plain(msg[k])
<1>1. Len(msg) \in Nat
  BY MessageShape
<1>2. Data(msg) \in Seq({ Plain(msg[k]) : k \in 1 .. Len(msg) })
  BY <1>1 DEF Data
<1> QED BY <1>1, <1>2 DEF Data

LEMMA SequenceIsFunction == ASSUME NEW S, NEW q \in Seq(S) PROVE q \in [1 .. Len(q) -> S]
  OBVIOUS

LEMMA Concatenation ==
  ASSUME NEW S, NEW s \in Seq(S), NEW t \in Seq(S)
  PROVE  s \o t = [k \in 1 .. Len(s) + Len(t) |-> IF k <= Len(s) THEN s[k] ELSE t[k - Len(s)]]
<1>1. s \o t \in Seq(S) /\ Len(s \o t) = Len(s) + Len(t)
  OBVIOUS
<1>2. \A k \in 1 .. Len(s) + Len(t) : (s \o t)[k] = IF k <= Len(s) THEN s[k] ELSE t[k - Len(s)]
  OBVIOUS
<1>3. s \o t = [k \in 1 .. Len(s) + Len(t) |-> (s \o t)[k]]
  <2>1. s \o t \in [1 .. Len(s \o t) -> S]
    BY <1>1, SequenceIsFunction
  <2> QED BY <1>1, <2>1
<1> QED BY <1>2, <1>3

LEMMA SignedShape ==
  ASSUME NEW msg \in Messages
  PROVE  SignedForm(msg) =
           [k \in 1 .. Len(msg) + SigBytes |->
              IF k <= Len(msg) THEN Plain(msg[k]) ELSE SigCell(k - Len(msg), Data(msg))]
<1> DEFINE n == Len(msg)
           S == { Plain(msg[k]) : k \in 1 .. n } \cup { SigCell(k, Data(msg)) : k \in 1 .. SigBytes }
<1>1. n \in Nat
  BY MessageShape
<1>2. Data(msg) \in Seq(S) /\ Len(Data(msg)) = n
  <2>1. Data(msg) \in [1 .. n -> S]
    BY DEF Data
  <2> QED BY <1>1, <2>1
<1>3. SignatureOf(Data(msg)) \in Seq(S) /\ Len(SignatureOf(Data(msg))) = SigBytes
  <2>1. SignatureOf(Data(msg)) \in [1 .. SigBytes -> S]
    BY DEF SignatureOf
  <2> QED BY Sizes, <2>1
<1>4. \A k \in 1 .. n : Data(msg)[k] = Plain(msg[k])
  BY DataShape
<1>5. \A k \in 1 .. SigBytes : SignatureOf(Data(msg))[k] = SigCell(k, Data(msg))
  BY DEF SignatureOf
<1>6. SignedForm(msg) = Data(msg) \o SignatureOf(Data(msg))
  BY DEF SignedForm
<1>7. SignedForm(msg) =
        [k \in 1 .. n + SigBytes |->
           IF k <= n THEN Data(msg)[k] ELSE SignatureOf(Data(msg))[k - n]]
  <2> HIDE DEF S, n
  <2>1. Data(msg) \o SignatureOf(Data(msg)) =
          [k \in 1 .. Len(Data(msg)) + Len(SignatureOf(Data(msg))) |->
             IF k <= Len(Data(msg)) THEN Data(msg)[k]
             ELSE SignatureOf(Data(msg))[k - Len(Data(msg))]]
    BY ONLY <1>2, <1>3, Concatenation
  <2> QED BY <1>2, <1>3, <1>6, <2>1
<1> HIDE DEF n
<1>8. \A k \in 1 .. n + SigBytes :
        (IF k <= n THEN Data(msg)[k] ELSE SignatureOf(Data(msg))[k - n])
          = IF k <= n THEN Plain(msg[k]) ELSE SigCell(k - n, Data(msg))
  BY <1>1, <1>4, <1>5, Sizes
<1> QED BY <1>7, <1>8 DEF n

LEMMA InitInv == Init => IInv
<1> SUFFICES ASSUME Init PROVE IInv
  OBVIOUS
<1>1. Inside
  BY Sizes, EmptyMessage DEF Init, Inside, Cells, Opening
<1>2. OneSignature
  BY CellLengths DEF Init, OneSignature, Cells
<1> QED
  BY <1>1, <1>2 DEF Init, IInv, Idle, Signing, SignedWhole, Opened, Copying, Clearing,
     OpensOnlySigned, RejectedIsCleared

(* In w the cells s are in their places from a on, the others as in mem. *)
Placed(w, a, s) ==
  /\ DOMAIN w = Cells
  /\ \A k \in 1 .. Len(s) : w[(a + k) - 1] = s[k]
  /\ \A cell \in Cells : cell < a \/ cell >= a + Len(s) => w[cell] = mem[cell]
  /\ \A cell \in Cells : w[cell] = mem[cell] \/ \E k \in 1 .. Len(s) : w[cell] = s[k]

LEMMA WrittenCells ==
  ASSUME DOMAIN mem = Cells, NEW a \in Nat, NEW s, Len(s) \in Nat, a + Len(s) <= MemSize
  PROVE  Placed(Written(a, s), a, s)
<1> DEFINE n == Len(s)
           w == Written(a, s)
<1>1. /\ DOMAIN w = Cells
      /\ \A cell \in Cells :
           w[cell] = IF cell \in a .. (a + n) - 1 THEN s[(cell - a) + 1] ELSE mem[cell]
  BY DEF Written
<1> HIDE DEF w
<1>2. ASSUME NEW k \in 1 .. n PROVE w[(a + k) - 1] = s[k]
  <2>1. (a + k) - 1 \in Cells /\ (a + k) - 1 \in a .. (a + n) - 1 /\ (((a + k) - 1) - a) + 1 = k
    BY Sizes DEF Cells
  <2> QED BY <1>1, <2>1
<1>3. ASSUME NEW cell \in Cells PROVE w[cell] = mem[cell] \/ \E k \in 1 .. n : w[cell] = s[k]
  <2>1. CASE cell \in a .. (a + n) - 1
    <3>1. (cell - a) + 1 \in 1 .. n
      BY <2>1 DEF Cells
    <3> QED BY <1>1, <2>1, <3>1
  <2> QED BY <1>1, <2>1
<1>4. ASSUME NEW cell \in Cells, cell < a \/ cell >= a + n PROVE w[cell] = mem[cell]
  BY <1>1, <1>4, Sizes DEF Cells
<1> QED BY <1>1, <1>2, <1>3, <1>4 DEF w, Placed

LEMMA CallSignInv == IInv /\ CallSign => IInv'
<1> SUFFICES ASSUME IInv, CallSign PROVE IInv'
  OBVIOUS
<1> USE Sizes
<1> DEFINE n == Len(message')
<1>1. n \in Nat /\ DOMAIN message' = 1 .. n /\ message' \in Messages
  BY MessageShape DEF CallSign
<1>2. mlen' = n /\ m' \in 0 .. MemSize - n /\ sm' \in 0 .. MemSize - (n + SigBytes)
      /\ pc' = "signature" /\ UNCHANGED <<smlen, i, r, received>>
  BY DEF CallSign
<1>3. /\ DOMAIN Data(message') = 1 .. n /\ Len(Data(message')) = n
      /\ \A k \in 1 .. n : Data(message')[k] = Plain(message'[k])
  BY <1>1, DataShape
<1>4. /\ DOMAIN mem' = Cells
      /\ \A k \in 1 .. n : mem'[(m' + k) - 1] = Data(message')[k]
      /\ \A cell \in Cells : mem'[cell] = mem[cell] \/ \E k \in 1 .. n : mem'[cell] = Data(message')[k]
  <2>1. m' \in Nat /\ m' + n <= MemSize /\ DOMAIN mem = Cells /\ mem' = Written(m', Data(message'))
    BY <1>1, <1>2 DEF CallSign, IInv, Inside
  <2>2. Placed(Written(m', Data(message')), m', Data(message'))
    BY <1>1, <1>3, <2>1, WrittenCells, Zenon
  <2> QED BY <1>3, <2>1, <2>2 DEF Placed
<1>5. Inside'
  BY <1>1, <1>2, <1>4 DEF Inside, Opening, IInv
<1>6. OneSignature'
  <2>1. ASSUME NEW cell \in Cells PROVE Len(mem'[cell]) = 1
    <3>1. \A k \in 1 .. n : Len(Data(message')[k]) = 1
      BY <1>3, CellLengths
    <3>2. Len(mem[cell]) = 1
      BY DEF IInv, OneSignature, CallSign
    <3> QED BY <1>4, <3>1, <3>2
  <2> QED BY <2>1 DEF OneSignature
<1>7. Signing'
  <2>1. r = 0
    BY DEF IInv, Idle, CallSign
  <2>2. At(m, mlen)' = Data(message')
    BY <1>2, <1>4 DEF At, Data
  <2> QED BY <1>2, <2>1, <2>2 DEF Signing
<1> QED
  BY <1>2, <1>5, <1>6, <1>7 DEF IInv, Idle, SignedWhole, Opened, Copying, Clearing,
     OpensOnlySigned, RejectedIsCleared

LEMMA SignSignatureInv == IInv /\ SignSignature => IInv'
<1> SUFFICES ASSUME IInv, SignSignature PROVE IInv'
  OBVIOUS
<1> USE Sizes
<1> DEFINE sig == SignatureOf(Data(message))
<1>1. /\ pc = "signature" /\ pc' = "memmove" /\ smlen' = SigBytes
      /\ UNCHANGED <<m, sm, mlen, i, message, received>>
  BY DEF SignSignature
<1>2. /\ mlen = Len(message) /\ m + mlen <= MemSize /\ sm + mlen + SigBytes <= MemSize
      /\ DOMAIN mem = Cells /\ m \in Nat /\ sm \in Nat /\ mlen \in Nat
      /\ At(m, mlen) = Data(message)
  BY <1>1 DEF IInv, Inside, Signing
<1>3. DOMAIN sig = 1 .. SigBytes /\ Len(sig) = SigBytes
      /\ \A k \in 1 .. SigBytes : sig[k] = SigCell(k, Data(message))
  <2>1. sig \in Seq({ SigCell(k, Data(message)) : k \in 1 .. SigBytes })
    BY DEF SignatureOf
  <2> QED BY <2>1 DEF SignatureOf
<1>4. \/ r' = 0 /\ mem' = Written(sm + mlen, sig)
      \/ r' = -1 /\ mem' = mem
  BY <1>2 DEF SignSignature
<1> HIDE DEF sig
<1>5. CASE r' = -1 /\ mem' = mem
  <2>1. Inside' /\ OneSignature'
    BY <1>1, <1>5 DEF IInv, Inside, Opening, OneSignature
  <2> QED
    BY <1>1, <1>5, <2>1 DEF IInv, Idle, Signing, SignedWhole, Opened, Copying, Clearing,
       OpensOnlySigned, RejectedIsCleared
<1>6. CASE r' = 0 /\ mem' = Written(sm + mlen, sig)
  <2>1. /\ DOMAIN mem' = Cells
        /\ \A k \in 1 .. SigBytes : mem'[((sm + mlen) + k) - 1] = sig[k]
        /\ \A cell \in Cells : cell < sm + mlen \/ cell >= (sm + mlen) + SigBytes
                             => mem'[cell] = mem[cell]
        /\ \A cell \in Cells : mem'[cell] = mem[cell] \/ \E k \in 1 .. SigBytes : mem'[cell] = sig[k]
    <3>1. sm + mlen \in Nat /\ (sm + mlen) + Len(sig) <= MemSize
      BY <1>2, <1>3
    <3>2. Placed(Written(sm + mlen, sig), sm + mlen, sig)
      <4>1. Len(sig) \in Nat
        BY <1>3
      <4> QED BY ONLY <1>2, <3>1, <4>1, WrittenCells, Zenon
    <3> QED BY <1>3, <1>6, <3>2 DEF Placed
  <2>2. Inside'
    BY <1>1, <2>1 DEF IInv, Inside, Opening
  <2>3. OneSignature'
    <3>1. ASSUME NEW cell \in Cells
          PROVE  Len(mem'[cell]) = 1 \/ mem'[cell][2] = Data(message)
      BY <1>3, <2>1, CellLengths, <1>1 DEF IInv, OneSignature
    <3> QED BY <1>1, <3>1 DEF OneSignature
  <2>4. At(sm + mlen, SigBytes)' = sig
    BY <1>1, <2>1 DEF At, sig, SignatureOf
  <2>5. Movable(mlen + SigBytes) => At(m, mlen)' = Data(message)
    <3>1. SUFFICES ASSUME Movable(mlen + SigBytes) PROVE At(m, mlen)' = At(m, mlen)
      BY <1>2
    <3>2. \A k \in 1 .. mlen : mem'[(m + k) - 1] = mem[(m + k) - 1]
      BY <1>2, <2>1, <3>1 DEF Cells, Movable
    <3> QED BY <1>1, <3>2 DEF At
  <2>6. Signing'
    BY <1>1, <2>4, <2>5 DEF Signing, Movable, sig
  <2> QED
    BY <1>1, <2>2, <2>3, <2>6 DEF IInv, Idle, SignedWhole, Opened, Copying, Clearing,
       OpensOnlySigned, RejectedIsCleared
<1> QED BY <1>4, <1>5, <1>6

LEMMA MoveMessageInv == IInv /\ MoveMessage => IInv'
<1> SUFFICES ASSUME IInv, MoveMessage PROVE IInv'
  OBVIOUS
<1> USE Sizes
<1> DEFINE data == At(m, mlen)
<1>1. /\ pc = "memmove" /\ pc' = "signed" /\ smlen' = mlen + SigBytes
      /\ UNCHANGED <<m, sm, mlen, i, r, message, received>>
      /\ mem' = Written(sm, data)
  BY DEF MoveMessage, Moved
<1>2. /\ mlen = Len(message) /\ m + mlen <= MemSize /\ sm + mlen + SigBytes <= MemSize
      /\ DOMAIN mem = Cells /\ m \in Nat /\ sm \in Nat /\ mlen \in Nat /\ message \in Messages
  BY <1>1 DEF IInv, Inside
<1>3. DOMAIN data = 1 .. mlen /\ Len(data) = mlen
      /\ \A k \in 1 .. mlen : data[k] = mem[(m + k) - 1]
  <2>1. data \in Seq({ mem[(m + k) - 1] : k \in 1 .. mlen })
    BY <1>2 DEF At
  <2> QED BY <1>2, <2>1 DEF At
<1> HIDE DEF data
<1>4. /\ DOMAIN mem' = Cells
      /\ \A k \in 1 .. mlen : mem'[(sm + k) - 1] = data[k]
      /\ \A cell \in Cells : cell < sm \/ cell >= sm + mlen => mem'[cell] = mem[cell]
      /\ \A cell \in Cells : mem'[cell] = mem[cell] \/ \E k \in 1 .. mlen : mem'[cell] = data[k]
  <2>1. sm + Len(data) <= MemSize /\ Len(data) \in Nat
    BY <1>2, <1>3
  <2>2. Placed(Written(sm, data), sm, data)
    BY ONLY <1>2, <2>1, WrittenCells, Zenon
  <2> QED BY <1>1, <1>3, <2>2 DEF Placed
<1>5. Inside'
  <2>1. i \in 0 .. UIntRange - 1 /\ smlen' \in Nat
    BY <1>1, <1>2 DEF IInv, Inside
  <2> QED BY <1>1, <1>2, <1>4, <2>1 DEF Inside, Opening
<1>6. OneSignature'
  <2>1. \A cell \in Cells : \E other \in Cells : mem'[cell] = mem[other]
    <3>1. \A k \in 1 .. mlen : (m + k) - 1 \in Cells
      BY <1>2 DEF Cells
    <3> QED BY <1>3, <1>4, <3>1
  <2> QED BY <1>1, <2>1 DEF IInv, OneSignature
<1>7. SignedWhole'
  <2>1. SUFFICES ASSUME r = 0, Movable(mlen + SigBytes)
                 PROVE  At(sm, mlen + SigBytes)' = SignedForm(message)
    BY <1>1 DEF SignedWhole, Movable
  <2>2. data = Data(message) /\ At(sm + mlen, SigBytes) = SignatureOf(Data(message))
    BY <1>1, <2>1 DEF IInv, Signing, data
  <2>3. \A k \in 1 .. mlen : mem'[(sm + k) - 1] = Plain(message[k])
    BY <1>2, <1>4, <2>2, DataShape
  <2>4. \A k \in 1 .. SigBytes : mem'[((sm + mlen) + k) - 1] = SigCell(k, Data(message))
    <3>1. \A k \in 1 .. SigBytes : mem[((sm + mlen) + k) - 1] = SigCell(k, Data(message))
      BY <2>2 DEF At, SignatureOf
    <3>2. \A k \in 1 .. SigBytes : /\ ((sm + mlen) + k) - 1 \in Cells
                                   /\ ((sm + mlen) + k) - 1 >= sm + mlen
      BY <1>2 DEF Cells
    <3> QED BY <1>4, <3>1, <3>2
  <2>5. \A k \in 1 .. mlen + SigBytes :
          mem'[(sm + k) - 1] =
            IF k <= mlen THEN Plain(message[k]) ELSE SigCell(k - mlen, Data(message))
    <3>1. TAKE k \in 1 .. mlen + SigBytes
    <3>2. CASE k <= mlen
      BY <1>2, <2>3, <3>2
    <3>3. CASE ~ (k <= mlen)
      <4>1. k - mlen \in 1 .. SigBytes /\ ((sm + mlen) + (k - mlen)) - 1 = (sm + k) - 1
        BY <1>2, <3>3
      <4>2. mem'[((sm + mlen) + (k - mlen)) - 1] = SigCell(k - mlen, Data(message))
        BY <2>4, <4>1
      <4> QED BY <3>3, <4>1, <4>2
    <3> QED BY <3>2, <3>3
  <2>6. SignedForm(message) =
          [k \in 1 .. mlen + SigBytes |->
             IF k <= mlen THEN Plain(message[k]) ELSE SigCell(k - mlen, Data(message))]
    BY <1>2, SignedShape
  <2> QED BY <1>1, <2>5, <2>6 DEF At
<1> QED
  BY <1>1, <1>5, <1>6, <1>7 DEF IInv, Idle, Signing, Opened, Copying, Clearing,
     OpensOnlySigned, RejectedIsCleared

LEMMA CallOpenInv == IInv /\ CallOpen => IInv'
<1> SUFFICES ASSUME IInv, CallOpen PROVE IInv'
  OBVIOUS
<1> USE Sizes
<1>1. /\ pc = "signed" /\ pc' = "open" /\ i' = 0 /\ UNCHANGED <<sm, mlen, r, message>>
      /\ smlen' \in 0 .. MemSize - sm /\ m' \in 0 .. MemSize - smlen'
      /\ received' = [k \in 1 .. smlen' |-> mem'[(sm + k) - 1]]
  BY DEF CallOpen
<1>2. DOMAIN mem = Cells /\ sm \in Nat
  BY DEF IInv, Inside
<1>3. DOMAIN mem' = Cells /\ \A cell \in Cells : mem'[cell] = mem[cell] \/ mem'[cell] = Garbage
  BY <1>2 DEF CallOpen
<1>4. Inside'
  <2>1. /\ smlen' \in Nat /\ m' \in Nat /\ i' \in 0 .. UIntRange - 1
        /\ m' + smlen' <= MemSize /\ sm + smlen' <= MemSize
    <3>1. smlen' \in 0 .. MemSize - sm /\ m' \in 0 .. MemSize - smlen' /\ i' = 0
      BY <1>1
    <3>2. i' \in 0 .. UIntRange - 1
      BY <3>1
    <3>3. smlen' \in Nat /\ sm + smlen' <= MemSize
      BY <1>2, <3>1, Room
    <3>4. m' \in Nat /\ m' + smlen' <= MemSize
      BY <3>1, <3>3, Room
    <3> QED BY <3>2, <3>3, <3>4
  <2>2. mlen \in Nat /\ message \in Messages
    BY DEF IInv, Inside
  <2> QED BY <1>1, <1>2, <1>3, <2>1, <2>2 DEF Inside, Opening
<1>5. OneSignature'
  BY <1>1, <1>3, CellLengths DEF IInv, OneSignature
<1>6. Opened'
  BY <1>1 DEF Opened, At
<1> QED
  BY <1>1, <1>4, <1>5, <1>6 DEF IInv, Idle, Signing, SignedWhole, Copying, Clearing,
     OpensOnlySigned, RejectedIsCleared

(* A step of crypto_sign_open that leaves memory and buffers alone. *)
LEMMA Control ==
  ASSUME IInv, Opening, Opening',
         UNCHANGED <<mem, m, sm, smlen, message, received>>,
         mlen' \in Nat, i' \in 0 .. UIntRange - 1
  PROVE  Inside' /\ OneSignature' /\ Idle' /\ Signing' /\ SignedWhole'
<1>1. Inside'
  BY DEF IInv, Inside, Opening
<1>2. OneSignature'
  BY DEF IInv, OneSignature, Opening
<1> QED BY <1>1, <1>2 DEF Opening, Idle, Signing, SignedWhole

LEMMA OpenTooShortInv == IInv /\ OpenTooShort => IInv'
<1> SUFFICES ASSUME IInv, OpenTooShort PROVE IInv'
  OBVIOUS
<1>1. /\ pc = "open" /\ pc' = "clear" /\ mlen' = 0
      /\ UNCHANGED <<mem, m, sm, smlen, i, r, message, received>>
  BY DEF OpenTooShort, Bad
<1>2. i = 0 /\ i \in 0 .. UIntRange - 1 /\ smlen \in Nat
  BY <1>1 DEF IInv, Inside, Opened
<1>3. Inside' /\ OneSignature' /\ Idle' /\ Signing' /\ SignedWhole'
  BY <1>1, <1>2, Control DEF Opening
<1> QED
  BY <1>1, <1>2, <1>3 DEF IInv, Opened, Copying, Clearing, OpensOnlySigned, RejectedIsCleared

LEMMA OpenLengthInv == IInv /\ OpenLength => IInv'
<1> SUFFICES ASSUME IInv, OpenLength PROVE IInv'
  OBVIOUS
<1>1. /\ pc = "open" /\ pc' = "verify" /\ mlen' = smlen - SigBytes /\ ~ (SigBytes > smlen)
      /\ UNCHANGED <<mem, m, sm, smlen, i, r, message, received>>
  BY DEF OpenLength, TooShort
<1>2. i \in 0 .. UIntRange - 1 /\ smlen \in Nat
  BY <1>1 DEF IInv, Inside
<1>3. mlen' \in Nat /\ smlen' = mlen' + SigBytes
  BY <1>1, <1>2, Sizes
<1>4. Inside' /\ OneSignature' /\ Idle' /\ Signing' /\ SignedWhole'
  BY <1>1, <1>2, <1>3, Control DEF Opening
<1>5. Opened'
  BY <1>1, <1>3 DEF IInv, Opened, At
<1> QED
  BY <1>1, <1>4, <1>5 DEF IInv, Copying, Clearing, OpensOnlySigned, RejectedIsCleared

(* What verifies is what crypto_sign made: the bytes behind it are of the  *)
(* only signature there is, and the cells in front what that signature is  *)
(* of.                                                                     *)
LEMMA VerifiedIsSigned ==
  ASSUME IInv, pc = "verify", Verifies(SigBytes)
  PROVE  mlen = Len(message) /\ At(sm, mlen) = Data(message) /\ received = SignedForm(message)
<1> USE Sizes
<1>1. /\ received = At(sm, smlen) /\ smlen = mlen + SigBytes
      /\ sm \in Nat /\ mlen \in Nat /\ sm + smlen <= MemSize /\ message \in Messages
  BY DEF IInv, Opened, Inside, Opening
<1>2. \A k \in 1 .. SigBytes : mem[((sm + mlen) + k) - 1] = SigCell(k, At(sm, mlen))
  <2>1. At(sm + mlen, SigBytes) = SignatureOf(At(sm, mlen))
    BY DEF Verifies
  <2> QED BY <2>1 DEF At, SignatureOf
<1>3. At(sm, mlen) = Data(message)
  <2>1. 1 \in 1 .. SigBytes /\ ((sm + mlen) + 1) - 1 = sm + mlen /\ sm + mlen \in Cells
    BY <1>1 DEF Cells
  <2>2. mem[sm + mlen] = SigCell(1, At(sm, mlen))
    BY <1>2, <2>1
  <2> QED BY <2>1, <2>2, CellLengths DEF IInv, OneSignature
<1>4. mlen = Len(message)
  <2>1. DOMAIN At(sm, mlen) = 1 .. mlen /\ DOMAIN Data(message) = 1 .. Len(message) /\ Len(message) \in Nat
    BY <1>1, DataShape, MessageShape DEF At
  <2> QED BY <1>1, <1>3, <2>1
<1>5. received = SignedForm(message)
  <2>1. \A k \in 1 .. mlen : mem[(sm + k) - 1] = Plain(message[k])
    BY <1>1, <1>3, <1>4, DataShape DEF At
  <2>2. \A k \in 1 .. mlen + SigBytes :
          mem[(sm + k) - 1] = IF k <= mlen THEN Plain(message[k]) ELSE SigCell(k - mlen, Data(message))
    <3>1. TAKE k \in 1 .. mlen + SigBytes
    <3>2. CASE k <= mlen
      BY <1>1, <2>1, <3>2
    <3>3. CASE ~ (k <= mlen)
      <4>1. k - mlen \in 1 .. SigBytes /\ ((sm + mlen) + (k - mlen)) - 1 = (sm + k) - 1
        BY <1>1, <3>3
      <4>2. mem[((sm + mlen) + (k - mlen)) - 1] = SigCell(k - mlen, Data(message))
        BY <1>2, <1>3, <4>1
      <4> QED BY <3>3, <4>1, <4>2
    <3> QED BY <3>2, <3>3
  <2>3. SignedForm(message) =
          [k \in 1 .. mlen + SigBytes |->
             IF k <= mlen THEN Plain(message[k]) ELSE SigCell(k - mlen, Data(message))]
    BY <1>1, <1>4, SignedShape
  <2> QED BY <1>1, <2>2, <2>3 DEF At
<1> QED BY <1>3, <1>4, <1>5

LEMMA OpenVerifiedInv == IInv /\ OpenVerified => IInv'
<1> SUFFICES ASSUME IInv, OpenVerified PROVE IInv'
  OBVIOUS
<1>1. /\ pc = "verify" /\ pc' = "copy" /\ r' = 0 /\ Verifies(SigBytes)
      /\ UNCHANGED <<mem, m, sm, mlen, smlen, i, message, received>>
  BY DEF OpenVerified
<1>2. /\ mlen \in Nat /\ i = 0 /\ i \in 0 .. UIntRange - 1 /\ smlen = mlen + SigBytes
      /\ sm \in Nat /\ message \in Messages
  BY <1>1 DEF IInv, Inside, Opened
<1>3. mlen = Len(message) /\ At(sm, mlen) = Data(message) /\ received = SignedForm(message)
  BY <1>1, VerifiedIsSigned
<1>4. Inside' /\ OneSignature' /\ Idle' /\ Signing' /\ SignedWhole'
  BY <1>1, <1>2, Control DEF Opening
<1>5. Copying'
  <2>1. \A k \in 0 .. mlen - 1 : mem[sm + k] = Plain(message[k + 1])
    <3>1. TAKE k \in 0 .. mlen - 1
    <3>2. k + 1 \in 1 .. mlen /\ (sm + (k + 1)) - 1 = sm + k
      BY <1>2
    <3>3. Data(message)[k + 1] = Plain(message[k + 1])
      BY <1>2, <1>3, <3>2, DataShape
    <3>4. At(sm, mlen)[k + 1] = mem[(sm + (k + 1)) - 1]
      BY <3>2 DEF At
    <3> QED BY <1>3, <3>2, <3>3, <3>4
  <2>2. (SignedForm(message))' = SignedForm(message)
    BY <1>1 DEF SignedForm, Data, SignatureOf
  <2> QED BY <1>1, <1>2, <1>3, <2>1, <2>2 DEF Copying
<1> QED
  BY <1>1, <1>4, <1>5 DEF IInv, Opened, Clearing, OpensOnlySigned, RejectedIsCleared

LEMMA OpenRejectedInv == IInv /\ OpenRejected => IInv'
<1> SUFFICES ASSUME IInv, OpenRejected PROVE IInv'
  OBVIOUS
<1>1. /\ pc = "verify" /\ pc' = "clear" /\ mlen' = 0 /\ r' = -1
      /\ UNCHANGED <<mem, m, sm, smlen, i, message, received>>
  BY DEF OpenRejected, Bad
<1>2. i = 0 /\ i \in 0 .. UIntRange - 1 /\ smlen \in Nat
  BY <1>1 DEF IInv, Inside, Opened
<1>3. Inside' /\ OneSignature' /\ Idle' /\ Signing' /\ SignedWhole'
  BY <1>1, <1>2, Control DEF Opening
<1> QED
  BY <1>1, <1>2, <1>3 DEF IInv, Opened, Copying, Clearing, OpensOnlySigned, RejectedIsCleared

(* A step of one of the loops: one cell is written, with a plain byte or   *)
(* with what another cell holds.                                           *)
LEMMA LoopStep ==
  ASSUME IInv, pc \in {"copy", "clear"}, i < smlen,
         UNCHANGED <<pc, m, sm, mlen, smlen, r, message, received>>,
         i' = NextIndex,
         NEW v, Len(v) = 1 \/ \E cell \in Cells : v = mem[cell],
         mem' = [mem EXCEPT ![m + i] = v]
  PROVE  /\ Inside' /\ OneSignature' /\ Idle' /\ Signing' /\ SignedWhole' /\ Opened'
         /\ m + i \in Cells
<1> USE Sizes
<1>1. /\ i \in Nat /\ m \in Nat /\ smlen \in Nat /\ m + smlen <= MemSize /\ sm + smlen <= MemSize
      /\ DOMAIN mem = Cells
  BY DEF IInv, Inside, Opening
<1>2. m + i \in Cells
  BY <1>1 DEF Cells
<1>3. i' \in 0 .. UIntRange - 1
  BY <1>1 DEF NextIndex
<1>4. Inside'
  BY <1>1, <1>3 DEF IInv, Inside, Opening
<1>5. OneSignature'
  <2>1. \A cell \in Cells : mem'[cell] = IF cell = m + i THEN v ELSE mem[cell]
    BY <1>1
  <2> QED BY <2>1 DEF IInv, OneSignature
<1> QED BY <1>2, <1>4, <1>5 DEF Idle, Signing, SignedWhole, Opened

(* The counter does not wrap in a loop up to n when n is in its range. *)
LEMMA NoWrap ==
  ASSUME i \in Nat, NEW n \in Nat, i < n, n < UIntRange
  PROVE  NextIndex = i + 1
  BY Sizes DEF NextIndex

LEMMA CopyByteInv == IInv /\ CopyByte => IInv'
<1> SUFFICES ASSUME IInv, CopyByte PROVE IInv'
  OBVIOUS
<1> USE Sizes
<1>1. /\ pc = "copy" /\ i < mlen /\ i' = NextIndex
      /\ mem' = [mem EXCEPT ![m + i] = mem[sm + i]]
      /\ UNCHANGED <<pc, m, sm, mlen, smlen, r, message, received>>
  BY DEF CopyByte
<1>2. /\ i \in Nat /\ m \in Nat /\ sm \in Nat /\ mlen \in Nat /\ smlen = mlen + SigBytes
      /\ m + smlen <= MemSize /\ sm + smlen <= MemSize /\ DOMAIN mem = Cells
  BY <1>1 DEF IInv, Inside, Opening, Copying
<1>3. i < smlen /\ sm + i \in Cells
  BY <1>1, <1>2 DEF Cells
<1>4. /\ Inside' /\ OneSignature' /\ Idle' /\ Signing' /\ SignedWhole' /\ Opened'
      /\ m + i \in Cells
  BY <1>1, <1>3, LoopStep
<1>5. Copying'
  <2>1. (SignedForm(message))' = SignedForm(message)
    BY <1>1 DEF SignedForm, Data, SignatureOf
  <2>2. ASSUME Movable(mlen), mlen < UIntRange
        PROVE  /\ i' <= mlen
               /\ \A k \in 0 .. i' - 1 : mem'[m + k] = Plain(message[k + 1])
               /\ \A k \in i' .. mlen - 1 : mem'[sm + k] = Plain(message[k + 1])
    <3>1. i' = i + 1
      BY <1>1, <1>2, <2>2, NoWrap
    <3>2. /\ \A k \in 0 .. i - 1 : mem[m + k] = Plain(message[k + 1])
          /\ \A k \in i .. mlen - 1 : mem[sm + k] = Plain(message[k + 1])
      BY <1>1, <2>2 DEF IInv, Copying
    <3>3. mem'[m + i] = Plain(message[i + 1])
      <4>1. mem[sm + i] = Plain(message[i + 1])
        BY <1>1, <1>2, <3>2
      <4> QED BY <1>1, <1>2, <1>4, <4>1
    <3>4. \A k \in 0 .. i - 1 : mem'[m + k] = mem[m + k]
      <4>1. \A k \in 0 .. i - 1 : m + k \in Cells /\ m + k # m + i
        <5>1. TAKE k \in 0 .. i - 1
        <5>2. k \in Nat /\ k < i
          BY <1>2
        <5> QED BY ONLY <1>1, <1>2, <5>2, Sizes DEF Cells
      <4> QED BY <1>1, <1>2, <4>1
    <3>5. \A k \in i + 1 .. mlen - 1 : mem'[sm + k] = mem[sm + k]
      <4>1. \A k \in i + 1 .. mlen - 1 : sm + k \in Cells /\ sm + k # m + i
        <5>1. TAKE k \in i + 1 .. mlen - 1
        <5>2. k \in Nat /\ i < k /\ k < mlen
          BY <1>2
        <5>3. sm + k # m + i
          BY ONLY <1>2, <2>2, <5>2 DEF Movable
        <5> QED BY ONLY <1>2, <5>2, <5>3, Sizes DEF Cells
      <4> QED BY <1>1, <1>2, <4>1
    <3>6. \A k \in 0 .. i : mem'[m + k] = Plain(message[k + 1])
      <4>1. \A k \in 0 .. i : k \in 0 .. i - 1 \/ k = i
        BY <1>2
      <4> QED BY <3>2, <3>3, <3>4, <4>1
    <3>7. \A k \in i + 1 .. mlen - 1 : mem'[sm + k] = Plain(message[k + 1])
      <4>1. \A k \in i + 1 .. mlen - 1 : k \in i .. mlen - 1
        BY <1>2
      <4> QED BY <3>2, <3>5, <4>1
    <3> QED BY <1>1, <1>2, <3>1, <3>6, <3>7
  <2> QED BY <1>1, <2>1, <2>2 DEF IInv, Copying, Movable
<1> QED
  BY <1>1, <1>4, <1>5 DEF IInv, Clearing, OpensOnlySigned, RejectedIsCleared

LEMMA OpenReturnInv == IInv /\ OpenReturn => IInv'
<1> SUFFICES ASSUME IInv, OpenReturn PROVE IInv'
  OBVIOUS
<1>1. /\ pc = "copy" /\ ~ (i < mlen) /\ pc' = "opened"
      /\ UNCHANGED <<mem, m, sm, mlen, smlen, i, r, message, received>>
  BY DEF OpenReturn
<1>2. /\ mlen \in Nat /\ i \in 0 .. UIntRange - 1 /\ r = 0 /\ received = SignedForm(message)
      /\ mlen = Len(message) /\ m \in Nat /\ message \in Messages
  BY <1>1 DEF IInv, Inside, Copying
<1>3. Inside' /\ OneSignature' /\ Idle' /\ Signing' /\ SignedWhole'
  BY <1>1, <1>2, Control DEF Opening
<1>4. OpensOnlySigned'
  <2>1. received' = (SignedForm(message))'
    BY <1>1, <1>2 DEF SignedForm, Data, SignatureOf
  <2>2. ASSUME Movable(mlen) PROVE At(m, mlen) = Data(message)
    <3>1. i = mlen /\ mlen < UIntRange
      BY <1>1, <1>2, <2>2, Sizes DEF IInv, Copying
    <3>2. \A k \in 0 .. mlen - 1 : mem[m + k] = Plain(message[k + 1])
      BY <1>1, <2>2, <3>1 DEF IInv, Copying
    <3>3. \A k \in 1 .. mlen : mem[(m + k) - 1] = Plain(message[k])
      <4>1. \A k \in 1 .. mlen : k - 1 \in 0 .. mlen - 1 /\ m + (k - 1) = (m + k) - 1 /\ (k - 1) + 1 = k
        BY <1>2
      <4> QED BY <3>2, <4>1
    <3> QED BY <1>2, <3>3 DEF At, Data
  <2> QED BY <1>1, <2>1, <2>2 DEF OpensOnlySigned, Movable, At, Data
<1> QED
  BY <1>1, <1>2, <1>3, <1>4 DEF IInv, Opened, Copying, Clearing, RejectedIsCleared

LEMMA ClearByteInv == IInv /\ ClearByte => IInv'
<1> SUFFICES ASSUME IInv, ClearByte PROVE IInv'
  OBVIOUS
<1> USE Sizes
<1>1. /\ pc = "clear" /\ i < smlen /\ i' = NextIndex
      /\ mem' = [mem EXCEPT ![m + i] = Cleared]
      /\ UNCHANGED <<pc, m, sm, mlen, smlen, r, message, received>>
  BY DEF ClearByte, ClearLength
<1>2. /\ i \in Nat /\ m \in Nat /\ smlen \in Nat /\ m + smlen <= MemSize /\ DOMAIN mem = Cells
  BY <1>1 DEF IInv, Inside, Opening
<1>3. /\ Inside' /\ OneSignature' /\ Idle' /\ Signing' /\ SignedWhole' /\ Opened'
      /\ m + i \in Cells
  BY <1>1, CellLengths, LoopStep
<1>4. Clearing'
  <2>1. ASSUME smlen < UIntRange
        PROVE  i' <= smlen /\ \A k \in 0 .. i' - 1 : mem'[m + k] = Cleared
    <3>1. i' = i + 1
      BY <1>1, <1>2, <2>1, NoWrap
    <3>2. \A k \in 0 .. i - 1 : mem[m + k] = Cleared
      BY <1>1, <2>1 DEF IInv, Clearing
    <3>3. \A k \in 0 .. i : m + k \in Cells /\ (k \in 0 .. i - 1 \/ k = i)
      BY <1>1, <1>2 DEF Cells
    <3>4. \A k \in 0 .. i : mem'[m + k] = Cleared
      BY <1>1, <1>2, <1>3, <3>2, <3>3
    <3> QED BY <1>1, <1>2, <3>1, <3>4
  <2> QED BY <1>1, <2>1 DEF IInv, Clearing
<1> QED
  BY <1>1, <1>3, <1>4 DEF IInv, Copying, OpensOnlySigned, RejectedIsCleared

LEMMA ClearReturnInv == IInv /\ ClearReturn => IInv'
<1> SUFFICES ASSUME IInv, ClearReturn PROVE IInv'
  OBVIOUS
<1>1. /\ pc = "clear" /\ ~ (i < smlen) /\ pc' = "opened" /\ r' = -1
      /\ UNCHANGED <<mem, m, sm, mlen, smlen, i, message, received>>
  BY DEF ClearReturn, ClearLength
<1>2. /\ smlen \in Nat /\ i \in 0 .. UIntRange - 1 /\ m \in Nat /\ mlen = 0
  BY <1>1 DEF IInv, Inside, Clearing
<1>3. Inside' /\ OneSignature' /\ Idle' /\ Signing' /\ SignedWhole'
  BY <1>1, <1>2, Control DEF Opening
<1>4. RejectedIsCleared'
  <2>1. \A k \in 0 .. smlen - 1 : mem[m + k] = Cleared
    BY <1>1, <1>2, Sizes DEF IInv, Clearing
  <2>2. \A k \in 1 .. smlen : mem[(m + k) - 1] = Cleared
    <3>1. \A k \in 1 .. smlen : k - 1 \in 0 .. smlen - 1 /\ m + (k - 1) = (m + k) - 1
      BY <1>2
    <3> QED BY <2>1, <3>1
  <2> QED BY <1>1, <1>2, <2>2 DEF RejectedIsCleared, At
<1> QED
  BY <1>1, <1>3, <1>4 DEF IInv, Opened, Copying, Clearing, OpensOnlySigned

LEMMA GiveUpInv == IInv /\ GiveUp => IInv'
<1> SUFFICES ASSUME IInv, GiveUp PROVE IInv'
  OBVIOUS
<1>1. /\ pc = "signed" /\ pc' = "end"
      /\ UNCHANGED <<mem, m, sm, mlen, smlen, i, r, message, received>>
  BY DEF GiveUp
<1>2. Inside' /\ OneSignature'
  BY <1>1 DEF IInv, Inside, OneSignature, Opening
<1> QED
  BY <1>1, <1>2 DEF IInv, Idle, Signing, SignedWhole, Opened, Copying, Clearing,
     OpensOnlySigned, RejectedIsCleared

LEMMA FinishInv == IInv /\ Finish => IInv'
<1> SUFFICES ASSUME IInv, Finish PROVE IInv'
  OBVIOUS
<1>1. /\ pc = "opened" /\ pc' = "end"
      /\ UNCHANGED <<mem, m, sm, mlen, smlen, i, r, message, received>>
  BY DEF Finish
<1>2. Inside' /\ OneSignature'
  BY <1>1 DEF IInv, Inside, OneSignature, Opening
<1> QED
  BY <1>1, <1>2 DEF IInv, Idle, Signing, SignedWhole, Opened, Copying, Clearing,
     OpensOnlySigned, RejectedIsCleared

LEMMA RestartInv == IInv /\ Restart => IInv'
<1> SUFFICES ASSUME IInv, Restart PROVE IInv'
  OBVIOUS
<1>1. /\ pc' = "idle" /\ mem' = [c \in Cells |-> Garbage]
      /\ m' = 0 /\ sm' = 0 /\ mlen' = 0 /\ smlen' = 0 /\ i' = 0 /\ r' = 0
      /\ message' = << >> /\ received' = << >>
  BY DEF Restart, Cells
<1>2. Inside' /\ OneSignature'
  BY <1>1, Sizes, EmptyMessage, CellLengths DEF Inside, OneSignature, Opening
<1> QED
  BY <1>1, <1>2 DEF IInv, Idle, Signing, SignedWhole, Opened, Copying, Clearing,
     OpensOnlySigned, RejectedIsCleared

LEMMA StutterInv == IInv /\ UNCHANGED vars => IInv'
<1> SUFFICES ASSUME IInv, UNCHANGED vars PROVE IInv'
  OBVIOUS
<1>1. UNCHANGED <<pc, mem, m, sm, mlen, smlen, i, r, message, received>>
  BY DEF vars
<1>2. Inside' /\ OneSignature' /\ Idle'
  BY <1>1 DEF IInv, Inside, OneSignature, Idle, Opening
<1>3. Signing' /\ SignedWhole' /\ Opened'
  BY <1>1 DEF IInv, Signing, SignedWhole, Opened, Movable, At
<1>4. Copying' /\ Clearing'
  BY <1>1 DEF IInv, Copying, Clearing, Movable, SignedForm, Data, SignatureOf
<1>5. OpensOnlySigned' /\ RejectedIsCleared'
  BY <1>1 DEF IInv, OpensOnlySigned, RejectedIsCleared, At, Data, SignatureOf, SignedForm
<1> QED BY <1>2, <1>3, <1>4, <1>5 DEF IInv

LEMMA StepInv == IInv /\ [Next]_vars => IInv'
  BY CallSignInv, SignSignatureInv, MoveMessageInv, GiveUpInv, CallOpenInv, OpenTooShortInv,
     OpenLengthInv, OpenVerifiedInv, OpenRejectedInv, CopyByteInv, OpenReturnInv, ClearByteInv,
     ClearReturnInv, FinishInv, RestartInv, StutterInv DEF Next, Open

LEMMA Invariance == Spec => []IInv
  BY InitInv, StepInv, PTL DEF Spec

(* crypto_sign leaves the message in front of its signature, in all the    *)
(* placements its memmove after the signature has room for.                *)
THEOREM SignedComesOutWhole == Spec => []SignedWhole
<1>1. IInv => SignedWhole
  BY DEF IInv
<1> QED BY <1>1, Invariance, PTL

(* crypto_sign_open returns 0 for nothing but what crypto_sign made, and   *)
(* then the whole message is in the caller's buffer.                       *)
THEOREM OnlySignedIsOpened == Spec => []OpensOnlySigned
<1>1. IInv => OpensOnlySigned
  BY DEF IInv
<1> QED BY <1>1, Invariance, PTL

(* When crypto_sign_open returns an error, no byte of the caller's buffer  *)
(* is what it was or what was received.                                    *)
THEOREM RejectedAlwaysCleared == Spec => []RejectedIsCleared
<1>1. IInv => RejectedIsCleared
  BY DEF IInv
<1> QED BY <1>1, Invariance, PTL

(* crypto_sign_open gives up before verifying only what is shorter than    *)
(* anything crypto_sign made.                                              *)
THEOREM CompleteAlwaysVerified == Spec => CompleteIsVerified
<1>1. ASSUME IInv, Next, pc = "open", received = SignedForm(message) PROVE pc' = "verify"
  <2>1. /\ received = At(sm, smlen) /\ smlen \in Nat /\ message \in Messages /\ Len(message) \in Nat
    BY <1>1, MessageShape DEF IInv, Opened, Inside
  <2>2. smlen = Len(message) + SigBytes
    <3>1. DOMAIN At(sm, smlen) = 1 .. smlen
      BY DEF At
    <3>2. DOMAIN SignedForm(message) = 1 .. Len(message) + SigBytes
      BY <2>1, SignedShape
    <3> QED BY <1>1, <2>1, <3>1, <3>2, Sizes
  <2>3. ~ TooShort
    BY <2>1, <2>2, Sizes DEF TooShort
  <2> QED
    BY <1>1, <2>3 DEF Next, Open, CallSign, SignSignature, MoveMessage, GiveUp, CallOpen,
       OpenTooShort, OpenLength, OpenVerified, OpenRejected, CopyByte, OpenReturn, ClearByte,
       ClearReturn, Finish, Restart
<1>2. IInv /\ [Next]_vars => [(pc = "open" /\ received = SignedForm(message)) => pc' = "verify"]_vars
  BY <1>1
<1> QED BY <1>2, Invariance, PTL DEF Spec, CompleteIsVerified
=============================================================================

CONSTANTS
  Ctx = {c1, c2}
  Rate = 2
  Capacity = 1
  Bits = {p, e}
  P = {p}
  E = {e}
  Bytes <- MCBytes
  MaxChunk = 3
  MaxMessage = 4
  MaxOut = 5
SPECIFICATION Spec
INVARIANTS DigestIsXof AbsorbsMessage NoCollisions

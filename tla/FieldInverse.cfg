CONSTANTS
  WordBits = 16
SPECIFICATION Spec
INVARIANTS Bezout InverseFound ArithmeticAgrees

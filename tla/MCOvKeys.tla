------------------------------- MODULE MCOvKeys -------------------------------
(* The instance of OvKeys: GF(4) as 0 and the powers 1, 2, 3 of a          *)
(* generator, and samples of matrices, whose entries are pseudo-random     *)
(* elements for the sample's seed.                                         *)
EXTENDS OvKeys

GFPlus(x, y2) == IF x = 0 THEN y2 ELSE IF y2 = 0 THEN x ELSE IF x = y2 THEN 0 ELSE 6 - (x + y2)
GFTimes(x, y2) == IF x = 0 \/ y2 = 0 THEN 0 ELSE 1 + (((x + y2) - 2) % 3)

CONSTANT Samples

Mix(s, n) == ((((s * 7) + (n * 13) + 5) * ((s * 11) + (n * 3) + 17)) \div 8) % 4

SampleOs == { [n \in 0 .. (V * O) - 1 |-> Mix(s, n)] : s \in Samples }
SampleP1s ==
  { [n \in 0 .. Triangle(V) - 1 |-> [e \in 0 .. M - 1 |-> Mix(s + 50, (n * M) + e)]] : s \in Samples }
SampleP2s ==
  { [n \in 0 .. (V * O) - 1 |-> [e \in 0 .. M - 1 |-> Mix(s + 90, (n * M) + e)]] : s \in Samples }
AllVinegars == [0 .. V - 1 -> F]
SampleTargets == { [e \in 0 .. M - 1 |-> Mix(s, e)] : s \in Samples }
=============================================================================

----------------------------- MODULE MCGaussElim -----------------------------
(* GF(4) for the instances of GaussElim: 0, and 1, 2, 3 the powers g^0,    *)
(* g^1, g^2 of a generator.                                                *)
EXTENDS SimdElim

GFPlus(x, y) == IF x = 0 THEN y ELSE IF y = 0 THEN x ELSE IF x = y THEN 0 ELSE 6 - (x + y)
GFTimes(x, y) == IF x = 0 \/ y = 0 THEN 0 ELSE 1 + (((x + y) - 2) % 3)
GFInv(x) == IF x = 0 THEN 0 ELSE 1 + ((4 - x) % 3)

(* 4 by 4 systems, column by column: every pattern of zeros in the first   *)
(* two columns, which makes pivots that need one, two or three rows below  *)
(* them, and singular systems of every rank.                               *)
Weights == <<1, 2, 3, 1, 2, 2, 1, 3, 3, 1, 1, 2, 1, 3, 2, 2>>
MCSystems ==
  { [a |-> [k \in 0 .. 15 |-> IF k \in zeros THEN 0 ELSE Weights[k + 1]],
     c |-> [r \in 0 .. 3 |-> IF r = free THEN 0 ELSE r]] :
    zeros \in { z \cup t : z \in SUBSET (0 .. 7), t \in {{}, {8, 9}, {9, 10, 11, 13}} }, free \in {1, 3} }
=============================================================================

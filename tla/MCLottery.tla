----------------------------- MODULE MCLottery -----------------------------
(* Instances of Lottery: two preferences, one claimed by every application *)
(* but a1, one by a3 alone.                                                *)
EXTENDS Lottery, TLC

CONSTANTS a1, a3, q1, q2

MCClaims ==
    [q \in Question |-> IF q = q1 THEN Application \ {a1} ELSE Application \cap {a3}]

Symmetry == Permutations(Generation)
=============================================================================

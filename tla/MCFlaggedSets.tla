--------------------------- MODULE MCFlaggedSets ---------------------------
(* Instances of FlaggedSets: one listing with every application, or two    *)
(* listings with a1 and a2 on the first and the others on the second.      *)
EXTENDS FlaggedSets, TLC

CONSTANTS a1, a2, l1, l2, e1, n0, n1

OneListing == [a \in Application |-> l1]
TwoListings == [a \in Application |-> IF a \in {a1, a2} THEN l1 ELSE l2]

\* A name of its own, a shared name, a shared name and e-mail address.
MCKeySets == {{}, {n1}, {e1, n1}}

Symmetry == Permutations(Application) \cup Permutations(SetId)
=============================================================================

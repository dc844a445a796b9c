--------------------------- MODULE MatchingGroups ---------------------------
(***************************************************************************)
(* What the merge inside processDuplicates promises, without saying how:   *)
(* the matching groups it hands on are the connected components of the     *)
(* rows it was given, each found at once and whole, in any order.          *)
(* DuplicateGroups, which follows one application at a time, implements    *)
(* it.                                                                     *)
(***************************************************************************)
EXTENDS FlagRules

VARIABLES rows,    \* what the query returned
          found    \* the matching groups so far

foundVars == <<rows, found>>

Init == rows \in SUBSET (Key \X Application) /\ found = {}

Find ==
    /\ \E K \in Components(rows) \ found : found' = found \cup {K}
    /\ UNCHANGED rows

Spec == Init /\ [][Find]_foundVars
=============================================================================

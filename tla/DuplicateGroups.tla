-------------------------- MODULE DuplicateGroups --------------------------
(***************************************************************************)
(* The merge of overlapping groups inside processDuplicates                *)
(* (application-flagged-set.service.ts).  The while loop takes an          *)
(* application out of applicationToGroupList, and                          *)
(* groupByIntersectingIdsAndRemoveFromList follows, recursively, every     *)
(* application that shares a group with one already taken.  One action is  *)
(* one application taken out of the list; the order in which the recursion *)
(* reaches them is left open.                                              *)
(***************************************************************************)
EXTENDS FlagRules

VARIABLES view,     \* the rows of the query, fixed during the merge
          list,     \* DOMAIN of applicationToGroupList
          current,  \* individualMatchingGroup, repeated groups removed
          merged    \* matchingGroups

vars == <<view, list, current, merged>>

\* An application has one primary applicant, hence at most one e-mail row.
OneEmail(rows) ==
    \A a \in Application : \A d, e \in Email :
        <<d, a>> \in rows /\ <<e, a>> \in rows => d = e

Init ==
    /\ view \in SUBSET (Key \X Application)
    /\ OneEmail(view)
    /\ list = {a \in Application : KeysOf(view, a) # {}}
    /\ current = {}
    /\ merged = {}

\* Variant of Take: the entry is not deleted from the list.
TakeKeepsEntry(a) ==
    /\ a \in list
    /\ current' = current \cup KeysOf(view, a)
    /\ UNCHANGED <<view, list, merged>>

Take(a) ==
    /\ a \in list
    /\ list' = list \ {a}
    /\ current' = current \cup KeysOf(view, a)
    /\ UNCHANGED <<view, merged>>

\* Variant of Reachable: only a single shared e-mail group is followed.
ReachableByEmail(a) == KeysOf(view, a) \cap current \cap Email # {}

\* An application of the list that shares a group with one already taken.
Reachable(a) == KeysOf(view, a) \cap current # {}

\* The while loop picks the first entry that is left.
Seed(a) == current = {} /\ Take(a)

\* The recursion visits an application of a group it holds.
Follow(a) == Reachable(a) /\ Take(a)

\* Variant of Emit: the recursion may stop while groups still overlap.
EmitEarly ==
    /\ current # {}
    /\ merged' = merged \cup {current}
    /\ current' = {}
    /\ UNCHANGED <<view, list>>

\* The recursion is over: the merged groups become one matching group.
Emit ==
    /\ current # {}
    /\ \A a \in list : ~Reachable(a)
    /\ merged' = merged \cup {current}
    /\ current' = {}
    /\ UNCHANGED <<view, list>>

Next == (\E a \in Application : Seed(a) \/ Follow(a)) \/ Emit

Spec == Init /\ [][Next]_vars /\ WF_vars(Next)

Done == list = {} /\ current = {}

----------------------------------------------------------------------------
TypeOK ==
    /\ view \in SUBSET (Key \X Application)
    /\ list \in SUBSET Application
    /\ current \in SUBSET FlaggedKeys(view)
    /\ merged \in SUBSET SUBSET FlaggedKeys(view)

(* The strengthening that makes the two properties below inductive. *)

\* An application that left the list took all its groups into one set.
TakenTogether ==
    \A a \in Application \ list :
        \E K \in merged \cup {current} : KeysOf(view, a) \subseteq K

\* What was emitted is closed, and nothing left in the list touches it.
EmittedIsClosed ==
    \A K \in merged :
        /\ K # {}
        /\ K \cap current = {}
        /\ Closed(view, K)
        /\ \A a \in list : KeysOf(view, a) \cap K = {}

\* No closed set of groups splits a matching set: its groups are chained.
Chained ==
    \A K \in merged \cup {current} : \A J \in SUBSET FlaggedKeys(view) :
        Closed(view, J) /\ J \cap K # {} => K \subseteq J

MergeInv == TypeOK /\ TakenTogether /\ EmittedIsClosed /\ Chained

(* While the merge runs, what it has emitted is already right: no          *)
(* application belongs to two matching groups, nor to one that is emitted  *)
(* and the one being built.  Two flagged sets that shared an application   *)
(* would let one review mark it a duplicate and the other mark it valid.   *)
NoApplicationInTwo ==
    \A K, L \in merged \cup {current} :
        K # L => MembersOf(view, K) \cap MembersOf(view, L) = {}

(* When the loop ends the matching groups are exactly the connected        *)
(* components: every flagged group is in one, groups are together only if  *)
(* a chain of shared applications joins them.                              *)
MergeIsComponents == Done => merged = Components(view)

Matching == INSTANCE MatchingGroups WITH rows <- view, found <- merged

(* The merge implements MatchingGroups: at no time has it handed on part   *)
(* of a component, two components as one, or a component twice.            *)
ImplementsMatching == Matching!Spec

(* The loop ends, so that a cron run is never stuck on a listing.          *)
MergeEnds == <>Done
=============================================================================

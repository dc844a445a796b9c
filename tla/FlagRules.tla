----------------------------- MODULE FlagRules -----------------------------
(***************************************************************************)
(* The rules by which applications to one listing are possible duplicates. *)
(* The database view application_flagged_set_possibilities gives rows      *)
(* <<key, application>>: a key is an e-mail address of the primary         *)
(* applicant, or the name and date of birth of the applicant or of a       *)
(* household member.  The operators below are what processDuplicates       *)
(* (application-flagged-set.service.ts) computes from those rows.          *)
(***************************************************************************)
EXTENDS FiniteSets

CONSTANTS Application,  \* ids of applications
          Email,        \* keys of type RuleEnum.email
          Name          \* keys of type RuleEnum.nameAndDOB

ASSUME KeysAreDisjoint == Email \cap Name = {}

Key == Email \cup Name

\* The rows a set of applications contributes to the view.
View(live, keys) == {row \in Key \X live : row[1] \in keys[row[2]]}

\* One group of the raw query: the applications that share the key k.
GroupOf(view, k) == {a \in Application : <<k, a>> \in view}

\* HAVING count(application_id) > 1
FlaggedKeys(view) ==
    {k \in Key : \E a, b \in GroupOf(view, k) : a # b}

\* applicationToGroupList[a]: the flagged groups the application is in.
KeysOf(view, a) == {k \in FlaggedKeys(view) : a \in GroupOf(view, k)}

\* The applications of a set of groups that were merged.
MembersOf(view, K) == UNION {GroupOf(view, k) : k \in K}

----------------------------------------------------------------------------
(* The reference definition of the merge: connected components of groups   *)
(* that share applications.                                                *)

Linked(view, j, k) == GroupOf(view, j) \cap GroupOf(view, k) # {}

Closed(view, K) ==
    \A k \in K, j \in FlaggedKeys(view) : Linked(view, j, k) => j \in K

Components(view) ==
    {K \in SUBSET FlaggedKeys(view) :
        /\ K # {}
        /\ Closed(view, K)
        /\ \A J \in SUBSET K : J # {} /\ Closed(view, J) => J = K}

----------------------------------------------------------------------------
(* The rule key of a merged set.  The code joins the name keys, sorted,    *)
(* and puts in front the first e-mail group it finds: which one that is,   *)
(* when there are several, depends on the order of the rows, which the     *)
(* query leaves open.  A joined string is modelled by the set of its keys. *)

RuleKeys(K) ==
    IF K \cap Email = {} THEN {K} ELSE {{e} \cup (K \cap Name) : e \in K \cap Email}

\* constructedFlaggedSets: every outcome the order of the rows allows.
Constructions(view) ==
    LET C == Components(view)
    IN  {{[rule |-> pick[K], apps |-> MembersOf(view, K)] : K \in C} :
            pick \in {f \in [C -> SUBSET Key] : \A K \in C : f[K] \in RuleKeys(K)}}

RuleKey == SUBSET Key
=============================================================================

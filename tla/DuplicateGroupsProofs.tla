----------------------- MODULE DuplicateGroupsProofs -----------------------
(***************************************************************************)
(* The merge of DuplicateGroups computes the connected components of any   *)
(* set of groups, over any set of applications.  The argument is the       *)
(* inductive invariant MergeInv: an application takes all its groups into  *)
(* one matching set, an emitted set is closed under shared applications,   *)
(* and every closed set that meets a matching set contains it.             *)
(***************************************************************************)
EXTENDS DuplicateGroups, TLAPS

\* Two flagged groups of one application are linked: a closed set that has
\* one of them has the other.
LEMMA SharedApplication ==
    ASSUME NEW v, NEW a \in Application, NEW J \in SUBSET FlaggedKeys(v),
           Closed(v, J), KeysOf(v, a) \cap J # {}
    PROVE  KeysOf(v, a) \subseteq J
<1>1. PICK k \in J : k \in KeysOf(v, a)
  OBVIOUS
<1>2. ASSUME NEW j \in KeysOf(v, a) PROVE j \in J
  <2>1. a \in GroupOf(v, k) /\ a \in GroupOf(v, j) /\ j \in FlaggedKeys(v)
    BY <1>1 DEF KeysOf
  <2>2. Linked(v, j, k) /\ Linked(v, k, j)
    BY <2>1 DEF Linked
  <2> QED BY <1>1, <2>1, <2>2 DEF Closed
<1> QED BY <1>2

\* The merge starts from the invariant.
LEMMA MergeInit == Init => MergeInv
<1> SUFFICES ASSUME Init PROVE MergeInv
  OBVIOUS
<1>1. TypeOK
  BY DEF Init, TypeOK
<1>2. TakenTogether
  BY DEF Init, TakenTogether
<1>3. EmittedIsClosed
  BY DEF Init, EmittedIsClosed
<1>4. Chained
  BY DEF Init, Chained
<1> QED BY <1>1, <1>2, <1>3, <1>4 DEF MergeInv

\* Taking an application, as a seed or by recursion, keeps the invariant.
LEMMA TakeKeeps ==
    ASSUME MergeInv, NEW a \in Application, Seed(a) \/ Follow(a)
    PROVE  MergeInv'
<1> DEFINE A == KeysOf(view, a)
<1>1. /\ a \in list /\ list' = list \ {a} /\ current' = current \cup A
      /\ view' = view /\ merged' = merged
  BY DEF Seed, Follow, Take
<1>2. current = {} \/ A \cap current # {}
  BY DEF Seed, Follow, Reachable
<1>3. A \subseteq FlaggedKeys(view)
  BY DEF KeysOf
<1>4. TypeOK'
  BY <1>1, <1>3 DEF MergeInv, TypeOK
<1>5. TakenTogether'
  <2> SUFFICES ASSUME NEW b \in Application \ list'
               PROVE  \E K \in merged' \cup {current'} : KeysOf(view', b) \subseteq K
    BY DEF TakenTogether
  <2>1. CASE b = a
    BY <1>1, <2>1
  <2>2. CASE b # a
    <3>1. PICK K \in merged \cup {current} : KeysOf(view, b) \subseteq K
      BY <1>1, <2>2 DEF MergeInv, TakenTogether
    <3>2. CASE K \in merged
      BY <1>1, <3>1, <3>2
    <3>3. CASE K = current
      BY <1>1, <3>1, <3>3
    <3> QED BY <3>1, <3>2, <3>3
  <2> QED BY <2>1, <2>2
<1>6. EmittedIsClosed'
  <2> SUFFICES ASSUME NEW K \in merged'
               PROVE  /\ K # {}
                      /\ K \cap current' = {}
                      /\ Closed(view', K)
                      /\ \A b \in list' : KeysOf(view', b) \cap K = {}
    BY DEF EmittedIsClosed
  <2>1. /\ K # {} /\ K \cap current = {} /\ Closed(view, K)
        /\ \A b \in list : KeysOf(view, b) \cap K = {}
    BY <1>1 DEF MergeInv, EmittedIsClosed
  <2> QED BY <1>1, <2>1
<1>7. Chained'
  <2> SUFFICES ASSUME NEW K \in merged' \cup {current'},
                      NEW J \in SUBSET FlaggedKeys(view'),
                      Closed(view', J), J \cap K # {}
               PROVE  K \subseteq J
    BY DEF Chained
  <2>0. J \in SUBSET FlaggedKeys(view) /\ Closed(view, J)
    BY <1>1
  <2>1. CASE K \in merged
    BY <1>1, <2>0, <2>1 DEF MergeInv, Chained
  <2>2. CASE K = current'
    <3>1. ASSUME A \cap J # {} PROVE A \subseteq J
      BY <2>0, <3>1, SharedApplication
    <3>2. ASSUME current \cap J # {} PROVE current \subseteq J
      BY <2>0, <3>2 DEF MergeInv, Chained
    <3>3. A \cap J # {} \/ current \cap J # {}
      BY <1>1, <2>2
    <3>4. current = {} => A \subseteq J /\ current \subseteq J
      BY <3>1, <3>3
    <3>5. A \cap current # {} => A \subseteq J /\ current \subseteq J
      BY <3>1, <3>2, <3>3
    <3> QED BY <1>1, <1>2, <2>2, <3>4, <3>5
  <2> QED BY <1>1, <2>1, <2>2
<1> QED BY <1>4, <1>5, <1>6, <1>7 DEF MergeInv

\* Emitting the current set keeps the invariant: no application left in the
\* list shares a group with it, so it is closed.
LEMMA EmitKeeps == ASSUME MergeInv, Emit PROVE MergeInv'
<1>1. /\ current # {} /\ merged' = merged \cup {current} /\ current' = {}
      /\ view' = view /\ list' = list
      /\ \A a \in list : KeysOf(view, a) \cap current = {}
  BY DEF Emit, Reachable
<1>2. TypeOK'
  BY <1>1 DEF MergeInv, TypeOK
<1>3. Closed(view, current)
  <2> SUFFICES ASSUME NEW k \in current, NEW j \in FlaggedKeys(view), Linked(view, j, k)
               PROVE  j \in current
    BY DEF Closed
  <2>1. PICK a \in Application : a \in GroupOf(view, j) /\ a \in GroupOf(view, k)
    BY DEF Linked, GroupOf
  <2>2. k \in KeysOf(view, a) /\ j \in KeysOf(view, a)
    BY <2>1 DEF KeysOf, MergeInv, TypeOK
  <2>3. a \notin list
    BY <1>1, <2>2
  <2>4. PICK K \in merged \cup {current} : KeysOf(view, a) \subseteq K
    BY <2>3 DEF MergeInv, TakenTogether
  <2>5. K \notin merged
    BY <2>2, <2>4 DEF MergeInv, EmittedIsClosed
  <2> QED BY <2>2, <2>4, <2>5
<1>4. TakenTogether'
  BY <1>1 DEF MergeInv, TakenTogether
<1>5. EmittedIsClosed'
  BY <1>1, <1>3 DEF MergeInv, EmittedIsClosed
<1>6. Chained'
  BY <1>1 DEF MergeInv, Chained
<1> QED BY <1>2, <1>4, <1>5, <1>6 DEF MergeInv

\* MergeInv holds in every state of the merge.
THEOREM MergeInvariant == Spec => []MergeInv
<1>1. Init => MergeInv
  BY MergeInit
<1>2. MergeInv /\ [Next]_vars => MergeInv'
  <2> SUFFICES ASSUME MergeInv, [Next]_vars PROVE MergeInv'
    OBVIOUS
  <2>1. ASSUME NEW a \in Application, Seed(a) \/ Follow(a) PROVE MergeInv'
    BY <2>1, TakeKeeps
  <2>2. CASE Emit
    BY <2>2, EmitKeeps
  <2>3. CASE UNCHANGED vars
    BY <2>3 DEF vars, MergeInv, TypeOK, TakenTogether, EmittedIsClosed, Chained
  <2> QED BY <2>1, <2>2, <2>3 DEF Next
<1> QED BY <1>1, <1>2, PTL DEF Spec

\* Two matching sets that share a group are one set.
LEMMA MatchingSetsDisjoint ==
    ASSUME MergeInv, NEW K \in merged \cup {current}, NEW L \in merged \cup {current},
           NEW k, k \in K, k \in L
    PROVE  K = L
<1>1. CASE K = current /\ L = current
  BY <1>1
<1>2. CASE K \in merged /\ L \in merged
  <2>1. K \in SUBSET FlaggedKeys(view) /\ L \in SUBSET FlaggedKeys(view)
    BY <1>2 DEF MergeInv, TypeOK
  <2>2. Closed(view, K) /\ Closed(view, L)
    BY <1>2 DEF MergeInv, EmittedIsClosed
  <2>3. K \subseteq L /\ L \subseteq K
    BY <1>2, <2>1, <2>2 DEF MergeInv, Chained
  <2> QED BY <2>3
<1>3. CASE K \in merged /\ L = current
  BY <1>3 DEF MergeInv, EmittedIsClosed
<1>4. CASE K = current /\ L \in merged
  BY <1>4 DEF MergeInv, EmittedIsClosed
<1> QED BY <1>1, <1>2, <1>3, <1>4

\* No application is in two matching sets, for any applications and keys.
THEOREM MergeNoApplicationInTwo == Spec => []NoApplicationInTwo
<1>1. MergeInv => NoApplicationInTwo
  <2> SUFFICES ASSUME MergeInv, NEW K \in merged \cup {current}, NEW L \in merged \cup {current},
                      NEW a, a \in MembersOf(view, K), a \in MembersOf(view, L)
               PROVE  K = L
    BY DEF NoApplicationInTwo
  <2>1. PICK k \in K : a \in GroupOf(view, k)
    BY DEF MembersOf
  <2>2. PICK l \in L : a \in GroupOf(view, l)
    BY DEF MembersOf
  <2>3. a \in Application /\ k \in FlaggedKeys(view) /\ l \in FlaggedKeys(view)
    BY <2>1 DEF GroupOf, MergeInv, TypeOK
  <2>4. k \in KeysOf(view, a) /\ l \in KeysOf(view, a)
    BY <2>1, <2>2, <2>3 DEF KeysOf
  <2>5. CASE a \in list
    <3>1. K \notin merged /\ L \notin merged
      BY <2>4, <2>5 DEF MergeInv, EmittedIsClosed
    <3> QED BY <3>1
  <2>6. CASE a \notin list
    <3>1. PICK M \in merged \cup {current} : KeysOf(view, a) \subseteq M
      BY <2>3, <2>6 DEF MergeInv, TakenTogether
    <3>2. k \in M /\ l \in M
      BY <2>4, <3>1
    <3>3. K = M /\ L = M
      BY <3>2, MatchingSetsDisjoint
    <3> QED BY <3>3
  <2> QED BY <2>5, <2>6
<1> QED BY <1>1, MergeInvariant, PTL

\* A set of flagged groups that is closed, and in every closed set it meets,
\* is a component.
LEMMA ClosedAndChained ==
    ASSUME NEW v, NEW K \in SUBSET FlaggedKeys(v), K # {}, Closed(v, K),
           \A J \in SUBSET FlaggedKeys(v) : Closed(v, J) /\ J \cap K # {} => K \subseteq J
    PROVE  K \in Components(v)
<1>1. ASSUME NEW J \in SUBSET K, J # {}, Closed(v, J) PROVE J = K
  <2>1. J \in SUBSET FlaggedKeys(v) /\ J \cap K # {}
    BY <1>1
  <2>2. K \subseteq J
    BY <1>1, <2>1
  <2> QED BY <2>2
<1> QED BY <1>1 DEF Components

\* When the loop ends, the matching groups are the connected components.
THEOREM MergeCorrect == Spec => []MergeIsComponents
<1>1. MergeInv => MergeIsComponents
  <2> SUFFICES ASSUME MergeInv, Done PROVE merged = Components(view)
    BY DEF MergeIsComponents
  <2>1. ASSUME NEW K \in merged PROVE K \in Components(view)
    BY <2>1, ClosedAndChained DEF MergeInv, TypeOK, EmittedIsClosed, Chained
  <2>2. ASSUME NEW K \in Components(view) PROVE K \in merged
    <3>1. /\ K \in SUBSET FlaggedKeys(view) /\ K # {} /\ Closed(view, K)
          /\ \A J \in SUBSET K : J # {} /\ Closed(view, J) => J = K
      BY <2>2 DEF Components
    <3>2. PICK k \in K : TRUE
      BY <3>1
    <3>3. PICK a \in Application : a \in GroupOf(view, k)
      BY <3>1 DEF FlaggedKeys, GroupOf
    <3>4. k \in KeysOf(view, a)
      BY <3>1, <3>3 DEF KeysOf
    <3>5. PICK M \in merged \cup {current} : KeysOf(view, a) \subseteq M
      BY DEF MergeInv, TakenTogether, Done
    <3>6. M \in merged /\ k \in M
      BY <3>4, <3>5 DEF Done
    <3>7. M \subseteq K
      BY <3>1, <3>6 DEF MergeInv, Chained
    <3>8. M # {} /\ Closed(view, M)
      BY <3>6 DEF MergeInv, EmittedIsClosed
    <3>9. M = K
      BY <3>1, <3>7, <3>8
    <3> QED BY <3>6, <3>9
  <2> QED BY <2>1, <2>2
<1> QED BY <1>1, MergeInvariant, PTL

\* MatchingGroups means the same components.
LEMMA SameComponents == Matching!Key = Key /\ \A v : Matching!Components(v) = Components(v)
<1>1. Matching!Key = Key
  BY DEF Matching!Key, Key
<1>2. \A v, k : Matching!GroupOf(v, k) = GroupOf(v, k)
  BY DEF Matching!GroupOf, GroupOf
<1>3. \A v : Matching!FlaggedKeys(v) = FlaggedKeys(v)
  BY <1>1, <1>2 DEF Matching!FlaggedKeys, FlaggedKeys
<1>4. \A v, K : Matching!Closed(v, K) <=> Closed(v, K)
  BY <1>2, <1>3 DEF Matching!Closed, Closed, Matching!Linked, Linked
<1> QED BY <1>1, <1>3, <1>4 DEF Matching!Components, Components

\* The merge implements MatchingGroups: every group it hands on is a whole
\* component, and a new one.
THEOREM MergeImplementsMatching == Spec => ImplementsMatching
<1>1. Init => Matching!Init
  BY SameComponents DEF Init, Matching!Init
<1>2. MergeInv /\ MergeInv' /\ [Next]_vars => [Matching!Find]_(Matching!foundVars)
  <2> SUFFICES ASSUME MergeInv, MergeInv', [Next]_vars
               PROVE  Matching!Find \/ (view' = view /\ merged' = merged)
    BY DEF Matching!foundVars
  <2>1. ASSUME NEW a \in Application, Seed(a) \/ Follow(a)
        PROVE  view' = view /\ merged' = merged
    BY <2>1 DEF Seed, Follow, Take
  <2>2. CASE Emit
    <3>1. merged' = merged \cup {current} /\ view' = view /\ current # {}
      BY <2>2 DEF Emit
    <3>2. current \in Components(view)
      BY <3>1, ClosedAndChained DEF MergeInv, TypeOK, EmittedIsClosed, Chained
    <3>3. current \notin merged
      BY <3>1 DEF MergeInv, EmittedIsClosed
    <3> QED BY <3>1, <3>2, <3>3, SameComponents DEF Matching!Find
  <2> QED BY <2>1, <2>2 DEF Next, vars
<1> QED BY <1>1, <1>2, MergeInvariant, PTL
      DEF Spec, ImplementsMatching, Matching!Spec
=============================================================================

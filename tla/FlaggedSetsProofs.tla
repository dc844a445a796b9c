------------------------- MODULE FlaggedSetsProofs -------------------------
(***************************************************************************)
(* Proofs about FlaggedSets, for any applications, listings, keys and      *)
(* bounds: facts about the rules, and the types.                           *)
(***************************************************************************)
EXTENDS FlaggedSets, TLAPS

USE HomeAssumption, KeySetsAssumption, NoSetAssumption

----------------------------------------------------------------------------
(* Facts about the rules. *)

\* Two components that share a key are one.
LEMMA ComponentsDisjoint ==
    ASSUME NEW v, NEW K \in Components(v), NEW L \in Components(v), K \cap L # {}
    PROVE  K = L
<1> DEFINE M == K \cap L
<1>1. /\ K \in SUBSET FlaggedKeys(v) /\ Closed(v, K)
      /\ \A J \in SUBSET K : J # {} /\ Closed(v, J) => J = K
  BY DEF Components
<1>2. /\ L \in SUBSET FlaggedKeys(v) /\ Closed(v, L)
      /\ \A J \in SUBSET L : J # {} /\ Closed(v, J) => J = L
  BY DEF Components
<1>3. Closed(v, M)
  BY <1>1, <1>2 DEF Closed
<1>4. M = K /\ M = L
  BY <1>1, <1>2, <1>3
<1> QED BY <1>4

\* The rule key of a component is a non-empty part of it.
LEMMA RuleKeyOfComponent ==
    ASSUME NEW v, NEW K \in Components(v), NEW r \in RuleKeys(K)
    PROVE  r # {} /\ r \subseteq K /\ r \in RuleKey
<1>1. K # {} /\ K \subseteq Key
  BY DEF Components, FlaggedKeys
<1>2. CASE K \cap Email = {}
  BY <1>1, <1>2 DEF RuleKeys, RuleKey
<1>3. CASE K \cap Email # {}
  <2>1. PICK e \in K \cap Email : r = {e} \cup (K \cap Name)
    BY <1>3 DEF RuleKeys
  <2> QED BY <1>1, <2>1 DEF RuleKey
<1> QED BY <1>2, <1>3

\* What a constructed set is made of.
LEMMA ConstructedSet ==
    ASSUME NEW v, NEW want \in Constructions(v)
    PROVE  \E pick \in [Components(v) -> SUBSET Key] :
              /\ \A K \in Components(v) : pick[K] \in RuleKeys(K)
              /\ want = {[rule |-> pick[K], apps |-> MembersOf(v, K)] : K \in Components(v)}
BY DEF Constructions

\* Constructed sets are told apart by their rule keys.
LEMMA RuleKeysDiffer ==
    ASSUME NEW v, NEW want \in Constructions(v), NEW w \in want, NEW x \in want,
           w.rule = x.rule
    PROVE  w = x
<1>1. PICK pick \in [Components(v) -> SUBSET Key] :
          /\ \A K \in Components(v) : pick[K] \in RuleKeys(K)
          /\ want = {[rule |-> pick[K], apps |-> MembersOf(v, K)] : K \in Components(v)}
  BY ConstructedSet
<1>2. PICK K \in Components(v) : w = [rule |-> pick[K], apps |-> MembersOf(v, K)]
  BY <1>1
<1>3. PICK L \in Components(v) : x = [rule |-> pick[L], apps |-> MembersOf(v, L)]
  BY <1>1
<1>4. pick[K] = pick[L]
  BY <1>2, <1>3
<1>5. pick[K] # {} /\ pick[K] \subseteq K /\ pick[L] \subseteq L
  BY <1>1, RuleKeyOfComponent
<1>6. K = L
  BY <1>4, <1>5, ComponentsDisjoint
<1> QED BY <1>2, <1>3, <1>6

\* A constructed set holds applications of the rows, and has a rule key.
LEMMA ConstructedFrom ==
    ASSUME NEW v, NEW S \in SUBSET Application, v \subseteq Key \X S,
           NEW want \in Constructions(v), NEW w \in want
    PROVE  /\ w = [rule |-> w.rule, apps |-> w.apps]
           /\ w.rule \in RuleKey
           /\ w.apps \subseteq S
<1>1. PICK pick \in [Components(v) -> SUBSET Key] :
          /\ \A K \in Components(v) : pick[K] \in RuleKeys(K)
          /\ want = {[rule |-> pick[K], apps |-> MembersOf(v, K)] : K \in Components(v)}
  BY ConstructedSet
<1>2. PICK K \in Components(v) : w = [rule |-> pick[K], apps |-> MembersOf(v, K)]
  BY <1>1
<1>3. ASSUME NEW a \in MembersOf(v, K) PROVE a \in S
  <2>1. PICK k \in K : <<k, a>> \in v
    BY DEF MembersOf, GroupOf
  <2>2. <<k, a>> \in Key \X S
    BY <2>1
  <2> QED BY <2>2
<1> QED BY <1>1, <1>2, <1>3, RuleKeyOfComponent

\* The rows of a listing are of its live applications.
LEMMA ViewRows ==
    ASSUME NEW l
    PROVE  CurrentView(l) \subseteq Key \X {a \in AppsAt(l) : state[a] = "live"}
BY DEF CurrentView, View

----------------------------------------------------------------------------
(* Types. *)

LEMMA TypeInit == Init => TypeOK
<1> SUFFICES ASSUME Init PROVE TypeOK
  OBVIOUS
<1>1. AppTypeOK
  BY DEF Init, AppTypeOK
<1>2. ListingTypeOK
  BY DEF Init, ListingTypeOK
<1>3. SetTypeOK
  BY DEF Init, SetTypeOK
<1>4. RunTypeOK
  BY DEF Init, RunTypeOK, IdleRun
<1>5. ReviewTypeOK
  BY DEF Init, ReviewTypeOK, IdleReview
<1>6. CountTypeOK
  BY BoundAssumption DEF Init, CountTypeOK
<1> QED BY <1>1, <1>2, <1>3, <1>4, <1>5, <1>6 DEF TypeOK

\* A request on an application keeps the types.
LEMMA TypeApplication ==
    ASSUME TypeOK, NEW a \in Application, ApplicationStep(a) PROVE TypeOK'
<1> USE BoundAssumption DEF TypeOK
<1>1. ASSUME NEW K \in KeySets, CreateApplication(a, K) PROVE TypeOK'
  <2>1. AppTypeOK'
    BY <1>1 DEF CreateApplication, AppTypeOK
  <2>2. ListingTypeOK'
    BY <1>1 DEF CreateApplication, Spoil, ListingTypeOK
  <2>3. CountTypeOK'
    BY <1>1 DEF CreateApplication, CanRequest, CountTypeOK
  <2>4. SetTypeOK' /\ RunTypeOK' /\ ReviewTypeOK'
    BY <1>1 DEF CreateApplication, SetTypeOK, RunTypeOK, ReviewTypeOK
  <2> QED BY <2>1, <2>2, <2>3, <2>4
<1>2. ASSUME NEW K \in KeySets, UpdateApplication(a, K) PROVE TypeOK'
  <2>1. AppTypeOK'
    BY <1>2 DEF UpdateApplication, AppTypeOK
  <2>2. ListingTypeOK'
    BY <1>2 DEF UpdateApplication, Spoil, ListingTypeOK
  <2>3. CountTypeOK'
    BY <1>2 DEF UpdateApplication, CanRequest, CountTypeOK
  <2>4. SetTypeOK' /\ RunTypeOK' /\ ReviewTypeOK'
    BY <1>2 DEF UpdateApplication, SetTypeOK, RunTypeOK, ReviewTypeOK
  <2> QED BY <2>1, <2>2, <2>3, <2>4
<1>3. CASE StampApplication(a)
  <2>1. AppTypeOK'
    BY <1>3 DEF StampApplication, AppTypeOK
  <2>2. ListingTypeOK'
    BY <1>3 DEF StampApplication, Stamp, StampOutcomes, ListingTypeOK
  <2>3. CountTypeOK' /\ SetTypeOK' /\ RunTypeOK' /\ ReviewTypeOK'
    BY <1>3 DEF StampApplication, CountTypeOK, SetTypeOK, RunTypeOK, ReviewTypeOK
  <2> QED BY <2>1, <2>2, <2>3
<1>4. CASE RollBackCreate(a)
  <2>1. AppTypeOK'
    BY <1>4 DEF RollBackCreate, AppTypeOK
  <2>2. ListingTypeOK'
    BY <1>4 DEF RollBackCreate, Spoil, ListingTypeOK
  <2>3. SetTypeOK'
    BY <1>4 DEF RollBackCreate, SetTypeOK, FlaggedSet
  <2>4. CountTypeOK' /\ RunTypeOK' /\ ReviewTypeOK'
    BY <1>4 DEF RollBackCreate, CountTypeOK, RunTypeOK, ReviewTypeOK
  <2> QED BY <2>1, <2>2, <2>3, <2>4
<1>5. CASE BeginDelete(a)
  <2>1. AppTypeOK'
    BY <1>5 DEF BeginDelete, AppTypeOK
  <2>2. ListingTypeOK'
    BY <1>5 DEF BeginDelete, Stamp, StampOutcomes, ListingTypeOK
  <2>3. CountTypeOK'
    BY <1>5 DEF BeginDelete, CanRequest, CountTypeOK
  <2>4. SetTypeOK' /\ RunTypeOK' /\ ReviewTypeOK'
    BY <1>5 DEF BeginDelete, SetTypeOK, RunTypeOK, ReviewTypeOK
  <2> QED BY <2>1, <2>2, <2>3, <2>4
<1>6. CASE EndDelete(a)
  <2>1. AppTypeOK'
    BY <1>6 DEF EndDelete, AppTypeOK
  <2>2. ListingTypeOK'
    BY <1>6 DEF EndDelete, Spoil, ListingTypeOK
  <2>3. CountTypeOK' /\ SetTypeOK' /\ RunTypeOK' /\ ReviewTypeOK'
    BY <1>6 DEF EndDelete, CountTypeOK, SetTypeOK, RunTypeOK, ReviewTypeOK
  <2> QED BY <2>1, <2>2, <2>3
<1>7. CASE ClearApplication(a)
  <2>1. AppTypeOK'
    BY <1>7, BlankAssumption DEF ClearApplication, AppTypeOK, Key
  <2>2. ListingTypeOK'
    BY <1>7 DEF ClearApplication, Spoil, ListingTypeOK
  <2>3. CountTypeOK'
    BY <1>7 DEF ClearApplication, CountTypeOK
  <2>4. SetTypeOK' /\ RunTypeOK' /\ ReviewTypeOK'
    BY <1>7 DEF ClearApplication, SetTypeOK, RunTypeOK, ReviewTypeOK
  <2> QED BY <2>1, <2>2, <2>3, <2>4
<1> QED BY <1>1, <1>2, <1>3, <1>4, <1>5, <1>6, <1>7 DEF ApplicationStep

\* Starting a run.
LEMMA TypeBeginRun ==
    ASSUME RunTypeOK, NEW scope \in SUBSET Listing, NEW force \in BOOLEAN,
           BeginRun(scope, force)
    PROVE  RunTypeOK'
<1>1. DueListings(scope, force) \subseteq Listing
  BY DEF DueListings
<1> QED BY <1>1 DEF BeginRun, IdleRun, RunTypeOK

LEMMA UnfinishedType == ASSUME RunTypeOK PROVE Unfinished \subseteq Listing
BY DEF Unfinished, RunTypeOK

\* A step of the run keeps the types.
LEMMA TypeRunStep == ASSUME TypeOK, RunOK, RunStep PROVE TypeOK'
<1> USE DEF TypeOK
<1>1. ASSUME NEW l \in Listing, ReadGroups(l) PROVE TypeOK'
  <2>1. CurrentView(l) \in SUBSET (Key \X Application)
    BY ViewRows DEF AppsAt
  <2>2. RunTypeOK'
    BY <1>1, <2>1 DEF ReadGroups, RunTypeOK
  <2>3. ListingTypeOK'
    BY <1>1 DEF ReadGroups, ListingTypeOK
  <2>4. AppTypeOK' /\ CountTypeOK' /\ SetTypeOK' /\ ReviewTypeOK'
    BY <1>1 DEF ReadGroups, appVars, AppTypeOK, CountTypeOK, SetTypeOK, ReviewTypeOK
  <2> QED BY <2>2, <2>3, <2>4
<1>2. ASSUME NEW l \in Listing, ReadSets(l) PROVE TypeOK'
  <2> PICK want \in Constructions(run.view) :
        run' = [run EXCEPT
              !.pc = "write",
              !.drop = {i \in SetsAt(l) : \A w \in want : w.rule # afs[i].rule},
              !.save = {[set |-> SetOf(l, w.rule), rule |-> w.rule, apps |-> w.apps] :
                            w \in want \ FlaggedAt(l)},
              !.mark = run.due]
    BY <1>2 DEF ReadSets
  <2>1. SetsAt(l) \subseteq SetId
    BY DEF SetsAt, SetTypeOK
  <2>2. \A r : SetOf(l, r) \in SetId \cup {NoSet}
    BY <2>1 DEF SetOf
  <2>3. \A w \in want : w.rule \in RuleKey /\ w.apps \in SUBSET Application
    BY ConstructedFrom DEF RunTypeOK
  <2>4. run'.save \in SUBSET Write
    BY <2>2, <2>3 DEF Write, RunTypeOK
  <2>5. RunTypeOK'
    BY <2>1, <2>4 DEF RunTypeOK
  <2>6. AppTypeOK' /\ CountTypeOK' /\ SetTypeOK' /\ ReviewTypeOK' /\ ListingTypeOK'
    BY <1>2 DEF ReadSets, appVars, AppTypeOK, CountTypeOK, SetTypeOK, ReviewTypeOK,
                ListingTypeOK
  <2> QED BY <2>5, <2>6
<1>3. ASSUME NEW l \in Listing, MarkListing(l) PROVE TypeOK'
  <2>1. RunTypeOK'
    BY <1>3 DEF MarkListing, IdleRun, RunTypeOK
  <2>2. ListingTypeOK'
    BY <1>3 DEF MarkListing, MarkOutcomes, ListingTypeOK
  <2>3. AppTypeOK' /\ CountTypeOK' /\ SetTypeOK' /\ ReviewTypeOK'
    BY <1>3 DEF MarkListing, appVars, AppTypeOK, CountTypeOK, SetTypeOK, ReviewTypeOK
  <2> QED BY <2>1, <2>2, <2>3
<1>4. ASSUME NEW i \in run.drop, DropSet(i) PROVE TypeOK'
  <2>1. RunTypeOK'
    BY <1>4 DEF DropSet, RunTypeOK
  <2>2. SetTypeOK'
    BY <1>4 DEF DropSet, SetTypeOK
  <2>3. AppTypeOK' /\ CountTypeOK' /\ ListingTypeOK' /\ ReviewTypeOK'
    BY <1>4 DEF DropSet, appVars, AppTypeOK, CountTypeOK, ListingTypeOK, ReviewTypeOK
  <2> QED BY <2>1, <2>2, <2>3
<1>5. ASSUME NEW s \in run.save, UpdateSet(s) PROVE TypeOK'
  <2>1. s \in Write
    BY DEF RunTypeOK
  <2>2. RunTypeOK'
    BY <1>5 DEF UpdateSet, RunTypeOK
  <2>3. SetTypeOK'
    <3>1. afs' = [afs EXCEPT ![s.set].apps = s.apps, ![s.set].status = "pending"]
      BY <1>5 DEF UpdateSet
    <3>2. s.apps \in SUBSET Application
      BY <2>1 DEF Write
    <3>3. DOMAIN afs' = DOMAIN afs
      BY <3>1
    <3>4. ASSUME NEW j \in DOMAIN afs PROVE afs'[j] \in FlaggedSet
      BY <3>1, <3>2 DEF SetTypeOK, FlaggedSet
    <3>5. afs' = [j \in DOMAIN afs' |-> afs'[j]]
      BY <3>1
    <3> QED BY <3>3, <3>4, <3>5 DEF SetTypeOK
  <2>4. ReviewTypeOK'
    BY <1>5, <2>1 DEF UpdateSet, ReviewTypeOK
  <2>5. AppTypeOK' /\ CountTypeOK' /\ ListingTypeOK'
    BY <1>5 DEF UpdateSet, appVars, AppTypeOK, CountTypeOK, ListingTypeOK
  <2> QED BY <2>2, <2>3, <2>4, <2>5
<1>6. ASSUME NEW s \in run.save, CreateSet(s) PROVE TypeOK'
  <2>1. s \in Write
    BY DEF RunTypeOK
  <2>2. RunTypeOK'
    BY <1>6 DEF CreateSet, RunTypeOK
  <2>3. PICK l \in Listing : run.at = {l}
    BY <1>6 DEF CreateSet, RunOK, RunTypeOK
  <2>4. ASSUME Connectable(s.apps) PROVE SetTypeOK'
    <3>1. (CHOOSE m \in run.at : TRUE) = l
      BY <2>3
    <3>2. PICK i \in SetId :
             afs' = [j \in DOMAIN afs \cup {i} |->
                       IF j = i THEN [listing |-> l, rule |-> s.rule, apps |-> s.apps,
                                      status |-> "pending", seen |-> {}]
                       ELSE afs[j]]
      BY <1>6, <2>4, <3>1 DEF CreateSet
    <3>3. [listing |-> l, rule |-> s.rule, apps |-> s.apps, status |-> "pending",
           seen |-> {}] \in FlaggedSet
      BY <2>1 DEF FlaggedSet, Write
    <3> QED BY <3>2, <3>3 DEF SetTypeOK
  <2>5. ASSUME ~Connectable(s.apps) PROVE SetTypeOK'
    BY <1>6, <2>5 DEF CreateSet, SetTypeOK
  <2>6. AppTypeOK' /\ CountTypeOK' /\ ListingTypeOK' /\ ReviewTypeOK'
    BY <1>6 DEF CreateSet, appVars, AppTypeOK, CountTypeOK, ListingTypeOK, ReviewTypeOK
  <2> QED BY <2>2, <2>4, <2>5, <2>6
<1>7. ASSUME NEW s \in run.save, UpdateSetFails(s) PROVE TypeOK'
  <2>1. RunTypeOK' /\ ListingTypeOK'
    BY <1>7, UnfinishedType DEF UpdateSetFails, AbortRun, IdleRun, RunTypeOK, ListingTypeOK
  <2>2. AppTypeOK' /\ CountTypeOK' /\ SetTypeOK' /\ ReviewTypeOK'
    BY <1>7 DEF UpdateSetFails, AbortRun, appVars, AppTypeOK, CountTypeOK, SetTypeOK,
                ReviewTypeOK
  <2> QED BY <2>1, <2>2
<1> QED BY <1>1, <1>2, <1>3, <1>4, <1>5, <1>6, <1>7 DEF RunStep

\* A step of a review keeps the types.
LEMMA TypeReview ==
    ASSUME TypeOK, ReviewRequest \/ ReviewStep
    PROVE  TypeOK'
<1> USE DEF TypeOK
<1>1. CASE ReviewRequest
  <2>1. AppTypeOK' /\ ListingTypeOK' /\ SetTypeOK' /\ RunTypeOK'
    BY <1>1 DEF ReviewRequest, OpenReview, BeginReview, appVars, AppTypeOK, ListingTypeOK,
                SetTypeOK, RunTypeOK
  <2>2. ASSUME NEW i \in DOMAIN afs, OpenReview(i) PROVE ReviewTypeOK' /\ CountTypeOK'
    <3>1. i \in SetId /\ afs[i].apps \subseteq Application
      BY DEF SetTypeOK, FlaggedSet
    <3> QED BY <2>2, <3>1 DEF OpenReview, IdleReview, ReviewTypeOK, CountTypeOK
  <2>3. ASSUME NEW chosen \in SUBSET review.saw, NEW outcome \in {"pending", "resolved"},
               BeginReview(chosen, outcome)
        PROVE  ReviewTypeOK' /\ CountTypeOK'
    <3>1. ReviewTypeOK'
      BY <2>3 DEF BeginReview, ReviewTypeOK
    <3>2. CountTypeOK'
      BY <2>3, BoundAssumption DEF BeginReview, CountTypeOK
    <3> QED BY <3>1, <3>2
  <2> QED BY <1>1, <2>1, <2>2, <2>3 DEF ReviewRequest
<1>2. CASE MarkChosen
  <2>1. AppTypeOK' /\ ReviewTypeOK'
    BY <1>2 DEF MarkChosen, AppTypeOK, ReviewTypeOK
  <2>2. CountTypeOK' /\ ListingTypeOK' /\ SetTypeOK' /\ RunTypeOK'
    BY <1>2 DEF MarkChosen, CountTypeOK, ListingTypeOK, SetTypeOK, RunTypeOK
  <2> QED BY <2>1, <2>2
<1>3. CASE MarkOthers
  <2>1. AppTypeOK' /\ ReviewTypeOK'
    BY <1>3 DEF MarkOthers, AppTypeOK, ReviewTypeOK
  <2>2. CountTypeOK' /\ ListingTypeOK' /\ SetTypeOK' /\ RunTypeOK'
    BY <1>3 DEF MarkOthers, CountTypeOK, ListingTypeOK, SetTypeOK, RunTypeOK
  <2> QED BY <2>1, <2>2
<1>4. CASE MarkSet
  <2>1. SetTypeOK'
    BY <1>4 DEF MarkSet, SetTypeOK, ReviewTypeOK, FlaggedSet
  <2>2. ReviewTypeOK'
    BY <1>4 DEF MarkSet, IdleReview, ReviewTypeOK
  <2>3. AppTypeOK' /\ CountTypeOK' /\ ListingTypeOK' /\ RunTypeOK'
    BY <1>4 DEF MarkSet, appVars, AppTypeOK, CountTypeOK, ListingTypeOK, RunTypeOK
  <2> QED BY <2>1, <2>2, <2>3
<1> QED BY <1>1, <1>2, <1>3, <1>4 DEF ReviewStep

\* Every other step, and a stuttering step, keeps the types.
LEMMA TypeOther ==
    ASSUME TypeOK,
           \/ \E l \in Listing : CloseByUpdate(l) \/ CloseByCron(l) \/ ReopenListing(l)
           \/ CronRun \/ ManualRun \/ DatabaseFails \/ UNCHANGED vars
    PROVE  TypeOK'
<1> USE DEF TypeOK
<1>1. ASSUME NEW l \in Listing, CloseByUpdate(l) PROVE TypeOK'
  <2>1. RunTypeOK'
    BY <1>1, TypeBeginRun DEF CloseByUpdate, RunTypeOK
  <2>2. ListingTypeOK'
    BY <1>1 DEF CloseByUpdate, ListingTypeOK
  <2>3. AppTypeOK' /\ CountTypeOK' /\ SetTypeOK' /\ ReviewTypeOK'
    BY <1>1 DEF CloseByUpdate, appVars, AppTypeOK, CountTypeOK, SetTypeOK, ReviewTypeOK
  <2> QED BY <2>1, <2>2, <2>3
<1>2. ASSUME NEW l \in Listing, CloseByCron(l) \/ ReopenListing(l) PROVE TypeOK'
  <2>1. ListingTypeOK'
    BY <1>2 DEF CloseByCron, ReopenListing, ListingTypeOK
  <2>2. AppTypeOK' /\ CountTypeOK' /\ SetTypeOK' /\ ReviewTypeOK' /\ RunTypeOK'
    BY <1>2 DEF CloseByCron, ReopenListing, appVars, AppTypeOK, CountTypeOK, SetTypeOK,
                ReviewTypeOK, RunTypeOK
  <2> QED BY <2>1, <2>2
<1>3. CASE CronRun \/ ManualRun
  <2>1. RunTypeOK'
    <3>1. PICK scope \in SUBSET Listing, force \in BOOLEAN : BeginRun(scope, force)
      BY <1>3 DEF CronRun, ManualRun
    <3> QED BY <3>1, TypeBeginRun
  <2>2. AppTypeOK' /\ ListingTypeOK' /\ CountTypeOK' /\ SetTypeOK' /\ ReviewTypeOK'
    BY <1>3 DEF CronRun, ManualRun, appVars, AppTypeOK, ListingTypeOK, CountTypeOK,
                SetTypeOK, ReviewTypeOK
  <2> QED BY <2>1, <2>2
<1>4. CASE DatabaseFails
  <2>1. RunTypeOK' /\ ListingTypeOK'
    BY <1>4, UnfinishedType DEF DatabaseFails, AbortRun, IdleRun, RunTypeOK, ListingTypeOK
  <2>2. CountTypeOK'
    BY <1>4, BoundAssumption DEF DatabaseFails, AbortRun, CountTypeOK
  <2>3. AppTypeOK' /\ SetTypeOK' /\ ReviewTypeOK'
    BY <1>4 DEF DatabaseFails, AbortRun, appVars, AppTypeOK, SetTypeOK, ReviewTypeOK
  <2> QED BY <2>1, <2>2, <2>3
<1>5. CASE UNCHANGED vars
  BY <1>5 DEF vars, appVars, AppTypeOK, ListingTypeOK, CountTypeOK, SetTypeOK, RunTypeOK,
              ReviewTypeOK
<1> QED BY <1>1, <1>2, <1>3, <1>4, <1>5
----------------------------------------------------------------------------
(* The place of the run in its loop. *)

LEMMA RunInit == Init => RunOK
BY DEF Init, RunOK, IdleRun

LEMMA RunBegins ==
    ASSUME RunOK, NEW scope, NEW force, BeginRun(scope, force) PROVE RunOK'
BY DEF BeginRun, RunOK, IdleRun

LEMMA RunAborts == ASSUME AbortRun PROVE RunOK'
BY DEF AbortRun, RunOK, IdleRun

LEMMA RunProceeds == ASSUME TypeOK, RunOK, RunStep PROVE RunOK'
<1> USE DEF TypeOK, RunTypeOK
<1>1. ASSUME NEW l \in Listing, ReadGroups(l) PROVE RunOK'
  BY <1>1, ViewRows DEF ReadGroups, RunOK
<1>2. ASSUME NEW l \in Listing, ReadSets(l) PROVE RunOK'
  BY <1>2 DEF ReadSets, RunOK
<1>3. ASSUME NEW l \in Listing, MarkListing(l) PROVE RunOK'
  BY <1>3 DEF MarkListing, RunOK, IdleRun
<1>4. ASSUME NEW i \in run.drop, DropSet(i) PROVE RunOK'
  BY <1>4 DEF DropSet, RunOK
<1>5. ASSUME NEW s \in run.save, UpdateSet(s) PROVE RunOK'
  BY <1>5 DEF UpdateSet, RunOK
<1>6. ASSUME NEW s \in run.save, CreateSet(s) PROVE RunOK'
  BY <1>6 DEF CreateSet, RunOK
<1>7. ASSUME NEW s \in run.save, UpdateSetFails(s) PROVE RunOK'
  BY <1>7, RunAborts DEF UpdateSetFails
<1> QED BY <1>1, <1>2, <1>3, <1>4, <1>5, <1>6, <1>7 DEF RunStep

LEMMA RunInNext == ASSUME TypeOK, RunOK, [Next]_vars PROVE RunOK'
<1>0. run' = run => RunOK'
  BY DEF RunOK, IdleRun, AppsAt
<1>1. ASSUME NEW a \in Application, ApplicationStep(a) PROVE run' = run
  BY <1>1 DEF ApplicationStep, CreateApplication, UpdateApplication, StampApplication,
              RollBackCreate, BeginDelete, EndDelete, ClearApplication
<1>2. ASSUME NEW l \in Listing, CloseByUpdate(l) PROVE RunOK'
  BY <1>0, <1>2, RunBegins DEF CloseByUpdate
<1>3. ASSUME NEW l \in Listing, CloseByCron(l) \/ ReopenListing(l) PROVE run' = run
  BY <1>3 DEF CloseByCron, ReopenListing
<1>4. CASE CronRun \/ ManualRun
  BY <1>4, RunBegins DEF CronRun, ManualRun
<1>5. CASE DatabaseFails
  BY <1>5, RunAborts DEF DatabaseFails
<1>6. CASE ReviewRequest
  BY <1>0, <1>6 DEF ReviewRequest, OpenReview, BeginReview
<1>7. CASE ReviewStep
  BY <1>0, <1>7 DEF ReviewStep, MarkChosen, MarkOthers, MarkSet
<1>8. CASE UNCHANGED vars
  BY <1>0, <1>8 DEF vars
<1> QED BY <1>0, <1>1, <1>2, <1>3, <1>4, <1>5, <1>6, <1>7, <1>8, RunProceeds DEF Next

LEMMA TypeInNext == ASSUME TypeOK, RunOK, [Next]_vars PROVE TypeOK'
BY TypeApplication, TypeRunStep, TypeReview, TypeOther DEF Next

\* Every value is of its type, among them the rows of application_flagged_set
\* while runs, reviews and roll-backs write them.  The row a run creates is of
\* the listing the run is at, so the place of the run is part of the proof.
THEOREM Types == Spec => []TypeOK
<1>1. Init => TypeOK /\ RunOK
  BY TypeInit, RunInit
<1>2. TypeOK /\ RunOK /\ [Next]_vars => (TypeOK /\ RunOK)'
  BY TypeInNext, RunInNext
<1> QED BY <1>1, <1>2, PTL DEF Spec
=============================================================================

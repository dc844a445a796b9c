--------------------------- MODULE ReviewProofs ---------------------------
(***************************************************************************)
(* Proofs of what reviews and runs owe each other: a resolved set holds    *)
(* what was on its reviewer's page (ResolvedAsSeen), no application in two *)
(* sets (OverlapIsDue), and a run leaves the resolution of an unchanged    *)
(* group alone (ResolutionStands).  Each rests on FlagInv.                 *)
(***************************************************************************)
EXTENDS SettledProofs

USE HomeAssumption, KeySetsAssumption, NoSetAssumption

----------------------------------------------------------------------------
(* Resolved sets. *)

\* What makes ResolvedAsSeen inductive: until a run puts another application in
\* the set, its members are among those on the page of its reviewer.
ReviewIsCurrent ==
    review.pc # "idle" /\ review.set \in DOMAIN afs /\ ~review.raced =>
        afs[review.set].apps \subseteq review.saw

SeenInv == ResolvedAsSeen /\ ReviewIsCurrent

\* Sets that lose members or stay, and are not resolved by the step.
LEMMA SeenShrinks ==
    ASSUME SeenInv, DOMAIN afs' \subseteq DOMAIN afs, review' = review,
           \A i \in DOMAIN afs' : /\ afs'[i].apps \subseteq afs[i].apps
                                  /\ afs'[i].status = afs[i].status
                                  /\ afs'[i].seen = afs[i].seen
    PROVE  SeenInv'
<1>1. ResolvedAsSeen'
  BY DEF SeenInv, ResolvedAsSeen
<1>2. ReviewIsCurrent'
  BY DEF SeenInv, ReviewIsCurrent
<1> QED BY <1>1, <1>2 DEF SeenInv

LEMMA SeenUpdateSet ==
    ASSUME TypeOK, SeenInv, NEW s \in run.save, UpdateSet(s) PROVE SeenInv'
<1>1. /\ afs' = [afs EXCEPT ![s.set].apps = s.apps, ![s.set].status = "pending"]
      /\ review' = [review EXCEPT !.raced = @ \/ (review.set = s.set
                                                 /\ ~(s.apps \subseteq review.saw))]
  BY DEF UpdateSet
<1>2. /\ DOMAIN afs' = DOMAIN afs
      /\ \A i \in DOMAIN afs :
            IF i = s.set THEN afs'[i].status = "pending" /\ afs'[i].apps = s.apps
                         ELSE afs'[i] = afs[i]
  BY <1>1 DEF TypeOK, SetTypeOK, FlaggedSet
<1>3. /\ review'.pc = review.pc /\ review'.set = review.set /\ review'.saw = review.saw
      /\ ~review'.raced => /\ ~review.raced
                           /\ review.set = s.set => s.apps \subseteq review.saw
  BY <1>1 DEF TypeOK, ReviewTypeOK
<1>4. ResolvedAsSeen'
  BY <1>2 DEF SeenInv, ResolvedAsSeen
<1>5. ReviewIsCurrent'
  BY <1>2, <1>3 DEF SeenInv, ReviewIsCurrent
<1> QED BY <1>4, <1>5 DEF SeenInv

LEMMA SeenCreateSet ==
    ASSUME TypeOK, SeenInv, NEW s \in run.save, CreateSet(s) PROVE SeenInv'
<1>1. review' = review
  BY DEF CreateSet
<1>2. CASE Connectable(s.apps)
  <2>1. PICK n \in SetId \ (DOMAIN afs \cup {review.set}) :
           afs' = [j \in DOMAIN afs \cup {n} |->
                     IF j = n THEN [listing |-> CHOOSE l \in run.at : TRUE, rule |-> s.rule,
                                    apps |-> s.apps, status |-> "pending", seen |-> {}]
                     ELSE afs[j]]
    BY <1>2 DEF CreateSet
  <2>2. /\ DOMAIN afs' = DOMAIN afs \cup {n} /\ n # review.set
        /\ \A i \in DOMAIN afs : afs'[i] = afs[i]
        /\ afs'[n].status = "pending"
    BY <2>1
  <2>3. ResolvedAsSeen'
    BY <2>2 DEF SeenInv, ResolvedAsSeen
  <2>4. ReviewIsCurrent'
    BY <1>1, <2>2 DEF SeenInv, ReviewIsCurrent
  <2> QED BY <2>3, <2>4 DEF SeenInv
<1>3. CASE ~Connectable(s.apps)
  BY <1>1, <1>3, SeenShrinks DEF CreateSet
<1> QED BY <1>2, <1>3

LEMMA SeenMarkSet == ASSUME TypeOK, SeenInv, MarkSet PROVE SeenInv'
<1>1. review.pc = "set" /\ review' = IdleReview
  BY DEF MarkSet
<1>2. ReviewIsCurrent'
  BY <1>1 DEF IdleReview, ReviewIsCurrent
<1>3. CASE review.set \in DOMAIN afs
  <2> PICK i \in DOMAIN afs : i = review.set
    BY <1>3
  <2>1. afs' = [afs EXCEPT ![i].status = review.outcome,
                           ![i].seen = IF review.raced THEN @ \cup afs[i].apps
                                       ELSE review.saw]
    BY <1>3 DEF MarkSet
  <2>2. /\ DOMAIN afs' = DOMAIN afs
        /\ \A j \in DOMAIN afs : j # i => afs'[j] = afs[j]
        /\ afs'[i].apps = afs[i].apps
    BY <2>1 DEF TypeOK, SetTypeOK, FlaggedSet
  <2>3. afs'[i].seen = IF review.raced THEN afs[i].seen \cup afs[i].apps ELSE review.saw
    BY <2>1 DEF TypeOK, SetTypeOK, FlaggedSet
  <2>4. afs'[i].apps \subseteq afs'[i].seen
    BY <1>1, <2>2, <2>3 DEF SeenInv, ReviewIsCurrent
  <2>5. ResolvedAsSeen'
    BY <2>2, <2>4 DEF SeenInv, ResolvedAsSeen
  <2> QED BY <1>2, <2>5 DEF SeenInv
<1>4. CASE review.set \notin DOMAIN afs
  <2>1. ResolvedAsSeen'
    BY <1>4 DEF MarkSet, SeenInv, ResolvedAsSeen
  <2> QED BY <1>2, <2>1 DEF SeenInv
<1> QED BY <1>3, <1>4

LEMMA SeenReview ==
    ASSUME TypeOK, SeenInv, ReviewRequest \/ ReviewStep
    PROVE  SeenInv'
<1>1. CASE ReviewRequest
  <2>1. afs' = afs
    BY <1>1 DEF ReviewRequest, OpenReview, BeginReview
  <2>2. ResolvedAsSeen'
    BY <2>1 DEF SeenInv, ResolvedAsSeen
  <2>3. ASSUME NEW i \in DOMAIN afs, OpenReview(i) PROVE ReviewIsCurrent'
    <3>1. review'.set = i /\ review'.saw = afs[i].apps
      BY <2>3 DEF OpenReview, IdleReview
    <3> QED BY <2>1, <3>1 DEF ReviewIsCurrent
  <2>4. ASSUME NEW chosen, NEW outcome, BeginReview(chosen, outcome) PROVE ReviewIsCurrent'
    <3>1. /\ review.pc # "idle" /\ review'.set = review.set /\ review'.saw = review.saw
          /\ review'.raced = review.raced
      BY <2>4 DEF BeginReview, TypeOK, ReviewTypeOK
    <3> QED BY <2>1, <3>1 DEF SeenInv, ReviewIsCurrent
  <2> QED BY <1>1, <2>2, <2>3, <2>4 DEF SeenInv, ReviewRequest
<1>2. CASE MarkChosen \/ MarkOthers
  <2>1. /\ afs' = afs /\ review.pc # "idle" /\ review'.set = review.set
        /\ review'.saw = review.saw /\ review'.raced = review.raced
    BY <1>2 DEF MarkChosen, MarkOthers, TypeOK, ReviewTypeOK
  <2>2. ResolvedAsSeen'
    BY <2>1 DEF SeenInv, ResolvedAsSeen
  <2>3. ReviewIsCurrent'
    BY <2>1 DEF SeenInv, ReviewIsCurrent
  <2> QED BY <2>2, <2>3 DEF SeenInv
<1> QED BY <1>1, <1>2, SeenMarkSet DEF ReviewStep

LEMMA SeenInNext == ASSUME TypeOK, SeenInv, [Next]_vars PROVE SeenInv'
<1>1. afs' = afs /\ review' = review => SeenInv'
  BY SeenShrinks
<1>2. ASSUME NEW a \in Application, ApplicationStep(a) PROVE SeenInv'
  <2>1. CASE RollBackCreate(a)
    <3>1. afs' = [i \in DOMAIN afs |-> [afs[i] EXCEPT !.apps = @ \ {a}]] /\ review' = review
      BY <2>1 DEF RollBackCreate
    <3>2. DOMAIN afs' = DOMAIN afs
      BY <3>1
    <3>3. \A i \in DOMAIN afs : /\ afs'[i].apps \subseteq afs[i].apps
                                /\ afs'[i].status = afs[i].status
                                /\ afs'[i].seen = afs[i].seen
      BY <3>1 DEF TypeOK, SetTypeOK, FlaggedSet
    <3> QED BY <3>1, <3>2, <3>3, SeenShrinks
  <2>2. CASE ~RollBackCreate(a)
    BY <1>1, <1>2, <2>2 DEF ApplicationStep, CreateApplication, UpdateApplication,
       StampApplication, BeginDelete, EndDelete, ClearApplication
  <2> QED BY <2>1, <2>2
<1>3. ASSUME NEW l \in Listing, CloseByUpdate(l) \/ CloseByCron(l) \/ ReopenListing(l)
      PROVE  SeenInv'
  BY <1>1, <1>3 DEF CloseByUpdate, CloseByCron, ReopenListing
<1>4. CASE CronRun \/ ManualRun \/ DatabaseFails
  BY <1>1, <1>4 DEF CronRun, ManualRun, DatabaseFails, AbortRun
<1>5. ASSUME NEW l \in Listing, ReadGroups(l) \/ ReadSets(l) \/ MarkListing(l) PROVE SeenInv'
  BY <1>1, <1>5 DEF ReadGroups, ReadSets, MarkListing
<1>6. ASSUME NEW i \in run.drop, DropSet(i) PROVE SeenInv'
  <2>1. afs' = [j \in DOMAIN afs \ {i} |-> afs[j]] /\ review' = review
    BY <1>6 DEF DropSet
  <2> QED BY <2>1, SeenShrinks
<1>7. ASSUME NEW s \in run.save, UpdateSetFails(s) PROVE SeenInv'
  BY <1>1, <1>7 DEF UpdateSetFails, AbortRun
<1>8. CASE RunStep
  BY <1>5, <1>6, <1>7, <1>8, SeenUpdateSet, SeenCreateSet DEF RunStep
<1>9. CASE UNCHANGED vars
  BY <1>1, <1>9 DEF vars
<1> QED BY <1>2, <1>3, <1>4, <1>8, <1>9, SeenReview DEF Next

\* A resolved set holds only applications that were on the page of its reviewer,
\* or that a run put in between the page and the marking: a run that adds a member
\* later reopens it, also between the calls of resolve.
THEOREM ResolvedWasSeen == Spec => []ResolvedAsSeen
<1>1. Init => SeenInv
  BY DEF Init, SeenInv, ResolvedAsSeen, ReviewIsCurrent, IdleReview
<1>2. TypeOK /\ SeenInv /\ [Next]_vars => SeenInv'
  BY SeenInNext
<1>3. SeenInv => ResolvedAsSeen
  BY DEF SeenInv
<1> QED BY <1>1, <1>2, <1>3, Types, PTL DEF Spec

----------------------------------------------------------------------------
(* No application in two sets. *)

\* Sets with different rule keys share no application.
Apart(S) == \A x, y \in S : x.rule # y.rule => x.apps \cap y.apps = {}

\* What makes OverlapIsDue inductive: the sets a listing has, or will have once
\* the writes ahead are done, are apart, but where a run was cut off.
AheadApart == \A l \in run.at : run.pc = "write" => Apart(SetsAhead(l))

FinishedApart ==
    \A l \in run.due \ run.todo :
        run.pc = "next" \/ l \notin run.at => Apart(FlaggedAt(l))

OtherApart ==
    \A l \in Listing \ run.due : ~OutOfDate(l) /\ l \notin lost => Apart(FlaggedAt(l))

ApartInv == AheadApart /\ FinishedApart /\ OtherApart

\* Components have no application in common.
LEMMA MembersApart ==
    ASSUME NEW v, NEW K \in Components(v), NEW L \in Components(v), K # L
    PROVE  MembersOf(v, K) \cap MembersOf(v, L) = {}
<1> SUFFICES ASSUME NEW a \in MembersOf(v, K), a \in MembersOf(v, L) PROVE FALSE
  OBVIOUS
<1>1. PICK k \in K : a \in GroupOf(v, k)
  BY DEF MembersOf
<1>2. PICK j \in L : a \in GroupOf(v, j)
  BY DEF MembersOf
<1>3. Closed(v, K) /\ j \in FlaggedKeys(v)
  BY DEF Components
<1>4. j \in K
  BY <1>1, <1>2, <1>3 DEF Closed, Linked
<1> QED BY <1>2, <1>4, ComponentsDisjoint

LEMMA ConstructedApart == ASSUME NEW v, NEW want \in Constructions(v) PROVE Apart(want)
<1>1. PICK pick \in [Components(v) -> SUBSET Key] :
          /\ \A K \in Components(v) : pick[K] \in RuleKeys(K)
          /\ want = {[rule |-> pick[K], apps |-> MembersOf(v, K)] : K \in Components(v)}
  BY ConstructedSet
<1> SUFFICES ASSUME NEW x \in want, NEW y \in want, x.rule # y.rule
             PROVE  x.apps \cap y.apps = {}
  BY DEF Apart
<1>2. PICK K \in Components(v) : x = [rule |-> pick[K], apps |-> MembersOf(v, K)]
  BY <1>1
<1>3. PICK L \in Components(v) : y = [rule |-> pick[L], apps |-> MembersOf(v, L)]
  BY <1>1
<1>4. K # L /\ x.apps = MembersOf(v, K) /\ y.apps = MembersOf(v, L)
  BY <1>2, <1>3
<1> QED BY <1>4, MembersApart

\* Sets that are taken from sets apart, perhaps without some members, are apart.
LEMMA ApartFrom ==
    ASSUME NEW S, NEW T, Apart(S),
           \A x \in T : \E y \in S : x.rule = y.rule /\ x.apps \subseteq y.apps
    PROVE  Apart(T)
<1> SUFFICES ASSUME NEW x \in T, NEW z \in T, x.rule # z.rule
             PROVE  x.apps \cap z.apps = {}
  BY DEF Apart
<1>1. PICK y \in S : x.rule = y.rule /\ x.apps \subseteq y.apps
  OBVIOUS
<1>2. PICK u \in S : z.rule = u.rule /\ z.apps \subseteq u.apps
  OBVIOUS
<1>3. y.apps \cap u.apps = {}
  BY <1>1, <1>2 DEF Apart
<1> QED BY <1>1, <1>2, <1>3

\* Rows that lose members stay apart.
LEMMA RowsStayApart ==
    ASSUME NEW m, DOMAIN afs' = DOMAIN afs, run'.drop = run.drop, run'.save = run.save,
           \A i \in DOMAIN afs : /\ afs'[i].listing = afs[i].listing
                                 /\ afs'[i].rule = afs[i].rule
                                 /\ afs'[i].apps \subseteq afs[i].apps
    PROVE  /\ Apart(FlaggedAt(m)) => Apart(FlaggedAt(m)')
           /\ Apart(SetsAhead(m)) => Apart(SetsAhead(m)')
<1>1. SetsAt(m)' = SetsAt(m) /\ SetsAt(m) \subseteq DOMAIN afs
  BY DEF SetsAt
<1> DEFINE Row(i) == [rule |-> afs[i].rule, apps |-> afs[i].apps]
           Row2(i) == [rule |-> afs'[i].rule, apps |-> afs'[i].apps]
<1>2. ASSUME NEW i \in SetsAt(m)
      PROVE  Row2(i).rule = Row(i).rule /\ Row2(i).apps \subseteq Row(i).apps
  BY <1>1
<1>3. FlaggedAt(m) = {Row(i) : i \in SetsAt(m)} /\ FlaggedAt(m)' = {Row2(i) : i \in SetsAt(m)}
  BY <1>1 DEF FlaggedAt
<1> DEFINE Old == SetsAt(m) \ (run.drop \cup {s.set : s \in run.save})
           New == {[rule |-> s.rule, apps |-> s.apps] : s \in run.save}
<1>4. SetsAhead(m) = {Row(i) : i \in Old} \cup New
  BY DEF SetsAhead
<1>5. SetsAhead(m)' = {Row2(i) : i \in Old} \cup New
  BY <1>1 DEF SetsAhead
<1>6. \A x \in FlaggedAt(m)' : \E y \in FlaggedAt(m) :
          x.rule = y.rule /\ x.apps \subseteq y.apps
  <2> SUFFICES ASSUME NEW x \in FlaggedAt(m)'
               PROVE  \E y \in FlaggedAt(m) : x.rule = y.rule /\ x.apps \subseteq y.apps
    OBVIOUS
  <2>1. PICK i \in SetsAt(m) : x = Row2(i)
    BY <1>3
  <2>2. Row(i) \in FlaggedAt(m)
    BY <1>3
  <2> QED BY <1>2, <2>1, <2>2
<1>7. \A x \in SetsAhead(m)' : \E y \in SetsAhead(m) :
          x.rule = y.rule /\ x.apps \subseteq y.apps
  <2> SUFFICES ASSUME NEW x \in SetsAhead(m)'
               PROVE  \E y \in SetsAhead(m) : x.rule = y.rule /\ x.apps \subseteq y.apps
    OBVIOUS
  <2>1. CASE x \in New
    BY <1>4, <2>1
  <2>2. CASE x \notin New
    <3>1. PICK i \in Old : x = Row2(i)
      BY <1>5, <2>2
    <3>2. Row(i) \in SetsAhead(m)
      BY <1>4
    <3> QED BY <1>2, <3>1, <3>2
  <2> QED BY <2>1, <2>2
<1> QED BY <1>6, <1>7, ApartFrom

\* Nothing has changed but that rows may have lost members.
LEMMA ApartSame ==
    ASSUME ApartInv, run' = run, UNCHANGED <<fresh, lost>>, DOMAIN afs' = DOMAIN afs,
           \A i \in DOMAIN afs : /\ afs'[i].listing = afs[i].listing
                                 /\ afs'[i].rule = afs[i].rule
                                 /\ afs'[i].apps \subseteq afs[i].apps
    PROVE  ApartInv'
<1>1. AheadApart'
  BY RowsStayApart DEF ApartInv, AheadApart, Apart
<1>2. FinishedApart'
  BY RowsStayApart DEF ApartInv, FinishedApart, Apart
<1>3. OtherApart'
  BY RowsStayApart DEF ApartInv, OtherApart, OutOfDate, Apart
<1> QED BY <1>1, <1>2, <1>3 DEF ApartInv

\* A stamp makes its listing due.
LEMMA ApartStamp ==
    ASSUME TypeOK, ApartInv, NEW a \in Application, Stamp(Home[a]),
           UNCHANGED <<afs, run, lost>>
    PROVE  ApartInv'
<1>1. \A m : FlaggedAt(m)' = FlaggedAt(m) /\ SetsAhead(m)' = SetsAhead(m)
  BY DEF FlaggedAt, SetsAhead, SetsAt
<1>2. AheadApart' /\ FinishedApart'
  BY <1>1 DEF ApartInv, AheadApart, FinishedApart
<1>3. OutOfDate(Home[a])'
  BY DEF Stamp, StampOutcomes, OutOfDate, TypeOK, ListingTypeOK
<1>4. \A m \in Listing : m # Home[a] => fresh'[m] = fresh[m]
  BY DEF Stamp, TypeOK, ListingTypeOK
<1>5. OtherApart'
  BY <1>1, <1>3, <1>4 DEF ApartInv, OtherApart, OutOfDate
<1> QED BY <1>2, <1>5 DEF ApartInv

LEMMA ApartApplication ==
    ASSUME TypeOK, ApartInv, NEW a \in Application, ApplicationStep(a) PROVE ApartInv'
<1>1. ASSUME NEW K \in KeySets, CreateApplication(a, K) \/ UpdateApplication(a, K)
      PROVE  ApartInv'
  BY <1>1, ApartSame DEF CreateApplication, UpdateApplication
<1>2. CASE StampApplication(a)
  BY <1>2, ApartStamp DEF StampApplication
<1>3. CASE RollBackCreate(a)
  <2>1. afs' = [i \in DOMAIN afs |-> [afs[i] EXCEPT !.apps = @ \ {a}]]
    BY <1>3 DEF RollBackCreate
  <2>2. \A i \in DOMAIN afs : /\ afs'[i].listing = afs[i].listing
                              /\ afs'[i].rule = afs[i].rule
                              /\ afs'[i].apps \subseteq afs[i].apps
    BY <2>1 DEF TypeOK, SetTypeOK, FlaggedSet
  <2>3. DOMAIN afs' = DOMAIN afs
    BY <2>1
  <2> QED BY <1>3, <2>2, <2>3, ApartSame DEF RollBackCreate
<1>4. CASE BeginDelete(a)
  BY <1>4, ApartStamp DEF BeginDelete
<1>5. CASE EndDelete(a)
  BY <1>5, ApartSame DEF EndDelete
<1>6. CASE ClearApplication(a)
  BY <1>6, ApartSame DEF ClearApplication
<1> QED BY <1>1, <1>2, <1>3, <1>4, <1>5, <1>6 DEF ApplicationStep

LEMMA ApartReadGroups ==
    ASSUME TypeOK, RunOK, ApartInv, NEW l \in Listing, ReadGroups(l) PROVE ApartInv'
<1>1. /\ run'.at = {l} /\ run'.pc = "sets" /\ run'.due = run.due /\ run'.todo = run.todo \ {l}
      /\ run.pc = "next" /\ l \in run.due
      /\ lost' = lost \ {l} /\ UNCHANGED <<afs, fresh>>
  BY DEF ReadGroups, TypeOK, RunTypeOK, RunOK
<1>2. \A m : FlaggedAt(m)' = FlaggedAt(m)
  BY <1>1 DEF FlaggedAt, SetsAt
<1>3. AheadApart'
  BY <1>1 DEF AheadApart
<1>4. FinishedApart'
  BY <1>1, <1>2 DEF ApartInv, FinishedApart
<1>5. OtherApart'
  BY <1>1, <1>2 DEF ApartInv, OtherApart, OutOfDate
<1> QED BY <1>3, <1>4, <1>5 DEF ApartInv

LEMMA ApartReadSets ==
    ASSUME TypeOK, RunOK, SetsOK, ApartInv, NEW l \in Listing, ReadSets(l) PROVE ApartInv'
<1> PICK want \in Constructions(run.view) :
      run' = [run EXCEPT
            !.pc = "write",
            !.drop = {i \in SetsAt(l) : \A w \in want : w.rule # afs[i].rule},
            !.save = {[set |-> SetOf(l, w.rule), rule |-> w.rule, apps |-> w.apps] :
                          w \in want \ FlaggedAt(l)},
            !.mark = run.due]
  BY DEF ReadSets
<1>1. /\ run'.at = {l} /\ run'.pc = "write" /\ run'.due = run.due /\ run'.todo = run.todo
      /\ run.at = {l} /\ run.pc = "sets"
      /\ run'.drop = {i \in SetsAt(l) : \A w \in want : w.rule # afs[i].rule}
      /\ run'.save = {[set |-> SetOf(l, w.rule), rule |-> w.rule, apps |-> w.apps] :
                          w \in want \ FlaggedAt(l)}
      /\ UNCHANGED <<afs, fresh, lost>>
  BY DEF ReadSets, TypeOK, RunTypeOK
<1>2. \A m : FlaggedAt(m)' = FlaggedAt(m)
  BY <1>1 DEF FlaggedAt, SetsAt
<1>3. SetsAhead(l)' = want
  BY <1>1, AheadIsWanted
<1>4. AheadApart'
  BY <1>1, <1>3, ConstructedApart DEF AheadApart
<1>5. FinishedApart'
  BY <1>1, <1>2 DEF ApartInv, FinishedApart
<1>6. OtherApart'
  BY <1>1, <1>2 DEF ApartInv, OtherApart, OutOfDate
<1> QED BY <1>4, <1>5, <1>6 DEF ApartInv

\* A write brings nearer the sets ahead, or gives one of them up.
LEMMA ApartWrite ==
    ASSUME TypeOK, RunOK, SetsOK, WritesOK, ApartInv,
           \/ \E i \in run.drop : DropSet(i)
           \/ \E s \in run.save : UpdateSet(s) \/ CreateSet(s)
    PROVE  ApartInv'
<1>1. /\ run'.at = run.at /\ run'.pc = "write" /\ run.pc = "write"
      /\ run'.due = run.due /\ run'.todo = run.todo
      /\ UNCHANGED <<fresh, lost>>
  BY DEF DropSet, UpdateSet, CreateSet, TypeOK, RunTypeOK
<1>2. PICK l \in Listing : run.at = {l} /\ l \in run.due
  BY <1>1 DEF RunOK, TypeOK, RunTypeOK
<1>3. /\ SetsAhead(l)' \subseteq SetsAhead(l)
      /\ \A m \in Listing \ {l} : FlaggedAt(m)' = FlaggedAt(m)
  BY <1>2, AheadDropSet, AheadUpdateSet, AheadCreateSet
<1>4. Apart(SetsAhead(l)')
  BY <1>1, <1>2, <1>3 DEF ApartInv, AheadApart, Apart
<1>5. AheadApart'
  BY <1>1, <1>2, <1>4 DEF AheadApart, Apart
<1>6. run.due \subseteq Listing
  BY DEF TypeOK, RunTypeOK
<1>7. FinishedApart'
  BY <1>1, <1>2, <1>3, <1>6 DEF ApartInv, FinishedApart
<1>8. OtherApart'
  BY <1>1, <1>2, <1>3 DEF ApartInv, OtherApart, OutOfDate
<1> QED BY <1>5, <1>7, <1>8 DEF ApartInv

\* The sets of a listing of the run that is not unfinished are apart.
LEMMA FinishedSets ==
    ASSUME ApartInv, RunOK, NEW m \in run.due, m \notin Unfinished PROVE Apart(FlaggedAt(m))
<1>1. m \in run.due \ run.todo
  BY DEF Unfinished
<1>2. CASE run.pc = "next" \/ m \notin run.at
  BY <1>1, <1>2 DEF ApartInv, FinishedApart
<1>3. CASE run.pc # "next" /\ m \in run.at
  <2>1. run.pc = "write" /\ run.drop = {} /\ run.save = {}
    BY <1>3 DEF Unfinished
  <2>2. SetsAhead(m) = FlaggedAt(m)
    BY <2>1 DEF SetsAhead, FlaggedAt
  <2> QED BY <1>3, <2>1, <2>2 DEF ApartInv, AheadApart
<1> QED BY <1>2, <1>3

LEMMA ApartMarkListing ==
    ASSUME TypeOK, RunOK, ApartInv, NEW l \in Listing, MarkListing(l) PROVE ApartInv'
<1>1. /\ run.pc = "write" /\ run.drop = {} /\ run.save = {} /\ l \in run.due
      /\ UNCHANGED <<afs, lost>>
      /\ \A m \in Listing \ {l} : fresh'[m] = fresh[m]
  BY DEF MarkListing, RunOK, TypeOK, ListingTypeOK
<1>2. \A m : FlaggedAt(m)' = FlaggedAt(m)
  BY <1>1 DEF FlaggedAt, SetsAt
<1>3. ASSUME NEW m \in run.due \ run.todo PROVE Apart(FlaggedAt(m))
  BY <1>1, FinishedSets DEF Unfinished
<1>4. CASE run.mark # {l}
  <2>1. /\ run'.drop = run.drop /\ run'.save = run.save /\ run'.at = run.at
        /\ run'.pc = run.pc /\ run'.due = run.due /\ run'.todo = run.todo
    BY <1>4 DEF MarkListing, TypeOK, RunTypeOK
  <2>2. \A m : SetsAhead(m)' = SetsAhead(m)
    BY <1>1, <2>1 DEF SetsAhead, SetsAt
  <2>3. AheadApart' /\ FinishedApart'
    BY <1>2, <2>1, <2>2 DEF ApartInv, AheadApart, FinishedApart
  <2>4. OtherApart'
    BY <1>1, <1>2, <2>1 DEF ApartInv, OtherApart, OutOfDate
  <2> QED BY <2>3, <2>4 DEF ApartInv
<1>5. CASE run.mark = {l} /\ run.todo # {}
  <2>1. /\ run'.pc = "next" /\ run'.due = run.due /\ run'.todo = run.todo
    BY <1>5 DEF MarkListing, TypeOK, RunTypeOK
  <2>2. AheadApart' /\ FinishedApart'
    BY <1>2, <1>3, <2>1 DEF AheadApart, FinishedApart
  <2>3. OtherApart'
    BY <1>1, <1>2, <2>1 DEF ApartInv, OtherApart, OutOfDate
  <2> QED BY <2>2, <2>3 DEF ApartInv
<1>6. CASE run.mark = {l} /\ run.todo = {}
  <2>1. run' = IdleRun
    BY <1>6 DEF MarkListing
  <2>2. AheadApart' /\ FinishedApart'
    BY <2>1 DEF AheadApart, FinishedApart, IdleRun
  <2>3. ASSUME NEW m \in Listing, ~OutOfDate(m)', m \notin lost PROVE Apart(FlaggedAt(m))
    BY <1>1, <1>3, <1>6, <2>3 DEF ApartInv, OtherApart, OutOfDate
  <2>4. OtherApart'
    BY <1>1, <1>2, <2>3 DEF OtherApart
  <2> QED BY <2>2, <2>4 DEF ApartInv
<1> QED BY <1>4, <1>5, <1>6

LEMMA ApartAbort == ASSUME TypeOK, RunOK, ApartInv, AbortRun PROVE ApartInv'
<1>1. /\ run' = IdleRun /\ UNCHANGED <<afs, fresh>>
      /\ lost' = lost \cup {m \in Unfinished : ~OutOfDate(m)}
  BY DEF AbortRun
<1>2. \A m : FlaggedAt(m)' = FlaggedAt(m)
  BY <1>1 DEF FlaggedAt, SetsAt
<1>3. AheadApart' /\ FinishedApart'
  BY <1>1 DEF AheadApart, FinishedApart, IdleRun
<1>4. ASSUME NEW m \in Listing, ~OutOfDate(m), m \notin lost' PROVE Apart(FlaggedAt(m))
  BY <1>1, <1>4, FinishedSets DEF ApartInv, OtherApart
<1>5. OtherApart'
  BY <1>1, <1>2, <1>4 DEF OtherApart, OutOfDate
<1> QED BY <1>3, <1>5 DEF ApartInv

LEMMA ApartBegin ==
    ASSUME RunOK, ApartInv, NEW scope, NEW force, BeginRun(scope, force),
           UNCHANGED <<afs, fresh, lost>>
    PROVE  ApartInv'
<1>1. run.due = {} /\ run'.at = {} /\ run'.due = run'.todo
  BY DEF BeginRun, RunOK, IdleRun
<1>2. \A m : FlaggedAt(m)' = FlaggedAt(m)
  BY DEF FlaggedAt, SetsAt
<1>3. AheadApart' /\ FinishedApart'
  BY <1>1 DEF AheadApart, FinishedApart
<1>4. OtherApart'
  BY <1>1, <1>2 DEF ApartInv, OtherApart, OutOfDate
<1> QED BY <1>3, <1>4 DEF ApartInv

LEMMA ApartInNext ==
    ASSUME TypeOK, RunOK, SetsOK, WritesOK, ApartInv, [Next]_vars PROVE ApartInv'
<1>1. UNCHANGED <<afs, run, fresh, lost>> => ApartInv'
  BY ApartSame
<1>2. ASSUME NEW l \in Listing, CloseByUpdate(l) PROVE ApartInv'
  BY <1>1, <1>2, ApartBegin DEF CloseByUpdate
<1>3. ASSUME NEW l \in Listing, CloseByCron(l) \/ ReopenListing(l) PROVE ApartInv'
  BY <1>1, <1>3 DEF CloseByCron, ReopenListing
<1>4. CASE CronRun \/ ManualRun
  BY <1>4, ApartBegin DEF CronRun, ManualRun
<1>5. CASE DatabaseFails
  BY <1>5, ApartAbort DEF DatabaseFails
<1>6. ASSUME NEW s \in run.save, UpdateSetFails(s) PROVE ApartInv'
  BY <1>6, ApartAbort DEF UpdateSetFails
<1>7. CASE RunStep
  BY <1>6, <1>7, ApartReadGroups, ApartReadSets, ApartMarkListing, ApartWrite DEF RunStep
<1>8. CASE ReviewRequest
  BY <1>1, <1>8 DEF ReviewRequest, OpenReview, BeginReview
<1>9. CASE MarkChosen \/ MarkOthers
  BY <1>1, <1>9 DEF MarkChosen, MarkOthers
<1>10. CASE MarkSet
  <2>1. SameRows
    BY <1>10 DEF MarkSet, SameRows, TypeOK, SetTypeOK, FlaggedSet
  <2> QED BY <1>10, <2>1, ApartSame DEF MarkSet, SameRows
<1>11. CASE UNCHANGED vars
  BY <1>1, <1>11 DEF vars
<1> QED BY <1>2, <1>3, <1>4, <1>5, <1>7, <1>8, <1>9, <1>10, <1>11, ApartApplication
        DEF Next, ReviewStep

\* No application is in two flagged sets of a listing that is not due and that no
\* run is at, whatever wrote while the runs read and wrote; what a failed run left
\* behind is due again, unless the run had marked the listing before.
THEOREM NoOverlap == Spec => []OverlapIsDue
<1>1. Init => ApartInv
  BY DEF Init, ApartInv, AheadApart, FinishedApart, OtherApart, Apart, FlaggedAt, SetsAt,
         IdleRun
<1>2. FlagInv /\ ApartInv /\ [Next]_vars => ApartInv'
  BY ApartInNext DEF FlagInv
<1>3. FlagInv /\ ApartInv => OverlapIsDue
  <2> SUFFICES ASSUME FlagInv, ApartInv, NEW i \in DOMAIN afs, NEW j \in DOMAIN afs, i # j,
                      afs[i].listing = afs[j].listing,
                      afs[i].listing \notin run.todo \cup run.at,
                      ~OutOfDate(afs[i].listing), afs[i].listing \notin lost
               PROVE  afs[i].apps \cap afs[j].apps = {}
    BY DEF OverlapIsDue
  <2> PICK l \in Listing : l = afs[i].listing
    BY DEF FlagInv, TypeOK, SetTypeOK, FlaggedSet
  <2>1. i \in SetsAt(l) /\ j \in SetsAt(l)
    BY DEF SetsAt
  <2>2. afs[i].rule # afs[j].rule
    BY <2>1 DEF FlagInv, SetsOK
  <2>3. Apart(FlaggedAt(l))
    BY DEF ApartInv, FinishedApart, OtherApart
  <2> DEFINE Row(k) == [rule |-> afs[k].rule, apps |-> afs[k].apps]
  <2>4. Row(i) \in FlaggedAt(l) /\ Row(j) \in FlaggedAt(l)
    BY <2>1 DEF FlaggedAt
  <2>5. /\ Row(i).rule = afs[i].rule /\ Row(i).apps = afs[i].apps
        /\ Row(j).rule = afs[j].rule /\ Row(j).apps = afs[j].apps
    OBVIOUS
  <2> HIDE DEF Row
  <2> QED BY <2>2, <2>3, <2>4, <2>5 DEF Apart
<1> QED BY <1>1, <1>2, <1>3, FlagInvariant, PTL DEF Spec

----------------------------------------------------------------------------
(* Resolutions that stand.                                                 *)
(*                                                                         *)
(* A request works on a live application; as long as an application may be *)
(* rolled back, one that was in the view stays in it, so that the rows read*)
(* and the sets it is in agree.                                            *)

RequestsLive == \A a \in Application : request[a] # "none" => state[a] = "live"

RowsHeld ==
    \A row \in run.view :
        /\ state[row[2]] # "none"
        /\ request[row[2]] = "created" => keys[row[2]] \cap Key # {}

MembersHeld ==
    \A i \in DOMAIN afs : \A a \in afs[i].apps :
        /\ state[a] # "none"
        /\ request[a] = "created" => keys[a] \cap Key # {}

Rows(a) == {row \in run.view : row[2] = a}

\* The rows read and the members of sets, at the listing the run is at.
MembersRead ==
    run.pc \in {"sets", "write"} =>
        \A l \in run.at : \A i \in SetsAt(l) : \A a \in afs[i].apps :
            request[a] = "created" => Rows(a) # {}

WritesRead == \A s \in run.save : \A a \in s.apps : Rows(a) # {}

HeldInv == RequestsLive /\ RowsHeld /\ MembersHeld /\ MembersRead /\ WritesRead

\* What ResolutionStands needs to know of the writes ahead: a row to delete has no
\* rule key a group must have, and a row to update differs from its group, unless a
\* roll-back has made them equal.
DropsAsked ==
    \A i \in run.drop : \A K \in Components(run.view) : RuleKeys(K) # {afs[i].rule}

UpdatesAsked ==
    \A s \in run.save : s.set # NoSet =>
        /\ \A K \in Components(run.view) :
              RuleKeys(K) = {s.rule} => MembersOf(run.view, K) = s.apps
        /\ \/ afs[s.set].apps # s.apps
           \/ \E row \in run.view : state[row[2]] = "gone"

AskedInv == DropsAsked /\ UpdatesAsked

\* Requests and rows as they were; sets that may have lost members.
LEMMA HeldShrinks ==
    ASSUME HeldInv, UNCHANGED <<state, keys, request>>,
           run'.view = run.view, run'.at = run.at, run'.save \subseteq run.save,
           run'.pc \in {"sets", "write"} => run.pc \in {"sets", "write"},
           DOMAIN afs' \subseteq DOMAIN afs,
           \A i \in DOMAIN afs' : /\ afs'[i].listing = afs[i].listing
                                  /\ afs'[i].apps \subseteq afs[i].apps
    PROVE  HeldInv'
<1>1. RequestsLive' /\ RowsHeld' /\ MembersHeld'
  BY DEF HeldInv, RequestsLive, RowsHeld, MembersHeld
<1>2. \A a : Rows(a)' = Rows(a)
  BY DEF Rows
<1>3. \A l : SetsAt(l)' \subseteq SetsAt(l)
  BY DEF SetsAt
<1>4. MembersRead'
  BY <1>2, <1>3 DEF HeldInv, MembersRead, SetsAt
<1>5. WritesRead'
  BY <1>2 DEF HeldInv, WritesRead
<1> QED BY <1>1, <1>4, <1>5 DEF HeldInv

\* A write to application a, which no row and no set holds before it is created.
LEMMA HeldWrite ==
    ASSUME TypeOK, HeldInv, run' = run, NEW a \in Application,
           \A b \in Application \ {a} :
               state'[b] = state[b] /\ keys'[b] = keys[b] /\ request'[b] = request[b],
           request'[a] # "none" => state'[a] = "live",
           state[a] # "none" => /\ state'[a] # "none"
                                /\ request'[a] = "created" =>
                                      request[a] = "created" /\ keys'[a] \cap Key # {},
           DOMAIN afs' = DOMAIN afs,
           \A i \in DOMAIN afs : /\ afs'[i].listing = afs[i].listing
                                 /\ afs'[i].apps \subseteq afs[i].apps
    PROVE  HeldInv'
<1>1. RequestsLive'
  BY DEF HeldInv, RequestsLive
<1>2. ASSUME NEW row \in run.view PROVE row[2] \in Application
  BY DEF TypeOK, RunTypeOK
<1>3. RowsHeld'
  BY <1>2 DEF HeldInv, RowsHeld
<1>4. ASSUME NEW i \in DOMAIN afs PROVE afs[i].apps \subseteq Application
  BY DEF TypeOK, SetTypeOK, FlaggedSet
<1>5. MembersHeld'
  BY <1>4 DEF HeldInv, MembersHeld
<1>6. \A b : Rows(b)' = Rows(b)
  BY DEF Rows
<1>7. \A l : SetsAt(l)' = SetsAt(l) /\ SetsAt(l) \subseteq DOMAIN afs
  BY DEF SetsAt
<1>8. MembersRead'
  <2> SUFFICES ASSUME run.pc \in {"sets", "write"}, NEW l \in run.at, NEW i \in SetsAt(l),
                      NEW b \in afs'[i].apps, request'[b] = "created"
               PROVE  Rows(b) # {}
    BY <1>6, <1>7 DEF MembersRead
  <2>1. b \in afs[i].apps /\ b \in Application
    BY <1>4, <1>7
  <2>2. request[b] = "created"
    BY <1>7, <2>1 DEF HeldInv, MembersHeld
  <2> QED BY <2>1, <2>2 DEF HeldInv, MembersRead
<1>9. WritesRead'
  BY <1>6 DEF HeldInv, WritesRead
<1> QED BY <1>1, <1>3, <1>5, <1>8, <1>9 DEF HeldInv

LEMMA HeldApplication ==
    ASSUME TypeOK, HeldInv, NEW a \in Application, ApplicationStep(a) PROVE HeldInv'
<1> USE DEF TypeOK, AppTypeOK
<1>1. ASSUME NEW K \in KeySets, CreateApplication(a, K) PROVE HeldInv'
  BY <1>1, HeldWrite DEF CreateApplication
<1>2. ASSUME NEW K \in KeySets, UpdateApplication(a, K) PROVE HeldInv'
  BY <1>2, HeldWrite DEF UpdateApplication
<1>3. CASE StampApplication(a)
  BY <1>3, HeldWrite DEF StampApplication
<1>4. CASE RollBackCreate(a)
  <2>1. afs' = [i \in DOMAIN afs |-> [afs[i] EXCEPT !.apps = @ \ {a}]]
    BY <1>4 DEF RollBackCreate
  <2>2. \A i \in DOMAIN afs : /\ afs'[i].listing = afs[i].listing
                              /\ afs'[i].apps \subseteq afs[i].apps
    BY <2>1 DEF SetTypeOK, FlaggedSet
  <2>3. DOMAIN afs' = DOMAIN afs
    BY <2>1
  <2> QED BY <1>4, <2>2, <2>3, HeldWrite DEF RollBackCreate
<1>5. CASE BeginDelete(a)
  BY <1>5, HeldWrite DEF BeginDelete
<1>6. CASE EndDelete(a)
  BY <1>6, HeldWrite DEF EndDelete, HeldInv, RequestsLive
<1>7. CASE ClearApplication(a)
  BY <1>7, HeldWrite, BlankAssumption DEF ClearApplication, HeldInv, RequestsLive, Key
<1> QED BY <1>1, <1>2, <1>3, <1>4, <1>5, <1>6, <1>7 DEF ApplicationStep

\* A run that begins, ends or is cut off has no rows and no writes.
LEMMA HeldIdle ==
    ASSUME HeldInv, UNCHANGED <<state, keys, request, afs>>,
           run'.view = {}, run'.save = {}, run'.at = {}
    PROVE  HeldInv'
<1>1. RequestsLive' /\ RowsHeld' /\ MembersHeld' /\ MembersRead' /\ WritesRead'
  BY DEF HeldInv, RequestsLive, RowsHeld, MembersHeld, MembersRead, WritesRead
<1> QED BY <1>1 DEF HeldInv

LEMMA HeldReadGroups ==
    ASSUME TypeOK, RunOK, SetsOK, HeldInv, NEW l \in Listing, ReadGroups(l) PROVE HeldInv'
<1>1. /\ run'.view = CurrentView(l) /\ run'.at = {l} /\ run'.save = {}
      /\ UNCHANGED <<state, keys, request, afs>>
  BY DEF ReadGroups, RunOK, TypeOK, RunTypeOK, appVars
<1>2. RequestsLive' /\ MembersHeld' /\ WritesRead'
  BY <1>1 DEF HeldInv, RequestsLive, MembersHeld, WritesRead
<1>3. RowsHeld'
  BY <1>1 DEF CurrentView, View, RowsHeld
<1>4. ASSUME NEW i \in SetsAt(l), NEW a \in afs[i].apps, request[a] = "created"
      PROVE  \E row \in CurrentView(l) : row[2] = a
  <2>1. a \in AppsAt(l) /\ i \in DOMAIN afs
    BY DEF SetsOK, SetsAt
  <2>2. state[a] = "live"
    BY <1>4, <2>1 DEF HeldInv, RequestsLive, AppsAt
  <2>3. PICK k \in Key : k \in keys[a]
    BY <1>4, <2>1 DEF HeldInv, MembersHeld
  <2>4. <<k, a>> \in CurrentView(l)
    BY <2>1, <2>2, <2>3 DEF CurrentView, View
  <2> QED BY <2>4
<1>5. SetsAt(l)' = SetsAt(l)
  BY <1>1 DEF SetsAt
<1>6. MembersRead'
  BY <1>1, <1>4, <1>5 DEF MembersRead, Rows
<1> QED BY <1>2, <1>3, <1>6 DEF HeldInv

LEMMA HeldReadSets ==
    ASSUME TypeOK, HeldInv, NEW l \in Listing, ReadSets(l) PROVE HeldInv'
<1> PICK want \in Constructions(run.view) :
      run' = [run EXCEPT
            !.pc = "write",
            !.drop = {i \in SetsAt(l) : \A w \in want : w.rule # afs[i].rule},
            !.save = {[set |-> SetOf(l, w.rule), rule |-> w.rule, apps |-> w.apps] :
                          w \in want \ FlaggedAt(l)},
            !.mark = run.due]
  BY DEF ReadSets
<1>1. /\ run'.view = run.view /\ run'.at = run.at /\ run.pc = "sets"
      /\ run'.save = {[set |-> SetOf(l, w.rule), rule |-> w.rule, apps |-> w.apps] :
                          w \in want \ FlaggedAt(l)}
      /\ UNCHANGED <<state, keys, request, afs>>
  BY DEF ReadSets, TypeOK, RunTypeOK, appVars
<1>2. RequestsLive' /\ RowsHeld' /\ MembersHeld'
  BY <1>1 DEF HeldInv, RequestsLive, RowsHeld, MembersHeld
<1>3. \A a : Rows(a)' = Rows(a)
  BY <1>1 DEF Rows
<1>4. MembersRead'
  BY <1>1, <1>3 DEF HeldInv, MembersRead, SetsAt
<1>5. WritesRead'
  <2> DEFINE S == {a \in Application : Rows(a) # {}}
  <2>1. run.view \subseteq Key \X S
    BY DEF Rows, TypeOK, RunTypeOK
  <2>2. S \in SUBSET Application
    OBVIOUS
  <2>3. ASSUME NEW w \in want PROVE w.apps \subseteq S
    <3> HIDE DEF S
    <3> QED BY <2>1, <2>2, ConstructedFrom
  <2>4. ASSUME NEW s \in run'.save PROVE s.apps \subseteq S
    <3>1. PICK w \in want :
            s = [set |-> SetOf(l, w.rule), rule |-> w.rule, apps |-> w.apps]
      BY <1>1
    <3> QED BY <2>3, <3>1
  <2> QED BY <1>3, <2>4 DEF WritesRead
<1> QED BY <1>2, <1>4, <1>5 DEF HeldInv

\* The members a run writes are of the rows it read.
LEMMA WrittenHeld ==
    ASSUME TypeOK, HeldInv, NEW s \in run.save, NEW a \in s.apps
    PROVE  /\ Rows(a) # {} /\ state[a] # "none"
           /\ request[a] = "created" => keys[a] \cap Key # {}
<1>1. PICK row \in run.view : row[2] = a
  BY DEF HeldInv, WritesRead, Rows
<1>2. row[1] \in Key
  BY DEF TypeOK, RunTypeOK
<1> QED BY <1>1, <1>2 DEF HeldInv, RowsHeld, Rows

\* A row of a set gets the members a write of the run has; the others stay.
LEMMA HeldWrites ==
    ASSUME TypeOK, HeldInv, NEW s \in run.save, NEW n, UNCHANGED <<state, keys, request>>,
           run'.view = run.view, run'.at = run.at, run'.pc = run.pc,
           run'.save \subseteq run.save,
           DOMAIN afs' = DOMAIN afs \cup {n}, afs'[n].apps = s.apps,
           \A i \in DOMAIN afs : i # n => afs'[i] = afs[i]
    PROVE  HeldInv'
<1>1. RequestsLive' /\ RowsHeld'
  BY DEF HeldInv, RequestsLive, RowsHeld
<1>2. \A a : Rows(a)' = Rows(a)
  BY DEF Rows
<1>3. MembersHeld'
  BY WrittenHeld DEF HeldInv, MembersHeld
<1>4. \A l : SetsAt(l)' \subseteq SetsAt(l) \cup {n}
  BY DEF SetsAt
<1>5. MembersRead'
  <2> SUFFICES ASSUME run.pc \in {"sets", "write"}, NEW l \in run.at, NEW i \in SetsAt(l)',
                      NEW a \in afs'[i].apps, request[a] = "created"
               PROVE  Rows(a) # {}
    BY <1>2 DEF MembersRead
  <2>1. CASE i = n
    BY <2>1, WrittenHeld
  <2>2. CASE i # n
    <3>1. i \in SetsAt(l) /\ afs'[i] = afs[i]
      BY <1>4, <2>2 DEF SetsAt
    <3> QED BY <3>1 DEF HeldInv, MembersRead
  <2> QED BY <2>1, <2>2
<1>6. WritesRead'
  BY <1>2 DEF HeldInv, WritesRead
<1> QED BY <1>1, <1>3, <1>5, <1>6 DEF HeldInv

LEMMA HeldRunStep ==
    ASSUME TypeOK, RunOK, SetsOK, WritesOK, HeldInv, RunStep PROVE HeldInv'
<1>1. ASSUME NEW l \in Listing, MarkListing(l) PROVE HeldInv'
  <2>1. UNCHANGED <<state, keys, request, afs>> /\ run.save = {} /\ run.pc = "write"
    BY <1>1 DEF MarkListing, appVars
  <2>2. CASE run' = IdleRun
    BY <2>1, <2>2, HeldIdle DEF IdleRun
  <2>3. CASE run' # IdleRun
    <3>1. run'.view = run.view /\ run'.at = run.at /\ run'.save = run.save
      BY <1>1, <2>3 DEF MarkListing, TypeOK, RunTypeOK
    <3> QED BY <2>1, <3>1, HeldShrinks
  <2> QED BY <2>2, <2>3
<1>2. ASSUME NEW i \in run.drop, DropSet(i) PROVE HeldInv'
  <2>1. afs' = [j \in DOMAIN afs \ {i} |-> afs[j]]
    BY <1>2 DEF DropSet
  <2>2. /\ run'.view = run.view /\ run'.at = run.at /\ run'.save = run.save
        /\ run'.pc = run.pc /\ UNCHANGED <<state, keys, request>>
    BY <1>2 DEF DropSet, TypeOK, RunTypeOK, appVars
  <2> QED BY <2>1, <2>2, HeldShrinks
<1>3. ASSUME NEW s \in run.save, UpdateSet(s) PROVE HeldInv'
  <2>1. /\ afs' = [afs EXCEPT ![s.set].apps = s.apps, ![s.set].status = "pending"]
        /\ run.pc = "write" /\ s.set # NoSet
    BY <1>3 DEF UpdateSet
  <2>2. /\ run'.view = run.view /\ run'.at = run.at /\ run'.save \subseteq run.save
        /\ run'.pc = run.pc /\ UNCHANGED <<state, keys, request>>
    BY <1>3 DEF UpdateSet, TypeOK, RunTypeOK, appVars
  <2>3. PICK n \in DOMAIN afs : n = s.set
    BY <2>1 DEF WritesOK, RunOK, SetsAt
  <2>4. /\ DOMAIN afs' = DOMAIN afs \cup {n}
        /\ \A i \in DOMAIN afs : i # n => afs'[i] = afs[i]
        /\ afs'[n].apps = s.apps
    BY <2>1, <2>3 DEF TypeOK, SetTypeOK, FlaggedSet
  <2> QED BY <2>2, <2>4, HeldWrites
<1>4. ASSUME NEW s \in run.save, CreateSet(s) PROVE HeldInv'
  <2>1. /\ run'.view = run.view /\ run'.at = run.at /\ run'.save \subseteq run.save
        /\ run'.pc = run.pc /\ UNCHANGED <<state, keys, request>>
    BY <1>4 DEF CreateSet, TypeOK, RunTypeOK, appVars
  <2>2. CASE Connectable(s.apps)
    <3>1. PICK n \in SetId \ (DOMAIN afs \cup {review.set}) :
             afs' = [j \in DOMAIN afs \cup {n} |->
                       IF j = n THEN [listing |-> CHOOSE l \in run.at : TRUE,
                                      rule |-> s.rule, apps |-> s.apps,
                                      status |-> "pending", seen |-> {}]
                       ELSE afs[j]]
      BY <1>4, <2>2 DEF CreateSet
    <3>2. /\ DOMAIN afs' = DOMAIN afs \cup {n} /\ afs'[n].apps = s.apps
          /\ \A i \in DOMAIN afs : i # n => afs'[i] = afs[i]
      BY <3>1
    <3> QED BY <2>1, <3>2, HeldWrites
  <2>3. CASE ~Connectable(s.apps)
    BY <1>4, <2>1, <2>3, HeldShrinks DEF CreateSet
  <2> QED BY <2>2, <2>3
<1>5. ASSUME NEW s \in run.save, UpdateSetFails(s) PROVE HeldInv'
  BY <1>5, HeldIdle DEF UpdateSetFails, AbortRun, IdleRun, appVars
<1> QED BY <1>1, <1>2, <1>3, <1>4, <1>5, HeldReadGroups, HeldReadSets DEF RunStep

LEMMA HeldInNext ==
    ASSUME TypeOK, RunOK, SetsOK, WritesOK, HeldInv, [Next]_vars PROVE HeldInv'
<1>1. SameRows /\ UNCHANGED <<state, keys, request, run>> => HeldInv'
  BY HeldShrinks DEF SameRows
<1>2. ASSUME NEW scope, NEW force, BeginRun(scope, force),
             UNCHANGED <<state, keys, request, afs>>
      PROVE  HeldInv'
  BY <1>2, HeldIdle DEF BeginRun, IdleRun
<1>3. ASSUME NEW l \in Listing, CloseByUpdate(l) PROVE HeldInv'
  BY <1>1, <1>2, <1>3 DEF CloseByUpdate, appVars, SameRows
<1>4. ASSUME NEW l \in Listing, CloseByCron(l) \/ ReopenListing(l) PROVE HeldInv'
  BY <1>1, <1>4 DEF CloseByCron, ReopenListing, appVars, SameRows
<1>5. CASE CronRun \/ ManualRun
  BY <1>2, <1>5 DEF CronRun, ManualRun, appVars
<1>6. CASE DatabaseFails
  BY <1>6, HeldIdle DEF DatabaseFails, AbortRun, IdleRun, appVars
<1>7. CASE ReviewRequest
  BY <1>1, <1>7 DEF ReviewRequest, OpenReview, BeginReview, appVars, SameRows
<1>8. CASE MarkChosen \/ MarkOthers
  BY <1>1, <1>8 DEF MarkChosen, MarkOthers, SameRows
<1>9. CASE MarkSet
  <2>1. SameRows
    BY <1>9 DEF MarkSet, SameRows, TypeOK, SetTypeOK, FlaggedSet
  <2> QED BY <1>1, <1>9, <2>1 DEF MarkSet, appVars
<1>10. CASE UNCHANGED vars
  BY <1>1, <1>10 DEF vars, SameRows
<1> QED BY <1>3, <1>4, <1>5, <1>6, <1>7, <1>8, <1>9, <1>10, HeldApplication, HeldRunStep
        DEF Next, ReviewStep

\* The writes that remain are asked for as long as the sets they are about stay.
LEMMA AskedSame ==
    ASSUME TypeOK, AskedInv, run'.view = run.view, run'.drop \subseteq run.drop,
           run'.save \subseteq run.save,
           \A i \in run'.drop : afs'[i].rule = afs[i].rule,
           \A s \in run'.save : s.set # NoSet => afs'[s.set].apps = afs[s.set].apps,
           \A b \in Application : state[b] = "gone" => state'[b] = "gone"
    PROVE  AskedInv'
<1>1. DropsAsked'
  BY DEF AskedInv, DropsAsked
<1>2. \A row \in run.view : row[2] \in Application
  BY DEF TypeOK, RunTypeOK
<1>3. UpdatesAsked'
  BY <1>2 DEF AskedInv, UpdatesAsked
<1> QED BY <1>1, <1>3 DEF AskedInv

LEMMA AskedEmpty == ASSUME run'.drop = {}, run'.save = {} PROVE AskedInv'
BY DEF AskedInv, DropsAsked, UpdatesAsked

\* A member that is rolled back out of a set to be written leaves its rows behind.
LEMMA AskedRollBack ==
    ASSUME TypeOK, RunOK, WritesOK, HeldInv, AskedInv, NEW a \in Application, RollBackCreate(a)
    PROVE  AskedInv'
<1>1. /\ afs' = [i \in DOMAIN afs |-> [afs[i] EXCEPT !.apps = @ \ {a}]]
      /\ request[a] = "created" /\ run' = run
      /\ state' = [state EXCEPT ![a] = "gone"]
  BY DEF RollBackCreate
<1>2. \A i \in DOMAIN afs : afs'[i].rule = afs[i].rule /\ afs'[i].apps = afs[i].apps \ {a}
  BY <1>1 DEF TypeOK, SetTypeOK, FlaggedSet
<1>3. \A b \in Application : state'[b] = IF b = a THEN "gone" ELSE state[b]
  BY <1>1 DEF TypeOK, AppTypeOK
<1>4. \A row \in run.view : row[2] \in Application
  BY DEF TypeOK, RunTypeOK
<1>5. run.drop # {} \/ run.save # {} => run.pc = "write" /\ \E l \in Listing : run.at = {l}
  BY DEF RunOK, TypeOK, RunTypeOK
<1>6. DropsAsked'
  <2>1. run.drop \subseteq DOMAIN afs
    BY <1>5 DEF WritesOK, SetsAt
  <2> QED BY <1>1, <1>2, <2>1 DEF AskedInv, DropsAsked
<1>7. UpdatesAsked'
  <2> SUFFICES ASSUME NEW s \in run.save, s.set # NoSet
               PROVE  /\ \A K \in Components(run.view) :
                            RuleKeys(K) = {s.rule} => MembersOf(run.view, K) = s.apps
                      /\ \/ afs'[s.set].apps # s.apps
                         \/ \E row \in run.view : state'[row[2]] = "gone"
    BY <1>1 DEF UpdatesAsked
  <2>1. PICK l \in run.at : s.set \in SetsAt(l)
    BY <1>5 DEF WritesOK
  <2>2. CASE a \in afs[s.set].apps
    <3>1. Rows(a) # {}
      BY <1>1, <1>5, <2>1, <2>2 DEF HeldInv, MembersRead
    <3> QED BY <1>3, <3>1 DEF Rows, AskedInv, UpdatesAsked
  <2>3. CASE a \notin afs[s.set].apps
    <3>1. s.set \in DOMAIN afs
      BY <2>1 DEF SetsAt
    <3>2. afs'[s.set].apps = afs[s.set].apps \ {a}
      BY <1>2, <3>1
    <3>3. afs'[s.set].apps = afs[s.set].apps
      BY <2>3, <3>2
    <3> QED BY <1>3, <1>4, <3>3 DEF AskedInv, UpdatesAsked
  <2> QED BY <2>2, <2>3
<1> QED BY <1>6, <1>7 DEF AskedInv

LEMMA AskedApplication ==
    ASSUME TypeOK, RunOK, WritesOK, HeldInv, AskedInv, NEW a \in Application,
           ApplicationStep(a)
    PROVE  AskedInv'
<1>1. CASE ~RollBackCreate(a)
  <2>1. afs' = afs /\ run' = run
    BY <1>1 DEF ApplicationStep, CreateApplication, UpdateApplication, StampApplication,
       BeginDelete, EndDelete, ClearApplication
  <2>2. state[a] = "gone" => request[a] = "none"
    BY DEF HeldInv, RequestsLive, TypeOK, AppTypeOK
  <2>3. \A b \in Application : state[b] = "gone" => state'[b] = "gone"
    BY <1>1, <2>2 DEF ApplicationStep, CreateApplication, UpdateApplication,
       StampApplication, BeginDelete, EndDelete, ClearApplication, TypeOK, AppTypeOK
  <2> QED BY <2>1, <2>3, AskedSame
<1> QED BY <1>1, AskedRollBack

\* The run deletes rows that no constructed set has the rule key of, and writes the
\* constructed sets that are not there.
LEMMA AskedReadSets ==
    ASSUME TypeOK, SetsOK, NEW l \in Listing, ReadSets(l) PROVE AskedInv'
<1> PICK want \in Constructions(run.view) :
      run' = [run EXCEPT
            !.pc = "write",
            !.drop = {i \in SetsAt(l) : \A w \in want : w.rule # afs[i].rule},
            !.save = {[set |-> SetOf(l, w.rule), rule |-> w.rule, apps |-> w.apps] :
                          w \in want \ FlaggedAt(l)},
            !.mark = run.due]
  BY DEF ReadSets
<1>1. /\ run'.view = run.view /\ afs' = afs
      /\ run'.drop = {i \in SetsAt(l) : \A w \in want : w.rule # afs[i].rule}
      /\ run'.save = {[set |-> SetOf(l, w.rule), rule |-> w.rule, apps |-> w.apps] :
                          w \in want \ FlaggedAt(l)}
  BY DEF ReadSets, TypeOK, RunTypeOK
<1>2. PICK pick \in [Components(run.view) -> SUBSET Key] :
          /\ \A K \in Components(run.view) : pick[K] \in RuleKeys(K)
          /\ want = {[rule |-> pick[K], apps |-> MembersOf(run.view, K)] :
                        K \in Components(run.view)}
  BY ConstructedSet
<1>3. ASSUME NEW K \in Components(run.view), NEW r, RuleKeys(K) = {r}
      PROVE  \E w \in want : w.rule = r /\ w.apps = MembersOf(run.view, K)
  <2>1. pick[K] = r
    BY <1>2, <1>3
  <2>2. PICK w \in want : w = [rule |-> pick[K], apps |-> MembersOf(run.view, K)]
    BY <1>2
  <2> QED BY <2>1, <2>2
<1>4. DropsAsked'
  <2> SUFFICES ASSUME NEW i \in run'.drop, NEW K \in Components(run.view),
                      RuleKeys(K) = {afs[i].rule}
               PROVE  FALSE
    BY <1>1 DEF DropsAsked
  <2>1. PICK w \in want : w.rule = afs[i].rule
    BY <1>3
  <2> QED BY <1>1, <2>1
<1>5. ASSUME NEW s \in run'.save, s.set # NoSet
      PROVE  /\ \A K \in Components(run.view) :
                   RuleKeys(K) = {s.rule} => MembersOf(run.view, K) = s.apps
             /\ afs[s.set].apps # s.apps
  <2>1. PICK w \in want \ FlaggedAt(l) :
          s = [set |-> SetOf(l, w.rule), rule |-> w.rule, apps |-> w.apps]
    BY <1>1
  <2>2. s.set = SetOf(l, w.rule) /\ s.rule = w.rule /\ s.apps = w.apps
    BY <2>1
  <2>3. s.set \in SetsAt(l) /\ afs[s.set].rule = w.rule
    BY <1>5, <2>2, RowOfRule
  <2>4. ASSUME afs[s.set].apps = s.apps PROVE FALSE
    <3>1. w = [rule |-> w.rule, apps |-> w.apps]
      BY <1>2
    <3>2. w \in FlaggedAt(l)
      BY <2>2, <2>3, <2>4, <3>1 DEF FlaggedAt
    <3> QED BY <2>1, <3>2
  <2>5. ASSUME NEW K \in Components(run.view), RuleKeys(K) = {s.rule}
        PROVE  MembersOf(run.view, K) = s.apps
    <3>1. PICK x \in want : x.rule = s.rule /\ x.apps = MembersOf(run.view, K)
      BY <1>3, <2>5
    <3>2. x = w
      BY <2>2, <3>1, RuleKeysDiffer
    <3> QED BY <2>2, <3>1, <3>2
  <2> QED BY <2>4, <2>5
<1>6. UpdatesAsked'
  BY <1>1, <1>5 DEF UpdatesAsked
<1> QED BY <1>4, <1>6 DEF AskedInv

LEMMA AskedRunStep ==
    ASSUME TypeOK, RunOK, SetsOK, WritesOK, AskedInv, RunStep PROVE AskedInv'
<1>1. ASSUME NEW l \in Listing, ReadGroups(l) PROVE AskedInv'
  <2>1. run'.drop = {} /\ run'.save = {}
    BY <1>1 DEF ReadGroups, RunOK, TypeOK, RunTypeOK
  <2> QED BY <2>1, AskedEmpty
<1>2. ASSUME NEW l \in Listing, MarkListing(l) PROVE AskedInv'
  <2>1. run'.drop = {} /\ run'.save = {}
    BY <1>2 DEF MarkListing, IdleRun, TypeOK, RunTypeOK
  <2> QED BY <2>1, AskedEmpty
<1>3. ASSUME NEW i \in run.drop, DropSet(i) PROVE AskedInv'
  <2>1. /\ run'.view = run.view /\ run'.drop = run.drop \ {i} /\ run'.save = run.save
        /\ state' = state /\ run.pc = "write"
        /\ afs' = [j \in DOMAIN afs \ {i} |-> afs[j]]
    BY <1>3 DEF DropSet, TypeOK, RunTypeOK, appVars
  <2>2. PICK l \in Listing : run.at = {l}
    BY <2>1 DEF RunOK, TypeOK, RunTypeOK
  <2>3. /\ \A j \in run'.drop : j \in DOMAIN afs \ {i}
        /\ \A s \in run.save : s.set # NoSet => s.set \in DOMAIN afs \ {i}
    BY <2>1, <2>2 DEF WritesOK, SetsAt
  <2> QED BY <2>1, <2>3, AskedSame
<1>4. ASSUME NEW s \in run.save, UpdateSet(s) PROVE AskedInv'
  <2>1. /\ run'.view = run.view /\ run'.drop = {} /\ run'.save = run.save \ {s}
        /\ state' = state /\ run.pc = "write" /\ s.set # NoSet
        /\ afs' = [afs EXCEPT ![s.set].apps = s.apps, ![s.set].status = "pending"]
    BY <1>4 DEF UpdateSet, TypeOK, RunTypeOK, appVars
  <2>2. PICK l \in Listing : run.at = {l}
    BY <2>1 DEF RunOK, TypeOK, RunTypeOK
  <2>3. ASSUME NEW t \in run'.save, t.set # NoSet PROVE afs'[t.set].apps = afs[t.set].apps
    <3>1. t.set # s.set /\ t.set \in DOMAIN afs
      BY <2>1, <2>2, <2>3 DEF WritesOK, SetsAt
    <3> QED BY <2>1, <3>1
  <2> QED BY <2>1, <2>3, AskedSame
<1>5. ASSUME NEW s \in run.save, CreateSet(s) PROVE AskedInv'
  <2>1. /\ run'.view = run.view /\ run'.drop = {} /\ run'.save = run.save \ {s}
        /\ state' = state /\ run.pc = "write"
    BY <1>5 DEF CreateSet, TypeOK, RunTypeOK, appVars
  <2>2. \A i \in DOMAIN afs : afs'[i] = afs[i]
    BY <1>5 DEF CreateSet
  <2>3. \A t \in run.save : t.set # NoSet => t.set \in DOMAIN afs
    BY <2>1 DEF WritesOK, RunOK, SetsAt
  <2> QED BY <2>1, <2>2, <2>3, AskedSame
<1>6. ASSUME NEW s \in run.save, UpdateSetFails(s) PROVE AskedInv'
  BY <1>6, AskedEmpty DEF UpdateSetFails, AbortRun, IdleRun
<1> QED BY <1>1, <1>2, <1>3, <1>4, <1>5, <1>6, AskedReadSets DEF RunStep

LEMMA AskedInNext ==
    ASSUME TypeOK, RunOK, SetsOK, WritesOK, HeldInv, AskedInv, [Next]_vars PROVE AskedInv'
<1>1. SameRows /\ UNCHANGED <<state, run>> => AskedInv'
  <2>1. \A s \in run.save : s.set # NoSet => s.set \in DOMAIN afs
    BY DEF WritesOK, RunOK, SetsAt, TypeOK, RunTypeOK
  <2>2. run.drop \subseteq DOMAIN afs
    BY DEF WritesOK, RunOK, SetsAt, TypeOK, RunTypeOK
  <2> QED BY <2>1, <2>2, AskedSame DEF SameRows
<1>2. ASSUME NEW scope, NEW force, BeginRun(scope, force) PROVE AskedInv'
  BY <1>2, AskedEmpty DEF BeginRun, IdleRun
<1>3. ASSUME NEW l \in Listing, CloseByUpdate(l) PROVE AskedInv'
  BY <1>1, <1>2, <1>3 DEF CloseByUpdate, appVars, SameRows
<1>4. ASSUME NEW l \in Listing, CloseByCron(l) \/ ReopenListing(l) PROVE AskedInv'
  BY <1>1, <1>4 DEF CloseByCron, ReopenListing, appVars, SameRows
<1>5. CASE CronRun \/ ManualRun
  BY <1>2, <1>5 DEF CronRun, ManualRun
<1>6. CASE DatabaseFails
  BY <1>6, AskedEmpty DEF DatabaseFails, AbortRun, IdleRun
<1>7. CASE ReviewRequest
  BY <1>1, <1>7 DEF ReviewRequest, OpenReview, BeginReview, appVars, SameRows
<1>8. CASE MarkChosen \/ MarkOthers
  BY <1>1, <1>8 DEF MarkChosen, MarkOthers, SameRows
<1>9. CASE MarkSet
  <2>1. SameRows
    BY <1>9 DEF MarkSet, SameRows, TypeOK, SetTypeOK, FlaggedSet
  <2> QED BY <1>1, <1>9, <2>1 DEF MarkSet, appVars
<1>10. CASE UNCHANGED vars
  BY <1>1, <1>10 DEF vars, SameRows
<1> QED BY <1>3, <1>4, <1>5, <1>6, <1>7, <1>8, <1>9, <1>10, AskedApplication, AskedRunStep
        DEF Next, ReviewStep

\* What a step of the run may not do to a resolved set i.
Stands(i) ==
    /\ afs[i].status = "resolved"
    /\ run.pc # "idle" /\ run' # run
    /\ \A row \in run.view : state[row[2]] # "gone"
    /\ i \in DOMAIN afs' => afs'[i].status = "pending"
    => \A K \in Components(run.view) :
           MembersOf(run.view, K) = afs[i].apps => RuleKeys(K) # {afs[i].rule}

LEMMA StandsInNext ==
    ASSUME TypeOK, RunOK, SetsOK, WritesOK, AskedInv, [Next]_vars, NEW i \in DOMAIN afs
    PROVE  Stands(i)
<1>1. ASSUME i \in DOMAIN afs', afs'[i] = afs[i] PROVE Stands(i)
  BY <1>1 DEF Stands
<1>2. run' = run => Stands(i)
  BY DEF Stands
<1>3. CASE DropSet(i) /\ i \in run.drop
  BY <1>3 DEF Stands, AskedInv, DropsAsked
<1>4. ASSUME NEW j \in run.drop, j # i, DropSet(j) PROVE Stands(i)
  BY <1>1, <1>4 DEF DropSet
<1>5. ASSUME NEW s \in run.save, UpdateSet(s) PROVE Stands(i)
  <2>1. /\ run.pc = "write" /\ s.set # NoSet
        /\ afs' = [afs EXCEPT ![s.set].apps = s.apps, ![s.set].status = "pending"]
    BY <1>5 DEF UpdateSet
  <2>2. CASE i # s.set
    BY <1>1, <2>1, <2>2
  <2>3. CASE i = s.set
    <3>1. afs[i].rule = s.rule
      BY <2>1, <2>3 DEF WritesOK, RunOK
    <3> QED BY <2>1, <2>3, <3>1 DEF Stands, AskedInv, UpdatesAsked
  <2> QED BY <2>2, <2>3
<1>6. ASSUME NEW s \in run.save, CreateSet(s) PROVE Stands(i)
  BY <1>1, <1>6 DEF CreateSet
<1>7. ASSUME NEW l \in Listing, ReadGroups(l) \/ ReadSets(l) \/ MarkListing(l)
      PROVE  Stands(i)
  BY <1>1, <1>7 DEF ReadGroups, ReadSets, MarkListing
<1>8. ASSUME NEW s \in run.save, UpdateSetFails(s) PROVE Stands(i)
  BY <1>1, <1>8 DEF UpdateSetFails, AbortRun
<1>9. CASE RunStep
  BY <1>3, <1>4, <1>5, <1>6, <1>7, <1>8, <1>9 DEF RunStep
<1>10. ASSUME NEW a \in Application, ApplicationStep(a) PROVE Stands(i)
  BY <1>2, <1>10 DEF ApplicationStep, CreateApplication, UpdateApplication,
     StampApplication, RollBackCreate, BeginDelete, EndDelete, ClearApplication
<1>11. ASSUME NEW l \in Listing, CloseByUpdate(l) \/ CloseByCron(l) \/ ReopenListing(l)
       PROVE  Stands(i)
  BY <1>1, <1>11 DEF CloseByUpdate, CloseByCron, ReopenListing
<1>12. CASE CronRun \/ ManualRun \/ DatabaseFails
  BY <1>1, <1>12 DEF CronRun, ManualRun, DatabaseFails, AbortRun
<1>13. CASE ReviewRequest
  BY <1>2, <1>13 DEF ReviewRequest, OpenReview, BeginReview
<1>14. CASE ReviewStep
  BY <1>2, <1>14 DEF ReviewStep, MarkChosen, MarkOthers, MarkSet
<1>15. CASE UNCHANGED vars
  BY <1>2, <1>15 DEF vars
<1> QED BY <1>9, <1>10, <1>11, <1>12, <1>13, <1>14, <1>15 DEF Next

\* A run neither reopens nor deletes a resolved set whose group it found unchanged,
\* whatever is written between its reading and its writing; only the roll-back of
\* an application it read may make a set its group after the fact.
THEOREM ResolvedStands == Spec => ResolutionStands
<1>1. Init => HeldInv /\ AskedInv
  <2> SUFFICES ASSUME Init PROVE HeldInv /\ AskedInv
    OBVIOUS
  <2>1. run.view = {} /\ run.save = {} /\ run.drop = {} /\ run.at = {}
    BY DEF Init, IdleRun
  <2>2. HeldInv
    BY <2>1 DEF Init, HeldInv, RequestsLive, RowsHeld, MembersHeld, MembersRead, WritesRead
  <2>3. AskedInv
    BY <2>1 DEF AskedInv, DropsAsked, UpdatesAsked
  <2> QED BY <2>2, <2>3
<1>2. FlagInv /\ HeldInv /\ AskedInv /\ [Next]_vars => HeldInv' /\ AskedInv'
  BY HeldInNext, AskedInNext DEF FlagInv
<1>3. FlagInv /\ AskedInv /\ [Next]_vars => [\A i \in DOMAIN afs : Stands(i)]_vars
  BY StandsInNext DEF FlagInv
<1>4. [][\A i \in DOMAIN afs : Stands(i)]_vars => ResolutionStands
  BY DEF Stands, ResolutionStands
<1> QED BY <1>1, <1>2, <1>3, <1>4, FlagInvariant, PTL DEF Spec
=============================================================================

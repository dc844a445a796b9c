------------------------- MODULE SettledProofs -------------------------
(***************************************************************************)
(* Proof that a settled listing has the flagged sets its applications call *)
(* for (SettledMeansFlagged), from the inductive invariant FlagInv: the    *)
(* rows and the writes ahead of the run first, then what they match.       *)
(***************************************************************************)
EXTENDS FlaggedSetsProofs

USE HomeAssumption, KeySetsAssumption, NoSetAssumption

Matches == RunMatches /\ FinishedMatch /\ OtherMatch

\* The rows of flagged sets, but for their status, stay as they are.
SameRows ==
    /\ DOMAIN afs' = DOMAIN afs
    /\ \A i \in DOMAIN afs : /\ afs'[i].listing = afs[i].listing
                             /\ afs'[i].rule = afs[i].rule
                             /\ afs'[i].apps = afs[i].apps

----------------------------------------------------------------------------
(* What an action leaves alone. *)

LEMMA FlaggedStays ==
    ASSUME NEW m, SetsAt(m)' = SetsAt(m),
           \A i \in SetsAt(m) : afs'[i].rule = afs[i].rule /\ afs'[i].apps = afs[i].apps
    PROVE  FlaggedAt(m)' = FlaggedAt(m)
BY DEF FlaggedAt

LEMMA AheadStays ==
    ASSUME NEW m, SetsAt(m)' = SetsAt(m),
           \A i \in SetsAt(m) : afs'[i].rule = afs[i].rule /\ afs'[i].apps = afs[i].apps,
           run'.drop = run.drop, run'.save = run.save
    PROVE  SetsAhead(m)' = SetsAhead(m)
BY DEF SetsAhead

LEMMA ViewStays ==
    ASSUME NEW m, \A a \in AppsAt(m) : state'[a] = state[a] /\ keys'[a] = keys[a]
    PROVE  CurrentView(m)' = CurrentView(m)
BY DEF CurrentView, View, AppsAt

LEMMA MatchStays ==
    ASSUME NEW m, FlaggedAt(m)' = FlaggedAt(m), CurrentView(m)' = CurrentView(m)
    PROVE  Match(m)' = Match(m)
BY DEF Match

\* With the same rows and applications the listings match as before.
LEMMA SameAll ==
    ASSUME SameRows, state' = state, keys' = keys, NEW m
    PROVE  /\ SetsAt(m)' = SetsAt(m)
           /\ FlaggedAt(m)' = FlaggedAt(m)
           /\ CurrentView(m)' = CurrentView(m)
           /\ Match(m)' = Match(m)
           /\ run'.drop = run.drop /\ run'.save = run.save => SetsAhead(m)' = SetsAhead(m)
<1>1. SetsAt(m)' = SetsAt(m)
  BY DEF SetsAt, SameRows
<1>2. \A i \in SetsAt(m) : afs'[i].rule = afs[i].rule /\ afs'[i].apps = afs[i].apps
  BY DEF SetsAt, SameRows
<1>3. FlaggedAt(m)' = FlaggedAt(m)
  BY <1>1, <1>2, FlaggedStays
<1>4. CurrentView(m)' = CurrentView(m)
  BY ViewStays
<1>5. Match(m)' = Match(m)
  BY <1>3, <1>4, MatchStays
<1> QED BY <1>1, <1>2, <1>3, <1>4, <1>5, AheadStays

\* No row of another listing has to do with application a.
LEMMA RowsElsewhere ==
    ASSUME SetsOK, NEW a \in Application, NEW m, m # Home[a], NEW i \in SetsAt(m)
    PROVE  a \notin afs[i].apps
BY DEF SetsOK, SetsAt, AppsAt

----------------------------------------------------------------------------
(* Rows and writes ahead. *)

LEMMA RowsSame ==
    ASSUME SetsOK, WritesOK, SameRows, run' = run PROVE SetsOK' /\ WritesOK'
<1>1. \A m : SetsAt(m)' = SetsAt(m)
  BY DEF SetsAt, SameRows
<1>2. SetsOK'
  BY <1>1 DEF SetsOK, SameRows, AppsAt, SetsAt
<1>3. WritesOK'
  BY <1>1 DEF WritesOK, SameRows, AppsAt, SetsAt
<1> QED BY <1>2, <1>3

\* Rows that lose members stay in order.
LEMMA RowsShrink ==
    ASSUME SetsOK, WritesOK, run' = run, DOMAIN afs' = DOMAIN afs,
           \A i \in DOMAIN afs : /\ afs'[i].listing = afs[i].listing
                                 /\ afs'[i].rule = afs[i].rule
                                 /\ afs'[i].apps \subseteq afs[i].apps
    PROVE  SetsOK' /\ WritesOK'
<1>1. \A m : SetsAt(m)' = SetsAt(m)
  BY DEF SetsAt
<1>2. SetsOK'
  BY <1>1 DEF SetsOK, AppsAt, SetsAt
<1>3. WritesOK'
  BY <1>1 DEF WritesOK, AppsAt, SetsAt
<1> QED BY <1>2, <1>3

\* The row found for a rule key is the row of that key.
LEMMA RowOfRule ==
    ASSUME TypeOK, SetsOK, NEW l, NEW r
    PROVE  /\ SetOf(l, r) = NoSet => \A i \in SetsAt(l) : afs[i].rule # r
           /\ \A i \in SetsAt(l) : afs[i].rule = r => SetOf(l, r) = i
           /\ SetOf(l, r) # NoSet => SetOf(l, r) \in SetsAt(l) /\ afs[SetOf(l, r)].rule = r
<1>1. SetsAt(l) \subseteq SetId
  BY DEF SetsAt, TypeOK, SetTypeOK
<1>2. \A i, j \in SetsAt(l) : afs[i].rule = afs[j].rule => i = j
  BY DEF SetsOK, SetsAt
<1>3. ASSUME NEW i \in SetsAt(l), afs[i].rule = r
      PROVE  SetOf(l, r) = i /\ i # NoSet
  <2> DEFINE j == CHOOSE k \in SetsAt(l) : afs[k].rule = r
  <2>1. j \in SetsAt(l) /\ afs[j].rule = r
    BY <1>3
  <2>2. SetOf(l, r) = j
    BY <1>3 DEF SetOf
  <2> QED BY <1>1, <1>2, <1>3, <2>1, <2>2
<1>4. CASE ~\E i \in SetsAt(l) : afs[i].rule = r
  BY <1>1, <1>4 DEF SetOf
<1>5. NoSet \notin SetsAt(l)
  BY <1>1
<1> QED BY <1>3, <1>4, <1>5

LEMMA RowsReadSets ==
    ASSUME TypeOK, RunOK, SetsOK, NEW l \in Listing, ReadSets(l)
    PROVE  SetsOK' /\ WritesOK'
<1> PICK want \in Constructions(run.view) :
      run' = [run EXCEPT
            !.pc = "write",
            !.drop = {i \in SetsAt(l) : \A w \in want : w.rule # afs[i].rule},
            !.save = {[set |-> SetOf(l, w.rule), rule |-> w.rule, apps |-> w.apps] :
                          w \in want \ FlaggedAt(l)},
            !.mark = run.due]
  BY DEF ReadSets
<1>1. afs' = afs /\ run.at = {l} /\ run.pc = "sets"
  BY DEF ReadSets
<1>2. SetsOK'
  BY <1>1 DEF SetsOK, SetsAt, AppsAt
<1>3. run.view \in SUBSET (Key \X AppsAt(l))
  BY <1>1 DEF RunOK
<1>4. ASSUME NEW w \in want PROVE w.apps \subseteq AppsAt(l)
  <2>1. AppsAt(l) \in SUBSET Application
    BY DEF AppsAt
  <2> QED BY <1>3, <2>1, ConstructedFrom
<1>5. ASSUME NEW s \in run'.save
      PROVE  /\ s.apps \subseteq AppsAt(l)
             /\ s.set = NoSet => \A i \in SetsAt(l) : afs[i].rule # s.rule
             /\ s.set # NoSet => s.set \in SetsAt(l) \ run'.drop /\ afs[s.set].rule = s.rule
  <2>1. PICK w \in want \ FlaggedAt(l) :
          s = [set |-> SetOf(l, w.rule), rule |-> w.rule, apps |-> w.apps]
    BY DEF TypeOK, RunTypeOK
  <2>2. run'.drop = {i \in SetsAt(l) : \A x \in want : x.rule # afs[i].rule}
    BY DEF TypeOK, RunTypeOK
  <2> QED BY <1>4, <2>1, <2>2, RowOfRule
<1>6. ASSUME NEW s \in run'.save, NEW t \in run'.save, s.rule = t.rule PROVE s = t
  <2>1. PICK w \in want :
          s = [set |-> SetOf(l, w.rule), rule |-> w.rule, apps |-> w.apps]
    BY DEF TypeOK, RunTypeOK
  <2>2. PICK x \in want :
          t = [set |-> SetOf(l, x.rule), rule |-> x.rule, apps |-> x.apps]
    BY DEF TypeOK, RunTypeOK
  <2> QED BY <1>6, <2>1, <2>2, RuleKeysDiffer
<1>7. run'.at = {l} /\ run'.drop \subseteq SetsAt(l)
  BY <1>1 DEF TypeOK, RunTypeOK
<1>8. SetsAt(l)' = SetsAt(l)
  BY <1>1 DEF SetsAt
<1>9. WritesOK'
  BY <1>1, <1>5, <1>6, <1>7, <1>8 DEF WritesOK, AppsAt
<1> QED BY <1>2, <1>9

LEMMA RowsDropSet ==
    ASSUME TypeOK, RunOK, SetsOK, WritesOK, NEW i \in run.drop, DropSet(i)
    PROVE  SetsOK' /\ WritesOK'
<1>1. afs' = [j \in DOMAIN afs \ {i} |-> afs[j]]
  BY DEF DropSet
<1>2. \A m : SetsAt(m)' = SetsAt(m) \ {i}
  BY <1>1 DEF SetsAt
<1>3. SetsOK'
  BY <1>1, <1>2 DEF SetsOK, SetsAt, AppsAt
<1>4. /\ run'.drop = run.drop \ {i} /\ run'.at = run.at
      /\ run'.save = run.save /\ run'.pc = run.pc
  BY DEF DropSet, TypeOK, RunTypeOK
<1>5. WritesOK'
  <2> SUFFICES ASSUME NEW l \in run.at, run.pc = "write"
               PROVE /\ run'.drop \subseteq SetsAt(l)'
                     /\ \A s \in run.save :
                         /\ s.apps \subseteq AppsAt(l)
                         /\ s.set = NoSet => \A j \in SetsAt(l)' : afs'[j].rule # s.rule
                         /\ s.set # NoSet => /\ s.set \in SetsAt(l)' \ run'.drop
                                             /\ afs'[s.set].rule = s.rule
                     /\ \A s, t \in run.save : s.rule = t.rule => s = t
    BY <1>4 DEF WritesOK, AppsAt
  <2>1. \A j \in SetsAt(l)' : afs'[j] = afs[j]
    BY <1>1, <1>2 DEF SetsAt
  <2> QED BY <1>2, <1>4, <2>1 DEF WritesOK
<1> QED BY <1>3, <1>5

LEMMA RowsUpdateSet ==
    ASSUME TypeOK, RunOK, SetsOK, WritesOK, NEW s \in run.save, UpdateSet(s)
    PROVE  SetsOK' /\ WritesOK'
<1>1. /\ afs' = [afs EXCEPT ![s.set].apps = s.apps, ![s.set].status = "pending"]
      /\ run.pc = "write" /\ run.drop = {} /\ s.set # NoSet
  BY DEF UpdateSet
<1>2. /\ run'.drop = run.drop /\ run'.at = run.at
      /\ run'.save = run.save \ {s} /\ run'.pc = run.pc
  BY DEF UpdateSet, TypeOK, RunTypeOK
<1>3. PICK l \in Listing : run.at = {l}
  BY <1>1 DEF RunOK, TypeOK, RunTypeOK
<1>4. /\ s.set \in SetsAt(l) /\ afs[s.set].rule = s.rule /\ s.apps \subseteq AppsAt(l)
      /\ \A t \in run.save : t.rule = s.rule => t = s
  BY <1>1, <1>3 DEF WritesOK
<1>5. /\ DOMAIN afs' = DOMAIN afs
      /\ \A i \in DOMAIN afs : /\ afs'[i].listing = afs[i].listing
                               /\ afs'[i].rule = afs[i].rule
                               /\ afs'[i].apps \subseteq AppsAt(afs[i].listing)
  <2>1. DOMAIN afs' = DOMAIN afs
    BY <1>1
  <2>2. ASSUME NEW i \in DOMAIN afs
        PROVE  /\ afs'[i].listing = afs[i].listing /\ afs'[i].rule = afs[i].rule
               /\ afs'[i].apps = IF i = s.set THEN s.apps ELSE afs[i].apps
    BY <1>1 DEF TypeOK, SetTypeOK, FlaggedSet
  <2>3. afs[s.set].listing = l
    BY <1>4 DEF SetsAt
  <2> QED BY <1>4, <2>1, <2>2, <2>3 DEF SetsOK
<1>6. \A m : SetsAt(m)' = SetsAt(m)
  BY <1>5 DEF SetsAt
<1>7. SetsOK'
  BY <1>5, <1>6 DEF SetsOK, SetsAt, AppsAt
<1>8. WritesOK'
  BY <1>2, <1>5, <1>6 DEF WritesOK, AppsAt, SetsAt
<1> QED BY <1>7, <1>8

LEMMA RowsCreateSet ==
    ASSUME TypeOK, RunOK, SetsOK, WritesOK, NEW s \in run.save, CreateSet(s)
    PROVE  SetsOK' /\ WritesOK'
<1>1. run.pc = "write" /\ run.drop = {} /\ s.set = NoSet
  BY DEF CreateSet
<1>2. /\ run'.drop = run.drop /\ run'.at = run.at
      /\ run'.save = run.save \ {s} /\ run'.pc = run.pc
  BY DEF CreateSet, TypeOK, RunTypeOK
<1>3. PICK l \in Listing : run.at = {l}
  BY <1>1 DEF RunOK, TypeOK, RunTypeOK
<1>4. /\ \A i \in SetsAt(l) : afs[i].rule # s.rule
      /\ s.apps \subseteq AppsAt(l)
      /\ \A t \in run.save : t.rule = s.rule => t = s
  BY <1>1, <1>3 DEF WritesOK
<1>5. CASE Connectable(s.apps)
  <2>1. (CHOOSE m \in run.at : TRUE) = l
    BY <1>3
  <2>2. PICK n \in SetId \ (DOMAIN afs \cup {review.set}) :
           afs' = [j \in DOMAIN afs \cup {n} |->
                     IF j = n THEN [listing |-> l, rule |-> s.rule, apps |-> s.apps,
                                    status |-> "pending", seen |-> {}]
                     ELSE afs[j]]
    BY <1>5, <2>1 DEF CreateSet
  <2>3. /\ DOMAIN afs' = DOMAIN afs \cup {n} /\ n \notin DOMAIN afs
        /\ \A i \in DOMAIN afs : afs'[i] = afs[i]
        /\ afs'[n].listing = l /\ afs'[n].rule = s.rule /\ afs'[n].apps = s.apps
    BY <2>2
  <2>4. \A m : SetsAt(m)' = IF m = l THEN SetsAt(m) \cup {n} ELSE SetsAt(m)
    BY <2>3 DEF SetsAt
  <2>5. SetsOK'
    BY <1>4, <2>3, <2>4 DEF SetsOK, SetsAt, AppsAt
  <2>6. WritesOK'
    BY <1>1, <1>2, <1>3, <1>4, <2>3, <2>4 DEF WritesOK, AppsAt, SetsAt
  <2> QED BY <2>5, <2>6
<1>6. CASE ~Connectable(s.apps)
  <2>1. afs' = afs
    BY <1>6 DEF CreateSet
  <2>2. SetsOK'
    BY <2>1 DEF SetsOK, SetsAt, AppsAt
  <2>3. WritesOK'
    BY <1>2, <2>1 DEF WritesOK, SetsAt, AppsAt
  <2> QED BY <2>2, <2>3
<1> QED BY <1>5, <1>6

LEMMA RowsRunStep ==
    ASSUME TypeOK, RunOK, SetsOK, WritesOK, RunStep PROVE SetsOK' /\ WritesOK'
<1>1. ASSUME NEW l \in Listing, ReadGroups(l) PROVE SetsOK' /\ WritesOK'
  <2>1. afs' = afs /\ run'.pc = "sets"
    BY <1>1 DEF ReadGroups, TypeOK, RunTypeOK
  <2> QED BY <2>1 DEF SetsOK, WritesOK, SetsAt, AppsAt
<1>2. ASSUME NEW l \in Listing, MarkListing(l) PROVE SetsOK' /\ WritesOK'
  <2>1. afs' = afs /\ run.pc = "write" /\ run.drop = {} /\ run.save = {}
    BY <1>2 DEF MarkListing
  <2>2. /\ run'.drop = {} /\ run'.save = {}
    BY <1>2, <2>1 DEF MarkListing, IdleRun, TypeOK, RunTypeOK
  <2> QED BY <2>1, <2>2 DEF SetsOK, WritesOK, SetsAt, AppsAt
<1>3. ASSUME NEW s \in run.save, UpdateSetFails(s) PROVE SetsOK' /\ WritesOK'
  <2>1. afs' = afs /\ run' = IdleRun
    BY <1>3 DEF UpdateSetFails, AbortRun
  <2> QED BY <2>1 DEF SetsOK, WritesOK, SetsAt, AppsAt, IdleRun
<1> QED BY <1>1, <1>2, <1>3, RowsReadSets, RowsDropSet, RowsUpdateSet, RowsCreateSet
        DEF RunStep

\* A run that begins has nothing to write.
LEMMA RowsBegin ==
    ASSUME SetsOK, afs' = afs, run'.at = {} PROVE SetsOK' /\ WritesOK'
BY DEF SetsOK, WritesOK, SetsAt, AppsAt

LEMMA RowsInNext ==
    ASSUME TypeOK, RunOK, SetsOK, WritesOK, [Next]_vars PROVE SetsOK' /\ WritesOK'
<1>1. ASSUME NEW a \in Application, ApplicationStep(a) PROVE SetsOK' /\ WritesOK'
  <2>1. CASE RollBackCreate(a)
    <3>1. afs' = [i \in DOMAIN afs |-> [afs[i] EXCEPT !.apps = @ \ {a}]] /\ run' = run
      BY <2>1 DEF RollBackCreate
    <3>2. \A i \in DOMAIN afs : /\ afs'[i].listing = afs[i].listing
                                /\ afs'[i].rule = afs[i].rule
                                /\ afs'[i].apps \subseteq afs[i].apps
      BY <3>1 DEF TypeOK, SetTypeOK, FlaggedSet
    <3> QED BY <3>1, <3>2, RowsShrink
  <2>2. CASE ~RollBackCreate(a)
    <3>1. afs' = afs /\ run' = run
      BY <1>1, <2>2 DEF ApplicationStep, CreateApplication, UpdateApplication,
                        StampApplication, BeginDelete, EndDelete, ClearApplication
    <3> QED BY <3>1, RowsSame DEF SameRows
  <2> QED BY <2>1, <2>2
<1>2. ASSUME NEW l \in Listing, CloseByUpdate(l) PROVE SetsOK' /\ WritesOK'
  <2>1. CASE run' = run
    BY <1>2, <2>1, RowsSame DEF CloseByUpdate, SameRows
  <2>2. CASE BeginRun({l}, FALSE)
    BY <1>2, <2>2, RowsBegin DEF CloseByUpdate, BeginRun, IdleRun
  <2> QED BY <1>2, <2>1, <2>2 DEF CloseByUpdate
<1>3. ASSUME NEW l \in Listing, CloseByCron(l) \/ ReopenListing(l)
      PROVE SetsOK' /\ WritesOK'
  BY <1>3, RowsSame DEF CloseByCron, ReopenListing, SameRows
<1>4. CASE CronRun \/ ManualRun
  BY <1>4, RowsBegin DEF CronRun, ManualRun, BeginRun, IdleRun
<1>5. CASE DatabaseFails
  BY <1>5, RowsBegin DEF DatabaseFails, AbortRun, IdleRun
<1>6. CASE ReviewRequest
  BY <1>6, RowsSame DEF ReviewRequest, OpenReview, BeginReview, SameRows
<1>7. CASE MarkChosen \/ MarkOthers
  BY <1>7, RowsSame DEF MarkChosen, MarkOthers, SameRows
<1>8. CASE MarkSet
  <2>1. SameRows /\ run' = run
    BY <1>8 DEF MarkSet, SameRows, TypeOK, SetTypeOK, FlaggedSet
  <2> QED BY <2>1, RowsSame
<1>9. CASE UNCHANGED vars
  BY <1>9, RowsSame DEF vars, SameRows
<1> QED BY <1>1, <1>2, <1>3, <1>4, <1>5, <1>6, <1>7, <1>8, <1>9, RowsRunStep
        DEF Next, ReviewStep

----------------------------------------------------------------------------
(* What the listings match. *)

\* Nothing the listings match by has changed.
LEMMA MatchSame ==
    ASSUME RunOK, Matches, SameRows, UNCHANGED <<state, keys, run, spoiled, fresh, request>>
    PROVE  Matches'
<1>1. RunMatches'
  BY SameAll DEF Matches, RunMatches
<1>2. FinishedMatch'
  BY SameAll DEF Matches, FinishedMatch
<1>3. OtherMatch'
  BY SameAll DEF Matches, OtherMatch, OutOfDate, AppsAt
<1> QED BY <1>1, <1>2, <1>3 DEF Matches

\* A stamp makes the listing of its application due.
LEMMA MatchStamp ==
    ASSUME TypeOK, RunOK, Matches, NEW a \in Application, Stamp(Home[a]), SameRows,
           UNCHANGED <<state, keys, run, spoiled>>,
           \A b \in Application \ {a} : request'[b] = request[b]
    PROVE  Matches'
<1>1. RunMatches'
  BY SameAll DEF Matches, RunMatches
<1>2. FinishedMatch'
  BY SameAll DEF Matches, FinishedMatch
<1>3. OtherMatch'
  <2>1. OutOfDate(Home[a])'
    BY DEF Stamp, StampOutcomes, OutOfDate, TypeOK, ListingTypeOK
  <2>2. ASSUME NEW m \in Listing, m # Home[a]
        PROVE  /\ fresh'[m] = fresh[m]
               /\ \A b \in AppsAt(m) : request'[b] = request[b]
    BY <2>2 DEF Stamp, TypeOK, ListingTypeOK, AppsAt
  <2>3. ASSUME NEW m \in Listing \ run.due, ~OutOfDate(m)', ~spoiled[m],
               \A b \in AppsAt(m) : request'[b] \notin {"created", "edited"}
        PROVE  Match(m)
    BY <2>1, <2>2, <2>3 DEF Matches, OtherMatch, OutOfDate
  <2> QED BY <2>3, SameAll DEF OtherMatch, AppsAt
<1> QED BY <1>1, <1>2, <1>3 DEF Matches

\* A write to application a spoils what a run has read of its listing, or
\* leaves the request to stamp it, and has nothing to do with another listing.
LEMMA MatchWrite ==
    ASSUME TypeOK, RunOK, SetsOK, Matches, NEW a \in Application,
           NEW stampFollows \in BOOLEAN, Spoil(Home[a], stampFollows),
           stampFollows => request'[a] \in {"created", "edited"},
           \A b \in Application \ {a} :
               state'[b] = state[b] /\ keys'[b] = keys[b] /\ request'[b] = request[b],
           UNCHANGED <<run, fresh>>,
           DOMAIN afs' = DOMAIN afs,
           \A i \in DOMAIN afs : /\ afs'[i].listing = afs[i].listing
                                 /\ afs'[i].rule = afs[i].rule
                                 /\ a \notin afs[i].apps => afs'[i].apps = afs[i].apps
    PROVE  Matches'
<1> DEFINE l == Home[a]
<1>1. /\ spoiled'[l] = (spoiled[l] \/ ReadByRun(l) \/ (~stampFollows /\ ~OutOfDate(l)))
      /\ \A m \in Listing \ {l} : spoiled'[m] = spoiled[m]
  BY DEF Spoil, TypeOK, ListingTypeOK
<1>2. ASSUME NEW m \in Listing \ {l}
      PROVE  /\ Match(m)' = Match(m) /\ CurrentView(m)' = CurrentView(m)
             /\ SetsAhead(m)' = SetsAhead(m)
  <2>1. SetsAt(m)' = SetsAt(m)
    BY DEF SetsAt
  <2>2. \A i \in SetsAt(m) : afs'[i].rule = afs[i].rule /\ afs'[i].apps = afs[i].apps
    BY RowsElsewhere DEF SetsAt
  <2>3. CurrentView(m)' = CurrentView(m)
    BY ViewStays DEF AppsAt
  <2>4. FlaggedAt(m)' = FlaggedAt(m)
    BY <2>1, <2>2, FlaggedStays
  <2> QED BY <2>1, <2>2, <2>3, <2>4, AheadStays, MatchStays
<1>3. \A m \in run.due \ run.todo : m \in Listing /\ (m = l => spoiled'[m])
  BY <1>1 DEF ReadByRun, TypeOK, RunTypeOK
<1>4. run.at \subseteq run.due \ run.todo
  BY DEF RunOK
<1>5. RunMatches'
  BY <1>1, <1>2, <1>3, <1>4 DEF Matches, RunMatches
<1>6. FinishedMatch'
  BY <1>1, <1>2, <1>3 DEF Matches, FinishedMatch
<1>7. OtherMatch'
  <2>1. ASSUME NEW m \in Listing \ run.due, ~OutOfDate(m), ~spoiled'[m],
               \A b \in AppsAt(m) : request'[b] \notin {"created", "edited"}
        PROVE  m # l /\ Match(m)
    <3>1. m # l
      BY <1>1, <2>1 DEF AppsAt
    <3>2. ~spoiled[m] /\ \A b \in AppsAt(m) : request[b] \notin {"created", "edited"}
      BY <1>1, <2>1, <3>1 DEF AppsAt
    <3> QED BY <2>1, <3>1, <3>2 DEF Matches, OtherMatch
  <2> QED BY <1>2, <2>1 DEF OtherMatch, OutOfDate, AppsAt
<1> QED BY <1>5, <1>6, <1>7 DEF Matches

LEMMA MatchApplication ==
    ASSUME TypeOK, RunOK, SetsOK, Matches, NEW a \in Application, ApplicationStep(a)
    PROVE  Matches'
<1> USE DEF TypeOK, AppTypeOK
<1>1. ASSUME NEW K \in KeySets, CreateApplication(a, K) PROVE Matches'
  BY <1>1, MatchWrite DEF CreateApplication
<1>2. ASSUME NEW K \in KeySets, UpdateApplication(a, K) PROVE Matches'
  BY <1>2, MatchWrite DEF UpdateApplication
<1>3. CASE StampApplication(a)
  BY <1>3, MatchStamp DEF StampApplication, SameRows
<1>4. CASE RollBackCreate(a)
  <2>1. afs' = [i \in DOMAIN afs |-> [afs[i] EXCEPT !.apps = @ \ {a}]]
    BY <1>4 DEF RollBackCreate
  <2>2. \A i \in DOMAIN afs : /\ afs'[i].listing = afs[i].listing
                              /\ afs'[i].rule = afs[i].rule
                              /\ a \notin afs[i].apps => afs'[i].apps = afs[i].apps
    BY <2>1 DEF SetTypeOK, FlaggedSet
  <2>3. DOMAIN afs' = DOMAIN afs
    BY <2>1
  <2> QED BY <1>4, <2>2, <2>3, MatchWrite DEF RollBackCreate
<1>5. CASE BeginDelete(a)
  BY <1>5, MatchStamp DEF BeginDelete, SameRows
<1>6. CASE EndDelete(a)
  BY <1>6, MatchWrite DEF EndDelete
<1>7. CASE ClearApplication(a)
  BY <1>7, MatchWrite DEF ClearApplication
<1> QED BY <1>1, <1>2, <1>3, <1>4, <1>5, <1>6, <1>7 DEF ApplicationStep

LEMMA MatchReadGroups ==
    ASSUME TypeOK, RunOK, Matches, NEW l \in Listing, ReadGroups(l) PROVE Matches'
<1>1. /\ run'.at = {l} /\ run'.pc = "sets" /\ run'.view = CurrentView(l)
      /\ run'.due = run.due /\ run'.todo = run.todo \ {l}
      /\ run.pc = "next" /\ l \in run.todo
  BY DEF ReadGroups, TypeOK, RunTypeOK
<1>2. \A m \in Listing \ {l} : spoiled'[m] = spoiled[m]
  BY DEF ReadGroups, TypeOK, ListingTypeOK
<1>3. SameRows /\ UNCHANGED <<state, keys, fresh, request>>
  BY DEF ReadGroups, appVars, SameRows
<1>4. run.due \subseteq Listing /\ run.todo \subseteq run.due
  BY DEF TypeOK, RunTypeOK, RunOK
<1>5. RunMatches'
  BY <1>1, <1>3, SameAll DEF RunMatches
<1>6. FinishedMatch'
  BY <1>1, <1>2, <1>3, <1>4, SameAll DEF Matches, FinishedMatch
<1>7. OtherMatch'
  BY <1>1, <1>2, <1>3, <1>4, SameAll DEF Matches, OtherMatch, OutOfDate, AppsAt
<1> QED BY <1>5, <1>6, <1>7 DEF Matches

\* The deletions and writes the run decides on lead to what it constructed.
LEMMA AheadIsWanted ==
    ASSUME TypeOK, RunOK, SetsOK, NEW l \in Listing,
           NEW want \in Constructions(run.view), run.pc = "sets", run.at = {l}, afs' = afs,
           run'.drop = {i \in SetsAt(l) : \A w \in want : w.rule # afs[i].rule},
           run'.save = {[set |-> SetOf(l, w.rule), rule |-> w.rule, apps |-> w.apps] :
                          w \in want \ FlaggedAt(l)}
    PROVE  SetsAhead(l)' = want
<1> DEFINE Row(i) == [rule |-> afs[i].rule, apps |-> afs[i].apps]
           Written == {s.set : s \in run'.save}
<1>1. SetsAhead(l)' = {Row(i) : i \in SetsAt(l) \ (run'.drop \cup Written)}
                      \cup {[rule |-> s.rule, apps |-> s.apps] : s \in run'.save}
  BY DEF SetsAhead, SetsAt
<1>2. \A w \in want : w = [rule |-> w.rule, apps |-> w.apps]
  <2>1. run.view \in SUBSET (Key \X AppsAt(l))
    BY DEF RunOK
  <2>2. AppsAt(l) \in SUBSET Application
    BY DEF AppsAt
  <2> QED BY <2>1, <2>2, ConstructedFrom
<1>3. \A i, j \in SetsAt(l) : afs[i].rule = afs[j].rule => i = j
  BY DEF SetsOK, SetsAt
<1>4. ASSUME NEW w \in want PROVE w \in SetsAhead(l)'
  <2>1. CASE w \in FlaggedAt(l)
    <3>1. PICK i \in SetsAt(l) : w = Row(i)
      BY <2>1 DEF FlaggedAt
    <3>2. i \notin run'.drop
      BY <3>1
    <3>3. ASSUME i \in Written PROVE FALSE
      <4>1. PICK x \in want \ FlaggedAt(l) : SetOf(l, x.rule) = i
        BY <3>3
      <4>2. i # NoSet
        BY DEF SetsAt, TypeOK, SetTypeOK
      <4>3. afs[i].rule = x.rule
        BY <4>1, <4>2, RowOfRule
      <4>4. w = x
        BY <3>1, <4>3, RuleKeysDiffer
      <4> QED BY <2>1, <4>1, <4>4
    <3> QED BY <1>1, <3>1, <3>2, <3>3
  <2>2. CASE w \notin FlaggedAt(l)
    <3> DEFINE s == [set |-> SetOf(l, w.rule), rule |-> w.rule, apps |-> w.apps]
    <3>1. s \in run'.save /\ s.rule = w.rule /\ s.apps = w.apps
      BY <2>2
    <3> HIDE DEF s
    <3>2. [rule |-> s.rule, apps |-> s.apps] \in SetsAhead(l)'
      BY <1>1, <3>1
    <3> QED BY <1>2, <3>1, <3>2
  <2> QED BY <2>1, <2>2
<1>5. ASSUME NEW i \in SetsAt(l) \ (run'.drop \cup Written) PROVE Row(i) \in want
  <2>1. PICK w \in want : w.rule = afs[i].rule
    BY <1>5
  <2>2. SetOf(l, w.rule) = i
    BY <1>5, <2>1, RowOfRule
  <2>3. w \in FlaggedAt(l)
    <3> SUFFICES ASSUME w \notin FlaggedAt(l) PROVE FALSE
      OBVIOUS
    <3>1. [set |-> SetOf(l, w.rule), rule |-> w.rule, apps |-> w.apps] \in run'.save
      OBVIOUS
    <3> QED BY <1>5, <2>2, <3>1
  <2>4. PICK j \in SetsAt(l) : w = Row(j)
    BY <2>3 DEF FlaggedAt
  <2>5. j = i
    BY <1>3, <1>5, <2>1, <2>4
  <2> QED BY <2>4, <2>5
<1>6. ASSUME NEW s \in run'.save PROVE [rule |-> s.rule, apps |-> s.apps] \in want
  <2>1. PICK w \in want : s = [set |-> SetOf(l, w.rule), rule |-> w.rule, apps |-> w.apps]
    OBVIOUS
  <2>2. [rule |-> s.rule, apps |-> s.apps] = w
    BY <1>2, <2>1
  <2> QED BY <2>2
<1> QED BY <1>1, <1>4, <1>5, <1>6

LEMMA MatchReadSets ==
    ASSUME TypeOK, RunOK, SetsOK, Matches, NEW l \in Listing, ReadSets(l) PROVE Matches'
<1> PICK want \in Constructions(run.view) :
      run' = [run EXCEPT
            !.pc = "write",
            !.drop = {i \in SetsAt(l) : \A w \in want : w.rule # afs[i].rule},
            !.save = {[set |-> SetOf(l, w.rule), rule |-> w.rule, apps |-> w.apps] :
                          w \in want \ FlaggedAt(l)},
            !.mark = run.due]
  BY DEF ReadSets
<1>1. /\ run'.at = {l} /\ run'.pc = "write" /\ run'.view = run.view
      /\ run'.due = run.due /\ run'.todo = run.todo
      /\ run.at = {l} /\ run.pc = "sets"
      /\ run'.drop = {i \in SetsAt(l) : \A w \in want : w.rule # afs[i].rule}
      /\ run'.save = {[set |-> SetOf(l, w.rule), rule |-> w.rule, apps |-> w.apps] :
                          w \in want \ FlaggedAt(l)}
  BY DEF ReadSets, TypeOK, RunTypeOK
<1>2. SameRows /\ afs' = afs /\ UNCHANGED <<state, keys, fresh, request, spoiled>>
  BY DEF ReadSets, appVars, SameRows
<1>3. SetsAhead(l)' = want
  BY <1>1, <1>2, AheadIsWanted
<1>4. RunMatches'
  BY <1>1, <1>2, <1>3, SameAll DEF Matches, RunMatches
<1>5. FinishedMatch'
  BY <1>1, <1>2, SameAll DEF Matches, FinishedMatch
<1>6. OtherMatch'
  BY <1>1, <1>2, SameAll DEF Matches, OtherMatch, OutOfDate, AppsAt
<1> QED BY <1>4, <1>5, <1>6 DEF Matches

\* Another listing than the one the run writes sets of matches as before.
LEMMA MatchElsewhere ==
    ASSUME TypeOK, RunOK, Matches, NEW l, run.at = {l}, run.pc = "write",
           \A m \in Listing \ {l} : Match(m)' = Match(m),
           run'.at = {l}, run'.pc = "write", run'.due = run.due, run'.todo = run.todo,
           UNCHANGED <<spoiled, fresh, request>>
    PROVE  FinishedMatch' /\ OtherMatch'
<1>1. run.due \subseteq Listing /\ l \in run.due
  BY DEF TypeOK, RunTypeOK, RunOK
<1>2. FinishedMatch'
  BY <1>1 DEF Matches, FinishedMatch
<1>3. OtherMatch'
  BY <1>1 DEF Matches, OtherMatch, OutOfDate, AppsAt
<1> QED BY <1>2, <1>3

\* A write of the run brings nearer the sets ahead of the listing it is at,
\* and leaves the sets of other listings alone.
LEMMA AheadDropSet ==
    ASSUME TypeOK, RunOK, SetsOK, WritesOK, NEW i \in run.drop, DropSet(i),
           NEW l \in Listing, run.at = {l}
    PROVE  /\ SetsAhead(l)' = SetsAhead(l)
           /\ \A m \in Listing \ {l} : FlaggedAt(m)' = FlaggedAt(m)
<1>1. afs' = [j \in DOMAIN afs \ {i} |-> afs[j]] /\ run.pc = "write"
  BY DEF DropSet
<1>2. run'.drop = run.drop \ {i} /\ run'.save = run.save
  BY DEF DropSet, TypeOK, RunTypeOK
<1>3. i \in SetsAt(l)
  BY <1>1 DEF WritesOK
<1>4. \A m : /\ SetsAt(m)' = SetsAt(m) \ {i}
             /\ \A j \in SetsAt(m) \ {i} : afs'[j] = afs[j]
  BY <1>1 DEF SetsAt
<1>5. ASSUME NEW m \in Listing \ {l} PROVE FlaggedAt(m)' = FlaggedAt(m)
  <2>1. i \notin SetsAt(m)
    BY <1>3 DEF SetsAt
  <2> QED BY <1>4, <2>1, FlaggedStays
<1>6. SetsAhead(l)' = SetsAhead(l)
  BY <1>2, <1>4 DEF SetsAhead
<1> QED BY <1>5, <1>6

LEMMA MatchDropSet ==
    ASSUME TypeOK, RunOK, SetsOK, WritesOK, Matches, NEW i \in run.drop, DropSet(i)
    PROVE  Matches'
<1>1. run.pc = "write" /\ UNCHANGED <<state, keys, request, fresh, spoiled>>
  BY DEF DropSet, appVars
<1>2. /\ run'.at = run.at /\ run'.pc = run.pc /\ run'.view = run.view
      /\ run'.due = run.due /\ run'.todo = run.todo
  BY DEF DropSet, TypeOK, RunTypeOK
<1>3. PICK l \in Listing : run.at = {l}
  BY <1>1 DEF RunOK, TypeOK, RunTypeOK
<1>4. \A m : CurrentView(m)' = CurrentView(m)
  BY <1>1, ViewStays
<1>5. \A m \in Listing \ {l} : Match(m)' = Match(m)
  BY <1>3, <1>4, AheadDropSet, MatchStays
<1>6. RunMatches'
  BY <1>1, <1>2, <1>3, <1>4, AheadDropSet DEF Matches, RunMatches
<1> QED BY <1>1, <1>2, <1>3, <1>5, <1>6, MatchElsewhere DEF Matches

LEMMA AheadUpdateSet ==
    ASSUME TypeOK, RunOK, SetsOK, WritesOK, NEW s \in run.save, UpdateSet(s),
           NEW l \in Listing, run.at = {l}
    PROVE  /\ SetsAhead(l)' = SetsAhead(l)
           /\ \A m \in Listing \ {l} : FlaggedAt(m)' = FlaggedAt(m)
<1>1. /\ afs' = [afs EXCEPT ![s.set].apps = s.apps, ![s.set].status = "pending"]
      /\ run.pc = "write" /\ run.drop = {} /\ s.set # NoSet
  BY DEF UpdateSet
<1>2. run'.drop = {} /\ run'.save = run.save \ {s}
  BY <1>1 DEF UpdateSet, TypeOK, RunTypeOK
<1>3. /\ s.set \in SetsAt(l) /\ afs[s.set].rule = s.rule
      /\ \A t \in run.save : t.set = s.set => t = s
  BY <1>1 DEF WritesOK
<1>4. /\ DOMAIN afs' = DOMAIN afs
      /\ \A j \in DOMAIN afs :
            /\ afs'[j].listing = afs[j].listing /\ afs'[j].rule = afs[j].rule
            /\ afs'[j].apps = IF j = s.set THEN s.apps ELSE afs[j].apps
  BY <1>1 DEF TypeOK, SetTypeOK, FlaggedSet
<1>5. \A m : SetsAt(m)' = SetsAt(m)
  BY <1>4 DEF SetsAt
<1>6. ASSUME NEW m \in Listing \ {l} PROVE FlaggedAt(m)' = FlaggedAt(m)
  <2>1. s.set \notin SetsAt(m)
    BY <1>3 DEF SetsAt
  <2> QED BY <1>4, <1>5, <2>1, FlaggedStays DEF SetsAt
<1>7. SetsAhead(l)' = SetsAhead(l)
  <2> DEFINE Old == SetsAt(l) \ {t.set : t \in run.save}
  <2>1. SetsAhead(l) = {[rule |-> afs[j].rule, apps |-> afs[j].apps] : j \in Old}
                       \cup {[rule |-> t.rule, apps |-> t.apps] : t \in run.save}
    BY <1>1 DEF SetsAhead
  <2>2. SetsAt(l) \ (run'.drop \cup {t.set : t \in run'.save}) = Old \cup {s.set}
    BY <1>2, <1>3
  <2>3. SetsAhead(l)' = {[rule |-> afs'[j].rule, apps |-> afs'[j].apps] : j \in Old \cup {s.set}}
                        \cup {[rule |-> t.rule, apps |-> t.apps] : t \in run.save \ {s}}
    BY <1>2, <1>5, <2>2 DEF SetsAhead
  <2>4. \A j \in Old : afs'[j].rule = afs[j].rule /\ afs'[j].apps = afs[j].apps
    BY <1>4 DEF SetsAt
  <2>5. afs'[s.set].rule = s.rule /\ afs'[s.set].apps = s.apps
    BY <1>3, <1>4 DEF SetsAt
  <2> QED BY <2>1, <2>3, <2>4, <2>5
<1> QED BY <1>6, <1>7

LEMMA MatchUpdateSet ==
    ASSUME TypeOK, RunOK, SetsOK, WritesOK, Matches, NEW s \in run.save, UpdateSet(s)
    PROVE  Matches'
<1>1. run.pc = "write" /\ UNCHANGED <<state, keys, request, fresh, spoiled>>
  BY DEF UpdateSet, appVars
<1>2. /\ run'.at = run.at /\ run'.pc = run.pc /\ run'.view = run.view
      /\ run'.due = run.due /\ run'.todo = run.todo
  BY DEF UpdateSet, TypeOK, RunTypeOK
<1>3. PICK l \in Listing : run.at = {l}
  BY <1>1 DEF RunOK, TypeOK, RunTypeOK
<1>4. \A m : CurrentView(m)' = CurrentView(m)
  BY <1>1, ViewStays
<1>5. \A m \in Listing \ {l} : Match(m)' = Match(m)
  BY <1>3, <1>4, AheadUpdateSet, MatchStays
<1>6. RunMatches'
  BY <1>1, <1>2, <1>3, <1>4, AheadUpdateSet DEF Matches, RunMatches
<1> QED BY <1>1, <1>2, <1>3, <1>5, <1>6, MatchElsewhere DEF Matches

\* Unless a write spoiled it, a set to be written holds live applications.
LEMMA WrittenAreLive ==
    ASSUME RunMatches, NEW l, run.at = {l}, run.pc = "write", ~spoiled[l],
           NEW s \in run.save
    PROVE  Connectable(s.apps)
<1> DEFINE S == {a \in AppsAt(l) : state[a] = "live"}
           w == [rule |-> s.rule, apps |-> s.apps]
<1>1. SetsAhead(l) \in Constructions(CurrentView(l)) /\ w \in SetsAhead(l)
  BY DEF RunMatches, SetsAhead
<1>2. CurrentView(l) \subseteq Key \X S
  BY ViewRows
<1>3. S \in SUBSET Application
  BY DEF AppsAt
<1>4. w.apps \subseteq S
  <2> HIDE DEF S, w
  <2> QED BY <1>1, <1>2, <1>3, ConstructedFrom
<1> QED BY <1>4 DEF Connectable

LEMMA AheadCreateSet ==
    ASSUME TypeOK, RunOK, SetsOK, WritesOK, NEW s \in run.save, CreateSet(s),
           NEW l \in Listing, run.at = {l}
    PROVE  /\ SetsAhead(l)' \subseteq SetsAhead(l)
           /\ Connectable(s.apps) => SetsAhead(l)' = SetsAhead(l)
           /\ \A m \in Listing \ {l} : FlaggedAt(m)' = FlaggedAt(m)
<1>1. run.pc = "write" /\ run.drop = {} /\ s.set = NoSet
  BY DEF CreateSet
<1>2. run'.drop = {} /\ run'.save = run.save \ {s}
  BY <1>1 DEF CreateSet, TypeOK, RunTypeOK
<1>3. /\ NoSet \notin SetsAt(l)
      /\ \A t \in run.save : t.set = NoSet \/ t.set \in SetsAt(l)
  BY <1>1 DEF WritesOK, SetsAt, TypeOK, SetTypeOK
<1> DEFINE Old == SetsAt(l) \ {t.set : t \in run.save}
<1>4. SetsAhead(l) = {[rule |-> afs[j].rule, apps |-> afs[j].apps] : j \in Old}
                     \cup {[rule |-> t.rule, apps |-> t.apps] : t \in run.save}
  BY <1>1 DEF SetsAhead
<1>5. CASE Connectable(s.apps)
  <2>1. (CHOOSE m \in run.at : TRUE) = l
    OBVIOUS
  <2>2. PICK n \in SetId \ (DOMAIN afs \cup {review.set}) :
           afs' = [j \in DOMAIN afs \cup {n} |->
                     IF j = n THEN [listing |-> l, rule |-> s.rule, apps |-> s.apps,
                                    status |-> "pending", seen |-> {}]
                     ELSE afs[j]]
    BY <1>5, <2>1 DEF CreateSet
  <2>3. /\ DOMAIN afs' = DOMAIN afs \cup {n} /\ n \notin DOMAIN afs
        /\ \A j \in DOMAIN afs : afs'[j] = afs[j]
        /\ afs'[n].listing = l /\ afs'[n].rule = s.rule /\ afs'[n].apps = s.apps
    BY <2>2
  <2>4. /\ \A m \in Listing \ {l} : SetsAt(m)' = SetsAt(m)
        /\ SetsAt(l)' = SetsAt(l) \cup {n}
    BY <2>3 DEF SetsAt
  <2>5. \A m \in Listing \ {l} : FlaggedAt(m)' = FlaggedAt(m)
    BY <2>3, <2>4, FlaggedStays DEF SetsAt
  <2>6. SetsAhead(l)' = SetsAhead(l)
    <3>1. n # NoSet /\ n \notin SetsAt(l)
      BY <2>3 DEF SetsAt
    <3>2. SetsAt(l)' \ (run'.drop \cup {t.set : t \in run'.save}) = Old \cup {n}
      BY <1>1, <1>2, <1>3, <2>4, <3>1
    <3>3. SetsAhead(l)' = {[rule |-> afs'[j].rule, apps |-> afs'[j].apps] : j \in Old \cup {n}}
                          \cup {[rule |-> t.rule, apps |-> t.apps] : t \in run.save \ {s}}
      BY <1>2, <3>2 DEF SetsAhead
    <3>4. \A j \in Old : afs'[j] = afs[j]
      BY <2>3 DEF SetsAt
    <3> QED BY <1>4, <2>3, <3>3, <3>4
  <2> QED BY <2>5, <2>6
<1>6. CASE ~Connectable(s.apps)
  <2>1. afs' = afs
    BY <1>6 DEF CreateSet
  <2>2. SetsAt(l)' = SetsAt(l) /\ \A m \in Listing : FlaggedAt(m)' = FlaggedAt(m)
    BY <2>1 DEF SetsAt, FlaggedAt
  <2>3. SetsAt(l)' \ (run'.drop \cup {t.set : t \in run'.save}) = Old
    BY <1>1, <1>2, <1>3, <2>2
  <2>4. SetsAhead(l)' = {[rule |-> afs[j].rule, apps |-> afs[j].apps] : j \in Old}
                        \cup {[rule |-> t.rule, apps |-> t.apps] : t \in run.save \ {s}}
    BY <1>2, <2>1, <2>3 DEF SetsAhead
  <2> QED BY <1>4, <1>6, <2>2, <2>4
<1> QED BY <1>5, <1>6

LEMMA MatchCreateSet ==
    ASSUME TypeOK, RunOK, SetsOK, WritesOK, Matches, NEW s \in run.save, CreateSet(s)
    PROVE  Matches'
<1>1. run.pc = "write" /\ UNCHANGED <<state, keys, request, fresh, spoiled>>
  BY DEF CreateSet, appVars
<1>2. /\ run'.at = run.at /\ run'.pc = run.pc /\ run'.view = run.view
      /\ run'.due = run.due /\ run'.todo = run.todo
  BY DEF CreateSet, TypeOK, RunTypeOK
<1>3. PICK l \in Listing : run.at = {l}
  BY <1>1 DEF RunOK, TypeOK, RunTypeOK
<1>4. \A m : CurrentView(m)' = CurrentView(m)
  BY <1>1, ViewStays
<1>5. \A m \in Listing \ {l} : Match(m)' = Match(m)
  BY <1>3, <1>4, AheadCreateSet, MatchStays
<1>6. ~Connectable(s.apps) => spoiled[l]
  BY <1>1, <1>3, WrittenAreLive DEF Matches
<1>7. RunMatches'
  BY <1>1, <1>2, <1>3, <1>4, <1>6, AheadCreateSet DEF Matches, RunMatches
<1> QED BY <1>1, <1>2, <1>3, <1>5, <1>7, MatchElsewhere DEF Matches

\* Where nothing is left to delete or write, what lies ahead is there.
LEMMA WrittenMatch ==
    ASSUME Matches, NEW m \in run.at, run.pc = "write", run.drop = {}, run.save = {},
           ~spoiled[m]
    PROVE  Match(m)
<1>1. SetsAhead(m) \in Constructions(CurrentView(m))
  BY DEF Matches, RunMatches
<1>2. SetsAhead(m) = FlaggedAt(m)
  BY DEF SetsAhead, FlaggedAt
<1> QED BY <1>1, <1>2 DEF Match

LEMMA MatchMarkListing ==
    ASSUME TypeOK, RunOK, Matches, NEW l \in Listing, MarkListing(l) PROVE Matches'
<1>1. /\ run.pc = "write" /\ run.drop = {} /\ run.save = {} /\ l \in run.due
      /\ UNCHANGED <<state, keys, request, spoiled>>
      /\ \A m \in Listing \ {l} : fresh'[m] = fresh[m]
  BY DEF MarkListing, appVars, RunOK, TypeOK, ListingTypeOK
<1>2. SameRows
  BY DEF MarkListing, SameRows
<1>3. \A m \in run.due \ run.todo : ~spoiled[m] => Match(m)
  BY <1>1, WrittenMatch DEF Matches, FinishedMatch
<1>4. run.due \subseteq Listing
  BY DEF TypeOK, RunTypeOK
<1>5. CASE run.mark # {l}
  <2>1. /\ run'.drop = {} /\ run'.save = {} /\ run'.at = run.at /\ run'.pc = run.pc
        /\ run'.view = run.view /\ run'.due = run.due /\ run'.todo = run.todo
    BY <1>1, <1>5 DEF MarkListing, TypeOK, RunTypeOK
  <2>2. RunMatches'
    BY <1>1, <1>2, <2>1, SameAll DEF Matches, RunMatches
  <2>3. FinishedMatch' /\ OtherMatch'
    BY <1>1, <1>2, <2>1, SameAll DEF Matches, FinishedMatch, OtherMatch, OutOfDate, AppsAt
  <2> QED BY <2>2, <2>3 DEF Matches
<1>6. CASE run.mark = {l} /\ run.todo # {}
  <2>1. /\ run'.pc = "next" /\ run'.due = run.due /\ run'.todo = run.todo
    BY <1>6 DEF MarkListing, TypeOK, RunTypeOK
  <2>2. RunMatches'
    BY <2>1 DEF RunMatches
  <2>3. FinishedMatch'
    BY <1>1, <1>2, <1>3, <2>1, SameAll DEF FinishedMatch
  <2>4. OtherMatch'
    BY <1>1, <1>2, <2>1, SameAll DEF Matches, OtherMatch, OutOfDate, AppsAt
  <2> QED BY <2>2, <2>3, <2>4 DEF Matches
<1>7. CASE run.mark = {l} /\ run.todo = {}
  <2>1. run' = IdleRun
    BY <1>7 DEF MarkListing
  <2>2. RunMatches' /\ FinishedMatch'
    BY <2>1 DEF RunMatches, FinishedMatch, IdleRun
  <2>3. OtherMatch'
    <3>1. ASSUME NEW m \in Listing, ~OutOfDate(m)', ~spoiled[m],
                 \A a \in AppsAt(m) : request[a] \notin {"created", "edited"}
          PROVE  Match(m)
      BY <1>1, <1>3, <1>7, <3>1 DEF Matches, OtherMatch, OutOfDate
    <3> QED BY <1>1, <1>2, <3>1, SameAll DEF OtherMatch, AppsAt
  <2> QED BY <2>2, <2>3 DEF Matches
<1> QED BY <1>5, <1>6, <1>7

\* A run that is cut off spoils the listings it has not written.
LEMMA MatchAbort ==
    ASSUME TypeOK, RunOK, Matches, AbortRun PROVE Matches'
<1>1. /\ run' = IdleRun /\ SameRows /\ UNCHANGED <<state, keys, request, fresh>>
      /\ \A m \in Listing : spoiled'[m] = (spoiled[m] \/ m \in Unfinished)
  BY DEF AbortRun, appVars, SameRows
<1>2. RunMatches' /\ FinishedMatch'
  BY <1>1 DEF RunMatches, FinishedMatch, IdleRun
<1>3. ASSUME NEW m \in run.due, ~spoiled[m], m \notin Unfinished PROVE Match(m)
  <2>1. m \in run.due \ run.todo
    BY <1>3 DEF Unfinished
  <2>2. CASE run.pc = "next" \/ m \notin run.at
    BY <1>3, <2>1, <2>2 DEF Matches, FinishedMatch
  <2>3. CASE run.pc # "next" /\ m \in run.at
    BY <1>3, <2>3, WrittenMatch DEF Unfinished
  <2> QED BY <2>2, <2>3
<1>4. OtherMatch'
  <2>1. ASSUME NEW m \in Listing, ~OutOfDate(m), ~spoiled'[m],
               \A a \in AppsAt(m) : request[a] \notin {"created", "edited"}
        PROVE  Match(m)
    BY <1>1, <1>3, <2>1 DEF Matches, OtherMatch
  <2> QED BY <1>1, <2>1, SameAll DEF OtherMatch, OutOfDate, AppsAt
<1> QED BY <1>2, <1>4 DEF Matches

LEMMA MatchBegin ==
    ASSUME TypeOK, RunOK, Matches, NEW scope, NEW force, BeginRun(scope, force),
           SameRows, UNCHANGED <<state, keys, request, fresh, spoiled>>
    PROVE  Matches'
<1>1. run.due = {} /\ run'.at = {} /\ run'.due = run'.todo
  BY DEF BeginRun, RunOK, IdleRun
<1>2. RunMatches' /\ FinishedMatch'
  BY <1>1 DEF RunMatches, FinishedMatch
<1>3. OtherMatch'
  BY <1>1, SameAll DEF Matches, OtherMatch, OutOfDate, AppsAt
<1> QED BY <1>2, <1>3 DEF Matches

LEMMA MatchInNext ==
    ASSUME TypeOK, RunOK, SetsOK, WritesOK, Matches, [Next]_vars PROVE Matches'
<1>1. ASSUME NEW l \in Listing, CloseByUpdate(l) PROVE Matches'
  <2>1. SameRows /\ UNCHANGED <<state, keys, request, fresh, spoiled>>
    BY <1>1 DEF CloseByUpdate, SameRows, appVars
  <2>2. run' = run \/ BeginRun({l}, FALSE)
    BY <1>1 DEF CloseByUpdate
  <2> QED BY <2>1, <2>2, MatchSame, MatchBegin
<1>2. ASSUME NEW l \in Listing, CloseByCron(l) \/ ReopenListing(l) PROVE Matches'
  BY <1>2, MatchSame DEF CloseByCron, ReopenListing, SameRows, appVars
<1>3. CASE CronRun \/ ManualRun
  <2>1. SameRows /\ UNCHANGED <<state, keys, request, fresh, spoiled>>
    BY <1>3 DEF CronRun, ManualRun, SameRows, appVars
  <2> QED BY <1>3, <2>1, MatchBegin DEF CronRun, ManualRun
<1>4. CASE DatabaseFails
  BY <1>4, MatchAbort DEF DatabaseFails
<1>5. ASSUME NEW s \in run.save, UpdateSetFails(s) PROVE Matches'
  BY <1>5, MatchAbort DEF UpdateSetFails
<1>6. CASE RunStep
  BY <1>5, <1>6, MatchReadGroups, MatchReadSets, MatchMarkListing, MatchDropSet,
     MatchUpdateSet, MatchCreateSet DEF RunStep
<1>7. CASE ReviewRequest
  BY <1>7, MatchSame DEF ReviewRequest, OpenReview, BeginReview, SameRows, appVars
<1>8. CASE MarkChosen \/ MarkOthers
  BY <1>8, MatchSame DEF MarkChosen, MarkOthers, SameRows
<1>9. CASE MarkSet
  <2>1. SameRows
    BY <1>9 DEF MarkSet, SameRows, TypeOK, SetTypeOK, FlaggedSet
  <2> QED BY <1>9, <2>1, MatchSame DEF MarkSet, appVars
<1>10. CASE UNCHANGED vars
  BY <1>10, MatchSame DEF vars, SameRows
<1> QED BY <1>1, <1>2, <1>3, <1>4, <1>6, <1>7, <1>8, <1>9, <1>10, MatchApplication
        DEF Next, ReviewStep

----------------------------------------------------------------------------
\* Without a group to flag, no set is constructed.
LEMMA NothingConstructed ==
    ASSUME NEW v, Components(v) = {} PROVE {} \in Constructions(v)
<1> DEFINE none == [K \in Components(v) |-> {}]
<1>1. none \in {f \in [Components(v) -> SUBSET Key] : \A K \in Components(v) : f[K] \in RuleKeys(K)}
  OBVIOUS
<1>2. {[rule |-> none[K], apps |-> MembersOf(v, K)] : K \in Components(v)} = {}
  OBVIOUS
<1> HIDE DEF none
<1> QED BY <1>1, <1>2 DEF Constructions

LEMMA MatchInit == Init => Matches
<1> SUFFICES ASSUME Init PROVE Matches
  OBVIOUS
<1>1. run = IdleRun /\ afs = [i \in {} |-> {}]
  BY DEF Init
<1>2. RunMatches /\ FinishedMatch
  BY <1>1 DEF IdleRun, RunMatches, FinishedMatch
<1>3. ASSUME NEW l \in Listing, ~OutOfDate(l) PROVE Match(l)
  <2>1. \A a \in AppsAt(l) : state[a] # "live"
    BY <1>3 DEF Init, OutOfDate
  <2>2. CurrentView(l) = {}
    BY <2>1 DEF CurrentView, View
  <2>3. FlaggedKeys({}) = {}
    BY DEF FlaggedKeys, GroupOf
  <2>4. Components({}) = {}
    BY <2>3 DEF Components
  <2>5. FlaggedAt(l) = {}
    BY <1>1 DEF FlaggedAt, SetsAt
  <2>6. {} \in Constructions({})
    BY <2>4, NothingConstructed
  <2> QED BY <2>2, <2>5, <2>6 DEF Match
<1>4. OtherMatch
  BY <1>3 DEF OtherMatch
<1> QED BY <1>2, <1>4 DEF Matches

\* FlagInv, the invariant the run FlaggedSetsListings checks, holds of
\* processDuplicates whatever else happens between its database calls: the
\* rows respect unique(rule_key, listing_id), and deletions, updates and
\* creations together lead to the sets the rows of the view call for.
THEOREM FlagInvariant == Spec => []FlagInv
<1>1. Init => FlagInv
  <2>1. Init => SetsOK /\ WritesOK
    BY DEF Init, SetsOK, WritesOK, SetsAt, IdleRun
  <2> QED BY <2>1, TypeInit, RunInit, MatchInit DEF FlagInv, Matches
<1>2. FlagInv /\ [Next]_vars => FlagInv'
  BY TypeInNext, RunInNext, RowsInNext, MatchInNext DEF FlagInv, Matches
<1> QED BY <1>1, <1>2, PTL DEF Spec

\* A listing with no request and no run at work, not due for a run, has exactly
\* the flagged sets its live applications call for, unless a write raced the
\* run that last read it, a failure cut that run off, or the names of an
\* application were cleared since, which stamps nothing.
THEOREM SettledFlagged == Spec => []SettledMeansFlagged
<1>1. FlagInv => SettledMeansFlagged
  <2> SUFFICES ASSUME FlagInv, NEW l \in Listing, Settled(l), ~spoiled[l]
               PROVE  Match(l)
    BY DEF SettledMeansFlagged, Match
  <2>1. /\ ~OutOfDate(l) /\ l \notin run.todo \cup run.at
        /\ \A a \in AppsAt(l) : request[a] = "none"
    BY DEF Settled
  <2>2. CASE l \in run.due
    BY <2>1, <2>2 DEF FlagInv, FinishedMatch
  <2>3. CASE l \notin run.due
    BY <2>1, <2>3 DEF FlagInv, OtherMatch
  <2> QED BY <2>2, <2>3
<1> QED BY <1>1, FlagInvariant, PTL
=============================================================================

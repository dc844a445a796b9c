---------------------------- MODULE FlaggedSets ----------------------------
(***************************************************************************)
(* Flagged sets of duplicate applications: the life of applications        *)
(* (application.service.ts), the duplicates run and the review of a set    *)
(* (application-flagged-set.service.ts), and the closing of a listing      *)
(* (listing.service.ts).  Each action is one call to the database: the     *)
(* code awaits every call, so other requests run between any two.          *)
(*                                                                         *)
(* One run is in progress at a time: overlapping runs are the subject of   *)
(* CronJob.  Times are not numbers: fresh[l] says how afsLastRunAt of a    *)
(* listing stands to its lastApplicationUpdateAt, which is all the code    *)
(* ever asks of them.                                                      *)
(***************************************************************************)
EXTENDS FlagRules, Naturals

CONSTANTS
    Listing,
    Home,         \* Home[a]: the listing application a is made to
    KeySets,      \* what an applicant may enter: sets of keys
    BlankName,    \* the key of a name that was cleared
    SetId,        \* ids of rows of application_flagged_set
    NoSet,
    MaxRequests,  \* bound on application writes
    MaxReviews,   \* bound on resolve requests
    MaxFailures   \* bound on runs that a database error aborts

ASSUME HomeAssumption == Home \in [Application -> Listing]
ASSUME KeySetsAssumption ==
    /\ KeySets \subseteq SUBSET Key
    /\ \A K \in KeySets : \A d, e \in K \cap Email : d = e
ASSUME BlankAssumption == BlankName \in Name
ASSUME NoSetAssumption == NoSet \notin SetId
ASSUME BoundAssumption == {MaxRequests, MaxReviews, MaxFailures} \subseteq Nat

VARIABLES
    state,     \* an application: none yet, live, deletedAt set, or row gone
    keys,      \* its keys in the view
    dup,       \* markedAsDuplicate
    request,   \* request in flight on it, between its two writes
    closed,    \* listing status is closed
    fresh,     \* afsLastRunAt against lastApplicationUpdateAt
    afs,       \* rows of application_flagged_set, by id
    run,       \* the duplicates run in progress
    review,    \* the page of a set a reviewer has open, then the resolve request
    spoiled,   \* history: the last view read of the listing is outdated
    lost,      \* history: listings a run marked, but was cut off before it
               \* had read them and written their sets
    requests, reviews, failures   \* counters for the bounds

appVars == <<state, keys, dup, request>>
vars == <<state, keys, dup, request, closed, fresh, afs, run, review, spoiled, lost,
          requests, reviews, failures>>

IdleRun ==
    [pc |-> "idle", due |-> {}, todo |-> {}, view |-> {}, at |-> {},
     drop |-> {}, save |-> {}, mark |-> {}]

IdleReview ==
    [pc |-> "idle", set |-> NoSet, chosen |-> {}, outcome |-> "pending", saw |-> {},
     raced |-> FALSE]

----------------------------------------------------------------------------
(* What the database holds of one listing. *)

AppsAt(l) == {a \in Application : Home[a] = l}

CurrentView(l) == View({a \in AppsAt(l) : state[a] = "live"}, keys)

SetsAt(l) == {i \in DOMAIN afs : afs[i].listing = l}

FlaggedAt(l) == {[rule |-> afs[i].rule, apps |-> afs[i].apps] : i \in SetsAt(l)}

\* Variant of OutOfDate: lt in place of lte.
OutOfDateLt(l) == fresh[l] \in {"new", "due"}

\* The where clause of the run: afsLastRunAt null, or <= lastApplicationUpdateAt.
OutOfDate(l) == fresh[l] \in {"new", "due", "tie"}

\* lastApplicationUpdateAt = now.  A write in the millisecond of the last run ties.
StampOutcomes(f) ==
    CASE f \in {"noUpdate", "new"} -> {"new"}
      [] f = "due"                 -> {"due"}
      [] f \in {"tie", "done"}     -> {"due", "tie"}

\* afsLastRunAt = now.
MarkOutcomes(f) == IF f \in {"new", "due"} THEN {"done", "tie"} ELSE {"done"}

\* The run has read the applications of l and has not yet ended: it will set
\* afsLastRunAt of l (again) without reading them again.
ReadByRun(l) == l \in run.due \ run.todo

----------------------------------------------------------------------------
(* Applications.  create and update write the application and then the     *)
(* time stamp of the listing; delete writes the stamp first.               *)

CanRequest(a) == request[a] = "none" /\ requests < MaxRequests

Stamp(l) == \E f \in StampOutcomes(fresh[l]) : fresh' = [fresh EXCEPT ![l] = f]

\* History: the write changes what a run has read, or is not followed by a
\* stamp that would cause a new run.
Spoil(l, stampFollows) ==
    spoiled' = [spoiled EXCEPT ![l] =
        @ \/ ReadByRun(l) \/ (~stampFollows /\ ~OutOfDate(l))]

CreateApplication(a, K) ==
    /\ CanRequest(a) /\ state[a] = "none"
    /\ state' = [state EXCEPT ![a] = "live"]
    /\ keys' = [keys EXCEPT ![a] = K]
    /\ request' = [request EXCEPT ![a] = "created"]
    /\ requests' = requests + 1
    /\ Spoil(Home[a], TRUE)
    /\ UNCHANGED <<dup, closed, fresh, afs, run, review, lost, reviews, failures>>

UpdateApplication(a, K) ==
    /\ CanRequest(a) /\ state[a] = "live"
    /\ keys' = [keys EXCEPT ![a] = K]
    /\ request' = [request EXCEPT ![a] = "edited"]
    /\ requests' = requests + 1
    /\ Spoil(Home[a], TRUE)
    /\ UNCHANGED <<state, dup, closed, fresh, afs, run, review, lost, reviews, failures>>

\* updateListingApplicationEditTimestamp, the last write of create and update.
StampApplication(a) ==
    /\ request[a] \in {"created", "edited"}
    /\ request' = [request EXCEPT ![a] = "none"]
    /\ Stamp(Home[a])
    /\ UNCHANGED <<state, keys, dup, closed, afs, run, review, spoiled, lost, requests, reviews, failures>>

\* create: the selections could not be saved, the application row is deleted
\* (with its rows of the relation to flagged sets) and nothing is stamped.
RollBackCreate(a) ==
    /\ request[a] = "created"
    /\ state' = [state EXCEPT ![a] = "gone"]
    /\ keys' = [keys EXCEPT ![a] = {}]
    /\ dup' = [dup EXCEPT ![a] = FALSE]
    /\ request' = [request EXCEPT ![a] = "none"]
    /\ afs' = [i \in DOMAIN afs |-> [afs[i] EXCEPT !.apps = @ \ {a}]]
    /\ Spoil(Home[a], FALSE)
    /\ UNCHANGED <<closed, fresh, run, review, lost, requests, reviews, failures>>

BeginDelete(a) ==
    /\ CanRequest(a) /\ state[a] = "live"
    /\ request' = [request EXCEPT ![a] = "deleting"]
    /\ requests' = requests + 1
    /\ Stamp(Home[a])
    /\ UNCHANGED <<state, keys, dup, closed, afs, run, review, spoiled, lost, reviews, failures>>

EndDelete(a) ==
    /\ request[a] = "deleting"
    /\ state' = [state EXCEPT ![a] = "deleted"]
    /\ request' = [request EXCEPT ![a] = "none"]
    /\ Spoil(Home[a], FALSE)
    /\ UNCHANGED <<keys, dup, closed, fresh, afs, run, review, lost, requests, reviews, failures>>

\* removePII, of a deleted account or of an expired application: the names go, the
\* e-mail address stays, and nothing is stamped.  (The code does so once.)
ClearApplication(a) ==
    /\ state[a] = "live" /\ requests < MaxRequests
    /\ keys' = [keys EXCEPT ![a] = (@ \cap Email) \cup {BlankName}]
    /\ requests' = requests + 1
    /\ Spoil(Home[a], FALSE)
    /\ UNCHANGED <<state, dup, request, closed, fresh, afs, run, review, lost, reviews, failures>>

----------------------------------------------------------------------------
(* processDuplicates *)

\* Variant of DueListings: afsLastRunAt null is not asked for.
DueListingsRunBefore(scope, force) ==
    {l \in scope : fresh[l] # "noUpdate" /\ (force \/ fresh[l] \in {"due", "tie"})}

\* The listings of scope the run will look at.
DueListings(scope, force) ==
    {l \in scope : fresh[l] # "noUpdate" /\ (force \/ OutOfDate(l))}

BeginRun(scope, force) ==
    /\ run.pc = "idle"
    /\ DueListings(scope, force) # {}
    /\ run' = [IdleRun EXCEPT !.pc = "next", !.due = DueListings(scope, force),
                              !.todo = DueListings(scope, force)]

CronRun == BeginRun(Listing, FALSE) /\ UNCHANGED <<appVars, closed, fresh, afs, review,
                                                   spoiled, lost, requests, reviews, failures>>

\* The endpoint takes a listing and a flag that forces the run.
ManualRun ==
    /\ \E force \in BOOLEAN, scope \in {Listing} \cup {{l} : l \in Listing} :
          BeginRun(scope, force)
    /\ UNCHANGED <<appVars, closed, fresh, afs, review, spoiled, lost, requests, reviews, failures>>

\* Variant of ReadGroups: the query forgets deleted_at is null.
ReadGroupsDeleted(l) ==
    /\ run.pc = "next" /\ l \in run.todo
    /\ run' = [run EXCEPT !.pc = "sets", !.todo = @ \ {l}, !.at = {l},
                 !.view = View({a \in AppsAt(l) : state[a] \in {"live", "deleted"}}, keys)]
    /\ spoiled' = [spoiled EXCEPT ![l] = FALSE]
    /\ lost' = lost \ {l}
    /\ UNCHANGED <<appVars, closed, fresh, afs, review, requests, reviews, failures>>

\* The raw query, for the next listing.
ReadGroups(l) ==
    /\ run.pc = "next" /\ l \in run.todo
    /\ run' = [run EXCEPT !.pc = "sets", !.todo = @ \ {l}, !.at = {l},
                          !.view = CurrentView(l)]
    /\ spoiled' = [spoiled EXCEPT ![l] = FALSE]
    /\ lost' = lost \ {l}
    /\ UNCHANGED <<appVars, closed, fresh, afs, review, requests, reviews, failures>>

\* The row of listing l with the given rule key: unique([ruleKey, listingId]).
SetOf(l, rule) ==
    IF \E i \in SetsAt(l) : afs[i].rule = rule
    THEN CHOOSE i \in SetsAt(l) : afs[i].rule = rule
    ELSE NoSet

\* Variants of ReadSets: sets that are unchanged are written again, sets that
\* are no longer valid are not deleted.
ReadSetsRewriting(l) ==
    /\ run.pc = "sets" /\ run.at = {l}
    /\ \E want \in Constructions(run.view) :
          run' = [run EXCEPT
              !.pc = "write",
              !.drop = {i \in SetsAt(l) : \A w \in want : w.rule # afs[i].rule},
              !.save = {[set |-> SetOf(l, w.rule), rule |-> w.rule, apps |-> w.apps] :
                            w \in want},
              !.mark = run.due]
    /\ UNCHANGED <<appVars, closed, fresh, afs, review, spoiled, lost, requests, reviews, failures>>

ReadSetsKeeping(l) ==
    /\ run.pc = "sets" /\ run.at = {l}
    /\ \E want \in Constructions(run.view) :
          run' = [run EXCEPT
              !.pc = "write",
              !.save = {[set |-> SetOf(l, w.rule), rule |-> w.rule, apps |-> w.apps] :
                            w \in want \ FlaggedAt(l)},
              !.mark = run.due]
    /\ UNCHANGED <<appVars, closed, fresh, afs, review, spoiled, lost, requests, reviews, failures>>

\* The sets in the database against the constructed ones: which rows to
\* delete, and which sets to write, in a row there is or in a new one.
ReadSets(l) ==
    /\ run.pc = "sets" /\ run.at = {l}
    /\ \E want \in Constructions(run.view) :
          run' = [run EXCEPT
              !.pc = "write",
              !.drop = {i \in SetsAt(l) : \A w \in want : w.rule # afs[i].rule},
              !.save = {[set |-> SetOf(l, w.rule), rule |-> w.rule, apps |-> w.apps] :
                            w \in want \ FlaggedAt(l)},
              !.mark = run.due]
    /\ UNCHANGED <<appVars, closed, fresh, afs, review, spoiled, lost, requests, reviews, failures>>

DropSet(i) ==
    /\ run.pc = "write" /\ i \in run.drop
    /\ run' = [run EXCEPT !.drop = @ \ {i}]
    /\ afs' = [j \in DOMAIN afs \ {i} |-> afs[j]]
    /\ UNCHANGED <<appVars, closed, fresh, review, spoiled, lost, requests, reviews, failures>>

\* Connecting an application whose row is gone is an error.
Connectable(apps) == \A a \in apps : state[a] # "gone"

\* Variant of UpdateSet: a set whose members change keeps its status.
UpdateSetOnly(s) ==
    /\ run.pc = "write" /\ run.drop = {} /\ s \in run.save /\ s.set # NoSet
    /\ Connectable(s.apps)
    /\ run' = [run EXCEPT !.save = @ \ {s}]
    /\ afs' = [afs EXCEPT ![s.set].apps = s.apps]
    /\ review' = [review EXCEPT !.raced = @ \/ (review.set = s.set
                                               /\ ~(s.apps \subseteq review.saw))]
    /\ UNCHANGED <<appVars, closed, fresh, spoiled, lost, requests, reviews, failures>>

UpdateSet(s) ==
    /\ run.pc = "write" /\ run.drop = {} /\ s \in run.save /\ s.set # NoSet
    /\ Connectable(s.apps)
    /\ run' = [run EXCEPT !.save = @ \ {s}]
    /\ afs' = [afs EXCEPT ![s.set].apps = s.apps, ![s.set].status = "pending"]
    /\ review' = [review EXCEPT !.raced = @ \/ (review.set = s.set
                                               /\ ~(s.apps \subseteq review.saw))]
    /\ UNCHANGED <<appVars, closed, fresh, spoiled, lost, requests, reviews, failures>>

\* Variant of CreateSet: the new row gets the third status of the enum.
CreateSetFlagged(s) ==
    /\ run.pc = "write" /\ run.drop = {} /\ s \in run.save /\ s.set = NoSet
    /\ run' = [run EXCEPT !.save = @ \ {s}]
    /\ IF Connectable(s.apps)
       THEN \E i \in SetId \ (DOMAIN afs \cup {review.set}) :
               afs' = [j \in DOMAIN afs \cup {i} |->
                          IF j = i THEN [listing |-> CHOOSE l \in run.at : TRUE,
                                         rule |-> s.rule, apps |-> s.apps,
                                         status |-> "flagged", seen |-> {}]
                          ELSE afs[j]]
       ELSE UNCHANGED afs
    /\ UNCHANGED <<appVars, closed, fresh, review, spoiled, lost, requests, reviews, failures>>

\* The new row has a fresh id.  An error is caught and logged: no row.
CreateSet(s) ==
    /\ run.pc = "write" /\ run.drop = {} /\ s \in run.save /\ s.set = NoSet
    /\ run' = [run EXCEPT !.save = @ \ {s}]
    /\ IF Connectable(s.apps)
       THEN \E i \in SetId \ (DOMAIN afs \cup {review.set}) :
               afs' = [j \in DOMAIN afs \cup {i} |->
                          IF j = i THEN [listing |-> CHOOSE l \in run.at : TRUE,
                                         rule |-> s.rule, apps |-> s.apps,
                                         status |-> "pending", seen |-> {}]
                          ELSE afs[j]]
       ELSE UNCHANGED afs
    /\ UNCHANGED <<appVars, closed, fresh, review, spoiled, lost, requests, reviews, failures>>

\* The loop that sets afsLastRunAt goes over every listing of the run, also
\* over those still to be processed.
MarkListing(l) ==
    /\ run.pc = "write" /\ run.drop = {} /\ run.save = {} /\ l \in run.mark
    /\ \E f \in MarkOutcomes(fresh[l]) : fresh' = [fresh EXCEPT ![l] = f]
    /\ run' = IF run.mark # {l} THEN [run EXCEPT !.mark = @ \ {l}]
              ELSE IF run.todo # {} THEN [run EXCEPT !.pc = "next", !.mark = {}]
              ELSE IdleRun
    /\ UNCHANGED <<appVars, closed, afs, review, spoiled, lost, requests, reviews, failures>>

\* Listings of the run whose sets are not written yet.
Unfinished ==
    run.todo \cup
    IF run.pc = "next" \/ (run.pc = "write" /\ run.drop = {} /\ run.save = {})
    THEN {} ELSE run.at

\* A call of the run throws: the rest of the run is lost.
AbortRun ==
    /\ run' = IdleRun
    /\ spoiled' = [l \in Listing |-> spoiled[l] \/ l \in Unfinished]
    /\ lost' = lost \cup {l \in Unfinished : ~OutOfDate(l)}
    /\ UNCHANGED <<appVars, closed, fresh, afs, review, requests, reviews>>

DatabaseFails ==
    /\ run.pc # "idle" /\ failures < MaxFailures
    /\ failures' = failures + 1
    /\ AbortRun

UpdateSetFails(s) ==
    /\ run.pc = "write" /\ run.drop = {} /\ s \in run.save /\ s.set # NoSet
    /\ ~Connectable(s.apps)
    /\ AbortRun
    /\ UNCHANGED failures

RunStep ==
    \/ \E l \in Listing : ReadGroups(l) \/ ReadSets(l) \/ MarkListing(l)
    \/ \E i \in run.drop : DropSet(i)
    \/ \E s \in run.save : UpdateSet(s) \/ CreateSet(s) \/ UpdateSetFails(s)

----------------------------------------------------------------------------
(* Listings.  The update that closes a listing processes it at once; the   *)
(* cron job that closes overdue listings leaves that to the next run.      *)

CloseByUpdate(l) ==
    /\ ~closed[l] /\ run.pc = "idle"
    /\ closed' = [closed EXCEPT ![l] = TRUE]
    /\ IF DueListings({l}, FALSE) = {} THEN UNCHANGED run ELSE BeginRun({l}, FALSE)
    /\ UNCHANGED <<appVars, fresh, afs, review, spoiled, lost, requests, reviews, failures>>

CloseByCron(l) ==
    /\ ~closed[l]
    /\ closed' = [closed EXCEPT ![l] = TRUE]
    /\ UNCHANGED <<appVars, fresh, afs, run, review, spoiled, lost, requests, reviews, failures>>

ReopenListing(l) ==
    /\ closed[l]
    /\ closed' = [closed EXCEPT ![l] = FALSE]
    /\ UNCHANGED <<appVars, fresh, afs, run, review, spoiled, lost, requests, reviews, failures>>

----------------------------------------------------------------------------
(* resolve: a reviewer picks the valid applications of a set.  The members *)
(* are those on the page (findOne), another request, which may be long ago;*)
(* of the chosen those that are still members count, and the others are    *)
(* looked up in the set when they are written.                             *)

\* The page is opened, instead of one that is open and left alone.
OpenReview(i) ==
    /\ review.pc \in {"idle", "open"} /\ reviews < MaxReviews
    /\ review' = [IdleReview EXCEPT !.pc = "open", !.set = i, !.saw = afs[i].apps]
    /\ UNCHANGED <<appVars, closed, fresh, afs, run, spoiled, lost, requests, reviews, failures>>

\* An error, and no change, when the set or every chosen member of it is gone.
BeginReview(chosen, outcome) ==
    /\ review.pc = "open" /\ reviews < MaxReviews /\ review.set \in DOMAIN afs
    /\ closed[afs[review.set].listing]
    /\ chosen = {} \/ chosen \cap afs[review.set].apps # {}
    /\ reviews' = reviews + 1
    /\ review' = [review EXCEPT !.pc = IF chosen = {} THEN "others" ELSE "chosen",
                                !.chosen = chosen \cap afs[review.set].apps,
                                !.outcome = outcome]
    /\ UNCHANGED <<appVars, closed, fresh, afs, run, spoiled, lost, requests, failures>>

MarkChosen ==
    /\ review.pc = "chosen"
    /\ dup' = [a \in Application |-> dup[a] /\ a \notin review.chosen]
    /\ review' = [review EXCEPT !.pc = "others"]
    /\ UNCHANGED <<state, keys, request, closed, fresh, afs, run, spoiled, lost, requests, reviews, failures>>

MarkOthers ==
    /\ review.pc = "others"
    /\ LET others == IF review.set \in DOMAIN afs
                     THEN afs[review.set].apps \ review.chosen ELSE {}
       IN dup' = [a \in Application |->
                     IF a \in others THEN review.outcome = "resolved" ELSE dup[a]]
    /\ review' = [review EXCEPT !.pc = "set"]
    /\ UNCHANGED <<state, keys, request, closed, fresh, afs, run, spoiled, lost, requests, reviews, failures>>

MarkSet ==
    /\ review.pc = "set"
    /\ afs' = IF review.set \in DOMAIN afs
              THEN [afs EXCEPT ![review.set].status = review.outcome,
                               ![review.set].seen =
                                   IF review.raced THEN @ \cup afs[review.set].apps
                                   ELSE review.saw]
              ELSE afs
    /\ review' = IdleReview
    /\ UNCHANGED <<appVars, closed, fresh, run, spoiled, lost, requests, reviews, failures>>

\* What the reviewer does, and what resolve goes on to do.
ReviewRequest ==
    \/ \E i \in DOMAIN afs : OpenReview(i)
    \/ \E chosen \in SUBSET review.saw, outcome \in {"pending", "resolved"} :
          BeginReview(chosen, outcome)

ReviewStep == MarkChosen \/ MarkOthers \/ MarkSet

----------------------------------------------------------------------------
Init ==
    /\ state \in [Application -> {"none", "live"}]
    /\ keys \in [Application -> KeySets]
    /\ \A a \in Application : state[a] = "none" => keys[a] = {}
    /\ dup = [a \in Application |-> FALSE]
    /\ request = [a \in Application |-> "none"]
    /\ closed = [l \in Listing |-> FALSE]
    /\ fresh = [l \in Listing |->
                   IF \E a \in AppsAt(l) : state[a] = "live" THEN "new" ELSE "noUpdate"]
    /\ afs = [i \in {} |-> {}]
    /\ run = IdleRun
    /\ review = IdleReview
    /\ spoiled = [l \in Listing |-> FALSE]
    /\ lost = {}
    /\ requests = 0
    /\ reviews = 0
    /\ failures = 0

ApplicationStep(a) ==
    \/ \E K \in KeySets : CreateApplication(a, K) \/ UpdateApplication(a, K)
    \/ StampApplication(a)
    \/ RollBackCreate(a)
    \/ BeginDelete(a)
    \/ EndDelete(a)
    \/ ClearApplication(a)

Next ==
    \/ \E a \in Application : ApplicationStep(a)
    \/ \E l \in Listing : CloseByUpdate(l) \/ CloseByCron(l) \/ ReopenListing(l)
    \/ CronRun \/ ManualRun \/ RunStep \/ DatabaseFails
    \/ ReviewRequest \/ ReviewStep

Spec == Init /\ [][Next]_vars

(* The cron timer fires whatever else happened in between, and a run that  *)
(* began goes on.  Applicants and reviewers owe nothing.                   *)
FairSpec == Spec /\ WF_vars(RunStep) /\ SF_vars(CronRun)

----------------------------------------------------------------------------
FlaggedSet ==
    [listing : Listing, rule : RuleKey, apps : SUBSET Application,
     status : {"pending", "resolved"}, seen : SUBSET Application]

Write == [set : SetId \cup {NoSet}, rule : RuleKey, apps : SUBSET Application]

AppTypeOK ==
    /\ state \in [Application -> {"none", "live", "deleted", "gone"}]
    /\ keys \in [Application -> SUBSET Key]
    /\ dup \in [Application -> BOOLEAN]
    /\ request \in [Application -> {"none", "created", "edited", "deleting"}]

ListingTypeOK ==
    /\ closed \in [Listing -> BOOLEAN]
    /\ fresh \in [Listing -> {"noUpdate", "new", "due", "tie", "done"}]
    /\ spoiled \in [Listing -> BOOLEAN]
    /\ lost \subseteq Listing

SetTypeOK == DOMAIN afs \subseteq SetId /\ afs \in [DOMAIN afs -> FlaggedSet]

RunTypeOK ==
    run \in [pc : {"idle", "next", "sets", "write"}, due : SUBSET Listing,
             todo : SUBSET Listing, view : SUBSET (Key \X Application),
             at : SUBSET Listing, drop : SUBSET SetId, save : SUBSET Write,
             mark : SUBSET Listing]

ReviewTypeOK ==
    review \in [pc : {"idle", "open", "chosen", "others", "set"}, set : SetId \cup {NoSet},
                chosen : SUBSET Application, outcome : {"pending", "resolved"},
                saw : SUBSET Application, raced : BOOLEAN]

CountTypeOK ==
    /\ requests \in 0..MaxRequests
    /\ reviews \in 0..MaxReviews
    /\ failures \in 0..MaxFailures

TypeOK ==
    /\ AppTypeOK /\ ListingTypeOK /\ SetTypeOK
    /\ RunTypeOK /\ ReviewTypeOK /\ CountTypeOK

----------------------------------------------------------------------------
(* A listing no request and no run is at work on, and that no run is due.  *)
Settled(l) ==
    /\ ~OutOfDate(l)
    /\ \A a \in AppsAt(l) : request[a] = "none"
    /\ l \notin run.todo \cup run.at

(* A settled listing has exactly the flagged sets its applications call    *)
(* for, unless a write raced the last run (or the run was cut off), or the *)
(* names of an application were cleared since, which stamps nothing: the   *)
(* time stamps of the listing, the deletions, the updates and the creations*)
(* of processDuplicates together leave nothing out and nothing over.       *)
SettledMeansFlagged ==
    \A l \in Listing : Settled(l) /\ ~spoiled[l] =>
        FlaggedAt(l) \in Constructions(CurrentView(l))

(* What makes SettledMeansFlagged inductive. *)

Match(l) == FlaggedAt(l) \in Constructions(CurrentView(l))

\* The unique constraint on (rule_key, listing_id), which a run never hits,
\* and sets that hold applications of their own listing only.
SetsOK ==
    \A i \in DOMAIN afs :
        /\ afs[i].apps \subseteq AppsAt(afs[i].listing)
        /\ \A j \in SetsAt(afs[i].listing) : afs[j].rule = afs[i].rule => j = i

\* The fields of the run, by its place in the loop.
RunOK ==
    /\ run.pc = "idle" => run = IdleRun
    /\ run.pc \in {"sets", "write"} => \E l \in run.due \ run.todo : run.at = {l}
    /\ run.todo \cup run.mark \subseteq run.due /\ run.at \subseteq run.due \ run.todo
    /\ run.pc = "sets" => \A l \in run.at : run.view \subseteq Key \X AppsAt(l)
    /\ run.pc # "write" => run.drop = {} /\ run.save = {}

\* The writes ahead of the run: rows to delete and to update are rows of the
\* listing, and no two writes have the same rule key, nor a new row that of
\* an old one.
WritesOK ==
    \A l \in run.at : run.pc = "write" =>
        /\ run.drop \subseteq SetsAt(l)
        /\ \A s \in run.save :
              /\ s.apps \subseteq AppsAt(l)
              /\ s.set = NoSet => \A i \in SetsAt(l) : afs[i].rule # s.rule
              /\ s.set # NoSet => /\ s.set \in SetsAt(l) \ run.drop
                                  /\ afs[s.set].rule = s.rule
        /\ \A s, t \in run.save : s.rule = t.rule => s = t

\* The sets of l once the writes ahead are done.
SetsAhead(l) ==
    {[rule |-> afs[i].rule, apps |-> afs[i].apps] :
        i \in SetsAt(l) \ (run.drop \cup {s.set : s \in run.save})}
    \cup {[rule |-> s.rule, apps |-> s.apps] : s \in run.save}

\* While the run is at a listing whose last read is not spoiled, the rows it
\* read are those of the database, and its writes lead to the sets they ask for.
RunMatches ==
    \A l \in run.at : ~spoiled[l] =>
        /\ run.pc \in {"sets", "write"} => run.view = CurrentView(l)
        /\ run.pc = "write" => SetsAhead(l) \in Constructions(run.view)

\* A listing the run is done with stays right until a write spoils it.
FinishedMatch ==
    \A l \in run.due \ run.todo :
        (run.pc = "next" \/ l \notin run.at) /\ ~spoiled[l] => Match(l)

\* So does any other listing that is not due, until a write makes it due.
OtherMatch ==
    \A l \in Listing \ run.due :
        /\ ~OutOfDate(l) /\ ~spoiled[l]
        /\ \A a \in AppsAt(l) : request[a] \notin {"created", "edited"}
        => Match(l)

FlagInv ==
    /\ TypeOK /\ SetsOK /\ RunOK /\ WritesOK
    /\ RunMatches /\ FinishedMatch /\ OtherMatch

(* No application is in two flagged sets of a listing once the run is over,*)
(* also when writes raced it; if a failure left such sets, the listing is  *)
(* still due, or the run had marked it before it came to it (DueIsRead).   *)
(* Two sets would let two reviews contradict each other.                   *)
OverlapIsDue ==
    \A i, j \in DOMAIN afs :
        /\ i # j
        /\ afs[i].listing = afs[j].listing
        /\ afs[i].listing \notin run.todo \cup run.at
        /\ afs[i].apps \cap afs[j].apps # {}
        => OutOfDate(afs[i].listing) \/ afs[i].listing \in lost

(* A resolved set holds only applications that were on the page of its     *)
(* reviewer: a new member reopens the set.  Except those that a run put in *)
(* between the page and the marking: the reviewer never saw them, and they *)
(* are duplicates by that marking (resolve does not ask what was shown).   *)
ResolvedAsSeen ==
    \A i \in DOMAIN afs : afs[i].status = "resolved" => afs[i].apps \subseteq afs[i].seen

(* A live application marked as a duplicate is a member of a resolved set: *)
(* what the comment on markedAsDuplicate says.  (No run or review is at    *)
(* work.)                                                                  *)
MarkedMeansResolved ==
    run.pc = "idle" /\ review.pc \in {"idle", "open"} =>
        \A a \in Application : state[a] = "live" /\ dup[a] =>
            \E i \in DOMAIN afs : a \in afs[i].apps /\ afs[i].status = "resolved"

(* A run neither reopens nor deletes a resolved set whose group it found   *)
(* unchanged, under the only rule key that group can have.  (Unless a row  *)
(* it read is of an application rolled back since: that may make the set   *)
(* what it is.)                                                            *)
ResolutionStands ==
    [][\A i \in DOMAIN afs :
          /\ afs[i].status = "resolved"
          /\ run.pc # "idle" /\ run' # run
          /\ \A row \in run.view : state[row[2]] # "gone"
          /\ i \in DOMAIN afs' => afs'[i].status = "pending"
          => \A K \in Components(run.view) :
                 MembersOf(run.view, K) = afs[i].apps => RuleKeys(K) # {afs[i].rule}
      ]_vars

(* A listing that is due is read by the run in progress or a later one,    *)
(* whatever runs fail on the way, unless one had marked it before it failed*)
DueIsProcessed ==
    \A l \in Listing : OutOfDate(l) ~> ReadByRun(l) \/ l \in lost

(* The promise of processDuplicates: a listing that matches its criterion  *)
(* is read by the run in progress or a later one.                          *)
DueIsRead == \A l \in Listing : OutOfDate(l) ~> ReadByRun(l)
=============================================================================

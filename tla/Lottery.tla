------------------------------ MODULE Lottery ------------------------------
(***************************************************************************)
(* The lottery of one listing (lottery.service.ts): generating the ranks,  *)
(* retracting, releasing, publishing and expiring the results, by admins,  *)
(* partners and cron jobs at once.  Each action is one call to the         *)
(* database, with the checks made on what it returns; a request that has   *)
(* passed its checks and not yet written the status is in "pending".       *)
(*                                                                         *)
(* The listing is a lottery with lotteryOptIn.  Times are not numbers:     *)
(* "behind" says that lotteryLastRunAt < lastApplicationUpdateAt, "due"    *)
(* that the day of the public lottery has come, "overdue" that the listing *)
(* has been closed for LOTTERY_DAYS_TILL_EXPIRY.  E-mails, snapshots and   *)
(* the activity log leave the state of the lottery alone.                  *)
(***************************************************************************)
EXTENDS Integers, FiniteSets

CONSTANTS
    Application,
    Question,      \* preferences on the listing
    Claims,        \* Claims[q]: applications that claim preference q
    General,       \* stands for multiselectQuestionId null
    Generation,    \* calls of lotteryGenerate
    None,
    MaxWrites,     \* bound on application writes and reviews
    MaxChanges,    \* bound on status requests by people, and on reopening
    MaxFailures    \* bound on database errors

ASSUME FiniteAssumption == IsFiniteSet(Application)
ASSUME ClaimsAssumption == Claims \in [Question -> SUBSET Application]
ASSUME GeneralAssumption == General \notin Question
ASSUME NoneAssumption == None \notin Generation
ASSUME LotteryBounds == {MaxWrites, MaxChanges, MaxFailures} \subseteq Nat

VARIABLES
    state,      \* an application: none yet, live, or deletedAt set
    marked,     \* markedAsDuplicate
    request,    \* request in flight on it, between its two writes
    closed, due, overdue, behind,
    status,     \* lotteryStatus; "none" is null
    pending,    \* statuses about to be written
    positions,  \* rows of application_lottery_positions
    totals,     \* rows of application_lottery_totals
    gen,        \* the calls of lotteryGenerate
    latest,     \* history: the call that began last
    past,       \* history: the statuses the lottery has had
    late,       \* history: applications that came after the last run was over
    writes, changes, failures   \* counters for the bounds

appVars == <<state, marked, request>>
clockVars == <<closed, due, overdue>>
rowVars == <<positions, totals>>
vars == <<appVars, clockVars, behind, status, pending, rowVars, gen, latest, past,
          late, writes, changes, failures>>

NewGeneration ==
    [pc |-> "new", alone |-> TRUE, apps |-> {}, order |-> <<>>, todo |-> {}, at |-> General]

Failed == [NewGeneration EXCEPT !.pc = "failed"]

Working(n) == gen[n].pc \notin {"new", "done", "failed"}

----------------------------------------------------------------------------
(* Applications: application.service.ts writes and stamps them, the review *)
(* of flagged sets marks them and stamps nothing.                          *)

CanWrite(a) == request[a] = "none" /\ writes < MaxWrites

CreateApplication(a) ==
    /\ CanWrite(a) /\ state[a] = "none"
    /\ state' = [state EXCEPT ![a] = "live"]
    /\ request' = [request EXCEPT ![a] = "created"]
    /\ late' = IF "ran" \in pending \/ \E n \in Generation : Working(n) THEN late
               ELSE late \cup {a}
    /\ writes' = writes + 1
    /\ UNCHANGED <<marked, clockVars, behind, status, pending, rowVars, gen, latest, past,
                   changes, failures>>

StampCreate(a) ==
    /\ request[a] = "created"
    /\ request' = [request EXCEPT ![a] = "none"]
    /\ behind' = TRUE
    /\ UNCHANGED <<state, marked, clockVars, status, pending, rowVars, gen, latest, past,
                   late, writes, changes, failures>>

BeginDelete(a) ==
    /\ CanWrite(a) /\ state[a] = "live"
    /\ request' = [request EXCEPT ![a] = "deleting"]
    /\ behind' = TRUE
    /\ writes' = writes + 1
    /\ UNCHANGED <<state, marked, clockVars, status, pending, rowVars, gen, latest, past,
                   late, changes, failures>>

EndDelete(a) ==
    /\ request[a] = "deleting"
    /\ state' = [state EXCEPT ![a] = "deleted"]
    /\ request' = [request EXCEPT ![a] = "none"]
    /\ UNCHANGED <<marked, clockVars, behind, status, pending, rowVars, gen, latest, past,
                   late, writes, changes, failures>>

ReviewApplication(a) ==
    /\ CanWrite(a) /\ state[a] = "live"
    /\ marked' = [marked EXCEPT ![a] = ~@]
    /\ writes' = writes + 1
    /\ UNCHANGED <<state, request, clockVars, behind, status, pending, rowVars, gen, latest,
                   past, late, changes, failures>>

----------------------------------------------------------------------------
(* The listing. *)

CloseListing ==
    /\ ~closed
    /\ closed' = TRUE /\ overdue' = FALSE
    /\ UNCHANGED <<appVars, due, behind, status, pending, rowVars, gen, latest, past, late,
                   writes, changes, failures>>

ReopenListing ==
    /\ closed /\ changes < MaxChanges
    /\ closed' = FALSE
    /\ changes' = changes + 1
    /\ UNCHANGED <<appVars, due, overdue, behind, status, pending, rowVars, gen, latest,
                   past, late, writes, failures>>

TimePasses ==
    /\ \/ ~due /\ due' = TRUE /\ overdue' = overdue
       \/ due /\ closed /\ ~overdue /\ overdue' = TRUE /\ due' = due
    /\ UNCHANGED <<appVars, closed, behind, status, pending, rowVars, gen, latest, past,
                   late, writes, changes, failures>>

----------------------------------------------------------------------------
(* lotteryGenerate *)

StartGenerate(n) ==
    /\ gen[n].pc = "new"
    /\ LET others == {m \in Generation : Working(m)}
       IN gen' = [m \in Generation |->
                     IF m = n
                     THEN [NewGeneration EXCEPT
                              !.pc = IF status = "none" THEN "find" ELSE "positions",
                              !.alone = others = {} /\ (status = "none" => positions = {} /\ totals = {})]
                     ELSE [gen[m] EXCEPT !.alone = @ /\ m \notin others]]
    /\ latest' = n
    /\ UNCHANGED <<appVars, clockVars, behind, status, pending, rowVars, past, late, writes,
                   changes, failures>>

Advance(n, pc) == gen' = [gen EXCEPT ![n].pc = pc]

DeletePositions(n) ==
    /\ gen[n].pc = "positions"
    /\ positions' = {}
    /\ Advance(n, "totals")
    /\ UNCHANGED <<appVars, clockVars, behind, status, pending, totals, latest, past, late,
                   writes, changes, failures>>

DeleteTotals(n) ==
    /\ gen[n].pc = "totals"
    /\ totals' = {}
    /\ Advance(n, "find")
    /\ UNCHANGED <<appVars, clockVars, behind, status, pending, positions, latest, past,
                   late, writes, changes, failures>>

Entrants == {a \in Application : state[a] = "live" /\ ~marked[a]}

FindApplications(n) ==
    /\ gen[n].pc = "find"
    /\ gen' = [gen EXCEPT ![n].pc = "general", ![n].apps = Entrants, ![n].todo = Question]
    /\ late' = {}
    /\ UNCHANGED <<appVars, clockVars, behind, status, pending, rowVars, latest, past,
                   writes, changes, failures>>

\* lotteryRandomizerHelper: every ordinal once, in any order.
Orders(apps) ==
    {f \in [apps -> 1..Cardinality(apps)] : \A a, b \in apps : f[a] = f[b] => a = b}

WriteGeneral(n) ==
    /\ gen[n].pc = "general"
    /\ \E order \in Orders(gen[n].apps) :
          /\ gen' = [gen EXCEPT ![n].pc = "generalTotal", ![n].order = order]
          /\ positions' = positions \cup
                {[by |-> n, question |-> General, app |-> a, ordinal |-> order[a]] :
                    a \in gen[n].apps}
    /\ UNCHANGED <<appVars, clockVars, behind, status, pending, totals, latest, past, late,
                   writes, changes, failures>>

WriteGeneralTotal(n) ==
    /\ gen[n].pc = "generalTotal"
    /\ totals' = totals \cup
          {[by |-> n, question |-> General, total |-> Cardinality(gen[n].apps)]}
    /\ Advance(n, "ranks")
    /\ UNCHANGED <<appVars, clockVars, behind, status, pending, positions, latest, past,
                   late, writes, changes, failures>>

Claimants(n, q) == gen[n].apps \cap Claims[q]

\* Variant of Rank: the ordinal of the general list.
GeneralRank(n, q, a) == gen[n].order[a]

\* preferenceOrdinal: the position of a among the claimants.
Rank(n, q, a) ==
    Cardinality({b \in Claimants(n, q) : gen[n].order[b] <= gen[n].order[a]})

WriteRanks(n, q) ==
    /\ gen[n].pc = "ranks" /\ q \in gen[n].todo
    /\ gen' = [gen EXCEPT ![n].pc = IF Claimants(n, q) = {} THEN "ranks" ELSE "rankTotal",
                          ![n].todo = @ \ {q},
                          ![n].at = IF Claimants(n, q) = {} THEN General ELSE q]
    /\ positions' = positions \cup
          {[by |-> n, question |-> q, app |-> a, ordinal |-> Rank(n, q, a)] :
              a \in Claimants(n, q)}
    /\ UNCHANGED <<appVars, clockVars, behind, status, pending, totals, latest, past, late,
                   writes, changes, failures>>

WriteRankTotal(n) ==
    /\ gen[n].pc = "rankTotal"
    /\ totals' = totals \cup
          {[by |-> n, question |-> gen[n].at, total |-> Cardinality(Claimants(n, gen[n].at))]}
    /\ gen' = [gen EXCEPT ![n].pc = "ranks", ![n].at = General]
    /\ UNCHANGED <<appVars, clockVars, behind, status, pending, positions, latest, past,
                   late, writes, changes, failures>>

\* lotteryStatus(ran) throws while the listing is open; lotteryStatus(errored)
\* in the catch then throws as well.
EndGenerate(n) ==
    /\ gen[n].pc = "ranks" /\ gen[n].todo = {}
    /\ gen' = [gen EXCEPT ![n] = IF closed THEN [@ EXCEPT !.pc = "done", !.order = <<>>]
                                 ELSE Failed]
    /\ pending' = IF closed THEN pending \cup {"ran"} ELSE pending
    /\ UNCHANGED <<appVars, clockVars, behind, status, rowVars, latest, past, late, writes,
                   changes, failures>>

\* Variant of GenerateFails: the TODO of the case "errored" is done.
GenerateFailsErrored(n) ==
    /\ Working(n) /\ failures < MaxFailures
    /\ gen' = [gen EXCEPT ![n] = Failed]
    /\ status' = "errored"
    /\ failures' = failures + 1
    /\ UNCHANGED <<appVars, clockVars, behind, pending, rowVars, latest, past, late, writes,
                   changes>>

\* A call of lotteryGenerate throws.  The status "errored" is asked for and
\* not written: its case is a TODO.
GenerateFails(n) ==
    /\ Working(n) /\ failures < MaxFailures
    /\ gen' = [gen EXCEPT ![n] = Failed]
    /\ failures' = failures + 1
    /\ UNCHANGED <<appVars, clockVars, behind, status, pending, rowVars, latest, past, late,
                   writes, changes>>

GenerateStep(n) ==
    \/ DeletePositions(n) \/ DeleteTotals(n) \/ FindApplications(n)
    \/ WriteGeneral(n) \/ WriteGeneralTotal(n)
    \/ \E q \in Question : WriteRanks(n, q)
    \/ WriteRankTotal(n) \/ EndGenerate(n)

----------------------------------------------------------------------------
(* The status: what is asked for, by whom and when, and the write.         *)

Ask(s) ==
    /\ pending' = pending \cup {s}
    /\ UNCHANGED <<appVars, clockVars, behind, status, rowVars, gen, latest, past, late,
                   writes, failures>>

ByPerson == changes < MaxChanges /\ changes' = changes + 1

\* The page offers it of results that are released or published; the service asks for
\* no status but the listing's.
Retract == closed /\ ByPerson /\ Ask("ran")

Release == closed /\ status = "ran" /\ ~behind /\ ByPerson /\ Ask("released")

Publish == closed /\ status = "released" /\ ByPerson /\ Ask("published")

\* Variants of AutoPublish: the query forgets the status; it asks for what a
\* release asks for.
AutoPublishAny == closed /\ status # "expired" /\ due /\ UNCHANGED changes /\ Ask("published")

AutoPublishCurrent ==
    closed /\ status = "released" /\ ~behind /\ due /\ UNCHANGED changes /\ Ask("published")

AutoPublish == closed /\ status = "released" /\ due /\ UNCHANGED changes /\ Ask("published")

\* Variant of Expire: null is not unequal to a value in SQL.
ExpireNotNull ==
    closed /\ overdue /\ status \notin {"expired", "none"} /\ UNCHANGED changes /\ Ask("expired")

Expire == closed /\ overdue /\ status # "expired" /\ UNCHANGED changes /\ Ask("expired")

\* updateLotteryStatus, or the updateMany of expireLotteries.
WriteStatus(s) ==
    /\ s \in pending
    /\ pending' = pending \ {s}
    /\ status' = s
    /\ past' = past \cup {s}
    /\ behind' = IF s = "ran" THEN FALSE ELSE behind
    /\ UNCHANGED <<appVars, clockVars, rowVars, gen, latest, late, writes, changes, failures>>

WriteStatusFails(s) ==
    /\ s \in pending /\ failures < MaxFailures
    /\ pending' = pending \ {s}
    /\ failures' = failures + 1
    /\ UNCHANGED <<appVars, clockVars, behind, status, rowVars, gen, latest, past, late,
                   writes, changes>>

----------------------------------------------------------------------------
Init ==
    /\ state \in [Application -> {"none", "live"}]
    /\ marked = [a \in Application |-> FALSE]
    /\ request = [a \in Application |-> "none"]
    /\ closed \in BOOLEAN
    /\ due = FALSE /\ overdue = FALSE /\ behind = FALSE
    /\ status = "none"
    /\ pending = {}
    /\ positions = {} /\ totals = {}
    /\ gen = [n \in Generation |-> NewGeneration]
    /\ latest = None
    /\ past = {}
    /\ late = {}
    /\ writes = 0 /\ changes = 0 /\ failures = 0

ApplicationStep(a) ==
    \/ CreateApplication(a) \/ StampCreate(a)
    \/ BeginDelete(a) \/ EndDelete(a)
    \/ ReviewApplication(a)

Status == {"ran", "released", "published", "expired"}

Next ==
    \/ \E a \in Application : ApplicationStep(a)
    \/ CloseListing \/ ReopenListing \/ TimePasses
    \/ \E n \in Generation : StartGenerate(n) \/ GenerateStep(n) \/ GenerateFails(n)
    \/ Retract \/ Release \/ Publish \/ AutoPublish \/ Expire
    \/ \E s \in Status : WriteStatus(s) \/ WriteStatusFails(s)

Spec == Init /\ [][Next]_vars

(* The cron jobs come round again for ever, and a status whose checks have *)
(* passed is written (or its request fails).                               *)
FairSpec ==
    /\ Spec
    /\ WF_vars(AutoPublish) /\ WF_vars(Expire)
    /\ \A s \in Status : WF_vars(WriteStatus(s))

----------------------------------------------------------------------------
Position ==
    [by : Generation, question : Question \cup {General}, app : Application, ordinal : Nat]

Total == [by : Generation, question : Question \cup {General}, total : Nat]

GenTypeOK ==
    \A n \in Generation :
        /\ DOMAIN gen[n] = {"pc", "alone", "apps", "order", "todo", "at"}
        /\ gen[n].pc \in {"new", "positions", "totals", "find", "general", "generalTotal",
                          "ranks", "rankTotal", "done", "failed"}
        /\ gen[n].alone \in BOOLEAN
        /\ gen[n].apps \subseteq Application
        /\ gen[n].todo \subseteq Question
        /\ gen[n].at \in Question \cup {General}
        /\ gen[n].pc \in {"generalTotal", "ranks", "rankTotal"} =>
               gen[n].order \in Orders(gen[n].apps)

CallTypeOK ==
    DOMAIN gen = Generation /\ GenTypeOK /\ latest \in Generation \cup {None}

AppTypeOK ==
    /\ state \in [Application -> {"none", "live", "deleted"}]
    /\ marked \in [Application -> BOOLEAN]
    /\ request \in [Application -> {"none", "created", "deleting"}]
    /\ late \subseteq Application

ClockTypeOK == {closed, due, overdue, behind} \subseteq BOOLEAN

StatusTypeOK ==
    status \in Status \cup {"none"} /\ pending \subseteq Status /\ past \subseteq Status

RowTypeOK == positions \subseteq Position /\ totals \subseteq Total

CountTypeOK ==
    writes \in 0..MaxWrites /\ changes \in 0..MaxChanges /\ failures \in 0..MaxFailures

TypeOK ==
    /\ AppTypeOK /\ ClockTypeOK /\ StatusTypeOK
    /\ RowTypeOK /\ CallTypeOK /\ CountTypeOK

----------------------------------------------------------------------------
PositionsOn(q) == {p \in positions : p.question = q}

\* The rows give each of the applications one ordinal, from 1 on, without gaps.
Numbers(rows, apps) ==
    /\ {p.app : p \in rows} = apps
    /\ {p.ordinal : p \in rows} = 1..Cardinality(apps)
    /\ Cardinality(rows) = Cardinality(apps)

\* The rows of a preference are in the order of the general rows.
InGeneralOrder(q) ==
    \A p, r \in PositionsOn(q), x, y \in PositionsOn(General) :
        p.app = x.app /\ r.app = y.app =>
            (p.ordinal < r.ordinal <=> x.ordinal < y.ordinal)

TotalsOn(q) == {t.total : t \in {u \in totals : u.question = q}}

(* After a generation that nothing overlapped, and that found no rows or   *)
(* deleted them, every entrant has exactly one general position, every     *)
(* claimant of a preference one rank in it, in the order of the general    *)
(* list, and the totals count them: whatever earlier generations left.     *)
Ranked ==
    \A n \in Generation : latest = n /\ gen[n].pc = "done" /\ gen[n].alone =>
        /\ Numbers(PositionsOn(General), gen[n].apps)
        /\ TotalsOn(General) = {Cardinality(gen[n].apps)}
        /\ \A q \in Question :
              /\ Numbers(PositionsOn(q), Claimants(n, q))
              /\ InGeneralOrder(q)
              /\ TotalsOn(q) = {Cardinality(Claimants(n, q))} \ {0}

(* The applicants see no results of a lottery that was not set to ran and  *)
(* released to partners first, whichever of the people and cron jobs race. *)
PublishedWasReleased ==
    "published" \in pending \cup past => {"ran", "released"} \subseteq past

(* Released results of a closed listing are published, retracted or        *)
(* expired once their day has come, also when a publication fails.         *)
DueIsPublished ==
    status = "released" /\ closed /\ due ~> status # "released" \/ ~closed

(* The lottery of a listing long closed expires, also one that was never   *)
(* run, and one that is published while it expires.                        *)
OverdueExpires == closed /\ overdue ~> status = "expired" \/ ~closed

(* A release is refused while applications are not included in the last    *)
(* run: what the error message of lotteryStatus says.  (Of results that    *)
(* were released before, and applications created and stamped after the    *)
(* last run was over.)                                                     *)
ReleaseIncludesLate ==
    [][Release /\ "released" \in past =>
          \A a \in late : state[a] = "live" /\ request[a] = "none" =>
              \E p \in PositionsOn(General) : p.app = a
      ]_vars
=============================================================================

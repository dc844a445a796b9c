# Doorway: a TLA+ model of applications, lotteries, listings and accounts

Doorway is a housing portal: applicants apply to listings, property managers
("partners") and administrators publish listings, review applications, detect
duplicates and run a lottery over those that remain. Personal data and unused
accounts are removed in time. The back end (`src/api`) is a stateless NestJS
service over PostgreSQL; any number of instances may run, and each runs the same
cron jobs. This directory holds a TLA+ model of the parts where several requests
and jobs meet in the same rows, the TLC runs that check it, and TLAPS proofs
about it.

All file names below are relative to `src/`; services live in
`api/src/services/`.

## 1. Inventory

### Components

| Component | State it keeps | Operations | Correct when |
|---|---|---|---|
| Duplicate rules and merge (`application-flagged-set.service.ts`, the view in migration 17) | none (a computation over rows) | group by key, merge overlapping groups, build the rule key | the merged groups are the connected components; the merge ends; no application is in two groups |
| Flagged sets (same service) | `application_flagged_set` and its relation to applications, `markedAsDuplicate`, `reviewStatus`, `afsLastRunAt` | `processDuplicates` (cron, endpoint, closing of a listing), `resolve`, `resetConfirmationAlert` | the sets of a listing nothing is happening to are those its applications call for; no overlap; a resolution holds for what was on the reviewer's page and is not lost without a reason; every listing that is due is processed |
| Applications (`application.service.ts`) | `applications` with `deletedAt`, `isNewest`, `expireAfter`; `lastApplicationUpdateAt` of the listing | `create` (with a compensating delete), `update`, `delete`, `removePIICronJob` | each change is noticed by the next duplicates run and the next release of a lottery; data is removed when due, never of a user's newest application |
| Lottery (`lottery.service.ts`) | `lotteryStatus`, `lotteryLastRunAt`, `application_lottery_positions`, `application_lottery_totals` | `lotteryGenerate`, `lotteryStatus` (retract, release, publish), `autoPublishResults`, `expireLotteries` | a run ranks every entrant once, preferences follow the general order; only released results become public; due results do, old lotteries expire |
| Listings (`listing.service.ts`) | `status`, `closedAt`, `publishedAt`, due dates | approval workflow, `update`, `closeListings`, cache purge | its dates fit its status whatever updates overlap; what a closing owes its applications is done; the cached list shows what is so |
| Cron jobs (`cron-job.service.ts`) | `cron_job.lastRunDate` | `startCronJob` (five-minute gate), `markCronJobAsStarted` | calls overlap only where reading and then writing the row allows it; a job that failed runs again |
| Retention (`application.service.ts`, `user.service.ts`) | `expireAfter`, `isNewest`, `wasPIICleared`, `userId`, snapshots | `create`, `removePIICronJob`, `removePII`, deletion of an account, closing of a listing | the newest application is kept; the rows and snapshots the removal clears stay clear; late applications expire as well |
| Accounts (`user.service.ts`, `passports/`) | `lastLoginAt`, `wasWarnedOfDeletion` | sign-in, `warnUserOfDeletionCronJob`, `deleteAfterInactivity`, `delete` | who is deleted was warned and idle; who stays idle is deleted |
| Multiselect questions (`multiselect-question.service.ts`) | status draft, visible, active, toRetire, retired | transitions, `activateMany`, `retire`, the retiring job | questions of a published listing are in use; every move is one the status machine allows for the row it meets |
| Sign-in (`auth.service.ts`, `passports/`) | tokens, single-use code, failed attempts | login, refresh, logout, code requests | a code is used once, a refresh leaves a usable session |
| Script runner, snapshots, permissions, reference data, import task, exports, e-mail and other outside services, sites, proxy, infrastructure | – | – | see section 8 |

### How they interact

* Every request is a handler that `await`s one database call after another.
  Nothing locks: between two calls any other request or job may run. Only the
  saves of `create` and `update` of an application are transactions, and each is
  a single step of the model.
* Applications tell the others of a change by one time stamp on the listing,
  `lastApplicationUpdateAt`. The duplicates run compares it (`>=`) with
  `afsLastRunAt`, the release of a lottery (`>`) with `lotteryLastRunAt`.
  `create` and `update` write it last, `delete` writes it first.
* The review of a flagged set decides `markedAsDuplicate`, by which the lottery
  leaves applications out. It writes no time stamp. It goes by a page shown before,
  in another request, and does not ask whether the set is still what was shown.
* Clearing personal data changes the names of applications, by which duplicates are
  found, on open listings too when an account is deleted. It writes no time stamp.
* Closing a listing by `update` runs the duplicates process for it at once;
  closing by the cron job leaves it to the next run. Both allow reviews and the
  lottery, which ask that the listing be closed.
* `update` of a listing reads the row at its start and decides by what it read:
  the dates it writes, the questions it accepts, the purge and the effects of a
  closing. The write names the row by its id only.
* Closing sets `expireAfter` of the applications of the listing, and `create`
  computes it for late ones; `removePIICronJob` goes by it and by `isNewest`. The
  deletion of an account clears its applications through the same `removePII`.
* Publishing a listing activates its questions (`activateMany`, which nobody waits
  for), closing the last one lets `retireMultiselectQuestions` retire them.
* The proxy keeps the list of listings for 24 hours unless it is purged.
* Cron jobs call the same methods as the endpoints do. An error inside a job is
  caught in `startCronJob` and logged; the job comes again.

### What is hard here

Decisions by a row read some calls ago; interleavings of a run with writes and
reviews; a run that fails between its deletions and creations; time stamps that tie or are set by the wrong event; a
status checked and written later; two generations at once; promises that nobody
awaits, and a process that ends under them; an e-mail and the flag that says it
was sent, also when it was refused; rows looked up and cleared, and replaced in
between; a page and the request that goes by it; work that must be taken up again after an error. Every such place is listed with its line under
`hazards` in PROJECT.json, with the property that covers it or the reason why
none does.

## 2. Modules

| Module | What it is |
|---|---|
| `FlagRules` | Pure operators: the rows of the view, groups, flagged keys, the rule key of a set, and the reference definition of the merge (`Components`) |
| `MatchingGroups` | The abstract merge: each component is found at once and whole |
| `DuplicateGroups` | The merge as a state machine: one application taken out of `applicationToGroupList` per step; implements `MatchingGroups` |
| `DuplicateGroupsProofs` | The merge computes `Components`, and implements `MatchingGroups`, for any keys and applications |
| `FlaggedSets` | Applications, duplicates runs, reviews and closing of listings, one action per database call; uses `Constructions` of `FlagRules` for the result of the merge |
| `FlaggedSetsProofs` | Type correctness of `FlaggedSets` |
| `SettledProofs` | The inductive invariant `FlagInv` and `SettledMeansFlagged` |
| `ReviewProofs` | On top of `FlagInv`: `ResolvedAsSeen`, `OverlapIsDue`, `ResolutionStands` |
| `Lottery` | Generation, status requests and jobs of one listing's lottery, one action per database call |
| `LotteryProofs` | Types of `Lottery`, `PublishedWasReleased` and `Ranked` |
| `ListingCycle` | Updates of one listing, the closing job, the questions attached to it and the cached list |
| `Retention` | Submissions, closing, clearing of personal data and deletion of the account, for one listing and one account |
| `CronJob` | One cron job in several instances: the gate and the row it asks |
| `Accounts` | Sign-in, the warning job (through `CronJob`) and the deleting job |
| `AccountsProofs` | Types of `Accounts`, `OverlapsExplained` (through `GateInv` of `CronJob`), `DeletedWasMailed`, `DeletedWasIdle` and `SecondMailExplained` |
| `ListingCycleProofs` | Types and every property of `ListingCycle` |
| `RetentionProofs` | Types and every property of `Retention` |
| `MCFlaggedSets`, `MCLottery`, `MCRetention`, `MCListingCycle` | Instances for TLC: key sets, homes of applications, claims, symmetry |

`DuplicateGroups` is where the recursion of the code is modelled. Its refinement
mapping is `INSTANCE MatchingGroups WITH rows <- view, found <- merged`: a step
that takes an application out of the list is a stutter, and one that emits a
matching set is `Find`. `FlaggedSets` takes the result in one step, as
`Components`: no other request can see inside a computation in memory.

### FlagRules and DuplicateGroups

A row of the view is `<<key, application>>`. Names and e-mail addresses are model
values; what matters is which applications share one. A rule key is a string
joined from sorted name keys behind at most one e-mail key; the model keeps the
*set* of its keys. Sorting makes the order of names immaterial, and which e-mail
group `find` meets first is left open (`RuleKeys`), as the order of rows is in the
query. The initial states of `DuplicateGroups` are all tables in which an
application has at most one e-mail key, as it has one primary applicant.

### FlaggedSets

* `state`, `keys`, `dup`, `request`: an application, its keys in the view,
  `markedAsDuplicate`, and the request that is between its two writes.
* `fresh[l]`: how `afsLastRunAt` stands to `lastApplicationUpdateAt`: no update
  yet, never run, due, `tie` (equal), done. This is all the code asks of the two
  times. A write in the millisecond of the last run may tie, so `StampOutcomes`
  and `MarkOutcomes` have two results there.
* `afs`: the rows of `application_flagged_set` by id, with the history field
  `seen` (what was on the page of the reviewer who resolved it, and what a run put
  in between that page and the marking).
* `run`: the run in progress: the listings it set out with (`due`), those not
  read yet (`todo`), the one it is at, what it read, and the deletions, writes and
  marks still ahead. `review` is the page of a set that a reviewer has open, then
  the `resolve` request sent from it.
* `spoiled[l]`: history: since the run last read listing `l`, a write changed what
  it read, or a write was not followed by a stamp, or names were cleared, or the run
  was cut off.
* `lost`: history: listings a run marked as processed and was cut off from before
  it had processed them. A later write to the listing makes it due again.

Actions follow the calls of `processDuplicates`: `ReadGroups` (the raw query),
`ReadSets` (the rows in the database, and the comparison in memory), `DropSet`,
`UpdateSet`, `CreateSet` (whose error is caught), `MarkListing`, in that order,
for each listing; `MarkListing` goes over *all* listings of the run each time, as
the code does. `DatabaseFails` ends a run anywhere. `CreateApplication` /
`StampApplication` / `RollBackCreate`, `UpdateApplication` / `StampApplication`,
and `BeginDelete` / `EndDelete` are the pairs of writes of the requests.
`StampApplication` is the last line of both `create` and `update`.
`ClearApplication` is `removePII` as the view sees it: the names of the application
become `BlankName`, which all cleared applications share, its e-mail address stays,
and the listing is not stamped; it may come at any time, also in the middle of a
request on the application. `OpenReview` is `findOne`, by which the page of a set is
filled. `BeginReview` sends the form, any time later: of the chosen those that are
still members count. `MarkChosen`, `MarkOthers`, `MarkSet` are the calls of
`resolve`, with outcome `resolved` or `pending`; the others are looked up in the set
as it is then. A run is free to change the set before, between and after these.

### Lottery

One listing with a lottery. `behind` is `lotteryLastRunAt <
lastApplicationUpdateAt`; a write in the very millisecond of a run is not
distinguished from one after it (the run may miss it and `<` lets it pass). `due`
and `overdue` are the two dates the jobs compare. A call of `lotteryGenerate` is
a record in `gen`, with the entrants it read and the order it drew; each of its
database calls is an action. `alone` is history: nothing overlapped the call and
it started from no rows, or deleted those there were. A request or job that has
passed its checks and not written yet leaves its status in `pending`;
`WriteStatus` writes it, `WriteStatusFails` loses it. In between lie snapshots and
the collection of addresses, and anything may happen. `past` is the history of
statuses. `sites/partners` offers a retraction for released and published results
only, but the endpoint writes "ran" from any status, and so does `Retract`.

### ListingCycle

One listing, with a row of what updates and jobs decide by: status (the statuses
of the approval workflow count as pending), whether `publishedAt` and `closedAt`
are set, and the questions attached. A call of `update` goes through
`ReadStored`, `Validate` (the questions), `Write` (the transaction, by what was
read) and then, by what it asked for, `Publish` (start `activateMany`), `Close`
(the duplicates process is over, `setExpireAfterValueOnApplications` starts) or
nothing, and `EndUpdate` (the purge). The status and the questions an update asks
for are chosen where the code first looks at them. Any status may be asked for: the form was
opened some time ago, and the row may have changed since. `activating` and
`expiring` are the promises nobody awaits. `Refuse` and `ActivateFails` are
rejections of such a promise that no handler catches, by which Node ends the
process: `Dies`, as for `Restart`, forgets all that is in memory. The closing job
reads, writes by id, purges and sets the expiry (`FindDue` ... `EndJob`); the due
date is left open. A request on a question reads it and its listings, and writes
some calls later (`ReadQuestion`, `WriteQuestion`); the foreign key refuses the
deletion of an attached question. A request may ask for every status the table of
the service allows (`Allowed`), retirement included, as the endpoint of an edit
does. `owed`, `lost`, `outdated` and `excused` are history: what a closing
owes, and what failures, crossings and outdated reads excuse.

### Retention

The rows of applications with owner, `isNewest`, `expireAfter` (never, later,
past), `wasPIICleared` with who cleared it, and whether the row (`data`) and a
snapshot (`snap`) hold personal data. `create` reads the listing, then runs a
transaction whose two statements are two steps (`BeginSave`, `CommitSave`): at
read committed the first does not see an application that another submission has
not committed. `removePII` is `FindUncleared`, `DropSnapshots`, `Clear`, and both
the job and the deletion of the account go through it (`removal`). `update` by the
staff and `connectUserWithExistingApplications` copy the row to a snapshot in two
calls and then write; a form holds what it showed when it was opened. An update
does not write into the rows of the applicant, the alternate contact, the addresses
and the household: it creates new ones. `removePII` clears those whose ids it looked
up at its start, so an update in between leaves its rows alone: `replaced` says which
removal that has happened to.

`data` and `snap` stand for what `removePII` is written to clear: the rows just named
and the rows of `application_snapshot`. What it never touches is not in the model and
stays whatever the model says: section 4.

### CronJob and Accounts

`CronJob` has one row, whose date is recent (less than five minutes old) or not,
and a call per instance: past the gate, about to update or create the row, at
work. `ungated`, `long` and `met` are history: calls whose answer of the gate is
outdated or that an endpoint started without asking, calls that take more than
five minutes, calls that worked at the same time as another. `Accounts` instantiates it for the warning
job. `idle[u]` compares the last use of an account with the dates of the two
jobs; `SignIn`, `WrongCode`, `CodeMissing` and `WrongPassword` are the outcomes of
the two strategies, by what they write of `lastLoginAt` and
`wasWarnedOfDeletion`. The warning job reads at most `Limit` users, and for each
sends a mail and then sets the flag; an error is caught and the next user follows
(`MailFails`: a failing look-up, before any mail, or a failing write). A mail that the
mail service refuses is no error to the job, as `sendSingleSES` catches and returns
it: `SendMail` goes on to the flag whether the mail went out or not, and `refused`
remembers who got none.
The deleting job marks no row, so the gate lets every call of it through.

## 3. Runs

All runs finish well within five minutes on two workers.

| Run | Instance | Shows |
|---|---|---|
| `DuplicateGroups` | 4 applications, 2 e-mail keys, 1 name: all tables | `MergeInv`, `NoApplicationInTwo`, `MergeIsComponents`, and that the merge ends (`MergeEnds`); `ImplementsMatching` |
| `FlaggedSetsReview` | 1 listing, 3 applications, 2 key sets and the blank name, 2 writes or clearings, 1 review, 1 failed run | `TypeOK`, `ResolvedAsSeen`, `SettledMeansFlagged`, `OverlapIsDue`, `ResolutionStands` |
| `FlaggedSetsListings` | 2 listings, 2 applications each, 1 write or clearing, 1 failed run | `FlagInv` (the invariant of the proofs, over listings that share a run) and `DueIsProcessed` |
| `LotteryRanks` | 3 applications, 1 preference claimed by two, 2 generations, 1 write, 1 failure | `TypeOK`, `Ranked` |
| `LotteryStatus` | 1 application, 1 generation, 3 requests by people, 1 failure | `PublishedWasReleased`, `DueIsPublished`, `OverdueExpires` |
| `ListingCycle` | 2 updates, together and in a row, 1 question, 1 failure; job, requests on the question and page fetches unbounded | `TypeOK`, `DatesSet`, `ClosingTakesEffect`, `PageCurrent`, `PublishedInUse`, `QuestionMoves` |
| `Retention` | 2 applications, 1 account, 1 edit, 2 moves of the listing, 1 failure, 1 cleared per job | `TypeOK`, `NewestKept`, `OneNewest`, `ClosedExpires`, `ClearedHasNoData`, `GoneIsCleared` |
| `Accounts` | 1 user, 2 instances, 1 attempt to sign in, 1 failure | `TypeOK`, `OverlapsExplained`, `DeletedWasMailed`, `DeletedWasIdle`, `SecondMailExplained`, `StaleIsDeleted` |
| `FlaggedSetsCutOff`, `FlaggedSetsMarked`, `LotteryRelease`, `AccountsWarned` | smaller | what a comment or a message says and the code does not do: section 4 |

### The properties

* `MergeIsComponents`: the recursion that removes entries from the map it walks
  yields exactly the connected components. `NoApplicationInTwo` says so at every
  moment of the loop.
* `SettledMeansFlagged`: a listing with no request in flight, not due, and not
  ahead of a run has exactly the sets its applications call for, unless a write
  raced the last run or names were cleared since. It depends on the comparison of the time stamps, on the
  order of deletions and writes, on the loop that marks listings, and on the
  errors that are caught.
* `OverlapIsDue`: without the excuse of a race: no application is in two sets once
  the run is over, and if a failure left it so, the listing is still due, or the
  run that failed had marked it before (`lost`).
* `ResolvedAsSeen`: a resolved set holds only applications that were on its
  reviewer's page, or that a run put in between that page and the marking. Whatever
  comes later reopens the set.
* `ResolutionStands`: a run does not reopen or delete a resolved set whose group
  it found unchanged, when that group can have one rule key only. With two e-mail
  groups in a component it can have two, and the database may order the rows
  differently the next time: that case is excluded by name, and so is a group some
  row of which was rolled back after the run read it.
* `DueIsProcessed`: a listing that is out of date is read by a run in the end,
  unless one marked it before it had come to it, and failed. `DueIsRead` is the same
  without the exception, and is violated: section 4.
* `Ranked`: after a generation nothing overlapped, every entrant has one general
  position, positions are 1..n, preference ranks are 1..m in the order of the
  general list, totals count them, and nothing of earlier generations is left.
* `PublishedWasReleased`, `DueIsPublished`, `OverdueExpires`: the status.
* `ImplementsMatching`: every step of the merge is a step of the abstract one, or
  a stutter.
* `DatesSet`: a published listing has a date of publication, a closed one a date of
  closing, though each update computes both from a row it read earlier and may
  overwrite a newer one.
* `ClosingTakesEffect`: nobody leaves a closed listing without setting the expiry
  of its applications, unless a failure came in between or the update that closed
  it had read another status.
* `PageCurrent`: once the updates are done the cached list shows the listing as it
  is, unless a purge was lost, left out for an outdated status, or crossed by a
  page on its way.
* `PublishedInUse`, `QuestionMoves`: the questions of a published listing are active
  or about to retire, and a status moves as the status machine allows for the row
  as it is then; where an update or request was overtaken, it is named.
* `NewestKept`, `OneNewest`: the job never clears the application an account saved
  last, and two are newest only if they were saved at the same time.
* `ClosedExpires`: no application of a closed listing is without `expireAfter`,
  late ones included, except those in the middle of being saved.
* `ClearedHasNoData`, `GoneIsCleared`: of a cleared application neither the rows
  `removePII` clears nor an application snapshot remains, unless a request held the
  data at the time or an update had replaced the rows; what went with
  an account was cleared, by whichever of the job and the deletion came first.
* `OverlapsExplained`: two calls of a job are at work together only if one was let
  through before the other marked the row, was started by hand, or takes more than
  five minutes.
* `DeletedWasMailed`, `DeletedWasIdle`, `SecondMailExplained`: what sign-ins,
  failed look-ups and failed writes may not lead to; a mail that was refused is the
  exception of the first. `StaleIsDeleted`: an account beyond the
  deletion date is deleted or used again.

### Bounds, and why they are enough

Three applications are the least that give two overlapping groups with different
members, a member that joins or leaves, and one that stays; the table run has
four, for the chain e-mail, name, e-mail. One key of each kind is enough for each
rule key (name, e-mail, combination); two e-mail keys appear in `DuplicateGroups`
only, and in the proofs. Two set ids suffice: three applications never form more
than one component of two or more, so at most one old and one new row exist.
`FlaggedSetsReview` gives an applicant no keys or one of each kind, so that names
cleared of one application, of two or of three lead to every rule key. It has a
failed run, but for a failure to leave overlapping sets takes two components whose
members change places, four applications to a listing, which is more than a run has
time for: `OverlapIsDue` after a failure is the theorem `NoOverlap`, not the run.
`FlaggedSetsListings` has the failure of a run over several listings.
`MaxRequests` counts application writes and clearings after the first applications, which exist
already in the initial states (with every choice of keys). `MaxReviews`,
`MaxFailures`, `MaxWrites` and `MaxChanges` bound reviews, failures and status
requests. Reopening a listing counts as a status request in `Lottery`. In `Retention` two applications
give an older and a newer one, and both orders of two submissions at once; two moves
close and reopen the listing. In `Accounts` users do not meet but
in the limit of a call, which one user does not reach; two instances are the least
that overlap. In `ListingCycle`
two updates at once are what an outdated read needs; with three the run takes
too long. All bounds
are conjuncts of guards and named constants. The cron jobs are not bounded.
Applications are symmetric in the one-listing instances of `FlaggedSets`, set ids
too, generations in `LotteryRanks`; liveness is checked without symmetry.

`CHECK_DEADLOCK FALSE` is set for `DuplicateGroups` (the merge is over), `Lottery`
(with all bounds used up, an expired lottery of a closed listing has nothing left
to do), `Retention` (every application was made and cleared or undone, and the
account is gone) and `ListingCycle` (a closed listing with a retired question, its
page in the proxy, and updates used up).

### Fairness

`FlaggedSets!FairSpec`: weak fairness of `RunStep` (a run that began goes on: Node
continues an awaited call) and strong fairness of `CronRun` (the timer fires for
ever, and a run by the endpoint or by a closing does not keep it off for ever:
`startCronJob` fires hourly whatever else happens). Nothing is assumed of
applicants and reviewers. Failures are bounded: with unboundedly many failed
runs nothing can be promised.

`Lottery!FairSpec`: weak fairness of `AutoPublish`, `Expire` (daily jobs) and of
each `WriteStatus` (a handler whose checks passed goes on, or fails:
`WriteStatusFails`, bounded).

`Accounts!FairSpec`: strong fairness of `AskGate` (an instance's timer fires for
ever, and the row is old again and again), weak fairness of `FiveMinutesPass` and
of the steps of both jobs (Node continues an awaited call, mails and writes are
answered or fail, and failures are bounded), and of `ListUsers` (a timer whose gate
is always open). Nothing is assumed of users: neither that time passes for them nor that
they sign in.

`Retention` and `ListingCycle` have safety properties only: with the clients they
need, liveness is too large to check.

## 4. Findings

Each of the first four is a run that TLC ends with a counterexample.

* `FlaggedSetsCutOff`: the loop that sets `afsLastRunAt` of all listings of a run
  (`application-flagged-set.service.ts:718`) stands inside the loop that processes
  them (:512). The first listing marks all; when the run fails at a later one, the
  rest are marked, not processed, and not found again until an application to them
  changes.
* `FlaggedSetsMarked`: when a run reopens or deletes a resolved set, the marks of
  its applications stay; the lottery then leaves out an application that is in no
  resolved set.
* `LotteryRelease`: a retraction sets `lotteryLastRunAt` though nothing was run,
  and so switches off the check that keeps a release from leaving out late paper
  applications. In the counterexample an application comes after the run, a release
  and a retraction that overlap are written, and the second release goes through.
* `AccountsWarned`: a sign-in that succeeds leaves `wasWarnedOfDeletion` set; only
  failed attempts reset it, though the comment there says that signing in does. A
  user warned once is deleted years later without another warning.

Seen while modelling, and named as exceptions in the properties:

* A refused warning counts as a warning. `sendSingleSES` (`email.service.ts:231`)
  catches the error of the mail service, logs and returns it; `warnOfAccountRemoval`
  (:1109) does not look at it, and the job sets `wasWarnedOfDeletion`
  (`user.service.ts:1717`). The account is then deleted though its owner got no
  mail (`DeletedWasMailed`: `refused`). The test "should not update user if email
  failed" (`api/test/unit/services/user.service.spec.ts`) lets the mail throw, which
  the real service does not do.
* An update committed while `removePII` is at an application leaves its data in new
  rows, which nothing clears as `wasPIICleared` is true (`ClearedHasNoData`: `kept`
  through `replaced`).
* `removePII` does not clear what its comment, "Remove all PII fields from the passed
  in application" (`application.service.ts:1751`), says: `applicationsAlternateAddress`
  and the name and address of the address holder in the selections of preferences and
  programs are left; and deleting rows of `application_snapshot` leaves the snapshots
  of the applicant, the contacts and the addresses they point to.
* Deleting an account clears the names of its applications on open listings as well
  and stamps nothing, so their flagged sets stay as they were until something makes
  the listing due (`SettledMeansFlagged`: `spoiled`). The next run then finds the
  cleared applications to share a name and date of birth, and flags them together.
* What a run puts into a set between the reviewer's page and its marking is marked as
  a duplicate unseen, as `resolve` marks all members that were not chosen
  (`ResolvedAsSeen`: `seen`).
* An application saved and stamped after a run read the groups and before it set
  `afsLastRunAt` is not flagged until the next write to the listing
  (`SettledMeansFlagged`: `spoiled`).
* A first generation of a lottery that fails leaves rows and a null status, by
  which the next one decides that there is nothing to delete (`Ranked`: `alone`).
* Reopening a listing with a retired question saves it as active; `activateMany`
  then rejects, with nobody to handle it, and the process ends
  (`multiselect-question.service.ts:664`). A question moved to draft between the
  validation and the write has the same effect.
* A writer that read a question before the retiring job retired it brings it back
  (`QuestionMoves`: `MovedUnseen`), which the message at :630 rules out.
* An update that read another status than the one it overwrites skips the effects
  of a closing, and an update that unpublishes may leave the cached list
  (`ClosingTakesEffect`: `lost`; `PageCurrent`: `outdated`). The closing job closes
  what it found by id, though it was unpublished or its date moved since.
* Reopening a listing does not reset `expireAfter`; a rolled-back `create` does not
  give `isNewest` back to the application before it (`NewestKept`: only of one that
  stayed); the newest application of a deleted account stays newest, and is never
  cleared by the job.
* A form opened before an application was cleared writes the data back, and
  `wasPIICleared` stays true (`ClearedHasNoData`: `kept`).
* The warning says thirty days, but an account already beyond the deletion date
  when warned goes with the next deleting job.
* A user who signs in after the deleting job listed him is deleted
  (`DeletedWasIdle`: `Used`); one deleted by another instance meanwhile ends the job.

## 5. Proofs

All constants are arbitrary; the assumptions are the named `ASSUME`s of the
modules: keys of the two kinds are disjoint, the blank name is a name, an applicant enters at most one
e-mail address, applications of a lottery are finitely many, bounds are natural
numbers, sentinels are not ids.

* **The merge** (`DuplicateGroupsProofs`): `MergeInv` is inductive. Its parts:
  what left the list took all its groups into one set (`TakenTogether`); emitted
  sets are closed and touch nothing that is left (`EmittedIsClosed`); no closed
  set of groups splits a matching set (`Chained`). Without `Chained` one cannot
  tell a component from a union of two; without `EmittedIsClosed` a later seed
  could fall into an emitted set. At the end closed and chained means component.
* **The abstract merge** (same module): `MergeImplementsMatching`. Initial states map
  to initial states; a step that emits a set adds a component (closed by `MergeInv`,
  chained by `Chained`), and it is a new one because emitted sets touch nothing that
  is left.
* **Types** of `FlaggedSets`, `Lottery`, `Accounts`, `ListingCycle` and `Retention`.
  In `Retention` they say as well what is known by the place of a request: a row
  that is not saved is empty, forms are open on saved applications, and no
  application comes onto the list of a removal before it was written.
* **Settled means flagged** (`SettledProofs`). `SettledMeansFlagged` is not
  inductive: that the rows are right when the last mark is written follows from
  what the run knew while it wrote them. `FlagInv` adds `SetsOK` (one row per rule
  key and listing, members of that listing only), `RunOK` (the fields of the run
  by its place in the loop), `WritesOK` (the writes ahead touch different rule
  keys, and rows that exist), `RunMatches` (what was read is still so, and the
  rows once the writes are done are those called for: `SetsAhead`),
  `FinishedMatch` (a listing the run is done with stays right while other listings
  are processed, though it is marked again) and `OtherMatch` (so does a listing
  that is not due). `SetsAhead` is what makes the step by step deletion and
  creation tractable: no single `DropSet`, `UpdateSet` or `CreateSet` changes it.
* **Resolved as seen** (`ReviewProofs`): `SeenInv` adds that until a run puts another
  application in the set under review, its members are among those on the page,
  from the time the page was read.
* **No overlap** (same module): `ApartInv` says of the sets of a listing, or of those
  it will have once the writes ahead are done (`SetsAhead` again), that two with
  different rule keys share no application. When a run has computed its groups this
  is so because two components share none; it survives a race, which
  `SettledMeansFlagged` does not, as it speaks of the sets alone. A run that fails
  leaves its listing due, or in `lost`: without `lost` the invariant is not
  inductive, and the failed step of the proof is the finding `FlaggedSetsCutOff`.
* **Resolutions stand** (same module): an action property. `AskedInv` follows each
  pending deletion and update to what the run read: a row to be deleted has a rule
  key no group must have, a row to be updated differs from its group. That the rows
  cannot become equal in between, but by a roll-back, is `HeldInv`: an application
  that may still be rolled back and was in the view stays in it, though its names may
  be cleared, so the rows that were read and the sets it is in agree about it.
* **Publication follows release** (`LotteryProofs`): who asks for a status has
  seen the one before it, and `past` only grows.
* **Ranks in order** (same module). `Ranked` is about a generation that is over;
  `RankInv` says of one that nothing overlapped what the table holds at each of its
  calls (`Stage`): nothing, then the general positions, then the ranks and totals
  of the questions done so far, and no row of anybody else. That the ranks of a
  question are 1..m without a gap, in the order of the general list, are the lemmas
  `OrderNumbers` (a one-to-one numbering within 1..n reaches every number: the
  pigeonhole principle of `FiniteSetTheorems`) and `RankOrder` (counting who comes
  before, among some, numbers them in the same order).
* **The gate of the cron jobs** (`AccountsProofs`). `OverlapsExplained` says who may be
  at work together; inductive is `GateInv` of `CronJob`, which adds that while a
  call not yet long is at work the row is recent, and whoever else is past the gate
  is known as `ungated`: its answer is older than the row.
* **Deleted means mailed** (same module): the invariant follows the account
  through the two jobs. For whoever is flagged a mail was sent or refused (`Tried`),
  so for whoever a call is about to flag, and for whoever the deleting job has on its
  list.
* **Deleted was idle** (same module): whoever is on the list of the deleting job was
  idle when it was read and has been so since, or is known as used (`ListedIdle`).
* **The second e-mail** (same module): `OwedInv`. Whoever was mailed and has no flag is
  held by the call that mailed him, or known as `unflagged`, as the write of his flag
  failed (`FlagOwed`); so nobody who still waits on the list of a call that met no
  other was mailed, but for those (`ListOwed`).
* **Dates of a listing** (`ListingCycleProofs`). `DatesSet` is about the row in the
  database; `DatesInv` adds that the rows which updates read, and from which they
  compute the dates of the one they write, are dated as well, however old; that part
  is in `TypeOK` too, and `Types` rests on it.
  `RowAssumption` only says that the sentinel is not a row.
* **Closing takes effect** (same module): `CloseInv` adds that only a closed listing
  owes anything, and that until a failure loses it somebody is about to set it:
  the closing job, an update past its write, or the promise nobody awaits.
* **The cached page** (same module): `PageInv` says the same of the page on its way to
  the proxy as of the one that is there, once no purge is ahead.
* **Questions** (same module): `QuestionMoves` needs that the move a request is about
  to write is allowed for what the request read (`RequestAllowed`); whatever
  overtook it is named in the property. `PublishedInUse` needs that a question not
  yet in use is before `activateMany`, now or when the update that published the
  listing goes on (`UseInv`).
* **Retention** (`RetentionProofs`). Each property has its invariant. `LatestInv`: the
  application saved last is newest, not cleared, and neither on the list of the
  job nor the one the job is at. `NewestInv`: two that are newest, or being
  saved as such, overlapped, or the later one saw the earlier and will take the
  mark from it. `ExpireInv`: once a listing is closed and its closing over, who is
  being saved has read it as closed, but for those known as `missed`. `DataInv`: a
  cleared application has no data in its rows, its snapshots, nor in an open
  form or a copy half made, but for those known as `kept`: data was in a request
  when it was cleared, or in rows that had been replaced. `GoneInv`: while the
  account is being deleted each of its applications is ahead of the removal or
  cleared (`ListInv`), and the user's id is in the row or in its history, whichever
  of the two removals came first (`TracedInv`).

Every invariant and every action property that a passing run checks is a theorem,
for all values of the constants. What stays with TLC is liveness (`MergeEnds`,
`DueIsProcessed`, `DueIsPublished`, `OverdueExpires`, `StaleIsDeleted`): it rests on
fairness, so on ENABLED, which the prover does not handle.

## 6. Plan

Done, in this order: `FlagRules`, `DuplicateGroups` and its proof; `FlaggedSets`,
its runs, types and `FlagInv`; `Lottery`, its runs, types and the order of
statuses; `CronJob` and `Accounts`; `Retention`; `ListingCycle` with questions and
cache; `MatchingGroups` and the refinement; and a proof of every safety property of
the runs: the merge, flagged sets and their reviews, ranks and statuses of a lottery,
the gate, warning and deletion of accounts, the cycle of a listing, retention.

To come: what makes the liveness properties true, as far as it is safety (a rank that
every step of a run, or of the merge, lowers); an abstract specification of the
duplicates process, in which a listing is processed at once, and of retention, in
which an application is cleared at once, with the refinements; the hazards that have no property yet.

## 7. Mutants

Every property has a mutant in its module: a definition, placed before the one it
varies, that makes a mistake the code could make (`lt` for `lte`, a forgotten
`deleted_at is null`, a status that is not reset, a recursion that stops early, a
forgotten null). Their names say what they get wrong, and their comments begin with
"Variant of". PROJECT.json says which property breaks. They are no part of any
specification.

## 8. Not modelled, and why

* E-mails (but the warning), activity log, snapshots of listings and users,
  exports, uploads, geocoding, translation: outside calls or copies that no modelled
  state depends on.
* Two duplicates runs at once: each adds a full set of pending deletions and writes
  to the state, which is out of reach of a run; the overlap of two calls of a job
  is modelled for the warning job.
* Tokens of a session, single-use codes and lockout counts: what remains is an
  overwritten column, of which no text of the code promises more than the last
  writer's value.
* Creation, copying and deletion of listings, the steps of the approval workflow
  before publication: no other request can meet them half done, or they differ in
  who is notified.
* Script runner and listing import: one-off migrations and a separate program.
* Permissions: a pure decision over a policy table by a library.
* Reference data (jurisdictions, unit types, feature flags, agencies, properties,
  map layers, AMI charts): single-row writes.
* `resetConfirmationAlert`, `resolvingUserId`, `resolvedTime`, `reviewStatus`: shown
  to people only; `reviewStatus` follows `markedAsDuplicate`.
* The strings of keys; an applicant whose own names are blank from the start has one
  of the keys of `KeySets`.
* Personal data that `removePII` never clears (section 4): no state of the model
  depends on it.
* Failures of `resolve` between its calls, the access checks of all handlers, and
  two requests at once that create, change or delete the same application (clearing
  may overlap them, in `FlaggedSets` and in `Retention`).
* Sites and infrastructure are other programs; of the proxy, the cached list is
  modelled, pages of single listings and the end of their 24 hours are not.

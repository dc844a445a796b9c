----------------------------- MODULE Retention -----------------------------
(***************************************************************************)
(* Personal data of applications: when it may go (expireAfter, isNewest),  *)
(* and how it goes (removePII): application.service.ts, with the closing   *)
(* of the listing (listing.service.ts) and the deletion of an account      *)
(* (user.service.ts).  One listing, and one account besides those of the   *)
(* staff.  One action for each database call that others can see.          *)
(***************************************************************************)
EXTENDS Naturals, FiniteSets

CONSTANTS
    App,        \* applications
    User,       \* the account
    Staff,      \* the member of the staff who enters paper applications
    None,
    Limit,      \* applications cleared in one job
    MaxEdits,   \* bound on edits
    MaxMoves,   \* bound on closings and openings of the listing
    MaxErrors   \* bound on failures

ASSUME OwnerAssumption == Cardinality({User, Staff, None}) = 3
ASSUME RetentionBounds == Limit \in Nat \ {0} /\ {MaxEdits, MaxMoves, MaxErrors} \subseteq Nat

VARIABLES
    account,     \* "none", "exists", "gone"
    listing,     \* "open", "closed"
    setting,     \* setExpireAfterValueOnApplications is still to come
    at,          \* where the request that creates an application is
    submission,  \* what that request knows
    app,         \* the rows of applications
    change,      \* the request that is changing an application
    removal,     \* the job, and the deletion of the account
    replaced,    \* which of the two know names, addresses and members that an update replaced
    edits, moves, errors,
    latest,      \* history: last application of the account to be saved
    raced,       \* history: applications whose saving overlapped another of the account
    missed,      \* history: read the listing as open, not saved when expireAfter was set
    lost,        \* history: expireAfter was not set after the last closing
    kept,        \* history: data was in a request, or in replaced rows, when it was cleared
    crossed,     \* history: given an owner when cleared, or while a removal was at it
    owed         \* history: applications that went with the account

counts == <<edits, moves, errors>>
requestVars == <<at, submission, change>>
historyVars == <<latest, raced, missed, lost, kept, crossed, owed>>
vars == <<account, listing, setting, app, requestVars, removal, replaced, counts,
          historyVars>>

Saved == {a \in App : at[a] \in {"fresh", "saved"}}

Blank == [owner |-> None, newest |-> FALSE, expire |-> "never", cleared |-> "no",
          hist |-> None, data |-> FALSE, snap |-> FALSE]
NoRequest == [by |-> None, closed |-> FALSE, seen |-> {}]
Unchanged == [kind |-> "none", form |-> FALSE, copy |-> FALSE]
Idle == [pc |-> "rest", list |-> {}, todo |-> {}, app |-> None, owner |-> None]

----------------------------------------------------------------------------
(* create *)

\* The listing is read, and the checks.  Closed listings take applications from
\* the staff only.
ReadListing(a, by) ==
    /\ at[a] = "new"
    /\ by = User => account = "exists"
    /\ listing = "closed" => by = Staff
    /\ at' = [at EXCEPT ![a] = "read"]
    /\ submission' = [submission EXCEPT ![a] = [by |-> by, closed |-> listing = "closed",
                                                seen |-> {}]]
    /\ UNCHANGED <<account, listing, setting, app, change, removal, replaced, counts,
                   historyVars>>

Newest == {b \in Saved : app[b].owner = User /\ app[b].newest}

Saving == {b \in App : at[b] = "begun" /\ submission[b].by = User}

\* The transaction: the first statement takes the newest applications it sees
\* (read committed) ...
BeginSave(a) ==
    /\ at[a] = "read"
    /\ at' = [at EXCEPT ![a] = "begun"]
    /\ submission' = [submission EXCEPT ![a].seen =
                         IF submission[a].by = User THEN Newest ELSE {}]
    /\ raced' = IF submission[a].by = User /\ Saving # {}
                THEN raced \cup {a} \cup Saving ELSE raced
    /\ UNCHANGED <<account, listing, setting, app, change, removal, replaced, counts,
                   latest, missed, lost, kept, crossed, owed>>

\* What createApplication writes; expireAfter counts from closedAt.
NewRow(a, expire) ==
    [Blank EXCEPT !.owner = submission[a].by, !.newest = submission[a].by = User,
                  !.expire = expire, !.data = TRUE]

\* Variant of CommitSave: expireAfter is left to the closing of the listing.
CommitSaveNeverExpiring(a) ==
    /\ at[a] = "begun"
    /\ submission[a].by = User => account = "exists"
    /\ app' = [b \in App |-> IF b = a THEN NewRow(a, "never")
                ELSE [app[b] EXCEPT !.newest = @ /\ b \notin submission[a].seen]]
    /\ at' = [at EXCEPT ![a] = "fresh"]
    /\ latest' = IF submission[a].by = User THEN a ELSE latest
    /\ UNCHANGED <<account, listing, setting, submission, change, removal, replaced,
                   counts, raced, missed, lost, kept, crossed, owed>>

\* Variant of CommitSave: the earlier applications keep isNewest.
CommitSaveOnly(a) ==
    /\ at[a] = "begun"
    /\ submission[a].by = User => account = "exists"
    /\ \E expire \in IF submission[a].closed THEN {"later", "past"} ELSE {"never"} :
          app' = [app EXCEPT ![a] = NewRow(a, expire)]
    /\ at' = [at EXCEPT ![a] = "fresh"]
    /\ latest' = IF submission[a].by = User THEN a ELSE latest
    /\ UNCHANGED <<account, listing, setting, submission, change, removal, replaced,
                   counts, raced, missed, lost, kept, crossed, owed>>

\* ... and the second inserts the new one.
CommitSave(a) ==
    /\ at[a] = "begun"
    /\ submission[a].by = User => account = "exists"
    /\ \E expire \in IF submission[a].closed THEN {"later", "past"} ELSE {"never"} :
          app' = [b \in App |-> IF b = a THEN NewRow(a, expire)
                   ELSE [app[b] EXCEPT !.newest = @ /\ b \notin submission[a].seen]]
    /\ at' = [at EXCEPT ![a] = "fresh"]
    /\ latest' = IF submission[a].by = User THEN a ELSE latest
    /\ UNCHANGED <<account, listing, setting, submission, change, removal, replaced,
                   counts, raced, missed, lost, kept, crossed, owed>>

\* The account is gone: nothing is written.
SaveFails(a) ==
    /\ at[a] = "begun" /\ submission[a].by = User /\ account # "exists"
    /\ at' = [at EXCEPT ![a] = "undone"]
    /\ submission' = [submission EXCEPT ![a] = NoRequest]
    /\ UNCHANGED <<account, listing, setting, app, change, removal, replaced, counts,
                   historyVars>>

EndCreate(a) ==
    /\ at[a] = "fresh"
    /\ at' = [at EXCEPT ![a] = "saved"]
    /\ submission' = [submission EXCEPT ![a] = NoRequest]
    /\ UNCHANGED <<account, listing, setting, app, change, removal, replaced, edits,
                   moves, errors, historyVars>>

\* A selection cannot be saved: the application is deleted again, and isNewest of
\* the earlier ones is not restored.
RollBackCreate(a) ==
    /\ at[a] = "fresh" /\ errors < MaxErrors
    /\ at' = [at EXCEPT ![a] = "undone"]
    /\ submission' = [submission EXCEPT ![a] = NoRequest]
    /\ app' = [app EXCEPT ![a] = [Blank EXCEPT !.snap = app[a].snap]]
    /\ latest' = IF latest = a THEN None ELSE latest
    /\ errors' = errors + 1
    /\ UNCHANGED <<account, listing, setting, change, removal, replaced, edits, moves,
                   raced, missed, lost, kept, crossed, owed>>

----------------------------------------------------------------------------
(* The listing *)

\* By update or by the closing job: expireAfter is set some calls later.
CloseListing ==
    /\ listing = "open" /\ moves < MaxMoves
    /\ listing' = "closed" /\ setting' = TRUE
    /\ moves' = moves + 1
    /\ UNCHANGED <<account, app, requestVars, removal, replaced, edits, errors,
                   historyVars>>

ReopenListing ==
    /\ listing = "closed" /\ moves < MaxMoves
    /\ listing' = "open"
    /\ moves' = moves + 1
    /\ UNCHANGED <<account, setting, app, requestVars, removal, replaced, edits,
                   errors, historyVars>>

SetExpireAfter ==
    /\ setting
    /\ setting' = FALSE
    /\ app' = [a \in App |-> IF a \in Saved THEN [app[a] EXCEPT !.expire = "later"] ELSE app[a]]
    /\ missed' = missed \cup {a \in App : at[a] \in {"read", "begun"} /\ ~submission[a].closed}
    /\ lost' = FALSE
    /\ UNCHANGED <<account, listing, requestVars, removal, replaced, counts, latest,
                   raced, kept, crossed, owed>>

\* processDuplicates throws, or the job is cut off after the status is written.
SetExpireAfterLost ==
    /\ setting /\ errors < MaxErrors
    /\ setting' = FALSE /\ lost' = TRUE
    /\ errors' = errors + 1
    /\ UNCHANGED <<account, listing, app, requestVars, removal, replaced, edits,
                   moves, latest, raced, missed, kept, crossed, owed>>

ExpireAfterPasses(a) ==
    /\ a \in Saved /\ app[a].expire = "later"
    /\ app' = [app EXCEPT ![a].expire = "past"]
    /\ UNCHANGED <<account, listing, setting, requestVars, removal, replaced, counts,
                   historyVars>>

----------------------------------------------------------------------------
(* Changes of one application: update by the staff, with what the form showed, *)
(* and connectUserWithExistingApplications.  Both copy the row first.          *)

OpenForm(a) ==
    /\ at[a] = "saved" /\ change[a].kind = "none" /\ edits < MaxEdits
    /\ change' = [change EXCEPT ![a] = [kind |-> "form", form |-> app[a].data, copy |-> FALSE]]
    /\ edits' = edits + 1
    /\ UNCHANGED <<account, listing, setting, at, submission, app, removal, replaced,
                   moves, errors, historyVars>>

\* Signing up: the applications with the same e-mail address and no owner.
CreateAccount ==
    /\ account = "none"
    /\ account' = "exists"
    /\ change' = [a \in App |-> IF a \in Saved /\ app[a].owner = None
                                   /\ change[a].kind = "none"
                                THEN [Unchanged EXCEPT !.kind = "connect"] ELSE change[a]]
    /\ UNCHANGED <<listing, setting, at, submission, app, removal, replaced, counts,
                   historyVars>>

\* createApplicationSnapshot: read the row, and insert the copy.
ReadForSnapshot(a) ==
    /\ change[a].kind \in {"form", "connect"}
    /\ change' = [change EXCEPT ![a].kind = IF @ = "form" THEN "formCopy" ELSE "connectCopy",
                                ![a].copy = app[a].data]
    /\ UNCHANGED <<account, listing, setting, at, submission, app, removal, replaced,
                   counts, historyVars>>

WriteSnapshot(a) ==
    /\ change[a].kind \in {"formCopy", "connectCopy"}
    /\ change' = [change EXCEPT ![a].kind = IF @ = "formCopy" THEN "formWrite"
                                            ELSE "connectWrite",
                                ![a].copy = FALSE]
    /\ app' = [app EXCEPT ![a].snap = @ \/ change[a].copy]
    /\ UNCHANGED <<account, listing, setting, at, submission, removal, replaced,
                   counts, historyVars>>

\* update writes what the form holds, cleared or not, to new rows for the applicant, the
\* contacts, the members and their addresses.
WriteForm(a) ==
    /\ change[a].kind = "formWrite"
    /\ change' = [change EXCEPT ![a] = Unchanged]
    /\ app' = [app EXCEPT ![a].data = change[a].form]
    /\ replaced' = replaced \cup {r \in DOMAIN removal : removal[r].app = a}
    /\ UNCHANGED <<account, listing, setting, at, submission, removal, counts,
                   historyVars>>

Connect(a) ==
    /\ change[a].kind = "connectWrite" /\ account = "exists" /\ a \in Saved
    /\ change' = [change EXCEPT ![a] = Unchanged]
    /\ app' = [app EXCEPT ![a].owner = User]
    /\ crossed' = IF app[a].cleared # "no" \/ \E r \in DOMAIN removal : removal[r].app = a
                  THEN crossed \cup {a} ELSE crossed
    /\ UNCHANGED <<account, listing, setting, at, submission, removal, replaced,
                   counts, latest, raced, missed, lost, kept, owed>>

\* Both fail when the process restarts, and the connecting when either row is gone.
ChangeFails(a) ==
    /\ \/ change[a].kind # "none" /\ errors < MaxErrors /\ errors' = errors + 1
       \/ /\ change[a].kind = "connectWrite" /\ (account # "exists" \/ a \notin Saved)
          /\ UNCHANGED errors
    /\ change' = [change EXCEPT ![a] = Unchanged]
    /\ UNCHANGED <<account, listing, setting, at, submission, app, removal, replaced,
                   edits, moves, historyVars>>

----------------------------------------------------------------------------
(* removePIICronJob and deleteUserAndRelatedInfo, which call removePII for *)
(* one application after the other.                                        *)

\* Variant of Due: isNewest is not asked for.
DueNewestToo == {a \in Saved : app[a].expire = "past" /\ app[a].cleared = "no"}

Due == {a \in Saved : app[a].expire = "past" /\ ~app[a].newest /\ app[a].cleared = "no"}

StartJob ==
    /\ removal["job"].pc = "rest" /\ Due # {}
    /\ \E list \in SUBSET Due :
          /\ Cardinality(list) <= Limit
          /\ Cardinality(list) = Limit \/ list = Due
          /\ removal' = [removal EXCEPT !["job"] = [Idle EXCEPT !.pc = "next", !.list = list,
                                                                !.todo = list]]
    /\ UNCHANGED <<account, listing, setting, app, requestVars, replaced, counts,
                   historyVars>>

\* With the applications of the account, or without.
StartDeletion ==
    /\ removal["account"].pc = "rest" /\ account = "exists"
    /\ \E list \in {{}, {a \in Saved : app[a].owner = User}} :
          removal' = [removal EXCEPT !["account"] = [Idle EXCEPT !.pc = "next", !.list = list,
                                                                 !.todo = list]]
    /\ UNCHANGED <<account, listing, setting, app, requestVars, replaced, counts,
                   historyVars>>

\* removePII: cleared applications are left alone.
FindUncleared(r, a) ==
    /\ removal[r].pc = "next" /\ a \in removal[r].todo
    /\ LET rest == removal[r].todo \ {a}
       IN  removal' = [removal EXCEPT ![r] =
              IF a \in Saved /\ app[a].cleared = "no"
              THEN [@ EXCEPT !.pc = "found", !.todo = rest, !.app = a, !.owner = app[a].owner]
              ELSE [@ EXCEPT !.todo = rest]]
    /\ UNCHANGED <<account, listing, setting, app, requestVars, replaced, counts,
                   historyVars>>

DropSnapshots(r) ==
    /\ removal[r].pc = "found"
    /\ removal' = [removal EXCEPT ![r].pc = "dropped"]
    /\ app' = [app EXCEPT ![removal[r].app].snap = FALSE]
    /\ UNCHANGED <<account, listing, setting, requestVars, replaced, counts,
                   historyVars>>

InRequest(a) == change[a].form \/ change[a].copy

\* Personal data of a outlives its clearing by r.
Remains(r, a) == InRequest(a) \/ (r \in replaced /\ app[a].data)

\* The rows are those found at the start: an update in between leaves its own alone.
Cleared(r, row) ==
    [row EXCEPT !.data = @ /\ r \in replaced, !.snap = FALSE, !.hist = removal[r].owner,
                !.cleared = IF @ = "no" THEN r ELSE @]

\* Variant of Clear: a row that is gone is written all the same.
ClearUnchecked(r) ==
    /\ removal[r].pc = "dropped"
    /\ LET a == removal[r].app
       IN /\ app' = [app EXCEPT ![a] = Cleared(r, @)]
          /\ kept' = IF Remains(r, a) THEN kept \cup {a} ELSE kept
    /\ replaced' = replaced \ {r}
    /\ removal' = [removal EXCEPT ![r] = [@ EXCEPT !.pc = "next", !.app = None, !.owner = None]]
    /\ UNCHANGED <<account, listing, setting, requestVars, counts, latest, raced,
                   missed, lost, crossed, owed>>

\* Variant of Clear: the snapshots are deleted once only.
ClearOnce(r) ==
    /\ removal[r].pc = "dropped"
    /\ LET a == removal[r].app
       IN /\ app' = [app EXCEPT ![a] = [Cleared(r, @) EXCEPT !.snap = app[a].snap]]
          /\ kept' = IF Remains(r, a) THEN kept \cup {a} ELSE kept
    /\ replaced' = replaced \ {r}
    /\ removal' = [removal EXCEPT ![r] = [@ EXCEPT !.pc = "next", !.app = None, !.owner = None]]
    /\ UNCHANGED <<account, listing, setting, requestVars, counts, latest, raced,
                   missed, lost, crossed, owed>>

\* The transaction: the fields, the row and the snapshots once more.
Clear(r) ==
    /\ removal[r].pc = "dropped" /\ removal[r].app \in Saved
    /\ LET a == removal[r].app
       IN /\ app' = [app EXCEPT ![a] = Cleared(r, @)]
          /\ kept' = IF Remains(r, a) THEN kept \cup {a} ELSE kept
    /\ replaced' = replaced \ {r}
    /\ removal' = [removal EXCEPT ![r] = [@ EXCEPT !.pc = "next", !.app = None, !.owner = None]]
    /\ UNCHANGED <<account, listing, setting, requestVars, counts, latest, raced,
                   missed, lost, crossed, owed>>

EndJob ==
    /\ removal["job"].pc = "next" /\ removal["job"].todo = {}
    /\ removal' = [removal EXCEPT !["job"] = Idle]
    /\ UNCHANGED <<account, listing, setting, app, requestVars, replaced, counts,
                   historyVars>>

\* Variant of DeleteAccount: the clearing is not waited for.
DeleteAccountEarly ==
    /\ removal["account"].pc = "next"
    /\ account' = "gone"
    /\ app' = [a \in App |-> IF app[a].owner = User THEN [app[a] EXCEPT !.owner = None]
                             ELSE app[a]]
    /\ owed' = removal["account"].list
    /\ removal' = [removal EXCEPT !["account"] = Idle]
    /\ UNCHANGED <<listing, setting, requestVars, replaced, counts, latest, raced,
                   missed, lost, kept, crossed>>

\* The foreign key of the applications is set to null.
DeleteAccount ==
    /\ removal["account"].pc = "next" /\ removal["account"].todo = {}
    /\ account' = "gone"
    /\ app' = [a \in App |-> IF app[a].owner = User THEN [app[a] EXCEPT !.owner = None]
                             ELSE app[a]]
    /\ owed' = removal["account"].list
    /\ removal' = [removal EXCEPT !["account"] = Idle]
    /\ UNCHANGED <<listing, setting, requestVars, replaced, counts, latest, raced,
                   missed, lost, kept, crossed>>

\* A database error (also that the row was deleted, or a member that an update
\* replaced), or the process restarts.
RemovalFails(r) ==
    /\ removal[r].pc # "rest"
    /\ \/ errors < MaxErrors /\ errors' = errors + 1
       \/ /\ removal[r].pc = "dropped"
          /\ removal[r].app \notin Saved \/ r \in replaced
          /\ UNCHANGED errors
    /\ removal' = [removal EXCEPT ![r] = Idle]
    /\ replaced' = replaced \ {r}
    /\ UNCHANGED <<account, listing, setting, app, requestVars, edits, moves,
                   historyVars>>

----------------------------------------------------------------------------
Init ==
    /\ account \in {"none", "exists"}
    /\ listing = "open" /\ setting = FALSE
    /\ at = [a \in App |-> "new"]
    /\ submission = [a \in App |-> NoRequest]
    /\ app = [a \in App |-> Blank]
    /\ change = [a \in App |-> Unchanged]
    /\ removal = [r \in {"job", "account"} |-> Idle] /\ replaced = {}
    /\ edits = 0 /\ moves = 0 /\ errors = 0
    /\ latest = None /\ lost = FALSE
    /\ raced = {} /\ missed = {} /\ kept = {} /\ crossed = {} /\ owed = {}

Removers == {"job", "account"}

RemovalStep(r) ==
    \/ \E a \in App : FindUncleared(r, a)
    \/ DropSnapshots(r) \/ Clear(r)

Next ==
    \/ \E a \in App :
          \/ \E by \in {User, Staff, None} : ReadListing(a, by)
          \/ BeginSave(a) \/ CommitSave(a) \/ SaveFails(a)
          \/ EndCreate(a) \/ RollBackCreate(a)
          \/ ExpireAfterPasses(a)
          \/ OpenForm(a) \/ ReadForSnapshot(a) \/ WriteSnapshot(a) \/ WriteForm(a)
          \/ Connect(a) \/ ChangeFails(a)
    \/ CloseListing \/ ReopenListing \/ SetExpireAfter \/ SetExpireAfterLost
    \/ CreateAccount \/ StartJob \/ StartDeletion \/ EndJob \/ DeleteAccount
    \/ \E r \in Removers : RemovalStep(r) \/ RemovalFails(r)

Spec == Init /\ [][Next]_vars

----------------------------------------------------------------------------
\* Every variable has its type; what was rolled back has no row.
TypeOK ==
    /\ account \in {"none", "exists", "gone"}
    /\ listing \in {"open", "closed"} /\ setting \in BOOLEAN /\ lost \in BOOLEAN
    /\ at \in [App -> {"new", "read", "begun", "fresh", "saved", "undone"}]
    /\ submission \in [App -> [by : {User, Staff, None}, closed : BOOLEAN, seen : SUBSET App]]
    /\ app \in [App -> [owner : {User, Staff, None}, newest : BOOLEAN,
                        expire : {"never", "later", "past"},
                        cleared : {"no"} \cup Removers, hist : {User, Staff, None},
                        data : BOOLEAN, snap : BOOLEAN]]
    /\ change \in [App -> [kind : {"none", "form", "formCopy", "formWrite", "connect",
                                   "connectCopy", "connectWrite"},
                           form : BOOLEAN, copy : BOOLEAN]]
    /\ removal \in [Removers -> [pc : {"rest", "next", "found", "dropped"},
                                 list : SUBSET App, todo : SUBSET App,
                                 app : App \cup {None}, owner : {User, Staff, None}]]
    /\ replaced \subseteq Removers
    /\ edits \in 0..MaxEdits /\ moves \in 0..MaxMoves /\ errors \in 0..MaxErrors
    /\ latest \in App \cup {None}
    /\ \A a \in App \ Saved : [app[a] EXCEPT !.snap = FALSE] = Blank
    /\ {raced, missed, kept, crossed, owed} \subseteq SUBSET App

(* "Only delete applications that ... is not the most recent application   *)
(* for that user" (removePIICronJob): the last application of the account  *)
(* to be saved is not cleared by the job, whatever overlapped.  Where the  *)
(* last one was rolled back nothing is promised: the one before has lost   *)
(* isNewest for good.                                                      *)
NewestKept == latest # None => app[latest].cleared # "job"

(* An account has two newest applications only when they were saved at the *)
(* same time (create).                                                     *)
OneNewest == \A a, b \in Newest : a # b => {a, b} \subseteq raced

(* A closed listing whose closing is over has no application without       *)
(* expireAfter, late ones included, except those that were being saved     *)
(* (create, setExpireAfterValueOnApplications).                            *)
ClosedExpires ==
    listing = "closed" /\ ~setting /\ ~lost =>
        \A a \in Saved : app[a].expire # "never" \/ a \in missed

(* Of an application that was cleared neither the rows that removePII      *)
(* clears nor a row of application_snapshot remain, unless a request held  *)
(* the data at the time, or an update had replaced the rows since removePII*)
(* looked them up: two deletions of snapshots, beside requests that make   *)
(* them.                                                                   *)
ClearedHasNoData ==
    \A a \in Saved \ kept : app[a].cleared # "no" => ~app[a].data /\ ~app[a].snap

(* What went with an account was cleared and tells whose it was, also when *)
(* the job was at the same application (deleteUserAndRelatedInfo).         *)
GoneIsCleared ==
    \A a \in owed \cap Saved :
        app[a].cleared # "no" /\ (app[a].hist = User \/ a \in crossed)
=============================================================================

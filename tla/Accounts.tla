------------------------------ MODULE Accounts ------------------------------
(***************************************************************************)
(* Accounts of applicants that nobody uses: signing in (mfa.strategy.ts,   *)
(* single-use-code.strategy.ts), the job that warns by e-mail and the job  *)
(* that deletes (user.service.ts), in several instances of the API.  The   *)
(* warning job goes through the gate of CronJob.  The deleting job never   *)
(* marks a row, so the gate always lets it through.                        *)
(*                                                                         *)
(* Times are not numbers: idle[u] says how lastLoginAt and                 *)
(* passwordUpdatedAt, the later of the two, compare with the dates of the  *)
(* jobs.  What deleting an account does to its applications is the subject *)
(* of Retention.                                                           *)
(***************************************************************************)
EXTENDS Naturals, FiniteSets

CONSTANTS
    User,         \* accounts without a role
    Instance,     \* instances of the API
    None,
    Limit,        \* users warned in one job
    MaxSignIns,   \* bound on attempts to sign in
    MaxErrors     \* bound on refused mails, failed calls and restarts

ASSUME NoneAssumption == None \notin User
ASSUME LimitAssumption == Limit \in Nat \ {0}
ASSUME BoundAssumption == {MaxSignIns, MaxErrors} \subseteq Nat

VARIABLES
    gone,      \* the account: "no", or deleted by the "job" or on "request"
    idle,      \* signed in recently, before the warning date, before the deletion date
    warned,    \* wasWarnedOfDeletion
    row, call, ungated, long, met,   \* the warning job: see CronJob
    warning,   \* its progress, by instance
    deleting,  \* the deleting job, by instance
    mail,      \* history: an e-mail was sent never, or before or since the flag was reset
    refused,   \* history: users whose e-mail the mail service did not take
    told,      \* history: users sent an e-mail since they last signed in with the flag set
    unflagged, \* history: users whose e-mail was not followed by the flag
    signIns, errors   \* counters for the bounds

Cron == INSTANCE CronJob

cronVars == <<row, call, ungated, long, met>>
userVars == <<gone, idle, warned>>
historyVars == <<mail, refused, told, unflagged>>
vars == <<userVars, cronVars, warning, deleting, historyVars, signIns, errors>>

Rest == [pc |-> "rest", todo |-> {}, user |-> None]

\* used: history: users whose account was used since they were put on the list.
NotDeleting == [todo |-> {}, used |-> {}]

Exists(u) == gone[u] = "no"

----------------------------------------------------------------------------
(* Signing in.  What each outcome writes.  Failures are not counted: any   *)
(* may be the first, after which lastLoginAt is set.                       *)

Attempt(u) == Exists(u) /\ signIns < MaxSignIns /\ signIns' = signIns + 1

SetsLastLogin(u) ==
    /\ idle' = [idle EXCEPT ![u] = "recent"]
    /\ deleting' = [i \in Instance |->
           [deleting[i] EXCEPT !.used = @ \cup ({u} \cap deleting[i].todo)]]

ResetsWarning(u) ==
    /\ warned' = [warned EXCEPT ![u] = FALSE]
    /\ mail' = [mail EXCEPT ![u] = IF @ = "never" THEN @ ELSE "before"]

\* updateStoredUser after a right password or code.
SignIn(u) ==
    /\ Attempt(u)
    /\ SetsLastLogin(u)
    /\ told' = IF warned[u] THEN told \ {u} ELSE told
    /\ UNCHANGED <<gone, warned, cronVars, warning, mail, refused, unflagged, errors>>

\* updateStoredUser after a wrong or outdated code.
WrongCode(u) ==
    /\ Attempt(u)
    /\ SetsLastLogin(u)
    /\ UNCHANGED <<gone, warned, cronVars, warning, historyVars, errors>>

\* updateFailedLoginCount(0): the code is missing.
CodeMissing(u) ==
    /\ Attempt(u)
    /\ ResetsWarning(u)
    /\ UNCHANGED <<gone, idle, cronVars, warning, deleting, refused, told, unflagged,
                   errors>>

\* updateFailedLoginCount: a wrong password.
WrongPassword(u) ==
    /\ Attempt(u)
    /\ ResetsWarning(u)
    /\ SetsLastLogin(u) \/ UNCHANGED <<idle, deleting>>
    /\ UNCHANGED <<gone, cronVars, warning, refused, told, unflagged, errors>>

DeleteOnRequest(u) ==
    /\ Exists(u)
    /\ gone' = [gone EXCEPT ![u] = "request"]
    /\ UNCHANGED <<idle, warned, cronVars, warning, deleting, historyVars, signIns,
                   errors>>

TimePasses(u) ==
    /\ Exists(u) /\ idle[u] # "stale"
    /\ idle' = [idle EXCEPT ![u] = IF @ = "recent" THEN "quiet" ELSE "stale"]
    /\ UNCHANGED <<gone, warned, cronVars, warning, deleting, historyVars, signIns,
                   errors>>

----------------------------------------------------------------------------
(* warnUserOfDeletionCronJob *)

OnlyGate == UNCHANGED <<userVars, warning, deleting, historyVars, signIns, errors>>

AskGate(i) == Cron!Fire(i) /\ OnlyGate

CallByHand(i) == Cron!FireByHand(i) /\ OnlyGate

FindRow(i) == (Cron!FindRow(i) \/ Cron!CreateFails(i)) /\ OnlyGate

StartWarning(i) ==
    /\ Cron!MarkRow(i)
    /\ warning' = [warning EXCEPT ![i].pc = "read"]
    /\ UNCHANGED <<userVars, deleting, historyVars, signIns, errors>>

FiveMinutesPass == Cron!FiveMinutesPass /\ OnlyGate

\* Variants of Unwarned: the flag is not asked for; only accounts between the dates.
Inactive == {u \in User : Exists(u) /\ idle[u] # "recent"}

UnwarnedQuiet == {u \in User : Exists(u) /\ idle[u] = "quiet" /\ ~warned[u]}

Unwarned == {u \in User : Exists(u) /\ idle[u] # "recent" /\ ~warned[u]}

ReadUsers(i) ==
    /\ warning[i].pc = "read"
    /\ \E todo \in SUBSET Unwarned :
          /\ Cardinality(todo) <= Limit
          /\ Cardinality(todo) = Limit \/ todo = Unwarned
          /\ warning' = [warning EXCEPT ![i].pc = "next", ![i].todo = todo]
    /\ UNCHANGED <<userVars, cronVars, deleting, historyVars, signIns, errors>>

\* sendSingleSES catches what the mail service throws, logs it and returns it: to
\* the job a refused e-mail is one that was sent.
SendMail(i, u) ==
    /\ warning[i].pc = "next" /\ u \in warning[i].todo
    /\ warning' = [warning EXCEPT ![i].pc = "flag", ![i].user = u]
    /\ \/ /\ mail' = [mail EXCEPT ![u] = "since"]
          /\ told' = told \cup {u}
          /\ UNCHANGED <<refused, errors>>
       \/ /\ errors < MaxErrors
          /\ errors' = errors + 1
          /\ refused' = refused \cup {u}
          /\ UNCHANGED <<mail, told>>
    /\ UNCHANGED <<userVars, cronVars, deleting, unflagged, signIns>>

Skip(i, u) ==
    warning' = [warning EXCEPT ![i] = [pc |-> "next", todo |-> @.todo \ {u}, user |-> None]]

\* Writing to an account that is gone is an error, and caught.
SetFlag(i) ==
    /\ warning[i].pc = "flag"
    /\ LET u == warning[i].user
       IN /\ warned' = [warned EXCEPT ![u] = @ \/ Exists(u)]
          /\ unflagged' = unflagged \ {u}
          /\ Skip(i, u)
    /\ UNCHANGED <<gone, idle, cronVars, deleting, mail, refused, told, signIns, errors>>

\* Variant of MailFails: the flag is set although no e-mail was tried.
MailFailsFlagged(i, u) ==
    /\ errors < MaxErrors
    /\ warning[i].pc = "next" /\ u \in warning[i].todo
    /\ warned' = [warned EXCEPT ![u] = TRUE]
    /\ Skip(i, u)
    /\ errors' = errors + 1
    /\ UNCHANGED <<gone, idle, cronVars, deleting, historyVars, signIns>>

\* Looking up the jurisdiction or the translations of the e-mail fails, and no e-mail
\* is tried; or the snapshot or the flag cannot be written after it.  Caught, and on
\* to the next user.
MailFails(i, u) ==
    /\ errors < MaxErrors
    /\ \/ warning[i].pc = "next" /\ u \in warning[i].todo /\ UNCHANGED unflagged
       \/ warning[i].pc = "flag" /\ u = warning[i].user /\ unflagged' = unflagged \cup {u}
    /\ Skip(i, u)
    /\ errors' = errors + 1
    /\ UNCHANGED <<userVars, cronVars, deleting, mail, refused, told, signIns>>

\* Variant of EndWarning: the call goes on with the same list.
EndWarningKeeps(i) ==
    /\ warning[i].pc = "next" /\ warning[i].todo = {}
    /\ Cron!Return(i)
    /\ UNCHANGED <<userVars, warning, deleting, historyVars, signIns, errors>>

EndWarning(i) ==
    /\ warning[i].pc = "next" /\ warning[i].todo = {}
    /\ Cron!Return(i)
    /\ warning' = [warning EXCEPT ![i] = Rest]
    /\ UNCHANGED <<userVars, deleting, historyVars, signIns, errors>>

----------------------------------------------------------------------------
(* deleteAfterInactivity *)

\* Variant of ToDelete: the date of the warning instead of the deletion.
ToDeleteInactive == {u \in User : Exists(u) /\ idle[u] # "recent" /\ warned[u]}

\* Users not warned are read, and only logged.
ToDelete == {u \in User : Exists(u) /\ idle[u] = "stale" /\ warned[u]}

ListUsers(i) ==
    /\ deleting[i].todo = {} /\ ToDelete # {}
    /\ deleting' = [deleting EXCEPT ![i].todo = ToDelete]
    /\ UNCHANGED <<userVars, cronVars, warning, historyVars, signIns, errors>>

\* deleteUserAndRelatedInfo.  Deleting an account that is gone is an error, and
\* ends the job.
RemoveAccount(i, u) ==
    /\ u \in deleting[i].todo
    /\ \/ /\ Exists(u)
          /\ gone' = [gone EXCEPT ![u] = "job"]
          /\ deleting' = [deleting EXCEPT ![i] = [todo |-> @.todo \ {u}, used |-> @.used \ {u}]]
       \/ /\ ~Exists(u)
          /\ deleting' = [deleting EXCEPT ![i] = NotDeleting]
          /\ UNCHANGED gone
    /\ UNCHANGED <<idle, warned, cronVars, warning, historyVars, signIns, errors>>

\* A database error, or the process restarts: both jobs of the instance are lost.
Restart(i) ==
    /\ errors < MaxErrors
    /\ Cron!Return(i) \/ (deleting[i] # NotDeleting /\ call[i] = "idle" /\ UNCHANGED cronVars)
    /\ unflagged' = unflagged \cup ({warning[i].user} \ {None})
    /\ warning' = [warning EXCEPT ![i] = Rest]
    /\ deleting' = [deleting EXCEPT ![i] = NotDeleting]
    /\ errors' = errors + 1
    /\ UNCHANGED <<userVars, mail, refused, told, signIns>>

----------------------------------------------------------------------------
Init ==
    /\ gone = [u \in User |-> "no"]
    /\ idle \in [User -> {"recent", "quiet", "stale"}]
    /\ warned = [u \in User |-> FALSE]
    /\ Cron!Init
    /\ warning = [i \in Instance |-> Rest]
    /\ deleting = [i \in Instance |-> NotDeleting]
    /\ mail = [u \in User |-> "never"]
    /\ refused = {} /\ told = {} /\ unflagged = {}
    /\ signIns = 0 /\ errors = 0

WarningStep(i) ==
    \/ ReadUsers(i)
    \/ \E u \in User : SendMail(i, u)
    \/ SetFlag(i) \/ EndWarning(i)

DeletingStep(i) == \E u \in User : RemoveAccount(i, u)

UserStep(u) ==
    \/ SignIn(u) \/ WrongCode(u) \/ CodeMissing(u) \/ WrongPassword(u)
    \/ DeleteOnRequest(u) \/ TimePasses(u)

Next ==
    \/ \E u \in User : UserStep(u)
    \/ \E i \in Instance :
          \/ AskGate(i) \/ CallByHand(i) \/ FindRow(i) \/ StartWarning(i) \/ WarningStep(i)
          \/ ListUsers(i) \/ DeletingStep(i) \/ Restart(i)
          \/ \E u \in User : MailFails(i, u)
    \/ FiveMinutesPass

Spec == Init /\ [][Next]_vars

\* The timers fire for ever, time passes, and a job that began goes on.
FairSpec ==
    /\ Spec
    /\ WF_vars(FiveMinutesPass)
    /\ \A i \in Instance :
          /\ SF_vars(AskGate(i))
          /\ WF_vars(FindRow(i)) /\ WF_vars(StartWarning(i)) /\ WF_vars(WarningStep(i))
          /\ WF_vars(ListUsers(i)) /\ WF_vars(DeletingStep(i))

----------------------------------------------------------------------------
\* Every variable has its type; a call has a list while it is at work.
TypeOK ==
    /\ gone \in [User -> {"no", "job", "request"}]
    /\ idle \in [User -> {"recent", "quiet", "stale"}]
    /\ warned \in [User -> BOOLEAN]
    /\ Cron!TypeOK
    /\ warning \in [Instance -> [pc : {"rest", "read", "next", "flag"},
                                 todo : SUBSET User, user : User \cup {None}]]
    /\ deleting \in [Instance -> [todo : SUBSET User, used : SUBSET User]]
    /\ \A i \in Instance : (warning[i] # Rest) = (call[i] = "working")
    /\ mail \in [User -> {"never", "before", "since"}]
    /\ {refused, told, unflagged} \subseteq SUBSET User
    /\ signIns \in 0..MaxSignIns /\ errors \in 0..MaxErrors

(* Calls of the warning job overlap only where reading and then writing    *)
(* its row lets them (startCronJob).                                       *)
OverlapsExplained == Cron!NoOverlap

\* The job deletes u in this step; used: the account was used since it was listed.
Deletes(u) == gone[u] = "no" /\ gone'[u] = "job"

Used(u) == \E i \in Instance : u \in deleting[i].used \ deleting'[i].used

(* The job deletes no account whose owner was never sent the e-mail        *)
(* (deleteAfterInactivity, warnUserOfDeletionCronJob), whatever else       *)
(* fails, except one whose e-mail the mail service refused: that error     *)
(* never reaches the job (sendSingleSES).                                  *)
DeletedWasMailed ==
    \A u \in User : gone[u] = "job" => mail[u] # "never" \/ u \in refused

(* The job deletes no account used since the deletion date, except one     *)
(* used after the list was read (deleteAfterInactivity).                   *)
DeletedWasIdle == [][\A u \in User : Deletes(u) => idle[u] = "stale" \/ Used(u)]_vars

(* Nobody gets a second e-mail for one warning, unless two calls of the    *)
(* job worked at once or the write after the first e-mail failed           *)
(* (warnUserOfDeletionCronJob).                                            *)
SecondMailExplained ==
    [][\A u \in User, i \in Instance :
          /\ warning[i].user = None /\ warning'[i].user = u
          /\ mail[u] = "since"
          => u \in unflagged \/ i \in met]_vars

(* An account idle beyond the deletion date is deleted, or used again: the *)
(* warning, the flag and both jobs see to it (user.service.ts).            *)
StaleIsDeleted ==
    \A u \in User : idle[u] = "stale" ~> ~Exists(u) \/ idle[u] # "stale"

(* What the comment in updateFailedLoginCount says: signing in resets the  *)
(* warning, so that whoever is deleted was warned after signing in last.   *)
WarnedSinceLogin == [][\A u \in User : Deletes(u) => u \in told \/ Used(u)]_vars
=============================================================================

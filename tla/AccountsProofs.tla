---------------------------- MODULE AccountsProofs ----------------------------
(***************************************************************************)
(* Type correctness of Accounts, the gate of its warning job, and that     *)
(* nobody is deleted for whom no e-mail was tried: for any accounts,       *)
(* instances and bounds.                                                   *)
(***************************************************************************)
EXTENDS Accounts, TLAPS

----------------------------------------------------------------------------
(* The gate: one lemma for each step of CronJob. *)

\* What the gate knows holds of the empty table (cron-job.service.ts).
LEMMA GateInit == Init => Cron!GateInv
BY DEF Init, Cron!Init, Cron!GateInv, Cron!TypeOK, Cron!NoOverlap, Cron!WorkingCalls,
       Cron!Gated

\* A call that is let through finds no other at work that is neither long nor ungated.
LEMMA GateFire ==
    ASSUME Cron!GateInv, NEW i \in Instance, Cron!Fire(i)
    PROVE  Cron!GateInv'
BY DEF Cron!Fire, Cron!GateInv, Cron!TypeOK, Cron!NoOverlap, Cron!WorkingCalls, Cron!Gated

\* A call by hand is ungated from its start.
LEMMA GateFireByHand ==
    ASSUME Cron!GateInv, NEW i \in Instance, Cron!FireByHand(i)
    PROVE  Cron!GateInv'
BY DEF Cron!FireByHand, Cron!GateInv, Cron!TypeOK, Cron!NoOverlap, Cron!WorkingCalls,
       Cron!Gated

\* Finding the row, or failing to create it, brings nobody to work.
LEMMA GateFindRow ==
    ASSUME Cron!GateInv, NEW i \in Instance, Cron!FindRow(i) \/ Cron!CreateFails(i)
    PROVE  Cron!GateInv'
<1>1. CASE Cron!FindRow(i)
  BY <1>1 DEF Cron!FindRow, Cron!GateInv, Cron!TypeOK, Cron!NoOverlap, Cron!WorkingCalls,
              Cron!Gated
<1>2. CASE Cron!CreateFails(i)
  BY <1>2 DEF Cron!CreateFails, Cron!Ends, Cron!GateInv, Cron!TypeOK, Cron!NoOverlap,
              Cron!WorkingCalls, Cron!Gated
<1> QED
  BY <1>1, <1>2

\* Marking the row outdates the answers that other calls got from the gate.
LEMMA GateMarkRow ==
    ASSUME Cron!GateInv, NEW i \in Instance, Cron!MarkRow(i)
    PROVE  Cron!GateInv'
<1>1. Cron!TypeOK'
  BY DEF Cron!MarkRow, Cron!GateInv, Cron!TypeOK, Cron!WorkingCalls, Cron!Gated
<1>2. Cron!NoOverlap'
  BY DEF Cron!MarkRow, Cron!GateInv, Cron!TypeOK, Cron!NoOverlap, Cron!WorkingCalls,
         Cron!Gated
<1>3. \A j \in Cron!WorkingCalls' \ long' :
          /\ row' = "recent"
          /\ \A k \in Instance \ {j} : call'[k] \in Cron!Gated => k \in ungated'
  BY DEF Cron!MarkRow, Cron!GateInv, Cron!TypeOK, Cron!WorkingCalls, Cron!Gated
<1> QED
  BY <1>1, <1>2, <1>3 DEF Cron!GateInv, Cron!WorkingCalls, Cron!Gated

\* A call that is over overlaps with nobody.
LEMMA GateReturn ==
    ASSUME Cron!GateInv, NEW i \in Instance, Cron!Return(i)
    PROVE  Cron!GateInv'
BY DEF Cron!Return, Cron!Ends, Cron!GateInv, Cron!TypeOK, Cron!NoOverlap,
       Cron!WorkingCalls, Cron!Gated

\* When the row is old again, whoever is at work is long.
LEMMA GateFiveMinutesPass ==
    ASSUME Cron!GateInv, Cron!FiveMinutesPass
    PROVE  Cron!GateInv'
BY DEF Cron!FiveMinutesPass, Cron!GateInv, Cron!TypeOK, Cron!NoOverlap,
       Cron!WorkingCalls, Cron!Gated

\* Nothing else touches what the gate is about.
LEMMA GateUnchanged ==
    ASSUME Cron!GateInv, UNCHANGED cronVars
    PROVE  Cron!GateInv'
BY DEF cronVars, Cron!GateInv, Cron!TypeOK, Cron!NoOverlap, Cron!WorkingCalls, Cron!Gated

\* Every step of Accounts is a step of the gate or leaves it alone.
LEMMA GateNext ==
    ASSUME Cron!GateInv, [Next]_vars
    PROVE  Cron!GateInv'
<1>1. ASSUME NEW u \in User, UserStep(u)
      PROVE  UNCHANGED cronVars
  BY <1>1 DEF UserStep, SignIn, WrongCode, CodeMissing, WrongPassword, DeleteOnRequest,
              TimePasses
<1>2. ASSUME NEW i \in Instance, AskGate(i)
      PROVE  Cron!GateInv'
  BY <1>2, GateFire DEF AskGate
<1>3. ASSUME NEW i \in Instance, CallByHand(i)
      PROVE  Cron!GateInv'
  BY <1>3, GateFireByHand DEF CallByHand
<1>4. ASSUME NEW i \in Instance, FindRow(i)
      PROVE  Cron!GateInv'
  BY <1>4, GateFindRow DEF FindRow
<1>5. ASSUME NEW i \in Instance, StartWarning(i)
      PROVE  Cron!GateInv'
  BY <1>5, GateMarkRow DEF StartWarning
<1>6. ASSUME NEW i \in Instance, WarningStep(i)
      PROVE  Cron!GateInv'
  <2>1. CASE EndWarning(i)
    BY <2>1, GateReturn DEF EndWarning
  <2>2. CASE ReadUsers(i) \/ SetFlag(i) \/ \E u \in User : SendMail(i, u)
    BY <2>2, GateUnchanged DEF ReadUsers, SetFlag, SendMail
  <2> QED
    BY <1>6, <2>1, <2>2 DEF WarningStep
<1>7. ASSUME NEW i \in Instance, ListUsers(i) \/ DeletingStep(i)
                                   \/ \E u \in User : MailFails(i, u)
      PROVE  UNCHANGED cronVars
  BY <1>7 DEF ListUsers, DeletingStep, RemoveAccount, MailFails
<1>8. ASSUME NEW i \in Instance, Restart(i)
      PROVE  Cron!GateInv'
  BY <1>8, GateReturn, GateUnchanged DEF Restart
<1>9. CASE FiveMinutesPass
  BY <1>9, GateFiveMinutesPass DEF FiveMinutesPass
<1>10. CASE UNCHANGED vars
  BY <1>10, GateUnchanged DEF vars
<1> QED
  BY <1>1, <1>2, <1>3, <1>4, <1>5, <1>6, <1>7, <1>8, <1>9, <1>10, GateUnchanged DEF Next

\* Calls of the warning job overlap only where reading and then writing its row
\* lets them (startCronJob, markCronJobAsStarted).
THEOREM GateHolds == Spec => []OverlapsExplained
<1>1. Init => Cron!GateInv
  BY GateInit
<1>2. Cron!GateInv /\ [Next]_vars => Cron!GateInv'
  BY GateNext
<1>3. Cron!GateInv => OverlapsExplained
  BY DEF Cron!GateInv, OverlapsExplained
<1> QED
  BY <1>1, <1>2, <1>3, PTL DEF Spec

----------------------------------------------------------------------------
(* The rows and the progress of the jobs have their types; a call has a    *)
(* list while it is at work.                                               *)

UserTypes ==
    /\ gone \in [User -> {"no", "job", "request"}]
    /\ idle \in [User -> {"recent", "quiet", "stale"}]
    /\ warned \in [User -> BOOLEAN]

JobTypes ==
    /\ warning \in [Instance -> [pc : {"rest", "read", "next", "flag"},
                                 todo : SUBSET User, user : User \cup {None}]]
    /\ deleting \in [Instance -> [todo : SUBSET User, used : SUBSET User]]

CallTypes == \A i \in Instance : (warning[i] # Rest) = (call[i] = "working")

HistoryTypes ==
    /\ mail \in [User -> {"never", "before", "since"}]
    /\ {refused, told, unflagged} \subseteq SUBSET User

CountTypes == signIns \in 0..MaxSignIns /\ errors \in 0..MaxErrors

\* TypeOK, by its parts.
LEMMA Parts ==
    TypeOK <=> UserTypes /\ Cron!TypeOK /\ JobTypes /\ CallTypes /\ HistoryTypes /\ CountTypes
BY DEF TypeOK, UserTypes, JobTypes, CallTypes, HistoryTypes, CountTypes

\* The first states have their types.
LEMMA TypeInit == Init => TypeOK
<1> SUFFICES ASSUME Init PROVE TypeOK
  OBVIOUS
<1>1. Cron!TypeOK
  BY GateInit DEF Cron!GateInv
<1>2. UserTypes /\ JobTypes /\ HistoryTypes
  BY DEF Init, UserTypes, JobTypes, HistoryTypes, Rest, NotDeleting
<1>3. CallTypes
  BY DEF Init, Cron!Init, CallTypes, Rest
<1>4. CountTypes
  BY BoundAssumption DEF Init, CountTypes
<1> QED
  BY <1>1, <1>2, <1>3, <1>4, Parts

\* Attempts to sign in, deletions on request and time.
LEMMA TypeUser ==
    ASSUME TypeOK, NEW u \in User, UserStep(u)
    PROVE  UserTypes' /\ JobTypes' /\ CallTypes' /\ HistoryTypes' /\ CountTypes'
<1> USE Parts
<1>1. UNCHANGED <<warning, call, errors>>
  BY DEF UserStep, SignIn, WrongCode, CodeMissing, WrongPassword, DeleteOnRequest,
         TimePasses, cronVars
<1>2. CallTypes'
  BY <1>1 DEF CallTypes
<1>3. CountTypes'
  BY <1>1, BoundAssumption DEF UserStep, SignIn, WrongCode, CodeMissing, WrongPassword,
         DeleteOnRequest, TimePasses, CountTypes, Attempt
<1>4. ASSUME SetsLastLogin(u)
      PROVE  idle' \in [User -> {"recent", "quiet", "stale"}] /\ JobTypes'
  BY <1>1, <1>4 DEF SetsLastLogin, UserTypes, JobTypes
<1>5. ASSUME ResetsWarning(u)
      PROVE  /\ warned' \in [User -> BOOLEAN]
             /\ mail' \in [User -> {"never", "before", "since"}]
  BY <1>5 DEF ResetsWarning, UserTypes, HistoryTypes
<1>6. UserTypes' /\ JobTypes' /\ HistoryTypes'
  <2>1. CASE SignIn(u)
    BY <2>1, <1>4 DEF SignIn, UserTypes, HistoryTypes
  <2>2. CASE WrongCode(u)
    BY <2>2, <1>4 DEF WrongCode, UserTypes, HistoryTypes, historyVars
  <2>3. CASE CodeMissing(u)
    BY <2>3, <1>5 DEF CodeMissing, UserTypes, JobTypes, HistoryTypes
  <2>4. CASE WrongPassword(u)
    BY <2>4, <1>4, <1>5 DEF WrongPassword, UserTypes, JobTypes, HistoryTypes
  <2>5. CASE DeleteOnRequest(u)
    BY <2>5 DEF DeleteOnRequest, UserTypes, JobTypes, HistoryTypes, historyVars
  <2>6. CASE TimePasses(u)
    BY <2>6 DEF TimePasses, UserTypes, JobTypes, HistoryTypes, historyVars
  <2> QED
    BY <2>1, <2>2, <2>3, <2>4, <2>5, <2>6 DEF UserStep
<1> QED
  BY <1>2, <1>3, <1>6

\* The warning job, up to its list.
LEMMA TypeStart ==
    ASSUME TypeOK, NEW i \in Instance,
           AskGate(i) \/ CallByHand(i) \/ FindRow(i) \/ StartWarning(i)
    PROVE  UserTypes' /\ JobTypes' /\ CallTypes' /\ HistoryTypes' /\ CountTypes'
<1> USE Parts
<1>1. UserTypes' /\ HistoryTypes' /\ CountTypes'
  BY DEF AskGate, CallByHand, FindRow, StartWarning, OnlyGate, UserTypes, HistoryTypes,
         CountTypes, userVars, historyVars
<1>2. CASE AskGate(i) \/ CallByHand(i) \/ FindRow(i)
  <2>1. UNCHANGED <<warning, deleting>>
    BY <1>2 DEF AskGate, CallByHand, FindRow, OnlyGate
  <2>2. \A j \in Instance : (call'[j] = "working") = (call[j] = "working")
    BY <1>2 DEF AskGate, CallByHand, FindRow, Cron!Fire, Cron!FireByHand, Cron!FindRow,
                Cron!CreateFails, Cron!Ends, Cron!TypeOK, Cron!Gated
  <2> QED
    BY <1>1, <2>1, <2>2 DEF JobTypes, CallTypes
<1>3. CASE StartWarning(i)
  <2>1. warning' = [warning EXCEPT ![i].pc = "read"] /\ UNCHANGED deleting
    BY <1>3 DEF StartWarning
  <2>2. call' = [call EXCEPT ![i] = "working"]
    BY <1>3 DEF StartWarning, Cron!MarkRow
  <2>3. JobTypes'
    BY <2>1 DEF JobTypes
  <2>4. CallTypes'
    BY <2>1, <2>2 DEF JobTypes, CallTypes, Cron!TypeOK, Rest
  <2> QED
    BY <1>1, <2>3, <2>4
<1> QED
  BY <1>2, <1>3

\* The warning job at its list.
LEMMA TypeWarning ==
    ASSUME TypeOK, NEW i \in Instance,
           WarningStep(i) \/ \E u \in User : MailFails(i, u)
    PROVE  UserTypes' /\ JobTypes' /\ CallTypes' /\ HistoryTypes' /\ CountTypes'
<1> USE Parts
<1>0. ASSUME warning[i].pc # "rest", warning'[i].pc # "rest", UNCHANGED call,
             \A j \in Instance \ {i} : warning'[j] = warning[j]
      PROVE  CallTypes'
  BY <1>0 DEF CallTypes, Rest
<1>1. CASE ReadUsers(i)
  <2>1. PICK todo \in SUBSET User :
            warning' = [warning EXCEPT ![i].pc = "next", ![i].todo = todo]
    BY <1>1 DEF ReadUsers, Unwarned
  <2>2. warning[i].pc = "read" /\ UNCHANGED <<call, deleting>>
    BY <1>1 DEF ReadUsers, cronVars
  <2>3. UserTypes' /\ HistoryTypes' /\ CountTypes'
    BY <1>1 DEF ReadUsers, UserTypes, HistoryTypes, CountTypes, userVars, historyVars
  <2>4. JobTypes'
    BY <2>1, <2>2 DEF JobTypes
  <2>5. warning'[i].pc = "next"
    BY <2>1 DEF JobTypes
  <2>6. \A j \in Instance \ {i} : warning'[j] = warning[j]
    BY <2>1 DEF JobTypes
  <2> QED
    BY <1>0, <2>2, <2>3, <2>4, <2>5, <2>6
<1>2. ASSUME NEW u \in User, SendMail(i, u)
      PROVE  UserTypes' /\ JobTypes' /\ CallTypes' /\ HistoryTypes' /\ CountTypes'
  <2>1. warning' = [warning EXCEPT ![i].pc = "flag", ![i].user = u]
    BY <1>2 DEF SendMail
  <2>2. warning[i].pc = "next" /\ UNCHANGED <<call, deleting>>
    BY <1>2 DEF SendMail, cronVars
  <2>3. UserTypes' /\ HistoryTypes' /\ CountTypes'
    BY <1>2, BoundAssumption DEF SendMail, UserTypes, HistoryTypes, CountTypes, userVars
  <2>4. JobTypes'
    BY <2>1, <2>2 DEF JobTypes
  <2>5. warning'[i].pc = "flag"
    BY <2>1 DEF JobTypes
  <2>6. \A j \in Instance \ {i} : warning'[j] = warning[j]
    BY <2>1 DEF JobTypes
  <2> QED
    BY <1>0, <2>2, <2>3, <2>4, <2>5, <2>6
<1>3. ASSUME NEW u, Skip(i, u), warning[i].pc \in {"next", "flag"}, UNCHANGED <<call, deleting>>
      PROVE  JobTypes' /\ CallTypes'
  <2> DEFINE W == [pc : {"rest", "read", "next", "flag"}, todo : SUBSET User,
                   user : User \cup {None}]
             w == [pc |-> "next", todo |-> warning[i].todo \ {u}, user |-> None]
  <2>a. warning[i] \in W
    BY DEF JobTypes
  <2>b. w \in W
    BY <2>a
  <2>c. warning' = [warning EXCEPT ![i] = w]
    BY <1>3 DEF Skip
  <2>d. warning \in [Instance -> W] /\ deleting' \in [Instance -> [todo : SUBSET User, used : SUBSET User]]
    BY <1>3 DEF JobTypes
  <2>e. warning' \in [Instance -> W]
    <3> HIDE DEF w, W
    <3> QED
      BY <2>b, <2>c, <2>d
  <2>1. JobTypes'
    BY <2>d, <2>e DEF JobTypes
  <2>2. warning'[i].pc = "next"
    BY <1>3 DEF Skip, JobTypes
  <2>3. \A j \in Instance \ {i} : warning'[j] = warning[j]
    BY <1>3 DEF Skip, JobTypes
  <2> QED
    BY <1>0, <1>3, <2>1, <2>2, <2>3
<1>4. CASE SetFlag(i)
  <2>1. JobTypes' /\ CallTypes'
    BY <1>3, <1>4 DEF SetFlag, cronVars
  <2>2. UserTypes' /\ HistoryTypes' /\ CountTypes'
    BY <1>4 DEF SetFlag, UserTypes, HistoryTypes, CountTypes
  <2> QED
    BY <2>1, <2>2
<1>5. CASE EndWarning(i)
  <2>1. JobTypes' /\ CallTypes'
    BY <1>5 DEF EndWarning, JobTypes, CallTypes, Rest, Cron!Return, Cron!Ends, Cron!TypeOK
  <2>2. UserTypes' /\ HistoryTypes' /\ CountTypes'
    BY <1>5 DEF EndWarning, UserTypes, HistoryTypes, CountTypes, userVars, historyVars
  <2> QED
    BY <2>1, <2>2
<1>6. ASSUME NEW u \in User, MailFails(i, u)
      PROVE  UserTypes' /\ JobTypes' /\ CallTypes' /\ HistoryTypes' /\ CountTypes'
  <2>1. JobTypes' /\ CallTypes'
    BY <1>3, <1>6 DEF MailFails, cronVars
  <2>2. UserTypes' /\ HistoryTypes'
    BY <1>6 DEF MailFails, UserTypes, HistoryTypes, userVars
  <2>3. CountTypes'
    BY <1>6, BoundAssumption DEF MailFails, CountTypes
  <2> QED
    BY <2>1, <2>2, <2>3
<1> QED
  BY <1>1, <1>2, <1>4, <1>5, <1>6 DEF WarningStep

\* The deleting job, restarts, and the five minutes of the row.
LEMMA TypeDeleting ==
    ASSUME TypeOK, NEW i \in Instance, ListUsers(i) \/ DeletingStep(i) \/ Restart(i)
    PROVE  UserTypes' /\ JobTypes' /\ CallTypes' /\ HistoryTypes' /\ CountTypes'
<1> USE Parts
<1>1. CASE ListUsers(i)
  <2>1. ToDelete \subseteq User
    BY DEF ToDelete
  <2> QED
    BY <1>1, <2>1 DEF ListUsers, UserTypes, JobTypes, CallTypes, HistoryTypes, CountTypes,
                      userVars, cronVars, historyVars
<1>2. ASSUME NEW u \in User, RemoveAccount(i, u)
      PROVE  UserTypes' /\ JobTypes' /\ CallTypes' /\ HistoryTypes' /\ CountTypes'
  <2>1. UserTypes' /\ HistoryTypes' /\ CountTypes' /\ CallTypes'
    BY <1>2 DEF RemoveAccount, UserTypes, HistoryTypes, CountTypes, CallTypes, cronVars,
                historyVars
  <2> DEFINE D == [todo : SUBSET User, used : SUBSET User]
             d == [todo |-> deleting[i].todo \ {u}, used |-> deleting[i].used \ {u}]
  <2>2. deleting \in [Instance -> D] /\ d \in D /\ NotDeleting \in D
    BY DEF JobTypes, NotDeleting
  <2>a. deleting' = [deleting EXCEPT ![i] = d] \/ deleting' = [deleting EXCEPT ![i] = NotDeleting]
    BY <1>2 DEF RemoveAccount
  <2>b. deleting' \in [Instance -> D]
    <3> HIDE DEF d, D
    <3> QED
      BY <2>2, <2>a
  <2>3. JobTypes'
    BY <1>2, <2>b DEF RemoveAccount, JobTypes
  <2> QED
    BY <2>1, <2>3
<1>3. CASE Restart(i)
  <2>1. JobTypes'
    BY <1>3 DEF Restart, JobTypes, Rest, NotDeleting
  <2>2. UserTypes' /\ HistoryTypes'
    BY <1>3 DEF Restart, UserTypes, JobTypes, HistoryTypes, userVars
  <2>3. CountTypes'
    BY <1>3, BoundAssumption DEF Restart, CountTypes
  <2>4. call'[i] # "working" /\ \A j \in Instance \ {i} : call'[j] = call[j]
    BY <1>3 DEF Restart, Cron!Return, Cron!Ends, Cron!TypeOK, cronVars
  <2>5. warning' = [warning EXCEPT ![i] = Rest]
    BY <1>3 DEF Restart
  <2>6. CallTypes'
    BY <2>4, <2>5 DEF JobTypes, CallTypes
  <2> QED
    BY <2>1, <2>2, <2>3, <2>6
<1> QED
  BY <1>1, <1>2, <1>3 DEF DeletingStep

\* Type correctness of accounts, of the gate and of both jobs.
THEOREM Types == Spec => []TypeOK
<1> DEFINE TInv == TypeOK /\ Cron!GateInv
<1>1. Init => TInv
  BY TypeInit, GateInit
<1>2. ASSUME TInv, [Next]_vars
      PROVE  TInv'
  <2>1. Cron!GateInv' /\ Cron!TypeOK'
    BY <1>2, GateNext DEF Cron!GateInv
  <2>2. UserTypes' /\ JobTypes' /\ CallTypes' /\ HistoryTypes' /\ CountTypes'
    <3>1. CASE FiveMinutesPass \/ UNCHANGED vars
      BY <1>2, <3>1, Parts DEF FiveMinutesPass, Cron!FiveMinutesPass, OnlyGate, vars,
             UserTypes, JobTypes, CallTypes, HistoryTypes, CountTypes, userVars,
             cronVars, historyVars
    <3> QED
      BY <1>2, <3>1, TypeUser, TypeStart, TypeWarning, TypeDeleting DEF Next
  <2> QED
    BY <2>1, <2>2, Parts DEF TypeOK, UserTypes, JobTypes, CallTypes, HistoryTypes, CountTypes
<1> QED
  BY <1>1, <1>2, PTL DEF Spec

----------------------------------------------------------------------------
(* Nobody is deleted for whom no e-mail was tried. *)

\* An e-mail was sent to u, or refused by the mail service.
Tried(u) == mail[u] # "never" \/ u \in refused

\* What makes it inductive: an e-mail comes before the flag, the flag before the
\* list of the deleting job, and no step forgets an e-mail.
MailedFirst ==
    /\ \A u \in User : gone[u] = "job" \/ warned[u] => Tried(u)
    /\ \A i \in Instance :
          /\ \A u \in deleting[i].todo : Tried(u)
          /\ warning[i].pc = "flag" =>
                warning[i].user \in User /\ Tried(warning[i].user)

\* Each step keeps the order of e-mail, flag, list and deletion.
LEMMA MailedStep ==
    ASSUME TypeOK, MailedFirst, [Next]_vars
    PROVE  MailedFirst'
<1> USE Parts
<1>1. ASSUME NEW u \in User, UserStep(u)
      PROVE  MailedFirst'
  <2>1. UNCHANGED warning
    BY <1>1 DEF UserStep, SignIn, WrongCode, CodeMissing, WrongPassword, DeleteOnRequest,
                TimePasses
  <2>2. UNCHANGED refused /\ \A v \in User : mail'[v] = "never" => mail[v] = "never"
    BY <1>1 DEF UserStep, SignIn, WrongCode, CodeMissing, WrongPassword, DeleteOnRequest,
                TimePasses, ResetsWarning, historyVars, HistoryTypes
  <2>3. \A v \in User : (warned'[v] => warned[v]) /\ (gone'[v] = "job" => gone[v] = "job")
    BY <1>1 DEF UserStep, SignIn, WrongCode, CodeMissing, WrongPassword, DeleteOnRequest,
                TimePasses, ResetsWarning, UserTypes
  <2>4. \A i \in Instance : deleting'[i].todo = deleting[i].todo
    BY <1>1 DEF UserStep, SignIn, WrongCode, CodeMissing, WrongPassword, DeleteOnRequest,
                TimePasses, SetsLastLogin, JobTypes
  <2> QED
    BY <2>1, <2>2, <2>3, <2>4 DEF MailedFirst, Tried, JobTypes
<1>2. ASSUME NEW i \in Instance, AskGate(i) \/ CallByHand(i) \/ FindRow(i) \/ StartWarning(i)
      PROVE  MailedFirst'
  BY <1>2 DEF AskGate, CallByHand, FindRow, StartWarning, OnlyGate, MailedFirst, Tried,
              JobTypes, userVars, historyVars
<1>3. ASSUME NEW i \in Instance, WarningStep(i)
      PROVE  MailedFirst'
  <2>1. CASE ReadUsers(i)
    BY <2>1 DEF ReadUsers, MailedFirst, Tried, JobTypes, userVars, historyVars
  <2>2. ASSUME NEW u \in User, SendMail(i, u)
        PROVE  MailedFirst'
    <3>1. \A v \in User : Tried(v) => Tried(v)'
      BY <2>2 DEF SendMail, Tried, HistoryTypes
    <3>2. Tried(u)'
      BY <2>2 DEF SendMail, Tried, HistoryTypes
    <3> HIDE DEF Tried
    <3>3. /\ warning'[i].user = u
          /\ \A j \in Instance \ {i} : warning'[j] = warning[j]
          /\ UNCHANGED <<gone, warned, deleting>>
      BY <2>2 DEF SendMail, JobTypes, userVars
    <3> QED
      BY <3>1, <3>2, <3>3 DEF MailedFirst, JobTypes
  <2>3. CASE SetFlag(i)
    <3>1. \A v \in User : warned'[v] => warned[v] \/ v = warning[i].user
      BY <2>3 DEF SetFlag, UserTypes
    <3> QED
      BY <2>3, <3>1 DEF SetFlag, Skip, MailedFirst, Tried, JobTypes
  <2>4. CASE EndWarning(i)
    BY <2>4 DEF EndWarning, Rest, MailedFirst, Tried, JobTypes, userVars, historyVars
  <2> QED
    BY <1>3, <2>1, <2>2, <2>3, <2>4 DEF WarningStep
<1>4. ASSUME NEW i \in Instance, NEW u \in User, MailFails(i, u)
      PROVE  MailedFirst'
  BY <1>4 DEF MailFails, Skip, MailedFirst, Tried, JobTypes, userVars
<1>5. ASSUME NEW i \in Instance, ListUsers(i)
      PROVE  MailedFirst'
  BY <1>5 DEF ListUsers, ToDelete, MailedFirst, Tried, JobTypes, userVars, historyVars
<1>6. ASSUME NEW i \in Instance, NEW u \in User, RemoveAccount(i, u)
      PROVE  MailedFirst'
  <2>1. UNCHANGED <<warning, mail, refused>>
    BY <1>6 DEF RemoveAccount, historyVars
  <2>2. \A j \in Instance : deleting'[j].todo \subseteq deleting[j].todo
    BY <1>6 DEF RemoveAccount, NotDeleting, JobTypes
  <2>3. Tried(u)
    BY <1>6 DEF RemoveAccount, MailedFirst
  <2>4. \A v \in User : gone'[v] = "job" \/ warned'[v] => v = u \/ gone[v] = "job" \/ warned[v]
    BY <1>6 DEF RemoveAccount, UserTypes
  <2> QED
    BY <2>1, <2>2, <2>3, <2>4 DEF MailedFirst, Tried
<1>7. ASSUME NEW i \in Instance, Restart(i)
      PROVE  MailedFirst'
  BY <1>7 DEF Restart, Rest, NotDeleting, MailedFirst, Tried, JobTypes, userVars
<1>8. CASE FiveMinutesPass \/ UNCHANGED vars
  BY <1>8 DEF FiveMinutesPass, OnlyGate, vars, MailedFirst, Tried, userVars, historyVars
<1> QED
  BY <1>1, <1>2, <1>3, <1>4, <1>5, <1>6, <1>7, <1>8 DEF Next, DeletingStep

\* The job deletes no account whose owner was never sent the e-mail
\* (deleteAfterInactivity, warnUserOfDeletionCronJob), whatever else fails, except
\* one whose e-mail the mail service refused (sendSingleSES).
THEOREM DeletedMailed == Spec => []DeletedWasMailed
<1>1. Init => MailedFirst
  BY DEF Init, MailedFirst, Rest, NotDeleting
<1>2. TypeOK /\ MailedFirst /\ [Next]_vars => MailedFirst'
  BY MailedStep
<1>3. MailedFirst => DeletedWasMailed
  BY DEF MailedFirst, Tried, DeletedWasMailed
<1> QED
  BY <1>1, <1>2, <1>3, Types, PTL DEF Spec

----------------------------------------------------------------------------
(* Nobody is deleted who used the account in time. *)

\* What makes it inductive: whoever is on the list of a deleting job is idle, gone,
\* or noted as having used the account since.
ListedIdle ==
    \A i \in Instance : \A u \in deleting[i].todo :
        Exists(u) => idle[u] = "stale" \/ u \in deleting[i].used

\* Signing in, however it ends, notes the user on every list; time only makes idle.
LEMMA IdleUser ==
    ASSUME TypeOK, ListedIdle, NEW u \in User, UserStep(u)
    PROVE  ListedIdle'
<1> USE Parts
<1>0. \A i \in Instance : deleting[i].todo \subseteq User
  BY DEF JobTypes
<1>1. ASSUME SetsLastLogin(u), UNCHANGED gone
      PROVE  ListedIdle'
  <2>1. \A v \in User \ {u} : idle'[v] = idle[v]
    BY <1>1 DEF SetsLastLogin, UserTypes
  <2>2. \A i \in Instance : /\ deleting'[i].todo = deleting[i].todo
                            /\ deleting[i].used \subseteq deleting'[i].used
                            /\ u \in deleting[i].todo => u \in deleting'[i].used
    BY <1>1 DEF SetsLastLogin, JobTypes
  <2> QED
    BY <1>0, <1>1, <2>1, <2>2 DEF ListedIdle, Exists
<1>2. ASSUME UNCHANGED deleting,
             \A v \in User : /\ gone'[v] = "no" => gone[v] = "no"
                             /\ idle[v] = "stale" => idle'[v] = "stale"
      PROVE  ListedIdle'
  BY <1>0, <1>2 DEF ListedIdle, Exists
<1>3. CASE SignIn(u)
  BY <1>1, <1>3 DEF SignIn
<1>4. CASE WrongCode(u)
  BY <1>1, <1>4 DEF WrongCode
<1>5. CASE CodeMissing(u)
  BY <1>2, <1>5 DEF CodeMissing
<1>6. CASE WrongPassword(u)
  BY <1>1, <1>2, <1>6 DEF WrongPassword
<1>7. CASE DeleteOnRequest(u)
  BY <1>2, <1>7 DEF DeleteOnRequest, UserTypes
<1>8. CASE TimePasses(u)
  BY <1>2, <1>8 DEF TimePasses, UserTypes
<1> QED
  BY <1>3, <1>4, <1>5, <1>6, <1>7, <1>8 DEF UserStep

\* The deleting job: its list is of users idle when it is read, and only shrinks.
LEMMA IdleDeleting ==
    ASSUME TypeOK, ListedIdle, NEW i \in Instance,
           ListUsers(i) \/ DeletingStep(i) \/ Restart(i)
    PROVE  ListedIdle'
<1> USE Parts
<1>1. CASE ListUsers(i)
  BY <1>1 DEF ListUsers, ToDelete, ListedIdle, Exists, JobTypes, userVars
<1>2. ASSUME NEW u \in User, RemoveAccount(i, u)
      PROVE  ListedIdle'
  <2>1. UNCHANGED idle /\ \A v \in User : gone'[v] = "no" => gone[v] = "no"
    BY <1>2 DEF RemoveAccount, UserTypes
  <2>2. \A j \in Instance \ {i} : deleting'[j] = deleting[j]
    BY <1>2 DEF RemoveAccount, JobTypes
  <2>3. CASE ~Exists(u)
    <3>1. deleting'[i].todo = {}
      BY <1>2, <2>3 DEF RemoveAccount, NotDeleting, JobTypes
    <3> QED
      BY <2>1, <2>2, <3>1 DEF ListedIdle, Exists, JobTypes
  <2>4. CASE Exists(u)
    <3>1. /\ deleting'[i].todo = deleting[i].todo \ {u}
          /\ deleting'[i].used = deleting[i].used \ {u}
      BY <1>2, <2>4 DEF RemoveAccount, JobTypes
    <3> QED
      BY <2>1, <2>2, <3>1 DEF ListedIdle, Exists, JobTypes
  <2> QED
    BY <2>3, <2>4
<1>3. CASE Restart(i)
  BY <1>3 DEF Restart, NotDeleting, ListedIdle, Exists, JobTypes, userVars
<1> QED
  BY <1>1, <1>2, <1>3 DEF DeletingStep

\* Each step keeps the lists in order.
LEMMA IdleStep ==
    ASSUME TypeOK, ListedIdle, [Next]_vars
    PROVE  ListedIdle'
<1>1. ASSUME UNCHANGED <<gone, idle, deleting>>
      PROVE  ListedIdle'
  BY <1>1 DEF ListedIdle, Exists
<1>2. ASSUME NEW i \in Instance,
             \/ AskGate(i) \/ CallByHand(i) \/ FindRow(i) \/ StartWarning(i)
             \/ WarningStep(i) \/ \E u \in User : MailFails(i, u)
      PROVE  ListedIdle'
  BY <1>1, <1>2 DEF AskGate, CallByHand, FindRow, StartWarning, OnlyGate, WarningStep,
                    ReadUsers, SendMail, SetFlag, EndWarning, MailFails, userVars
<1>3. CASE FiveMinutesPass \/ UNCHANGED vars
  BY <1>1, <1>3 DEF FiveMinutesPass, OnlyGate, vars, userVars
<1> QED
  BY <1>2, <1>3, IdleUser, IdleDeleting DEF Next

\* An account goes by the job only in a step of the deleting job.
LEMMA WhoDeletes ==
    ASSUME TypeOK, [Next]_vars, NEW u \in User, Deletes(u)
    PROVE  \E i \in Instance : RemoveAccount(i, u)
<1> USE Parts
<1>1. ASSUME UNCHANGED gone
      PROVE  FALSE
  BY <1>1 DEF Deletes
<1>2. ASSUME NEW v \in User, UserStep(v)
      PROVE  FALSE
  <2>1. CASE DeleteOnRequest(v)
    BY <2>1 DEF DeleteOnRequest, Deletes, UserTypes
  <2> QED
    BY <1>1, <1>2, <2>1 DEF UserStep, SignIn, WrongCode, CodeMissing, WrongPassword,
                            TimePasses
<1>3. ASSUME NEW i \in Instance,
             \/ AskGate(i) \/ CallByHand(i) \/ FindRow(i) \/ StartWarning(i)
             \/ WarningStep(i) \/ ListUsers(i) \/ Restart(i)
             \/ \E v \in User : MailFails(i, v)
      PROVE  FALSE
  BY <1>1, <1>3 DEF AskGate, CallByHand, FindRow, StartWarning, OnlyGate, WarningStep,
                    ReadUsers, SendMail, SetFlag, EndWarning, MailFails, ListUsers, Restart,
                    userVars
<1>4. CASE FiveMinutesPass \/ UNCHANGED vars
  BY <1>1, <1>4 DEF FiveMinutesPass, OnlyGate, vars, userVars
<1>5. PICK i \in Instance, v \in User : RemoveAccount(i, v)
  BY <1>2, <1>3, <1>4 DEF Next, DeletingStep
<1>6. u = v
  BY <1>5 DEF RemoveAccount, Deletes, UserTypes
<1> QED
  BY <1>5, <1>6

\* The job deletes no account used since the deletion date, except one used after
\* the list was read (deleteAfterInactivity).
THEOREM DeletedIdle == Spec => DeletedWasIdle
<1>1. Init => ListedIdle
  BY DEF Init, ListedIdle, NotDeleting
<1>2. TypeOK /\ ListedIdle /\ [Next]_vars => ListedIdle'
  BY IdleStep
<1>3. ASSUME TypeOK, ListedIdle, [Next]_vars, NEW u \in User, Deletes(u)
      PROVE  idle[u] = "stale" \/ Used(u)
  <2>1. PICK i \in Instance : RemoveAccount(i, u)
    BY <1>3, WhoDeletes
  <2>2. Exists(u) /\ u \in deleting[i].todo
    BY <1>3, <2>1 DEF RemoveAccount, Deletes, Exists
  <2>3. u \notin deleting'[i].used
    BY <1>3, <2>1, <2>2 DEF RemoveAccount, TypeOK
  <2> QED
    BY <1>3, <2>2, <2>3 DEF ListedIdle, Used
<1>4. TypeOK /\ ListedIdle /\ [Next]_vars
         => [\A u \in User : Deletes(u) => idle[u] = "stale" \/ Used(u)]_vars
  BY <1>3
<1> QED
  BY <1>1, <1>2, <1>4, Types, PTL DEF Spec, DeletedWasIdle

----------------------------------------------------------------------------
(* Nobody is mailed twice without a reason. *)

AtWork(i) == warning[i].pc # "rest"

\* What makes it inductive.  A call of the warning job holds a user between the
\* e-mail and the flag, and calls that work at once have met.  A user who was sent
\* the e-mail and has no flag is held by a call or noted as unflagged; so whoever
\* still waits on the list of a call that met nobody was sent none, or is noted.
HoldsUser ==
    \A i \in Instance :
        /\ warning[i].user # None <=> warning[i].pc = "flag"
        /\ warning[i].pc = "rest" => warning[i].todo = {}

HaveMet == \A i, j \in Instance : i # j /\ AtWork(i) /\ AtWork(j) => i \in met

FlagOwed ==
    \A u \in User : Exists(u) /\ mail[u] = "since" /\ ~warned[u] =>
        u \in unflagged \/ \E i \in Instance : warning[i].user = u

ListOwed ==
    \A i \in Instance \ met : \A u \in warning[i].todo :
        u # warning[i].user /\ mail[u] = "since" => u \in unflagged

OwedInv == HoldsUser /\ HaveMet /\ FlagOwed /\ ListOwed

\* While a call works, one that has not met it has no list.
LEMMA NobodyElse ==
    ASSUME OwedInv, NEW i \in Instance, AtWork(i), NEW j \in Instance \ met, j # i
    PROVE  warning[j].todo = {}
BY DEF OwedInv, HaveMet, HoldsUser, AtWork

\* Steps that leave the warning job alone, and send no e-mail, owe nothing new.
LEMMA OwedOther ==
    ASSUME TypeOK, OwedInv, UNCHANGED <<warning, met, unflagged>>,
           \A u \in User :
               /\ Exists(u)' => Exists(u)
               /\ mail'[u] = "since" => mail[u] = "since"
               /\ mail'[u] = "since" /\ ~warned'[u] => ~warned[u]
    PROVE  OwedInv'
<1>1. HoldsUser' /\ HaveMet'
  BY DEF OwedInv, HoldsUser, HaveMet, AtWork
<1>2. FlagOwed'
  BY DEF OwedInv, FlagOwed
<1>3. ListOwed'
  <2>1. \A i \in Instance : warning[i].todo \subseteq User
    BY Parts DEF JobTypes
  <2> QED
    BY <2>1 DEF OwedInv, ListOwed
<1> QED
  BY <1>1, <1>2, <1>3 DEF OwedInv

\* Signing in, deleting on request, time: resetting the flag resets the history of
\* the e-mail with it.
LEMMA OwedUser ==
    ASSUME TypeOK, OwedInv, NEW u \in User, UserStep(u)
    PROVE  OwedInv'
<1> USE Parts
<1>1. UNCHANGED <<warning, met, unflagged>>
  BY DEF UserStep, SignIn, WrongCode, CodeMissing, WrongPassword, DeleteOnRequest,
         TimePasses, cronVars, historyVars
<1>2. \A v \in User : Exists(v)' => Exists(v)
  BY DEF UserStep, SignIn, WrongCode, CodeMissing, WrongPassword, DeleteOnRequest,
         TimePasses, Exists, UserTypes
<1>3. ASSUME ResetsWarning(u), NEW v \in User, mail'[v] = "since"
      PROVE  mail[v] = "since" /\ warned'[v] = warned[v]
  BY <1>3 DEF ResetsWarning, UserTypes, HistoryTypes
<1>4. CASE CodeMissing(u) \/ WrongPassword(u)
  <2>1. ResetsWarning(u)
    BY <1>4 DEF CodeMissing, WrongPassword
  <2> QED
    BY <1>1, <1>2, <1>3, <2>1, OwedOther
<1>5. CASE SignIn(u) \/ WrongCode(u) \/ DeleteOnRequest(u) \/ TimePasses(u)
  <2>1. UNCHANGED <<mail, warned>>
    BY <1>5 DEF SignIn, WrongCode, DeleteOnRequest, TimePasses, historyVars
  <2> QED
    BY <1>1, <1>2, <2>1, OwedOther
<1> QED
  BY <1>4, <1>5 DEF UserStep

\* The warning job up to its list: a call that comes to work has met who is there.
LEMMA OwedStart ==
    ASSUME TypeOK, OwedInv, NEW i \in Instance,
           AskGate(i) \/ CallByHand(i) \/ FindRow(i) \/ StartWarning(i)
    PROVE  OwedInv'
<1> USE Parts
<1>1. UNCHANGED <<gone, warned, mail, unflagged>>
  BY DEF AskGate, CallByHand, FindRow, StartWarning, OnlyGate, userVars, historyVars
<1>2. CASE AskGate(i) \/ CallByHand(i) \/ FindRow(i)
  <2>1. UNCHANGED warning
    BY <1>2 DEF AskGate, CallByHand, FindRow, OnlyGate
  <2>2. met' = met \/ (met' = met \ {i} /\ call[i] = "create")
    BY <1>2 DEF AskGate, CallByHand, FindRow, Cron!Fire, Cron!FireByHand, Cron!FindRow,
                Cron!CreateFails, Cron!Ends
  <2>3. CASE met' = met
    BY <1>1, <2>1, <2>3, OwedOther DEF Exists
  <2>4. CASE met' = met \ {i} /\ call[i] = "create"
    <3>1. warning[i] = Rest
      BY <2>4 DEF CallTypes
    <3>2. warning[i].pc = "rest" /\ warning[i].todo = {}
      BY <3>1 DEF Rest
    <3>3. HaveMet' /\ ListOwed'
      BY <1>1, <2>1, <2>4, <3>2 DEF OwedInv, HaveMet, ListOwed, AtWork
    <3>4. HoldsUser' /\ FlagOwed'
      BY <1>1, <2>1 DEF OwedInv, HoldsUser, FlagOwed, Exists
    <3> QED
      BY <3>3, <3>4 DEF OwedInv
  <2> QED
    BY <2>2, <2>3, <2>4
<1>3. CASE StartWarning(i)
  <2>1. call[i] # "working" /\ call \in [Instance -> {"idle", "working"} \cup Cron!Gated]
    BY <1>3 DEF StartWarning, Cron!MarkRow, Cron!TypeOK
  <2>2. warning[i] = Rest
    BY <2>1 DEF CallTypes
  <2>3. /\ warning'[i].pc = "read" /\ warning'[i].todo = {} /\ warning'[i].user = None
        /\ \A j \in Instance \ {i} : warning'[j] = warning[j]
    BY <1>3, <2>2 DEF StartWarning, Rest, JobTypes
  <2>4. met \subseteq met'
    BY <1>3 DEF StartWarning, Cron!MarkRow
  <2>5. ASSUME NEW j \in Instance \ {i}, AtWork(j)
        PROVE  i \in met' /\ j \in met'
    <3>1. j \in Cron!WorkingCalls
      BY <2>5 DEF AtWork, CallTypes, Rest, Cron!WorkingCalls
    <3> QED
      BY <1>3, <3>1 DEF StartWarning, Cron!MarkRow
  <2>6. HoldsUser'
    BY <2>3 DEF OwedInv, HoldsUser
  <2>7. HaveMet'
    BY <2>3, <2>4, <2>5 DEF OwedInv, HaveMet, AtWork
  <2>8. \A u : (\E j \in Instance : warning[j].user = u) /\ u # None
                  => \E j \in Instance : warning'[j].user = u
    BY <2>2, <2>3 DEF Rest
  <2>9. FlagOwed'
    BY <1>1, <2>8, NoneAssumption DEF OwedInv, FlagOwed, Exists
  <2>10. ListOwed'
    BY <1>1, <2>3, <2>4 DEF OwedInv, ListOwed
  <2> QED
    BY <2>6, <2>7, <2>9, <2>10 DEF OwedInv
<1> QED
  BY <1>2, <1>3

\* The list is read: whoever was sent the e-mail and is on it is held by another
\* call, which this one has met, or noted.
LEMMA OwedRead ==
    ASSUME TypeOK, OwedInv, NEW i \in Instance, ReadUsers(i)
    PROVE  OwedInv'
<1> USE Parts
<1>1. UNCHANGED <<gone, warned, met, mail, unflagged>> /\ warning[i].pc = "read"
  BY DEF ReadUsers, userVars, cronVars, historyVars
<1>2. PICK todo \in SUBSET Unwarned :
          warning' = [warning EXCEPT ![i].pc = "next", ![i].todo = todo]
  BY DEF ReadUsers
<1>3. /\ warning'[i].pc = "next" /\ warning'[i].todo = todo
      /\ warning'[i].user = warning[i].user
      /\ \A j \in Instance \ {i} : warning'[j] = warning[j]
  BY <1>2 DEF JobTypes
<1>4. HoldsUser' /\ HaveMet'
  BY <1>1, <1>3 DEF OwedInv, HoldsUser, HaveMet, AtWork
<1>5. \A j \in Instance : warning'[j].user = warning[j].user
  BY <1>3
<1>6. FlagOwed'
  BY <1>1, <1>5 DEF OwedInv, FlagOwed, Exists
<1>7. ASSUME i \notin met, NEW u \in todo, mail[u] = "since"
      PROVE  u \in unflagged
  <2>1. u \in User /\ Exists(u) /\ ~warned[u]
    BY <1>7 DEF Unwarned
  <2>2. ASSUME NEW j \in Instance, warning[j].user = u
        PROVE  FALSE
    <3>1. warning[j].pc = "flag"
      BY <2>1, <2>2, NoneAssumption DEF OwedInv, HoldsUser
    <3> QED
      BY <1>1, <1>7, <3>1 DEF OwedInv, HaveMet, AtWork
  <2> QED
    BY <1>7, <2>1, <2>2 DEF OwedInv, FlagOwed
<1>8. ListOwed'
  BY <1>1, <1>3, <1>7 DEF OwedInv, ListOwed
<1> QED
  BY <1>4, <1>6, <1>8 DEF OwedInv

\* The e-mail goes out: the call holds the user, and no other call has a list
\* without having met this one.
LEMMA OwedSend ==
    ASSUME TypeOK, OwedInv, NEW i \in Instance, NEW u \in User, SendMail(i, u)
    PROVE  OwedInv'
<1> USE Parts
<1>1. /\ UNCHANGED <<gone, warned, met, unflagged>> /\ warning[i].pc = "next"
      /\ mail' = [mail EXCEPT ![u] = "since"] \/ UNCHANGED mail
  BY DEF SendMail, userVars, cronVars
<1>2. warning' = [warning EXCEPT ![i].pc = "flag", ![i].user = u]
  BY DEF SendMail
<1>3. /\ warning'[i].pc = "flag" /\ warning'[i].todo = warning[i].todo
      /\ warning'[i].user = u
      /\ \A j \in Instance \ {i} : warning'[j] = warning[j]
  BY <1>2 DEF JobTypes
<1>4. warning[i].user = None
  BY <1>1 DEF OwedInv, HoldsUser
<1>5. HoldsUser' /\ HaveMet'
  BY <1>1, <1>3, NoneAssumption DEF OwedInv, HoldsUser, HaveMet, AtWork
<1>6. \A v \in User \ {u} : mail'[v] = mail[v]
  BY <1>1 DEF HistoryTypes
<1>7. FlagOwed'
  <2>1. SUFFICES ASSUME NEW v \in User, v # u, Exists(v)', mail'[v] = "since", ~warned'[v]
                 PROVE  v \in unflagged' \/ \E j \in Instance : warning'[j].user = v
    BY <1>3 DEF FlagOwed
  <2>2. v \in unflagged \/ \E j \in Instance : warning[j].user = v
    BY <1>1, <1>6, <2>1 DEF OwedInv, FlagOwed, Exists
  <2> QED
    BY <1>1, <1>3, <1>4, <2>2, NoneAssumption
<1>8. ListOwed'
  <2>1. SUFFICES ASSUME NEW j \in Instance \ met, NEW v \in warning'[j].todo,
                        v # warning'[j].user, mail'[v] = "since"
                 PROVE  v \in unflagged
    BY <1>1 DEF ListOwed
  <2>2. v \in warning[j].todo /\ v \in User
    BY <1>3, <2>1 DEF JobTypes
  <2>3. CASE j = i
    <3>1. v # u /\ v # None
      BY <1>3, <2>1, <2>2, <2>3, NoneAssumption
    <3> QED
      BY <1>4, <1>6, <2>1, <2>2, <2>3, <3>1 DEF OwedInv, ListOwed
  <2>4. CASE j # i
    BY <1>1, <2>1, <2>2, <2>4, NobodyElse DEF AtWork
  <2> QED
    BY <2>3, <2>4
<1> QED
  BY <1>5, <1>7, <1>8 DEF OwedInv

\* The user is done, with the flag or without: a write that fails is noted, and so is
\* whom a call held when its process restarts.
LEMMA OwedSkip ==
    ASSUME TypeOK, OwedInv, NEW i \in Instance, NEW u \in User, Skip(i, u),
           AtWork(i), UNCHANGED <<gone, met, mail>>,
           warning[i].user \in {u, None},
           \A v \in User \ {u} : warned'[v] = warned[v] /\ (v \in unflagged' <=> v \in unflagged),
           \/ u \in unflagged'
           \/ warning[i].user = None /\ UNCHANGED <<warned, unflagged>>
           \/ Exists(u) => warned'[u]
    PROVE  OwedInv'
<1> USE Parts
<1>1. /\ warning'[i].pc = "next" /\ warning'[i].user = None
      /\ warning'[i].todo = warning[i].todo \ {u}
      /\ \A j \in Instance \ {i} : warning'[j] = warning[j]
  BY DEF Skip, JobTypes
<1>2. HoldsUser'
  BY <1>1 DEF OwedInv, HoldsUser
<1>3. HaveMet'
  BY <1>1 DEF OwedInv, HaveMet, AtWork
<1>4. FlagOwed'
  <2>1. SUFFICES ASSUME NEW v \in User, Exists(v), mail[v] = "since", ~warned'[v]
                 PROVE  v \in unflagged' \/ \E j \in Instance : warning'[j].user = v
    BY DEF FlagOwed, Exists
  <2>2. CASE v # u
    <3>1. v \in unflagged \/ \E j \in Instance : warning[j].user = v
      BY <2>1, <2>2 DEF OwedInv, FlagOwed
    <3> QED
      BY <1>1, <2>2, <3>1, NoneAssumption
  <2>3. CASE v = u /\ u \notin unflagged'
    <3>1. warning[i].user = None /\ UNCHANGED <<warned, unflagged>>
      BY <2>1, <2>3
    <3>2. \E j \in Instance : warning[j].user = u
      BY <2>1, <2>3, <3>1 DEF OwedInv, FlagOwed
    <3> QED
      BY <1>1, <2>3, <3>1, <3>2, NoneAssumption
  <2> QED
    BY <2>2, <2>3
<1>5. ListOwed'
  <2>1. SUFFICES ASSUME NEW j \in Instance \ met, NEW v \in warning'[j].todo,
                        v # warning'[j].user, mail[v] = "since"
                 PROVE  v \in unflagged'
    BY DEF ListOwed
  <2>2. v \in warning[j].todo /\ v \in User
    BY <1>1, <2>1 DEF JobTypes
  <2>3. CASE j = i
    <3>1. v # u /\ v # warning[i].user
      BY <1>1, <2>1, <2>2, <2>3, NoneAssumption
    <3> QED
      BY <2>1, <2>2, <2>3, <3>1 DEF OwedInv, ListOwed
  <2>4. CASE j # i
    BY <2>2, <2>4, NobodyElse
  <2> QED
    BY <2>3, <2>4
<1> QED
  BY <1>2, <1>3, <1>4, <1>5 DEF OwedInv

\* A call is over or its process is gone.
LEMMA OwedReturn ==
    ASSUME TypeOK, OwedInv, NEW i \in Instance, UNCHANGED <<gone, warned, mail>>,
           warning' = [warning EXCEPT ![i] = Rest], met \ {i} \subseteq met',
           unflagged' = unflagged \cup ({warning[i].user} \ {None})
    PROVE  OwedInv'
<1> USE Parts
<1>1. /\ warning'[i].pc = "rest" /\ warning'[i].user = None /\ warning'[i].todo = {}
      /\ \A j \in Instance \ {i} : warning'[j] = warning[j]
  BY DEF Rest, JobTypes
<1>2. HoldsUser'
  BY <1>1 DEF OwedInv, HoldsUser
<1>3. HaveMet'
  BY <1>1 DEF OwedInv, HaveMet, AtWork
<1>4. FlagOwed'
  BY <1>1, NoneAssumption DEF OwedInv, FlagOwed, Exists
<1>5. ListOwed'
  BY <1>1 DEF OwedInv, ListOwed
<1> QED
  BY <1>2, <1>3, <1>4, <1>5 DEF OwedInv

\* Each step keeps the account of what is owed.
LEMMA OwedStep ==
    ASSUME TypeOK, OwedInv, [Next]_vars
    PROVE  OwedInv'
<1> USE Parts
<1>1. ASSUME NEW i \in Instance, SetFlag(i)
      PROVE  OwedInv'
  <2>1. warning[i].pc = "flag" /\ warning[i].user \in User
    BY <1>1 DEF SetFlag, OwedInv, HoldsUser, JobTypes
  <2> DEFINE u == warning[i].user
  <2>2. /\ warned' = [warned EXCEPT ![u] = @ \/ Exists(u)] /\ unflagged' = unflagged \ {u}
        /\ Skip(i, u) /\ UNCHANGED <<gone, mail, met>>
    BY <1>1 DEF SetFlag, cronVars
  <2>3. PICK v \in User : v = u
    BY <2>1
  <2>4. \A w \in User \ {v} : warned'[w] = warned[w] /\ (w \in unflagged' <=> w \in unflagged)
    BY <2>2, <2>3 DEF UserTypes
  <2>5. Exists(v) => warned'[v]
    BY <2>2, <2>3 DEF UserTypes
  <2> QED
    BY <2>1, <2>2, <2>3, <2>4, <2>5, OwedSkip DEF AtWork
<1>2. ASSUME NEW i \in Instance, EndWarning(i)
      PROVE  OwedInv'
  <2>1. warning[i].user = None
    BY <1>2 DEF EndWarning, OwedInv, HoldsUser
  <2>2. /\ UNCHANGED <<gone, warned, mail, unflagged>> /\ met' = met \ {i}
        /\ warning' = [warning EXCEPT ![i] = Rest]
    BY <1>2 DEF EndWarning, Cron!Return, Cron!Ends, userVars, historyVars
  <2> QED
    BY <2>1, <2>2, OwedReturn
<1>3. ASSUME NEW i \in Instance, NEW u \in User, MailFails(i, u)
      PROVE  OwedInv'
  <2>1. /\ Skip(i, u) /\ UNCHANGED <<gone, warned, mail, met>>
        /\ \/ warning[i].pc = "next" /\ UNCHANGED unflagged
           \/ /\ warning[i].pc = "flag" /\ u = warning[i].user
              /\ unflagged' = unflagged \cup {u}
    BY <1>3 DEF MailFails, userVars, cronVars
  <2>2. warning[i].pc = "next" => warning[i].user = None
    BY DEF OwedInv, HoldsUser
  <2> QED
    BY <2>1, <2>2, OwedSkip DEF AtWork
<1>4. ASSUME NEW i \in Instance, Restart(i)
      PROVE  OwedInv'
  <2>1. /\ UNCHANGED <<gone, warned, mail>> /\ met \ {i} \subseteq met'
        /\ warning' = [warning EXCEPT ![i] = Rest]
        /\ unflagged' = unflagged \cup ({warning[i].user} \ {None})
    BY <1>4 DEF Restart, Cron!Return, Cron!Ends, userVars, cronVars
  <2> QED
    BY <2>1, OwedReturn
<1>5. ASSUME NEW i \in Instance, ListUsers(i) \/ DeletingStep(i)
      PROVE  OwedInv'
  <2>1. UNCHANGED <<warning, met, unflagged, mail, warned>>
    BY <1>5 DEF ListUsers, DeletingStep, RemoveAccount, userVars, cronVars, historyVars
  <2>2. \A u \in User : Exists(u)' => Exists(u)
    BY <1>5 DEF ListUsers, DeletingStep, RemoveAccount, userVars, Exists, UserTypes
  <2> QED
    BY <2>1, <2>2, OwedOther
<1>6. CASE FiveMinutesPass \/ UNCHANGED vars
  <2>1. UNCHANGED <<gone, warning, met, unflagged, mail, warned>>
    BY <1>6 DEF FiveMinutesPass, Cron!FiveMinutesPass, OnlyGate, vars, userVars, cronVars,
                historyVars
  <2> QED
    BY <2>1, OwedOther DEF Exists
<1> QED
  BY <1>1, <1>2, <1>3, <1>4, <1>5, <1>6, OwedUser, OwedStart, OwedRead, OwedSend
     DEF Next, WarningStep

\* A call of the warning job takes a user only to send the e-mail.
LEMMA WhoMails ==
    ASSUME TypeOK, [Next]_vars, NEW i \in Instance, NEW u \in User,
           warning[i].user = None, warning'[i].user = u
    PROVE  SendMail(i, u)
<1> USE Parts
<1>1. ASSUME UNCHANGED warning
      PROVE  FALSE
  BY <1>1, NoneAssumption
<1>2. ASSUME NEW v \in User, UserStep(v)
      PROVE  FALSE
  BY <1>1, <1>2 DEF UserStep, SignIn, WrongCode, CodeMissing, WrongPassword,
                    DeleteOnRequest, TimePasses
<1>3. ASSUME NEW j \in Instance,
             \/ AskGate(j) \/ CallByHand(j) \/ FindRow(j) \/ ListUsers(j) \/ DeletingStep(j)
      PROVE  FALSE
  BY <1>1, <1>3 DEF AskGate, CallByHand, FindRow, OnlyGate, ListUsers, DeletingStep,
                    RemoveAccount
<1>4. ASSUME NEW j \in Instance, StartWarning(j) \/ ReadUsers(j)
      PROVE  FALSE
  <2>1. warning'[i].user = warning[i].user
    BY <1>4 DEF StartWarning, ReadUsers, JobTypes
  <2> QED
    BY <2>1, NoneAssumption
<1>5. ASSUME NEW j \in Instance,
             SetFlag(j) \/ EndWarning(j) \/ Restart(j) \/ \E v \in User : MailFails(j, v)
      PROVE  FALSE
  <2>1. warning'[i].user \in {warning[i].user, None}
    BY <1>5 DEF SetFlag, EndWarning, Restart, MailFails, Skip, Rest, JobTypes
  <2> QED
    BY <2>1, NoneAssumption
<1>6. CASE FiveMinutesPass \/ UNCHANGED vars
  BY <1>1, <1>6 DEF FiveMinutesPass, OnlyGate, vars
<1>7. PICK j \in Instance, v \in User : SendMail(j, v)
  BY <1>2, <1>3, <1>4, <1>5, <1>6 DEF Next, WarningStep
<1>8. i = j /\ u = v
  BY <1>7, NoneAssumption DEF SendMail, JobTypes
<1> QED
  BY <1>7, <1>8

\* Nobody gets a second e-mail for one warning, unless two calls of the job worked at
\* once or the write after the first e-mail failed (warnUserOfDeletionCronJob).
THEOREM SecondMail == Spec => SecondMailExplained
<1> DEFINE Explained ==
        \A u \in User, i \in Instance :
            /\ warning[i].user = None /\ warning'[i].user = u
            /\ mail[u] = "since"
            => u \in unflagged \/ i \in met
<1>1. Init => OwedInv
  BY DEF Init, OwedInv, HoldsUser, HaveMet, FlagOwed, ListOwed, AtWork, Rest
<1>2. TypeOK /\ OwedInv /\ [Next]_vars => OwedInv'
  BY OwedStep
<1>3. ASSUME TypeOK, OwedInv, [Next]_vars
      PROVE  Explained
  <2>1. SUFFICES ASSUME NEW u \in User, NEW i \in Instance, warning[i].user = None,
                        warning'[i].user = u, mail[u] = "since", i \notin met
                 PROVE  u \in unflagged
    OBVIOUS
  <2>2. SendMail(i, u)
    BY <1>3, <2>1, WhoMails
  <2>3. u \in warning[i].todo /\ u # None
    BY <2>2, NoneAssumption DEF SendMail
  <2> QED
    BY <1>3, <2>1, <2>3 DEF OwedInv, ListOwed
<1>4. TypeOK /\ OwedInv /\ [Next]_vars => [Explained]_vars
  BY <1>3
<1> HIDE DEF Explained
<1>5. Spec => [][Explained]_vars
  BY <1>1, <1>2, <1>4, Types, PTL DEF Spec
<1> QED
  BY <1>5 DEF SecondMailExplained, Explained
=============================================================================

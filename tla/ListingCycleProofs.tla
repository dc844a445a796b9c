-------------------------- MODULE ListingCycleProofs --------------------------
(***************************************************************************)
(* Type correctness of ListingCycle and its safety: the dates of a listing, *)
(* what its closing owes, the cached page, the questions attached to it and *)
(* their moves, for any number of updates at a time, questions and bounds.  *)
(***************************************************************************)
EXTENDS ListingCycle, TLAPS

Call == [pc : {"rest", "read", "valid"} \cup Writing, stored : Row \cup {None},
         attach : SUBSET Question]

Request == [q : Question, seen : QuestionStatus, attached : BOOLEAN, to : QuestionStatus]

\* The row, and the calls of update.
RowTypes ==
    /\ listing \in Row
    /\ update \in [Editor -> Call]
    /\ \A e \in Editor : update[e].stored # None <=> update[e].pc \in {"read", "valid"}

\* The questions, and what is under way with them.
QuestionTypes ==
    /\ msq \in [Question -> QuestionStatus]
    /\ activating \subseteq Question /\ excused \subseteq Question
    /\ request \in {None} \cup Request

\* The job, the page, what is owed, and the counters.
OtherTypes ==
    /\ job \in {"rest", "found", "written", "purged"}
    /\ {page, fetch} \subseteq {"none", "active", "other"}
    /\ {expiring, owed, lost, outdated} \subseteq BOOLEAN
    /\ updates \in 0..MaxUpdates /\ errors \in 0..MaxErrors

\* The rows that updates have read.
ReadDated ==
    \A e \in Editor : update[e].pc \in {"read", "valid"} => Dated(update[e].stored)

\* TypeOK, by its parts.
LEMMA Parts == TypeOK <=> RowTypes /\ QuestionTypes /\ OtherTypes /\ ReadDated
BY DEF TypeOK, RowTypes, QuestionTypes, OtherTypes, ReadDated, Call, Request

\* A call of update that is over, or was never made.
LEMMA RestTyped == AtRest \in Call /\ AtRest.stored = None /\ AtRest.pc = "rest"
BY DEF AtRest, Call

\* The row that an update writes is a row.
LEMMA NewRowTyped ==
    ASSUME NEW u \in Call, NEW next \in ListingStatus, u.stored \in Row
    PROVE  NewRow(u, next) \in Row
BY DEF NewRow, Row, Call, ListingStatus

\* A call that goes on keeps what it read until its write, and not longer.
LEMMA CallGoesOn ==
    ASSUME RowTypes, NEW e \in Editor, NEW c \in Call,
           c.stored # None <=> c.pc \in {"read", "valid"},
           listing' \in Row, update' = [update EXCEPT ![e] = c]
    PROVE  RowTypes'
BY DEF RowTypes

\* What an update was started with, while it needs it.
LEMMA StoredTyped ==
    ASSUME RowTypes, NEW e \in Editor, update[e].pc \in {"read", "valid"}
    PROVE  update[e] \in Call /\ update[e].stored \in Row
BY DEF RowTypes, Call

\* The first states have their types.
LEMMA TypeInit == Init => TypeOK
<1> SUFFICES ASSUME Init PROVE TypeOK
  OBVIOUS
<1>1. RowTypes
  BY RestTyped DEF Init, RowTypes, Row, ListingStatus
<1>2. QuestionTypes
  <2>1. /\ msq \in [Question -> {"draft", "visible", "active", "retired"}]
        /\ activating = {} /\ excused = {} /\ request = None
    BY DEF Init
  <2> QED
    BY <2>1 DEF QuestionTypes, QuestionStatus
<1>3. OtherTypes
  <2>1. /\ job = "rest" /\ page = "none" /\ fetch = "none"
        /\ expiring = FALSE /\ owed = FALSE /\ lost = FALSE /\ outdated = FALSE
        /\ updates = 0 /\ errors = 0
    BY DEF Init
  <2>2. 0 \in 0..MaxUpdates /\ 0 \in 0..MaxErrors
    <3>1. MaxUpdates \in Nat /\ MaxErrors \in Nat
      BY BoundAssumption
    <3> QED
      BY <3>1
  <2>3. expiring \in BOOLEAN /\ owed \in BOOLEAN /\ lost \in BOOLEAN /\ outdated \in BOOLEAN
    BY <2>1
  <2>4. {expiring, owed, lost, outdated} \subseteq BOOLEAN
    BY ONLY <2>3, Zenon
  <2> QED
    BY <2>1, <2>2, <2>4 DEF OtherTypes
<1>4. ReadDated
  BY RestTyped DEF Init, ReadDated
<1> QED
  BY <1>1, <1>2, <1>3, <1>4, Parts

\* The steps of update before its write, and the write.
LEMMA RowUpdate ==
    ASSUME RowTypes, NEW e \in Editor,
           \/ ReadStored(e) \/ Validate(e) \/ WriteFails(e)
           \/ \E next \in ListingStatus : Write(e, next)
    PROVE  RowTypes'
<1>1. CASE ReadStored(e)
  <2> DEFINE c == [AtRest EXCEPT !.pc = "read", !.stored = listing]
  <2>1. c \in Call /\ c.stored = listing /\ c.pc = "read"
    BY DEF AtRest, Call, RowTypes
  <2>2. listing \in Row /\ listing # None
    BY RowAssumption DEF RowTypes
  <2>3. update' = [update EXCEPT ![e] = c] /\ UNCHANGED listing
    BY <1>1 DEF ReadStored
  <2> HIDE DEF c
  <2> QED
    BY <2>1, <2>2, <2>3, CallGoesOn
<1>2. CASE Validate(e)
  <2>1. PICK attach \in SUBSET Question :
            \/ update' = [update EXCEPT ![e] = [@ EXCEPT !.pc = "valid", !.attach = attach]]
            \/ update' = [update EXCEPT ![e] = AtRest]
    BY <1>2 DEF Validate
  <2> DEFINE c == [update[e] EXCEPT !.pc = "valid", !.attach = attach]
  <2>2. update[e] \in Call /\ update[e].stored \in Row
    BY <1>2, StoredTyped DEF Validate
  <2>3. c \in Call /\ c.pc = "valid" /\ c.stored = update[e].stored
    BY <2>2 DEF Call
  <2>4. c.stored # None
    BY <2>2, <2>3, RowAssumption
  <2>5. listing' \in Row
    BY <1>2 DEF Validate, RowTypes
  <2>6. \/ update' = [update EXCEPT ![e] = c]
        \/ update' = [update EXCEPT ![e] = AtRest]
    BY <2>1
  <2> HIDE DEF c
  <2> QED
    BY <2>3, <2>4, <2>5, <2>6, CallGoesOn, RestTyped
<1>3. CASE WriteFails(e)
  BY <1>3, CallGoesOn, RestTyped DEF WriteFails, RowTypes
<1>4. ASSUME NEW next \in ListingStatus, Write(e, next)
      PROVE  RowTypes'
  <2> DEFINE u == update[e]
             c == [AtRest EXCEPT !.pc = After(u, next),
                       !.attach = {q \in u.attach : next = "active" /\ msq[q] = "visible"}]
  <2>1. u \in Call /\ u.stored \in Row
    BY <1>4, StoredTyped DEF Write
  <2>2. listing' = NewRow(u, next) /\ update' = [update EXCEPT ![e] = c]
    BY <1>4 DEF Write
  <2>3. After(u, next) \in {"rest"} \cup Writing
    BY DEF After, Writing
  <2>4. c \in Call /\ c.stored = None /\ c.pc = After(u, next)
    BY <2>1, <2>3 DEF AtRest, Call
  <2>5. c.pc \notin {"read", "valid"}
    BY <2>3, <2>4 DEF Writing
  <2> HIDE DEF c
  <2> QED
    BY <2>1, <2>2, <2>4, <2>5, CallGoesOn, NewRowTyped
<1> QED
  BY <1>1, <1>2, <1>3, <1>4

\* The steps of update after its write.
LEMMA RowAfter ==
    ASSUME RowTypes, NEW e \in Editor,
           Publish(e) \/ Close(e) \/ EndUpdate(e) \/ UpdateFails(e)
    PROVE  RowTypes'
<1>1. CASE Publish(e)
  <2> DEFINE c == [AtRest EXCEPT !.pc = "purge"]
  <2>1. c \in Call /\ c.stored = None /\ c.pc = "purge"
    BY DEF AtRest, Call, Writing
  <2>2. update' = [update EXCEPT ![e] = c] /\ listing' \in Row
    BY <1>1 DEF Publish, RowTypes
  <2> HIDE DEF c
  <2> QED
    BY <2>1, <2>2, CallGoesOn
<1>2. CASE Close(e)
  <2> DEFINE c == [update[e] EXCEPT !.pc = "purge"]
  <2>1. c \in Call /\ c.stored = update[e].stored /\ c.pc = "purge"
    BY DEF RowTypes, Call, Writing
  <2>2. update[e].stored = None
    BY <1>2 DEF Close, RowTypes
  <2>3. update' = [update EXCEPT ![e] = c] /\ listing' \in Row
    BY <1>2 DEF Close, Goes, RowTypes
  <2> HIDE DEF c
  <2> QED
    BY <2>1, <2>2, <2>3, CallGoesOn
<1>3. CASE EndUpdate(e) \/ UpdateFails(e)
  BY <1>3, CallGoesOn, RestTyped DEF EndUpdate, UpdateFails, RowTypes
<1> QED
  BY <1>1, <1>2, <1>3

\* A restart, with all calls gone.
LEMMA RowDies == RowTypes /\ Dies => RowTypes'
BY RestTyped DEF Dies, RowTypes

\* The closing job writes the row; nobody else does.
LEMMA RowOthers ==
    ASSUME RowTypes, UNCHANGED update, listing' = listing \/ CloseFound
    PROVE  RowTypes'
BY DEF RowTypes, Row, ListingStatus, CloseFound

----------------------------------------------------------------------------
(* Questions and the rest: what each group of steps touches of them. *)

\* The questions: every writer writes one of their statuses.
LEMMA QuestionStep ==
    ASSUME RowTypes, QuestionTypes, [Next]_vars
    PROVE  QuestionTypes'
<1>1. ASSUME NEW e \in Editor,
             \/ ReadStored(e) \/ Validate(e) \/ WriteFails(e) \/ Close(e) \/ EndUpdate(e)
      PROVE  QuestionTypes'
  BY <1>1 DEF ReadStored, Validate, WriteFails, Close, EndUpdate, OnlyUpdate,
              QuestionTypes, questionVars
<1>2. ASSUME NEW e \in Editor, NEW next \in ListingStatus, Write(e, next)
      PROVE  QuestionTypes'
  <2>1. update[e].attach \subseteq Question
    BY DEF RowTypes, Call
  <2>2. excused' \subseteq Question
    BY <1>2, <2>1 DEF Write
  <2> QED
    BY <1>2, <2>2 DEF Write, OnlyUpdate, QuestionTypes, questionVars
<1>3. ASSUME NEW e \in Editor, Publish(e) \/ UpdateFails(e)
      PROVE  QuestionTypes'
  <2>1. update[e].attach \subseteq Question
    BY DEF RowTypes, Call
  <2> QED
    BY <1>3, <2>1 DEF Publish, UpdateFails, Abandon, OnlyUpdate, QuestionTypes,
                      questionVars
<1>4. ASSUME NEW q \in Question, Activate(q)
      PROVE  QuestionTypes'
  BY <1>4 DEF Activate, QuestionTypes, QuestionStatus
<1>5. ASSUME NEW q \in Question, NEW to \in QuestionStatus, ReadQuestion(q, to)
      PROVE  QuestionTypes'
  <2>1. Attached(q) \in BOOLEAN
    BY DEF Attached
  <2>2. msq[q] \in QuestionStatus
    BY DEF QuestionTypes
  <2>3. request' \in Request
    BY <1>5, <2>1, <2>2 DEF ReadQuestion, Request
  <2> QED
    BY <1>5, <2>3 DEF ReadQuestion, QuestionTypes, clientVars
<1>6. CASE WriteQuestion
  <2>1. request.q \in Question /\ request.to \in QuestionStatus
    BY <1>6 DEF WriteQuestion, QuestionTypes, Request
  <2>2. UNCHANGED activating /\ request' = None
    BY <1>6 DEF WriteQuestion, clientVars
  <2>3. msq' = msq \/ msq' = [msq EXCEPT ![request.q] = request.to]
    BY <1>6 DEF WriteQuestion
  <2>4. excused' \subseteq excused \cup {request.q}
    BY <1>6 DEF WriteQuestion
  <2> QED
    BY <2>1, <2>2, <2>3, <2>4 DEF QuestionTypes
<1>7. CASE RetireAll
  BY <1>7 DEF RetireAll, QuestionTypes, QuestionStatus, clientVars
<1>8. CASE JobStep \/ JobFails
  BY <1>8 DEF JobStep, JobFails, FindDue, CloseFound, PurgeAfterJob, EndJob, OnlyJob,
              QuestionTypes, clientVars, questionVars
<1>9. CASE SetExpireAfter \/ Fetch \/ KeepPage \/ UNCHANGED vars
  BY <1>9 DEF SetExpireAfter, Fetch, KeepPage, vars, QuestionTypes, clientVars, questionVars
<1>10. CASE Dies
  <2>1. \A e \in Editor : update[e].attach \subseteq Question
    BY DEF RowTypes, Call
  <2>2. excused' \subseteq Question
    BY <1>10, <2>1 DEF Dies, QuestionTypes
  <2> QED
    BY <1>10, <2>2 DEF Dies, QuestionTypes
<1> QED
  BY <1>1, <1>2, <1>3, <1>4, <1>5, <1>6, <1>7, <1>8, <1>9, <1>10
     DEF Next, UpdateStep, Refuse, ActivateFails, Restart

\* The job, the page, the history and the counters.
LEMMA OtherStep ==
    ASSUME RowTypes, OtherTypes, [Next]_vars
    PROVE  OtherTypes'
<1>1. Shown \in BOOLEAN
  BY DEF Shown
<1>2. ASSUME Fail
      PROVE  errors' \in 0..MaxErrors
  BY <1>2, BoundAssumption DEF Fail, OtherTypes
<1>3. ASSUME Purge \/ PurgeFails
      PROVE  {page', fetch'} \subseteq {"none", "active", "other"} /\ outdated' \in BOOLEAN
  BY <1>3 DEF Purge, PurgeFails, PageMayStay, OtherTypes
<1>4. ASSUME NEW e \in Editor, ReadStored(e)
      PROVE  OtherTypes'
  BY <1>4, BoundAssumption DEF ReadStored, OnlyUpdate, OtherTypes, pageVars, closeVars
<1>5. ASSUME NEW e \in Editor, Validate(e) \/ WriteFails(e) \/ Publish(e) \/ Close(e)
      PROVE  OtherTypes'
  BY <1>5 DEF Validate, WriteFails, Publish, Close, OnlyUpdate, OtherTypes, pageVars,
              closeVars
<1>6. ASSUME NEW e \in Editor, NEW next \in ListingStatus, Write(e, next)
      PROVE  OtherTypes'
  <2>1. {owed', lost', outdated'} \subseteq BOOLEAN
    BY <1>1, <1>6 DEF Write, OtherTypes, PageMayStay
  <2> QED
    BY <1>6, <2>1 DEF Write, OnlyUpdate, OtherTypes
<1>7. ASSUME NEW e \in Editor, EndUpdate(e)
      PROVE  OtherTypes'
  <2>1. errors' \in 0..MaxErrors
    BY <1>2, <1>7 DEF EndUpdate, PurgeFails, OtherTypes
  <2> QED
    BY <1>3, <1>7, <2>1 DEF EndUpdate, OnlyUpdate, OtherTypes, closeVars
<1>8. ASSUME NEW e \in Editor, UpdateFails(e)
      PROVE  OtherTypes'
  BY <1>2, <1>8 DEF UpdateFails, Abandon, OnlyUpdate, OtherTypes, PageMayStay
<1>9. ASSUME NEW q \in Question,
             Activate(q) \/ \E to \in QuestionStatus : ReadQuestion(q, to)
      PROVE  OtherTypes'
  BY <1>9 DEF Activate, ReadQuestion, OtherTypes, clientVars, pageVars, closeVars, counters
<1>10. CASE WriteQuestion \/ RetireAll \/ SetExpireAfter \/ UNCHANGED vars
  BY <1>10 DEF WriteQuestion, RetireAll, SetExpireAfter, vars, OtherTypes, clientVars,
               pageVars, closeVars, counters
<1>11. CASE FindDue \/ CloseFound \/ EndJob
  BY <1>1, <1>11 DEF FindDue, CloseFound, EndJob, OnlyJob, OtherTypes, clientVars, pageVars,
                     closeVars
<1>12. CASE PurgeAfterJob
  <2>1. errors' \in 0..MaxErrors
    BY <1>2, <1>12 DEF PurgeAfterJob, PurgeFails, OtherTypes
  <2> QED
    BY <1>3, <1>12, <2>1 DEF PurgeAfterJob, OnlyJob, OtherTypes, clientVars, closeVars
<1>13. CASE JobFails
  BY <1>2, <1>13 DEF JobFails, OnlyJob, OtherTypes, clientVars, PageMayStay
<1>14. CASE Fetch \/ KeepPage
  BY <1>14 DEF Fetch, KeepPage, OtherTypes, clientVars, closeVars, counters
<1>15. ASSUME Dies, errors' \in 0..MaxErrors
       PROVE  OtherTypes'
  BY <1>15 DEF Dies, OtherTypes
<1>16. CASE Restart
  BY <1>2, <1>15, <1>16 DEF Restart
<1>17. ASSUME (\E e \in Editor : Refuse(e)) \/ (\E q \in Question : ActivateFails(q))
       PROVE  OtherTypes'
  BY <1>15, <1>17 DEF Refuse, ActivateFails, OtherTypes
<1> QED
  BY <1>4, <1>5, <1>6, <1>7, <1>8, <1>9, <1>10, <1>11, <1>12, <1>13, <1>14, <1>16, <1>17
     DEF Next, UpdateStep, JobStep

\* The row and the calls of update.
LEMMA RowStep ==
    ASSUME RowTypes, [Next]_vars
    PROVE  RowTypes'
<1>1. ASSUME NEW e \in Editor, ReadStored(e) \/ UpdateStep(e) \/ UpdateFails(e)
      PROVE  RowTypes'
  BY <1>1, RowUpdate, RowAfter, RowDies DEF UpdateStep, Refuse
<1>2. ASSUME NEW q \in Question,
             Activate(q) \/ \E to \in QuestionStatus : ReadQuestion(q, to)
      PROVE  RowTypes'
  BY <1>2, RowOthers DEF Activate, ReadQuestion, clientVars
<1>3. CASE Restart \/ \E q \in Question : ActivateFails(q)
  BY <1>3, RowDies DEF Restart, ActivateFails
<1>4. CASE WriteQuestion \/ RetireAll \/ SetExpireAfter \/ Fetch \/ KeepPage \/ UNCHANGED vars
  BY <1>4, RowOthers DEF WriteQuestion, RetireAll, SetExpireAfter, Fetch, KeepPage, vars,
                         clientVars
<1>5. CASE JobStep \/ JobFails
  BY <1>5, RowOthers DEF JobStep, JobFails, FindDue, CloseFound, PurgeAfterJob, EndJob,
                         OnlyJob, clientVars
<1> QED
  BY <1>1, <1>2, <1>3, <1>4, <1>5 DEF Next

----------------------------------------------------------------------------
(* The dates fit the status. *)

\* What makes DatesSet inductive: the rows that updates hold were dated, too.
DatesInv ==
    /\ Dated(listing)
    /\ ReadDated

\* The row an update writes has the dates of its status, if the one it read had.
LEMMA NewRowDated ==
    ASSUME NEW u \in Call, NEW next \in ListingStatus, Dated(u.stored)
    PROVE  Dated(NewRow(u, next))
BY DEF NewRow, Dated, ListingStatus

\* Every step keeps the dates, of the row and of those that were read.
LEMMA DatesStep ==
    ASSUME RowTypes, DatesInv, [Next]_vars
    PROVE  DatesInv'
<1>1. ASSUME NEW e \in Editor, ReadStored(e)
      PROVE  DatesInv'
  <2> DEFINE c == [AtRest EXCEPT !.pc = "read", !.stored = listing]
  <2>1. c.stored = listing
    BY DEF AtRest
  <2>2. update' = [update EXCEPT ![e] = c] /\ UNCHANGED listing
    BY <1>1 DEF ReadStored
  <2> HIDE DEF c
  <2> QED
    BY <2>1, <2>2 DEF DatesInv, ReadDated, Dated, RowTypes
<1>2. ASSUME NEW e \in Editor, Validate(e)
      PROVE  DatesInv'
  <2>1. PICK attach \in SUBSET Question :
            \/ update' = [update EXCEPT ![e] = [@ EXCEPT !.pc = "valid", !.attach = attach]]
            \/ update' = [update EXCEPT ![e] = AtRest]
    BY <1>2 DEF Validate
  <2> DEFINE c == [update[e] EXCEPT !.pc = "valid", !.attach = attach]
  <2>2. update[e] \in Call /\ update[e].pc = "read"
    BY <1>2 DEF Validate, RowTypes
  <2>3. c.stored = update[e].stored
    BY <2>2 DEF Call
  <2>4. \/ update' = [update EXCEPT ![e] = c]
        \/ update' = [update EXCEPT ![e] = AtRest]
    BY <2>1
  <2>5. UNCHANGED listing
    BY <1>2 DEF Validate
  <2> HIDE DEF c
  <2> QED
    BY <2>2, <2>3, <2>4, <2>5, RestTyped DEF DatesInv, ReadDated, Dated, RowTypes
<1>3. ASSUME NEW e \in Editor, NEW next \in ListingStatus, Write(e, next)
      PROVE  DatesInv'
  <2>1. update[e] \in Call /\ Dated(update[e].stored)
    BY <1>3 DEF Write, DatesInv, ReadDated, RowTypes
  <2>2. Dated(listing')
    BY <1>3, <2>1, NewRowDated DEF Write
  <2>3. \A d \in Editor \ {e} : update'[d] = update[d]
    BY <1>3 DEF Write, RowTypes
  <2>4. update'[e].pc \notin {"read", "valid"}
    <3> DEFINE c == [AtRest EXCEPT !.pc = After(update[e], next),
                         !.attach = {q \in update[e].attach : next = "active" /\ msq[q] = "visible"}]
    <3>1. c.pc = After(update[e], next)
      BY DEF AtRest
    <3>2. update' = [update EXCEPT ![e] = c]
      BY <1>3 DEF Write
    <3>3. After(update[e], next) \notin {"read", "valid"}
      BY DEF After
    <3> HIDE DEF c
    <3> QED
      BY <3>1, <3>2, <3>3 DEF RowTypes
  <2> QED
    BY <2>2, <2>3, <2>4 DEF DatesInv, ReadDated
<1>4. ASSUME NEW e \in Editor,
             WriteFails(e) \/ Publish(e) \/ Close(e) \/ EndUpdate(e) \/ UpdateFails(e)
      PROVE  DatesInv'
  <2>1. UNCHANGED listing
    BY <1>4 DEF WriteFails, Publish, Close, EndUpdate, UpdateFails
  <2>2. \A d \in Editor \ {e} : update'[d] = update[d]
    BY <1>4 DEF WriteFails, Publish, Close, EndUpdate, UpdateFails, Goes, RowTypes
  <2>3. update'[e].pc \in {"rest", "purge"}
    BY <1>4 DEF WriteFails, Publish, Close, EndUpdate, UpdateFails, Goes, RowTypes, Call, AtRest
  <2> QED
    BY <2>1, <2>2, <2>3 DEF DatesInv, ReadDated
<1>5. CASE Dies
  BY <1>5, RestTyped DEF Dies, DatesInv, ReadDated, RowTypes
<1>6. CASE CloseFound
  BY <1>6 DEF CloseFound, OnlyJob, clientVars, DatesInv, ReadDated, Dated, RowTypes, Row
<1>7. ASSUME UNCHANGED <<listing, update>>
      PROVE  DatesInv'
  BY <1>7 DEF DatesInv, ReadDated
<1>8. CASE FindDue \/ PurgeAfterJob \/ EndJob \/ JobFails
  BY <1>7, <1>8 DEF FindDue, PurgeAfterJob, EndJob, JobFails, OnlyJob, clientVars
<1>9. CASE WriteQuestion \/ RetireAll \/ SetExpireAfter \/ Fetch \/ KeepPage \/ UNCHANGED vars
  BY <1>7, <1>9 DEF WriteQuestion, RetireAll, SetExpireAfter, Fetch, KeepPage, vars,
                    clientVars
<1>10. ASSUME NEW q \in Question,
              Activate(q) \/ \E to \in QuestionStatus : ReadQuestion(q, to)
       PROVE  DatesInv'
  BY <1>7, <1>10 DEF Activate, ReadQuestion, clientVars
<1> QED
  BY <1>1, <1>2, <1>3, <1>4, <1>5, <1>6, <1>8, <1>9, <1>10
     DEF Next, UpdateStep, JobStep, Refuse, ActivateFails, Restart

\* The first states are dated.
LEMMA DatesInit == Init => DatesInv
<1> SUFFICES ASSUME Init PROVE DatesInv
  OBVIOUS
<1>1. PICK status \in ListingStatus, attached \in SUBSET Question :
          listing = [status |-> status, published |-> status # "pending",
                     closedAt |-> status = "closed", attached |-> attached]
  BY DEF Init
<1>2. Dated(listing)
  BY <1>1 DEF Dated
<1>3. ASSUME NEW e \in Editor PROVE update[e].pc = "rest" /\ update[e].stored = None
  BY RestTyped DEF Init
<1> QED
  BY <1>2, <1>3 DEF DatesInv, ReadDated

\* Type correctness of the listing, its updates, its questions and the page, and the
\* dates of the rows that updates have read.
THEOREM Types == Spec => []TypeOK
<1>1. Init => TypeOK /\ DatesInv
  BY TypeInit, DatesInit
<1>2. TypeOK /\ DatesInv /\ [Next]_vars => TypeOK' /\ DatesInv'
  <2> SUFFICES ASSUME TypeOK, DatesInv, [Next]_vars PROVE TypeOK' /\ DatesInv'
    OBVIOUS
  <2>1. RowTypes /\ QuestionTypes /\ OtherTypes
    BY Parts
  <2>2. RowTypes' /\ QuestionTypes' /\ OtherTypes'
    BY <2>1, RowStep, QuestionStep, OtherStep
  <2>3. DatesInv'
    BY <2>1, DatesStep
  <2>4. ReadDated'
    BY <2>3 DEF DatesInv
  <2> QED
    BY <2>2, <2>3, <2>4
       DEF TypeOK, RowTypes, QuestionTypes, OtherTypes, ReadDated, Call, Request
<1> QED
  BY <1>1, <1>2, PTL DEF Spec

\* A published listing has the date of its publication, a closed one that of its
\* closing, whatever rows the updates that overlap had read (update, closeListings).
THEOREM Dates == Spec => []DatesSet
<1>1. Init => DatesInv
  BY DatesInit
<1>2. TypeOK /\ DatesInv /\ [Next]_vars => DatesInv'
  BY Parts, DatesStep
<1>3. DatesInv => DatesSet
  BY DEF DatesInv, Dated, DatesSet
<1> QED
  BY <1>1, <1>2, <1>3, Types, PTL DEF Spec
----------------------------------------------------------------------------
(* What a closing owes. *)

\* Somebody is about to set the expiry of the applications.
Setting == expiring \/ job \in {"written", "purged"} \/ \E e \in Editor : update[e].pc = "close"

\* What makes ClosingTakesEffect inductive: only a closed listing owes anything, and
\* until it is lost somebody is at it.
CloseInv ==
    /\ owed => listing.status = "closed"
    /\ owed => lost \/ Setting

\* An update writes the row and what is owed, or leaves both alone.
LEMMA UpdateOwes ==
    ASSUME RowTypes, CloseInv, NEW e \in Editor, NEW next \in ListingStatus, Write(e, next)
    PROVE  CloseInv'
<1> DEFINE u == update[e]
           c == [AtRest EXCEPT !.pc = After(u, next),
                     !.attach = {q \in u.attach : next = "active" /\ msq[q] = "visible"}]
<1>1. update' = [update EXCEPT ![e] = c] /\ c.pc = After(u, next)
  BY DEF Write, AtRest
<1>2. /\ owed' = (next = "closed" /\ (owed \/ Shown))
      /\ lost' = (next = "closed" /\ IF Shown THEN u.stored.status # "active" ELSE lost)
      /\ UNCHANGED <<job, expiring>> /\ u.pc = "valid"
  BY DEF Write, OnlyUpdate
<1>3. listing'.status = next
  BY DEF Write, NewRow
<1>4. \A d \in Editor \ {e} : update'[d] = update[d]
  BY <1>1 DEF RowTypes
<1>5. update'[e].pc = After(u, next)
  BY <1>1 DEF RowTypes
<1>6. ASSUME owed' PROVE lost' \/ Setting'
  <2>1. CASE Shown /\ u.stored.status = "active"
    BY <1>2, <1>5, <1>6, <2>1 DEF After, Setting
  <2>2. CASE Shown /\ u.stored.status # "active"
    BY <1>2, <1>6, <2>2
  <2>3. CASE ~Shown
    <3>1. lost \/ Setting
      BY <1>2, <1>6, <2>3 DEF CloseInv
    <3>2. Setting => Setting'
      BY <1>2, <1>4 DEF Setting
    <3> QED
      BY <1>2, <1>6, <2>3, <3>1, <3>2
  <2> QED
    BY <2>1, <2>2, <2>3
<1> QED
  BY <1>2, <1>3, <1>6 DEF CloseInv

\* Each step keeps what is owed in somebody's hands, or loses it.
LEMMA CloseStep ==
    ASSUME RowTypes, CloseInv, [Next]_vars
    PROVE  CloseInv'
<1>1. ASSUME NEW e \in Editor,
             ReadStored(e) \/ Validate(e) \/ WriteFails(e) \/ Publish(e) \/ EndUpdate(e)
      PROVE  CloseInv'
  <2>1. UNCHANGED <<listing, owed, lost, expiring, job>> /\ update[e].pc # "close"
    BY <1>1 DEF ReadStored, Validate, WriteFails, Publish, EndUpdate, closeVars, OnlyUpdate
  <2>2. \A d \in Editor \ {e} : update'[d] = update[d]
    BY <1>1 DEF ReadStored, Validate, WriteFails, Publish, EndUpdate, RowTypes
  <2>3. Setting => Setting'
    BY <2>1, <2>2 DEF Setting
  <2> QED
    BY <2>1, <2>3 DEF CloseInv
<1>2. ASSUME NEW e \in Editor, Close(e)
      PROVE  CloseInv'
  BY <1>2 DEF Close, CloseInv, Setting, closeVars
<1>3. ASSUME NEW e \in Editor, UpdateFails(e)
      PROVE  CloseInv'
  <2>1. /\ UNCHANGED <<listing, owed, expiring, job>>
        /\ lost' = (lost \/ (owed /\ update[e].pc = "close"))
    BY <1>3 DEF UpdateFails, Abandon, OnlyUpdate
  <2>2. \A d \in Editor \ {e} : update'[d] = update[d]
    BY <1>3 DEF UpdateFails, RowTypes
  <2>3. update[e].pc # "close" /\ Setting => Setting'
    BY <2>1, <2>2 DEF Setting
  <2> QED
    BY <2>1, <2>3 DEF CloseInv
<1>4. CASE Dies
  BY <1>4 DEF Dies, CloseInv
<1>5. CASE SetExpireAfter \/ EndJob
  BY <1>5 DEF SetExpireAfter, EndJob, CloseInv
<1>6. CASE CloseFound
  BY <1>6 DEF CloseFound, CloseInv, Setting, RowTypes, Row
<1>7. CASE FindDue \/ PurgeAfterJob
  BY <1>7 DEF FindDue, PurgeAfterJob, OnlyJob, clientVars, closeVars, CloseInv, Setting
<1>8. CASE JobFails
  BY <1>8 DEF JobFails, CloseInv
<1>9. ASSUME UNCHANGED <<listing, update, expiring, job, closeVars>>
      PROVE  CloseInv'
  BY <1>9 DEF CloseInv, Setting, closeVars
<1>10. CASE WriteQuestion \/ RetireAll \/ Fetch \/ KeepPage \/ UNCHANGED vars
  BY <1>9, <1>10 DEF WriteQuestion, RetireAll, Fetch, KeepPage, vars, clientVars
<1>11. ASSUME NEW q \in Question,
              Activate(q) \/ \E to \in QuestionStatus : ReadQuestion(q, to)
       PROVE  CloseInv'
  BY <1>9, <1>11 DEF Activate, ReadQuestion, clientVars
<1> QED
  BY <1>1, <1>2, <1>3, <1>4, <1>5, <1>6, <1>7, <1>8, <1>10, <1>11, UpdateOwes
     DEF Next, UpdateStep, JobStep, Refuse, ActivateFails, Restart

\* A closing takes effect, by update or by the job, whatever overlaps: once nobody is
\* at work the expiry of the applications is set, or a failure lost it, or an update
\* that had read another status (update, closeListings).
THEOREM ClosingIsDone == Spec => []ClosingTakesEffect
<1>1. Init => CloseInv
  BY DEF Init, CloseInv
<1>2. TypeOK /\ CloseInv /\ [Next]_vars => CloseInv'
  BY Parts, CloseStep
<1>3. CloseInv => ClosingTakesEffect
  BY DEF CloseInv, Setting, ClosingTakesEffect, AtWork, Writing
<1> QED
  BY <1>1, <1>2, <1>3, Types, PTL DEF Spec

----------------------------------------------------------------------------
(* The page of listings. *)

\* Somebody is about to purge the page.
Purging == job = "written" \/ \E e \in Editor : update[e].pc \in Writing

\* What makes PageCurrent inductive: the page on its way is current as well.
PageInv ==
    ~outdated /\ ~Purging => \A p \in {page, fetch} \ {"none"} : (p = "active") = Shown

\* A write that changes what the page should show purges it, or leaves it outdated.
LEMMA UpdateOutdates ==
    ASSUME RowTypes, OtherTypes, PageInv,
           NEW e \in Editor, NEW next \in ListingStatus, Write(e, next)
    PROVE  PageInv'
<1> DEFINE u == update[e]
           c == [AtRest EXCEPT !.pc = After(u, next),
                     !.attach = {q \in u.attach : next = "active" /\ msq[q] = "visible"}]
<1>1. update' = [update EXCEPT ![e] = c] /\ c.pc = After(u, next)
  BY DEF Write, AtRest
<1>2. /\ outdated' = (outdated \/ (/\ Shown /\ u.stored.status # "active"
                                   /\ next = "pending" /\ PageMayStay))
      /\ UNCHANGED <<job, page, fetch>> /\ u.pc = "valid"
  BY DEF Write, OnlyUpdate
<1>3. listing'.status = next
  BY DEF Write, NewRow
<1>4. \A d \in Editor \ {e} : update'[d] = update[d]
  BY <1>1 DEF RowTypes
<1>5. update'[e].pc = After(u, next)
  BY <1>1 DEF RowTypes
<1>6. CASE After(u, next) = "rest"
  <2>1. next = "pending" /\ u.stored.status # "active"
    BY <1>6 DEF After, PurgesAll
  <2>2. ~Shown'
    BY <1>3, <2>1 DEF Shown
  <2>3. Purging => Purging'
    BY <1>2, <1>4 DEF Purging, Writing
  <2>4. CASE Shown
    <3>1. outdated' \/ (page' = "none" /\ fetch' = "none")
      BY <1>2, <2>1, <2>4 DEF PageMayStay
    <3> QED
      BY <3>1 DEF PageInv
  <2>5. CASE ~Shown
    <3>1. Shown' = Shown
      BY <2>2, <2>5 DEF Shown
    <3> QED
      BY <1>2, <2>3, <2>5, <3>1 DEF PageInv
  <2> QED
    BY <2>4, <2>5
<1>7. CASE After(u, next) # "rest"
  <2>1. After(u, next) \in Writing
    BY <1>7 DEF After, Writing
  <2> QED
    BY <1>5, <2>1 DEF PageInv, Purging
<1> QED
  BY <1>6, <1>7

\* A purge leaves no page, and knows of the one on its way.
LEMMA PurgeKeeps == ASSUME Purge \/ PurgeFails PROVE PageInv'
BY DEF Purge, PurgeFails, PageInv, PageMayStay

\* Each step keeps the page and the one on its way current, or knows they are not.
LEMMA PageStep ==
    ASSUME RowTypes, OtherTypes, PageInv, [Next]_vars
    PROVE  PageInv'
<1>1. ASSUME NEW e \in Editor,
             ReadStored(e) \/ Validate(e) \/ WriteFails(e)
      PROVE  PageInv'
  <2>1. UNCHANGED <<listing, job, page, fetch, outdated>> /\ update[e].pc \notin Writing
    BY <1>1 DEF ReadStored, Validate, WriteFails, OnlyUpdate, pageVars, Writing
  <2>2. \A d \in Editor \ {e} : update'[d] = update[d]
    BY <1>1 DEF ReadStored, Validate, WriteFails, RowTypes
  <2>3. Purging => Purging'
    BY <2>1, <2>2 DEF Purging
  <2> QED
    BY <2>1, <2>3 DEF PageInv, Shown
<1>2. ASSUME NEW e \in Editor, Publish(e) \/ Close(e)
      PROVE  PageInv'
  <2>1. UNCHANGED <<listing, job, page, fetch, outdated>>
    BY <1>2 DEF Publish, Close, OnlyUpdate, pageVars
  <2>2. update'[e].pc = "purge"
    BY <1>2 DEF Publish, Close, Goes, RowTypes, Call, AtRest
  <2> QED
    BY <2>2 DEF PageInv, Purging, Writing
<1>3. ASSUME NEW e \in Editor, EndUpdate(e)
      PROVE  PageInv'
  BY <1>3, PurgeKeeps DEF EndUpdate
<1>4. ASSUME NEW e \in Editor, UpdateFails(e)
      PROVE  PageInv'
  <2>1. outdated' \/ (page' = "none" /\ fetch' = "none")
    BY <1>4 DEF UpdateFails, Abandon, PageMayStay
  <2> QED
    BY <2>1 DEF PageInv
<1>5. CASE Dies
  BY <1>5 DEF Dies, PageInv, Purging, Shown
<1>6. CASE CloseFound
  BY <1>6 DEF CloseFound, PageInv, Purging
<1>7. CASE PurgeAfterJob
  BY <1>7, PurgeKeeps DEF PurgeAfterJob
<1>8. CASE JobFails
  BY <1>8 DEF JobFails, OnlyJob, clientVars, PageInv, Purging, PageMayStay, Shown
<1>9. CASE FindDue \/ EndJob
  BY <1>9 DEF FindDue, EndJob, OnlyJob, clientVars, pageVars, PageInv, Purging, Shown
<1>10. CASE Fetch \/ KeepPage
  BY <1>10 DEF Fetch, KeepPage, clientVars, PageInv, Purging, Shown
<1>11. ASSUME UNCHANGED <<listing, update, job, pageVars>>
       PROVE  PageInv'
  BY <1>11 DEF PageInv, Purging, Shown, pageVars
<1>12. CASE WriteQuestion \/ RetireAll \/ SetExpireAfter \/ UNCHANGED vars
  BY <1>11, <1>12 DEF WriteQuestion, RetireAll, SetExpireAfter, vars, clientVars
<1>13. ASSUME NEW q \in Question,
              Activate(q) \/ \E to \in QuestionStatus : ReadQuestion(q, to)
       PROVE  PageInv'
  BY <1>11, <1>13 DEF Activate, ReadQuestion, clientVars
<1> QED
  BY <1>1, <1>2, <1>3, <1>4, <1>5, <1>6, <1>7, <1>8, <1>9, <1>10, <1>12, <1>13, UpdateOutdates
     DEF Next, UpdateStep, JobStep, Refuse, ActivateFails, Restart

\* The cached page shows the listing as it is once the updates are done, unless a
\* purge was lost, left out or crossed by the page on its way (cachePurge).
THEOREM PageIsCurrent == Spec => []PageCurrent
<1>1. Init => PageInv
  BY DEF Init, PageInv
<1>2. TypeOK /\ PageInv /\ [Next]_vars => PageInv'
  BY Parts, PageStep
<1>3. PageInv => PageCurrent
  BY DEF PageInv, Purging, PageCurrent, AtWork
<1> QED
  BY <1>1, <1>2, <1>3, Types, PTL DEF Spec
----------------------------------------------------------------------------
(* Questions: the requests on them, and those of a published listing. *)

\* What a request is about to write was allowed for what it read.
RequestAllowed == request # None => Allowed(request.seen, request.to, request.attached)

\* A request is checked when it reads, and not changed after.
LEMMA RequestStep ==
    ASSUME RequestAllowed, [Next]_vars
    PROVE  RequestAllowed'
<1>1. ASSUME NEW q \in Question, NEW to \in QuestionStatus, ReadQuestion(q, to)
      PROVE  RequestAllowed'
  BY <1>1 DEF ReadQuestion, RequestAllowed
<1>2. CASE WriteQuestion \/ Dies
  BY <1>2 DEF WriteQuestion, Dies, RequestAllowed
<1>3. ASSUME UNCHANGED request
      PROVE  RequestAllowed'
  BY <1>3 DEF RequestAllowed
<1>4. ASSUME NEW e \in Editor,
             \/ ReadStored(e) \/ Validate(e) \/ WriteFails(e) \/ Publish(e) \/ Close(e)
             \/ EndUpdate(e) \/ UpdateFails(e) \/ \E next \in ListingStatus : Write(e, next)
      PROVE  RequestAllowed'
  BY <1>3, <1>4 DEF ReadStored, Validate, WriteFails, Publish, Close, EndUpdate,
                    UpdateFails, Write, OnlyUpdate, questionVars
<1>5. CASE FindDue \/ CloseFound \/ PurgeAfterJob \/ EndJob \/ JobFails
  BY <1>3, <1>5 DEF FindDue, CloseFound, PurgeAfterJob, EndJob, JobFails, OnlyJob,
                    questionVars
<1>6. CASE RetireAll \/ SetExpireAfter \/ Fetch \/ KeepPage \/ UNCHANGED vars
  BY <1>3, <1>6 DEF RetireAll, SetExpireAfter, Fetch, KeepPage, questionVars, vars
<1>7. ASSUME NEW q \in Question, Activate(q)
      PROVE  RequestAllowed'
  BY <1>3, <1>7 DEF Activate
<1> QED
  BY <1>1, <1>2, <1>4, <1>5, <1>6, <1>7
     DEF Next, UpdateStep, JobStep, Refuse, ActivateFails, Restart

\* What requests hold in memory is as they were checked.
LEMMA Requests == Spec => []RequestAllowed
<1>1. Init => RequestAllowed
  BY DEF Init, RequestAllowed
<1>2. RequestAllowed /\ [Next]_vars => RequestAllowed'
  BY RequestStep
<1> QED
  BY <1>1, <1>2, PTL DEF Spec

\* The moves of QuestionMoves.
MayMove(q) ==
    \/ <<msq[q], msq'[q]>> \in
          {<<"draft", "visible">>, <<"visible", "active">>, <<"active", "toRetire">>,
           <<"toRetire", "active">>, <<"draft", "deleted">>}
    \/ msq[q] = "visible" /\ msq'[q] \in {"draft", "deleted"} /\ ~Attached(q)
    \/ msq[q] \in {"active", "toRetire"} /\ msq'[q] = "retired" /\ Unused(q)
    \/ MovedUnseen(q)

\* A request moves its question as it may, or has been overtaken.
LEMMA RequestMoves ==
    ASSUME TypeOK, RequestAllowed, WriteQuestion, NEW q \in Question, msq'[q] # msq[q]
    PROVE  MayMove(q)
<1>1. /\ request # None /\ request' = None /\ request.q = q /\ msq'[q] = request.to
      /\ msq[q] # "deleted" /\ (request.to = "deleted" => ~Attached(q))
  BY DEF WriteQuestion, TypeOK
<1>2. Allowed(request.seen, request.to, request.attached)
  BY <1>1 DEF RequestAllowed
<1>3. CASE Overtaken(request)
  BY <1>1, <1>3 DEF MayMove, MovedUnseen
<1>4. CASE ~Overtaken(request)
  <2>1. /\ request.seen = msq[q] /\ request.attached = Attached(q)
        /\ request.to = "retired" => Unused(q)
    BY <1>1, <1>4 DEF Overtaken
  <2>2. Allowed(msq[q], msq'[q], Attached(q))
    BY <1>1, <1>2, <2>1
  <2> QED
    BY <1>1, <2>1, <2>2 DEF Allowed, MayMove
<1> QED
  BY <1>3, <1>4

\* Only three things move a question, and each as it may.
LEMMA Moves ==
    ASSUME TypeOK, RequestAllowed, [Next]_vars, NEW q \in Question, msq'[q] # msq[q]
    PROVE  MayMove(q)
<1>1. CASE WriteQuestion
  BY <1>1, RequestMoves
<1>2. CASE RetireAll
  BY <1>2 DEF RetireAll, Retirable, MayMove, TypeOK
<1>3. ASSUME NEW r \in Question, Activate(r)
      PROVE  MayMove(q)
  <2>1. q = r /\ msq'[q] = "active" /\ q \in activating \ activating'
    BY <1>3 DEF Activate, TypeOK
  <2> QED
    BY <2>1 DEF MayMove, MovedUnseen
<1>4. ASSUME NEW e \in Editor,
             \/ ReadStored(e) \/ Validate(e) \/ WriteFails(e) \/ Publish(e) \/ Close(e)
             \/ EndUpdate(e) \/ UpdateFails(e) \/ \E next \in ListingStatus : Write(e, next)
      PROVE  UNCHANGED msq
  BY <1>4 DEF ReadStored, Validate, WriteFails, Publish, Close, EndUpdate, UpdateFails, Write,
              OnlyUpdate, questionVars
<1>5. CASE FindDue \/ CloseFound \/ PurgeAfterJob \/ EndJob \/ JobFails
  BY <1>5 DEF FindDue, CloseFound, PurgeAfterJob, EndJob, JobFails, OnlyJob, questionVars
<1>6. CASE SetExpireAfter \/ Fetch \/ KeepPage \/ Dies \/ UNCHANGED vars
  BY <1>6 DEF SetExpireAfter, Fetch, KeepPage, Dies, questionVars, vars
<1>7. ASSUME NEW r \in Question, NEW to \in QuestionStatus, ReadQuestion(r, to)
      PROVE  UNCHANGED msq
  BY <1>7 DEF ReadQuestion
<1> QED
  BY <1>1, <1>2, <1>3, <1>4, <1>5, <1>6, <1>7
     DEF Next, UpdateStep, JobStep, Refuse, ActivateFails, Restart

\* A question moves only as the table of the service allows for the status and the
\* place it has, unless its writer was overtaken (validateStatusStateTransition).
THEOREM MovesAllowed == Spec => QuestionMoves
<1>1. TypeOK /\ RequestAllowed /\ [Next]_vars =>
          [\A q \in Question : msq'[q] # msq[q] => MayMove(q)]_vars
  BY Moves
<1>2. [][\A q \in Question : msq'[q] # msq[q] => MayMove(q)]_vars => QuestionMoves
  BY DEF MayMove, QuestionMoves
<1> QED
  BY <1>1, <1>2, Types, Requests, PTL DEF Spec

----------------------------------------------------------------------------
(* The questions of a published listing. *)

InUse(q) == msq[q] \in {"active", "toRetire"}

\* activateMany has q before it, now or when the update that wrote the listing goes on.
Activating(q) ==
    q \in activating \/ \E e \in Editor : update[e].pc = "publish" /\ q \in update[e].attach

\* What makes PublishedInUse inductive: a question that is not in use yet is on its way.
UseInv ==
    Shown => \A q \in listing.attached : InUse(q) \/ q \in excused \/ Activating(q)

\* The write that publishes leaves the questions that are not in use to activateMany.
LEMMA UpdateActivates ==
    ASSUME RowTypes, QuestionTypes, NEW e \in Editor, NEW next \in ListingStatus, Write(e, next)
    PROVE  UseInv'
<1> DEFINE u == update[e]
           c == [AtRest EXCEPT !.pc = After(u, next),
                     !.attach = {q \in u.attach : next = "active" /\ msq[q] = "visible"}]
<1>1. /\ update' = [update EXCEPT ![e] = c] /\ c.pc = After(u, next)
      /\ c.attach = {q \in u.attach : next = "active" /\ msq[q] = "visible"}
  BY DEF Write, AtRest
<1>2. /\ listing'.status = next /\ listing'.attached = u.attach /\ UNCHANGED msq
      /\ \A q \in u.attach : msq[q] # "deleted"
      /\ excused' = IF After(u, next) = "refuse"
                    THEN {q \in u.attach : msq[q] \notin {"active", "toRetire"}} ELSE {}
  BY DEF Write, NewRow, OnlyUpdate, questionVars
<1>3. update'[e] = c /\ u.attach \subseteq Question
  BY <1>1 DEF RowTypes, Call
<1>4. SUFFICES ASSUME next = "active", NEW q \in u.attach
               PROVE  (InUse(q) \/ q \in excused \/ Activating(q))'
  BY <1>2 DEF UseInv, Shown
<1>5. CASE Refused(u.attach)
  <2>1. After(u, next) = "refuse"
    BY <1>4, <1>5 DEF After
  <2> QED
    BY <1>2, <2>1 DEF InUse
<1>6. CASE ~Refused(u.attach)
  <2>1. After(u, next) = "publish"
    BY <1>4, <1>6 DEF After
  <2>2. msq[q] \in {"visible", "active", "toRetire"}
    BY <1>2, <1>3, <1>6 DEF Refused, QuestionTypes, QuestionStatus
  <2>3. msq[q] = "visible" => Activating(q)'
    BY <1>1, <1>3, <1>4, <2>1 DEF Activating
  <2> QED
    BY <1>2, <2>2, <2>3 DEF InUse
<1> QED
  BY <1>5, <1>6

\* A request takes no question out of use under a published listing, unless it has
\* been overtaken.
LEMMA RequestKeepsUse ==
    ASSUME RowTypes, QuestionTypes, RequestAllowed, UseInv, WriteQuestion
    PROVE  UseInv'
<1>1. UNCHANGED <<listing, update, activating>>
  BY DEF WriteQuestion, clientVars
<1>2. SUFFICES ASSUME Shown, NEW q \in listing.attached
               PROVE  (InUse(q) \/ q \in excused \/ Activating(q))'
  BY <1>1 DEF UseInv, Shown
<1>3. Activating(q) => Activating(q)'
  BY <1>1 DEF Activating
<1> DEFINE done == msq[request.q] # "deleted" /\ (request.to = "deleted" => ~Attached(request.q))
<1>4. CASE request.q = q /\ done
  <2>1. /\ msq' = [msq EXCEPT ![q] = request.to]
        /\ excused' = IF request.to \in {"active", "toRetire"} THEN excused \ {q}
                      ELSE IF Overtaken(request) THEN excused \cup {q} ELSE excused
        /\ q \in Question /\ Allowed(request.seen, request.to, request.attached)
        /\ request.to = "deleted" => ~Attached(q)
    BY <1>4 DEF WriteQuestion, QuestionTypes, Request, RequestAllowed
  <2>2. Attached(q) /\ ~Unused(q)
    BY <1>2 DEF Attached, Unused, Shown
  <2>3. CASE request.to \in {"active", "toRetire"}
    BY <2>1, <2>3 DEF InUse, QuestionTypes
  <2>4. CASE Overtaken(request) /\ request.to \notin {"active", "toRetire"}
    BY <2>1, <2>4
  <2>5. CASE ~Overtaken(request) /\ request.to \notin {"active", "toRetire"}
    <3>1. msq[q] = request.seen /\ request.to # "retired" /\ excused' = excused
      BY <1>4, <2>1, <2>2, <2>5 DEF Overtaken
    <3>2. ~InUse(q)
      BY <2>1, <2>5, <3>1 DEF Allowed, InUse
    <3> QED
      BY <1>2, <1>3, <3>1, <3>2 DEF UseInv
  <2> QED
    BY <2>3, <2>4, <2>5
<1>5. CASE msq'[q] = msq[q] /\ (q \in excused => q \in excused')
  BY <1>2, <1>3, <1>5 DEF UseInv, InUse
<1>6. CASE ~(request.q = q /\ done)
  <2>1. CASE ~done
    BY <1>5, <2>1 DEF WriteQuestion
  <2>2. CASE done
    <3>1. request.q # q /\ q \in Question
      BY <1>2, <1>6, <2>2 DEF RowTypes, Row
    <3>2. msq' = [msq EXCEPT ![request.q] = request.to]
      BY <2>2 DEF WriteQuestion
    <3>3. excused' \in {excused, excused \ {request.q}, excused \cup {request.q}}
      BY <2>2 DEF WriteQuestion
    <3> QED
      BY <1>5, <3>1, <3>2, <3>3 DEF QuestionTypes
  <2> QED
    BY <2>1, <2>2
<1> QED
  BY <1>4, <1>6

\* Each step keeps the questions of a published listing in use or on their way.
LEMMA UseStep ==
    ASSUME TypeOK, RequestAllowed, UseInv, [Next]_vars
    PROVE  UseInv'
<1> USE Parts
<1>1. ASSUME NEW e \in Editor,
             ReadStored(e) \/ Validate(e) \/ WriteFails(e) \/ Close(e) \/ EndUpdate(e)
      PROVE  UseInv'
  <2>1. UNCHANGED <<listing, msq, activating, excused>> /\ update[e].pc # "publish"
    BY <1>1 DEF ReadStored, Validate, WriteFails, Close, EndUpdate, OnlyUpdate, questionVars
  <2>2. \A d \in Editor \ {e} : update'[d] = update[d]
    BY <1>1 DEF ReadStored, Validate, WriteFails, Close, EndUpdate, Goes, RowTypes
  <2>3. \A q \in Question : Activating(q) => Activating(q)'
    BY <2>1, <2>2 DEF Activating
  <2> QED
    BY <2>1, <2>3 DEF UseInv, InUse, Shown, RowTypes, Row
<1>2. ASSUME NEW e \in Editor, Publish(e)
      PROVE  UseInv'
  <2>1. UNCHANGED <<listing, msq, excused>> /\ activating' = activating \cup update[e].attach
    BY <1>2 DEF Publish, OnlyUpdate, questionVars
  <2>2. \A d \in Editor \ {e} : update'[d] = update[d]
    BY <1>2 DEF Publish, RowTypes
  <2>3. \A q \in Question : Activating(q) => Activating(q)'
    BY <2>1, <2>2 DEF Activating
  <2> QED
    BY <2>1, <2>3 DEF UseInv, InUse, Shown, RowTypes, Row
<1>3. ASSUME NEW e \in Editor, UpdateFails(e)
      PROVE  UseInv'
  <2>1. UNCHANGED <<listing, msq, activating>> /\ excused' = excused \cup update[e].attach
    BY <1>3 DEF UpdateFails, Abandon, OnlyUpdate, questionVars
  <2>2. \A d \in Editor \ {e} : update'[d] = update[d]
    BY <1>3 DEF UpdateFails, RowTypes
  <2>3. \A q \in Question : Activating(q) => Activating(q)' \/ q \in excused'
    BY <2>1, <2>2 DEF Activating
  <2> QED
    BY <2>1, <2>3 DEF UseInv, InUse, Shown, RowTypes, Row
<1>4. CASE Dies
  <2>1. /\ UNCHANGED <<listing, msq>>
        /\ \A q \in Question : Activating(q) \/ q \in excused => q \in excused'
    BY <1>4 DEF Dies, Activating, Writing
  <2> QED
    BY <2>1 DEF UseInv, InUse, Shown, RowTypes, Row
<1>5. ASSUME NEW r \in Question, Activate(r)
      PROVE  UseInv'
  <2>1. /\ UNCHANGED <<listing, update>> /\ msq' = [msq EXCEPT ![r] = "active"]
        /\ activating' = activating \ {r} /\ excused' = excused \ {r}
    BY <1>5 DEF Activate
  <2>2. \A q \in Question \ {r} : Activating(q) => Activating(q)'
    BY <2>1 DEF Activating
  <2>3. InUse(r)' /\ \A q \in Question \ {r} : InUse(q) => InUse(q)'
    BY <2>1 DEF InUse, QuestionTypes
  <2> QED
    BY <2>1, <2>2, <2>3 DEF UseInv, Shown, RowTypes, Row
<1>6. CASE RetireAll
  <2>1. /\ UNCHANGED <<listing, update, activating, excused>>
        /\ \A q \in Question : Unused(q) \/ msq'[q] = msq[q]
    BY <1>6 DEF RetireAll, Retirable, clientVars
  <2>2. Shown => \A q \in listing.attached : ~Unused(q)
    BY DEF Shown, Unused, Attached
  <2>3. \A q \in Question : Activating(q) => Activating(q)'
    BY <2>1 DEF Activating
  <2> QED
    BY <2>1, <2>2, <2>3 DEF UseInv, InUse, Shown, RowTypes, Row
<1>7. CASE CloseFound
  BY <1>7 DEF CloseFound, UseInv, Shown, RowTypes, Row
<1>8. ASSUME UNCHANGED <<listing, update, activating, msq, excused>>
      PROVE  UseInv'
  BY <1>8 DEF UseInv, InUse, Activating, Shown
<1>9. CASE FindDue \/ PurgeAfterJob \/ EndJob \/ JobFails
  BY <1>8, <1>9 DEF FindDue, PurgeAfterJob, EndJob, JobFails, OnlyJob, clientVars, questionVars
<1>10. CASE SetExpireAfter \/ Fetch \/ KeepPage \/ UNCHANGED vars
  BY <1>8, <1>10 DEF SetExpireAfter, Fetch, KeepPage, vars, clientVars, questionVars
<1>11. ASSUME NEW q \in Question, NEW to \in QuestionStatus, ReadQuestion(q, to)
       PROVE  UseInv'
  BY <1>8, <1>11 DEF ReadQuestion, clientVars
<1> QED
  BY <1>1, <1>2, <1>3, <1>4, <1>5, <1>6, <1>7, <1>9, <1>10, <1>11, UpdateActivates,
     RequestKeepsUse DEF Next, UpdateStep, JobStep, Refuse, ActivateFails, Restart

\* The questions of a published listing are in use once activateMany is done, unless
\* they were retired before, or something overtook the update or the request
\* (activateMany, validateMultiselectQuestions, retireMultiselectQuestions).
THEOREM QuestionsInUse == Spec => []PublishedInUse
<1>1. Init => UseInv
  <2> SUFFICES ASSUME Init, Shown, NEW q \in listing.attached PROVE msq[q] = "active"
    BY DEF UseInv, InUse
  <2>1. q \in Question
    BY DEF Init
  <2> QED
    BY <2>1 DEF Init, Settled, Shown
<1>2. TypeOK /\ RequestAllowed /\ UseInv /\ [Next]_vars => UseInv'
  BY UseStep
<1>3. UseInv => PublishedInUse
  BY DEF UseInv, InUse, Activating, PublishedInUse, AtWork, Writing
<1> QED
  BY <1>1, <1>2, <1>3, Types, Requests, PTL DEF Spec
=============================================================================

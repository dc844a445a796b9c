---------------------------- MODULE ListingCycle ----------------------------
(***************************************************************************)
(* The life of one listing: updates by staff and the job that closes it    *)
(* when its applications are due (listing.service.ts), the preference and  *)
(* program questions attached to it, with the moves of their status        *)
(* (multiselect-question.service.ts, enableV2MSQ on), and the page of      *)
(* listings kept by the proxy.                                             *)
(*                                                                         *)
(* An update reads the listing at its start and decides by what it read;   *)
(* the write names the listing by its id only.  So do the job and the      *)
(* requests on a question.  The effects on applications of a closing are   *)
(* the subject of FlaggedSets and Retention: here they are owed or done.   *)
(***************************************************************************)
EXTENDS Naturals

CONSTANTS
    Editor,        \* updates of the listing at one time
    Question,      \* multiselect questions
    None,
    MaxUpdates,    \* bound on updates of the listing
    MaxErrors      \* bound on failures and restarts

ASSUME BoundAssumption == {MaxUpdates, MaxErrors} \subseteq Nat
ASSUME NoneAssumption == None \notin Question

VARIABLES
    listing,    \* its row: status, dates, questions attached
    update,     \* each editor's call of update
    job,        \* the call of closeListings
    msq,        \* status of each question
    activating, \* questions activateMany still has to write
    request,    \* a staff request on a question, between reading and writing
    expiring,   \* setExpireAfterValueOnApplications runs, nobody waits for it
    page,       \* the page of listings in the proxy: none, or shows the listing as active?
    fetch,      \* the same page on its way to the proxy
    owed,       \* history: closed, and the expiry of its applications not set since
    lost,       \* history: a failure or an outdated status lost what is owed
    outdated,   \* history: a purge lost, left out, or crossed by the page on its way
    excused,    \* history: questions a publication could not activate, or moved since
    updates, errors   \* counters for the bounds

clientVars == <<update, activating, expiring>>
questionVars == <<msq, request>>
pageVars == <<page, fetch, outdated>>
closeVars == <<owed, lost>>
counters == <<updates, errors>>
vars == <<listing, clientVars, job, questionVars, pageVars, closeVars, excused,
          counters>>

ListingStatus == {"pending", "active", "closed"}
QuestionStatus == {"draft", "visible", "active", "toRetire", "retired", "deleted"}
Row == [status : ListingStatus, published : BOOLEAN, closedAt : BOOLEAN,
        attached : SUBSET Question]

ASSUME RowAssumption == None \notin Row

AtRest == [pc |-> "rest", stored |-> None, attach |-> {}]

\* Past its write, with something left to do.
Writing == {"publish", "refuse", "close", "purge"}

Shown == listing.status = "active"
Fail == errors < MaxErrors /\ errors' = errors + 1

\* A page that shows what is no longer so may be stored, or on its way.
PageMayStay == page # "none" \/ fetch # "none"

----------------------------------------------------------------------------
(* cachePurge.  An update to pending purges only the listing's own page,   *)
(* unless it unpublishes.                                                  *)

\* Variant of PurgesAll: unpublishing is forgotten.
PurgesAllPublic(stored, next) == next # "pending"

PurgesAll(stored, next) == next # "pending" \/ stored = "active"

Purge ==
    /\ page' = "none"
    /\ outdated' = (fetch # "none")
    /\ UNCHANGED fetch

\* The request to the proxy fails, and is caught.
PurgeFails ==
    /\ Fail
    /\ outdated' = PageMayStay
    /\ UNCHANGED <<page, fetch>>

Fetch ==
    /\ page = "none" /\ fetch = "none"
    /\ fetch' = IF Shown THEN "active" ELSE "other"
    /\ UNCHANGED <<listing, clientVars, job, questionVars, page, outdated, closeVars,
                   excused, counters>>

KeepPage ==
    /\ fetch # "none"
    /\ page' = fetch /\ fetch' = "none"
    /\ UNCHANGED <<listing, clientVars, job, questionVars, outdated, closeVars,
                   excused, counters>>

----------------------------------------------------------------------------
(* update *)

OnlyUpdate == UNCHANGED <<job, questionVars>>

\* What is asked for, a status and questions, is chosen where it is first looked at.
ReadStored(e) ==
    /\ updates < MaxUpdates /\ updates' = updates + 1
    /\ update[e].pc = "rest"
    /\ update' = [update EXCEPT ![e] = [AtRest EXCEPT !.pc = "read", !.stored = listing]]
    /\ OnlyUpdate
    /\ UNCHANGED <<listing, activating, expiring, pageVars, closeVars, excused, errors>>

Attachable(q, before) ==
    msq[q] \in {"visible", "active"} \/ (msq[q] \in {"toRetire", "retired"} /\ q \in before)

\* validateMultiselectQuestions.  An id it does not find is not looked at.
Validate(e) ==
    /\ update[e].pc = "read"
    /\ \E attach \in SUBSET Question :
          LET valid == \A q \in attach :
                  msq[q] = "deleted" \/ Attachable(q, update[e].stored.attached)
          IN update' = [update EXCEPT ![e] =
                 IF valid THEN [@ EXCEPT !.pc = "valid", !.attach = attach] ELSE AtRest]
    /\ OnlyUpdate
    /\ UNCHANGED <<listing, activating, expiring, pageVars, closeVars, excused, updates,
                   errors>>

\* The questions the answer of the write shows, and what activateMany makes of them.
Refused(attach) == \E q \in attach : msq[q] \in {"draft", "retired"}

After(u, next) ==
    IF next = "active" THEN IF Refused(u.attach) THEN "refuse" ELSE "publish"
    ELSE IF u.stored.status = "active" /\ next = "closed" THEN "close"
    ELSE IF PurgesAll(u.stored.status, next) THEN "purge"
    ELSE "rest"

\* Variant of NewRow: a date is set only when the status that was read is the usual one.
NewRowUsual(u, next) ==
    [status |-> next,
     published |-> u.stored.published \/ (u.stored.status = "pending" /\ next = "active"),
     closedAt |-> u.stored.closedAt \/ (u.stored.status = "active" /\ next = "closed"),
     attached |-> u.attach]

NewRow(u, next) ==
    [status |-> next,
     published |-> u.stored.published \/ (u.stored.status # "active" /\ next = "active"),
     closedAt |-> u.stored.closedAt \/ (u.stored.status # "closed" /\ next = "closed"),
     attached |-> u.attach]

\* The transaction.  Of the answer only the visible questions are kept, for activateMany.
\* Any status may be asked for: the form was opened some time ago.
Write(e, next) ==
    /\ update[e].pc = "valid"
    /\ \A q \in update[e].attach : msq[q] # "deleted"
    /\ LET u == update[e]
       IN /\ listing' = NewRow(u, next)
          /\ update' = [update EXCEPT ![e] = [AtRest EXCEPT
                  !.pc = After(u, next),
                  !.attach = {q \in u.attach : next = "active" /\ msq[q] = "visible"}]]
          /\ owed' = (next = "closed" /\ (owed \/ Shown))
          /\ lost' = (next = "closed" /\ IF Shown THEN u.stored.status # "active" ELSE lost)
          /\ outdated' = (outdated \/ (/\ Shown /\ u.stored.status # "active"
                                       /\ next = "pending" /\ PageMayStay))
          /\ excused' = IF After(u, next) = "refuse"
                        THEN {q \in u.attach : msq[q] \notin {"active", "toRetire"}}
                        ELSE {}
    /\ OnlyUpdate
    /\ UNCHANGED <<activating, expiring, page, fetch, updates, errors>>

\* A question was deleted meanwhile: the transaction fails.
WriteFails(e) ==
    /\ update[e].pc = "valid"
    /\ \E q \in update[e].attach : msq[q] = "deleted"
    /\ update' = [update EXCEPT ![e] = AtRest]
    /\ OnlyUpdate
    /\ UNCHANGED <<listing, activating, expiring, pageVars, closeVars, excused, updates,
                   errors>>

Goes(e, pc) == update' = [update EXCEPT ![e].pc = pc]

\* activateMany, started and not waited for.
Publish(e) ==
    /\ update[e].pc = "publish"
    /\ activating' = activating \cup update[e].attach
    /\ update' = [update EXCEPT ![e] = [AtRest EXCEPT !.pc = "purge"]]
    /\ OnlyUpdate
    /\ UNCHANGED <<listing, expiring, pageVars, closeVars, excused, updates, errors>>

\* statusStateTransition by the row the listing was written with.
Activate(q) ==
    /\ q \in activating /\ msq[q] # "deleted"
    /\ msq' = [msq EXCEPT ![q] = "active"]
    /\ activating' = activating \ {q}
    /\ excused' = excused \ {q}
    /\ UNCHANGED <<listing, update, expiring, job, request, pageVars, closeVars,
                   counters>>

\* Variant of Close: setting the dates is left to the job.
CloseForgets(e) ==
    /\ update[e].pc = "close"
    /\ Goes(e, "purge")
    /\ OnlyUpdate
    /\ UNCHANGED <<listing, activating, expiring, pageVars, closeVars, excused, updates,
                   errors>>

\* processDuplicates is over; setExpireAfterValueOnApplications begins.
Close(e) ==
    /\ update[e].pc = "close"
    /\ expiring' = TRUE
    /\ Goes(e, "purge")
    /\ OnlyUpdate
    /\ UNCHANGED <<listing, activating, pageVars, closeVars, excused, updates, errors>>

SetExpireAfter ==
    /\ expiring /\ expiring' = FALSE
    /\ owed' = FALSE /\ lost' = FALSE
    /\ UNCHANGED <<listing, update, activating, job, questionVars, pageVars, excused,
                   counters>>

EndUpdate(e) ==
    /\ update[e].pc = "purge"
    /\ \/ Purge /\ UNCHANGED errors
       \/ PurgeFails
    /\ update' = [update EXCEPT ![e] = AtRest]
    /\ OnlyUpdate
    /\ UNCHANGED <<listing, activating, expiring, closeVars, excused, updates>>

\* What is lost when the handler of e, past its write, does not go on.
Abandon(e) ==
    /\ lost' = (lost \/ (owed /\ update[e].pc = "close"))
    /\ outdated' = (outdated \/ PageMayStay)
    /\ excused' = excused \cup update[e].attach

\* A call of the database or of the mail service fails after the write.  Before it,
\* a failure is as if the update had not been asked for.
UpdateFails(e) ==
    /\ Fail
    /\ update[e].pc \in Writing
    /\ Abandon(e)
    /\ update' = [update EXCEPT ![e] = AtRest]
    /\ OnlyUpdate
    /\ UNCHANGED <<listing, activating, expiring, page, fetch, owed, updates>>

\* The process ends, and starts again: all that nobody wrote down is gone.
Dies ==
    LET left == {e \in Editor : update[e].pc \in Writing}
    IN /\ update' = [e \in Editor |-> AtRest]
       /\ activating' = {} /\ expiring' = FALSE
       /\ job' = "rest" /\ request' = None /\ fetch' = "none"
       /\ lost' = (lost \/ owed)
       /\ outdated' = (page # "none" /\ (outdated \/ left # {} \/ job = "written"))
       /\ excused' = excused \cup activating \cup UNION {update[e].attach : e \in left}
       /\ UNCHANGED <<listing, msq, page, owed, updates>>

Restart == Fail /\ Dies

\* activateMany throws, nobody waits for it, and nobody handles the rejection.
Refuse(e) == update[e].pc = "refuse" /\ Dies /\ UNCHANGED errors

ActivateFails(q) == q \in activating /\ msq[q] = "deleted" /\ Dies /\ UNCHANGED errors

----------------------------------------------------------------------------
(* closeListings *)

OnlyJob == UNCHANGED <<clientVars, questionVars, excused, updates>>

\* applicationDueDate may pass, or be moved, at any time: it is left open.
FindDue ==
    /\ job = "rest" /\ Shown
    /\ job' = "found"
    /\ OnlyJob /\ UNCHANGED <<listing, pageVars, closeVars, errors>>

\* Variant of CloseFound: the date of closing is left to the updates.
CloseFoundUndated ==
    /\ job = "found"
    /\ listing' = [listing EXCEPT !.status = "closed"]
    /\ owed' = (owed \/ Shown) /\ lost' = (lost /\ ~Shown)
    /\ job' = "written"
    /\ OnlyJob /\ UNCHANGED <<pageVars, errors>>

\* By the ids that were found.
CloseFound ==
    /\ job = "found"
    /\ listing' = [listing EXCEPT !.status = "closed", !.closedAt = TRUE]
    /\ owed' = (owed \/ Shown) /\ lost' = (lost /\ ~Shown)
    /\ job' = "written"
    /\ OnlyJob /\ UNCHANGED <<pageVars, errors>>

PurgeAfterJob ==
    /\ job = "written"
    /\ job' = "purged"
    /\ \/ Purge /\ UNCHANGED errors
       \/ PurgeFails
    /\ OnlyJob /\ UNCHANGED <<listing, closeVars>>

EndJob ==
    /\ job = "purged"
    /\ owed' = FALSE /\ lost' = FALSE
    /\ job' = "rest"
    /\ OnlyJob /\ UNCHANGED <<listing, pageVars, errors>>

JobFails ==
    /\ Fail
    /\ job \in {"written", "purged"} /\ job' = "rest"
    /\ lost' = (lost \/ owed)
    /\ outdated' = (outdated \/ (job = "written" /\ PageMayStay))
    /\ OnlyJob /\ UNCHANGED <<listing, page, fetch, owed>>

----------------------------------------------------------------------------
(* Questions: validateStatusStateTransition, and who calls it. *)

\* Variant of Allowed: a question in use may return to draft.
AllowedInUse(from, to, attached) ==
    \/ {from, to} \subseteq {"draft", "visible"}
    \/ from \in {"draft", "visible"} /\ to = "deleted"
    \/ <<from, to>> \in
          {<<"visible", "active">>, <<"active", "toRetire">>, <<"active", "retired">>,
           <<"toRetire", "retired">>, <<"toRetire", "active">>}

Allowed(from, to, attached) ==
    \/ from = to /\ from \in {"draft", "visible"}
    \/ from \in {"draft", "visible"} /\ to = "deleted"
    \/ from = "visible" /\ to = "draft" /\ ~attached
    \/ <<from, to>> \in
          {<<"draft", "visible">>, <<"visible", "active">>, <<"active", "toRetire">>,
           <<"active", "retired">>, <<"toRetire", "retired">>, <<"toRetire", "active">>}

Attached(q) == q \in listing.attached

\* Every listing it is attached to is closed.
Unused(q) == Attached(q) => listing.status = "closed"

\* An edit, a deletion, reActivate or retire.  To retire or to wait for it is decided
\* by Unused only in retire: an edit may ask for either.
ReadQuestion(q, to) ==
    /\ request = None
    /\ Allowed(msq[q], to, Attached(q))
    /\ request' = [q |-> q, seen |-> msq[q], attached |-> Attached(q), to |-> to]
    /\ UNCHANGED <<listing, clientVars, job, msq, pageVars, closeVars, excused,
                   counters>>

\* The question, or its place on the listing, is not what the request saw; or it is to
\* be retired while a listing in use has it, which an edit does not look at and a
\* retirement may not have seen.
Overtaken(r) ==
    \/ r.seen # msq[r.q]
    \/ r.attached # Attached(r.q)
    \/ r.to = "retired" /\ ~Unused(r.q)

\* Deleting a question that is attached, or writing one that is gone, fails.
WriteQuestion ==
    /\ request # None
    /\ LET r == request
           done == msq[r.q] # "deleted" /\ (r.to = "deleted" => ~Attached(r.q))
       IN IF done
          THEN /\ msq' = [msq EXCEPT ![r.q] = r.to]
               /\ excused' = IF r.to \in {"active", "toRetire"} THEN excused \ {r.q}
                             ELSE IF Overtaken(r) THEN excused \cup {r.q}
                             ELSE excused
          ELSE UNCHANGED <<msq, excused>>
    /\ request' = None
    /\ UNCHANGED <<listing, clientVars, job, pageVars, closeVars, counters>>

\* Variant of Retirable: whatever the listing's status.
RetirableAny == {q \in Question : msq[q] = "toRetire"}

Retirable == {q \in Question : msq[q] = "toRetire" /\ Unused(q)}

\* retireMultiselectQuestions: hourly, and after the updates and the job.
RetireAll ==
    /\ Retirable # {}
    /\ msq' = [q \in Question |-> IF q \in Retirable THEN "retired" ELSE msq[q]]
    /\ UNCHANGED <<listing, clientVars, job, request, pageVars, closeVars, excused,
                   counters>>

----------------------------------------------------------------------------
\* Questions nobody is at work on, attached to a listing of this status.
Settled(status) ==
    CASE status = "pending" -> {"visible"}
      [] status = "active" -> {"active"}
      [] status = "closed" -> {"active", "retired"}

Init ==
    /\ \E status \in ListingStatus, attached \in SUBSET Question :
          listing = [status |-> status, published |-> status # "pending",
                     closedAt |-> status = "closed", attached |-> attached]
    /\ update = [e \in Editor |-> AtRest]
    /\ job = "rest"
    /\ msq \in [Question -> {"draft", "visible", "active", "retired"}]
    /\ \A q \in Question :
          msq[q] \in IF q \in listing.attached THEN Settled(listing.status) ELSE {"draft", "visible"}
    /\ activating = {} /\ request = None /\ expiring = FALSE
    /\ page = "none" /\ fetch = "none"
    /\ owed = FALSE /\ lost = FALSE /\ outdated = FALSE /\ excused = {}
    /\ updates = 0 /\ errors = 0

JobStep == FindDue \/ CloseFound \/ PurgeAfterJob \/ EndJob

UpdateStep(e) ==
    \/ Validate(e) \/ (\E next \in ListingStatus : Write(e, next)) \/ WriteFails(e) \/ Publish(e) \/ Refuse(e) \/ Close(e)
    \/ EndUpdate(e)

Next ==
    \/ \E e \in Editor : ReadStored(e) \/ UpdateStep(e) \/ UpdateFails(e)
    \/ \E q \in Question :
          \/ Activate(q) \/ ActivateFails(q)
          \/ \E to \in QuestionStatus : ReadQuestion(q, to)
    \/ WriteQuestion \/ RetireAll \/ SetExpireAfter
    \/ JobStep \/ JobFails
    \/ Fetch \/ KeepPage \/ Restart

Spec == Init /\ [][Next]_vars

----------------------------------------------------------------------------
Dated(row) ==
    /\ row.status = "active" => row.published
    /\ row.status = "closed" => row.closedAt

\* Every variable has its type; an update has read a row until it writes, and that row
\* had the dates of its status.
TypeOK ==
    /\ listing \in Row
    /\ update \in [Editor -> [pc : {"rest", "read", "valid"} \cup Writing,
                              stored : Row \cup {None}, attach : SUBSET Question]]
    /\ \A e \in Editor :
          /\ update[e].stored # None <=> update[e].pc \in {"read", "valid"}
          /\ update[e].stored # None => Dated(update[e].stored)
    /\ job \in {"rest", "found", "written", "purged"}
    /\ msq \in [Question -> QuestionStatus]
    /\ activating \subseteq Question /\ excused \subseteq Question
    /\ request \in {None} \cup [q : Question, seen : QuestionStatus,
                                attached : BOOLEAN, to : QuestionStatus]
    /\ {page, fetch} \subseteq {"none", "active", "other"}
    /\ {expiring, owed, lost, outdated} \subseteq BOOLEAN
    /\ updates \in 0..MaxUpdates /\ errors \in 0..MaxErrors

(* A published listing has the date of its publication, a closed one that  *)
(* of its closing (the lottery and the lists of listings go by them),      *)
(* whatever rows the updates that overlap had read.                        *)
DatesSet == Dated(listing)

AtWork == expiring \/ job \in {"written", "purged"} \/ \E e \in Editor : update[e].pc \in Writing

(* However a published listing is closed, the expiry of its applications   *)
(* is set by the time nobody is at work on it, unless a failure came in    *)
(* between or the update that closed it had read another status (update,   *)
(* closeListings).                                                         *)
ClosingTakesEffect == listing.status = "closed" /\ owed /\ ~AtWork => lost

(* The page of listings in the proxy shows the listing as active or not as *)
(* it is, once the updates are done, unless a purge was lost, left out for *)
(* an outdated status, or crossed by the page on its way (cachePurge).     *)
PageCurrent ==
    page # "none" /\ ~AtWork /\ ~outdated => (page = "active") = Shown

(* The questions of a published listing are in use once activateMany is    *)
(* done, unless they were retired before it was published again, an edit   *)
(* retired them on it, or something overtook the update or the request     *)
(* (activateMany, validateMultiselectQuestions,                            *)
(* retireMultiselectQuestions).                                            *)
PublishedInUse ==
    Shown /\ activating = {} /\ ~AtWork =>
        \A q \in listing.attached : msq[q] \in {"active", "toRetire"} \/ q \in excused

\* The writer of q's status in this step had seen another row, or is an edit that
\* retires q on a listing in use.
MovedUnseen(q) ==
    \/ request # None /\ request' = None /\ request.q = q /\ Overtaken(request)
    \/ q \in activating \ activating' /\ msq[q] # "visible"

(* A question only moves as validateStatusStateTransition allows for the   *)
(* status and the listing it has, not only for those its writer saw, and   *)
(* retires only where retire would, unless something overtook the writer   *)
(* or an edit retires it.                                                  *)
QuestionMoves ==
    [][\A q \in Question :
          msq'[q] # msq[q] =>
              \/ <<msq[q], msq'[q]>> \in
                    {<<"draft", "visible">>, <<"visible", "active">>, <<"active", "toRetire">>,
                     <<"toRetire", "active">>, <<"draft", "deleted">>}
              \/ msq[q] = "visible" /\ msq'[q] \in {"draft", "deleted"} /\ ~Attached(q)
              \/ msq[q] \in {"active", "toRetire"} /\ msq'[q] = "retired" /\ Unused(q)
              \/ MovedUnseen(q)]_vars
=============================================================================

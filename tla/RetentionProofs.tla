--------------------------- MODULE RetentionProofs ---------------------------
(***************************************************************************)
(* Type correctness of Retention and its safety: which applications are    *)
(* cleared, what is left of them, and what expires, for any applications   *)
(* and bounds.                                                             *)
(***************************************************************************)
EXTENDS Retention, FiniteSetTheorems, TLAPS

----------------------------------------------------------------------------
(* Types. *)

Owner == {User, Staff, None}

RowType == [owner : Owner, newest : BOOLEAN, expire : {"never", "later", "past"},
            cleared : {"no"} \cup Removers, hist : Owner, data : BOOLEAN, snap : BOOLEAN]

SubmissionType == [by : Owner, closed : BOOLEAN, seen : SUBSET App]

Kind == {"none", "form", "formCopy", "formWrite", "connect", "connectCopy", "connectWrite"}

ChangeType == [kind : Kind, form : BOOLEAN, copy : BOOLEAN]

RemovalType == [pc : {"rest", "next", "found", "dropped"}, list : SUBSET App,
                todo : SUBSET App, app : App \cup {None}, owner : Owner]

\* Saved now, or saved and rolled back.
Ever == {a \in App : at[a] \in {"fresh", "saved", "undone"}}

\* The removal r is between the first reading and the clearing of application a.
At(r, a) == removal[r].pc \in {"found", "dropped"} /\ removal[r].app = a

\* A row that is not there, but for the snapshots of one that was.
NoRow(row) ==
    /\ row.owner = None /\ row.newest = FALSE /\ row.expire = "never"
    /\ row.cleared = "no" /\ row.hist = None /\ row.data = FALSE

\* The requests; a form is open on saved applications only.
RequestTypes ==
    /\ at \in [App -> {"new", "read", "begun", "fresh", "saved", "undone"}]
    /\ submission \in [App -> SubmissionType]
    /\ change \in [App -> ChangeType]
    /\ \A a \in App : change[a].kind \in {"form", "formCopy", "formWrite"} => at[a] = "saved"

RowTypes ==
    /\ app \in [App -> RowType]
    /\ \A a \in App \ Saved : NoRow(app[a])

\* The removals; no application is saved a second time that is on one of their lists.
RemovalTypes ==
    /\ removal \in [Removers -> RemovalType]
    /\ owed \subseteq Ever
    /\ \A r \in Removers :
          /\ removal[r].list \cup removal[r].todo \subseteq Ever
          /\ \A a : At(r, a) => a \in Ever

OtherTypes ==
    /\ account \in {"none", "exists", "gone"}
    /\ listing \in {"open", "closed"} /\ setting \in BOOLEAN /\ lost \in BOOLEAN
    /\ replaced \subseteq Removers
    /\ edits \in 0..MaxEdits /\ moves \in 0..MaxMoves /\ errors \in 0..MaxErrors
    /\ latest \in App \cup {None}
    /\ raced \subseteq App /\ missed \subseteq App /\ kept \subseteq App /\ crossed \subseteq App

TypeInv == RequestTypes /\ RowTypes /\ RemovalTypes /\ OtherTypes

\* The account, the staff and nobody are three.
LEMMA Owners == User # Staff /\ User # None /\ Staff # None
<1>1. ASSUME NEW x, NEW y PROVE Cardinality({x, y}) <= 2
  <2>1. IsFiniteSet({x}) /\ Cardinality({x}) = 1
    BY FS_Singleton
  <2>2. Cardinality({x} \cup {y}) = IF y \in {x} THEN Cardinality({x}) ELSE Cardinality({x}) + 1
    BY <2>1, FS_AddElement
  <2>3. {x} \cup {y} = {x, y}
    OBVIOUS
  <2> QED
    BY <2>1, <2>2, <2>3
<1>2. ASSUME NEW x, NEW y, {User, Staff, None} = {x, y} PROVE FALSE
  <2>1. Cardinality({User, Staff, None}) = Cardinality({x, y})
    BY <1>2, Zenon
  <2>2. Cardinality({User, Staff, None}) = 3
    BY OwnerAssumption
  <2> HIDE <1>2
  <2>3. 3 <= 2
    BY <1>1, <2>1, <2>2
  <2> QED
    BY <2>3
<1>3. CASE User = Staff
  BY <1>2, <1>3, {User, Staff, None} = {Staff, None}
<1>4. CASE User = None
  BY <1>2, <1>4, {User, Staff, None} = {Staff, None}
<1>5. CASE Staff = None
  BY <1>2, <1>5, {User, Staff, None} = {User, None}
<1> QED
  BY <1>3, <1>4, <1>5

\* The values that stand for nothing.
LEMMA Nothing ==
    /\ Blank \in RowType /\ NoRow(Blank) /\ Blank.snap = FALSE
    /\ NoRequest \in SubmissionType /\ NoRequest.seen = {}
    /\ Unchanged \in ChangeType /\ Unchanged.kind = "none"
    /\ Unchanged.form = FALSE /\ Unchanged.copy = FALSE
    /\ Idle \in RemovalType /\ Idle.pc = "rest" /\ Idle.list = {} /\ Idle.todo = {}
BY DEF Blank, RowType, NoRow, NoRequest, SubmissionType, Unchanged, ChangeType, Kind, Idle,
       RemovalType, Owner

\* What TypeOK says of a row that is not there.
LEMMA NoRowMeans ==
    ASSUME NEW row \in RowType
    PROVE  [row EXCEPT !.snap = FALSE] = Blank <=> NoRow(row)
<1> DEFINE r == [row EXCEPT !.snap = FALSE]
<1>1. /\ r \in RowType /\ r.snap = FALSE
      /\ r.owner = row.owner /\ r.newest = row.newest /\ r.expire = row.expire
      /\ r.cleared = row.cleared /\ r.hist = row.hist /\ r.data = row.data
  BY DEF RowType
<1> HIDE DEF r
<1>2. r = Blank => NoRow(row)
  BY <1>1, Nothing DEF NoRow
<1>3. ASSUME NoRow(row) PROVE r = Blank
  <2>1. r = [owner |-> r.owner, newest |-> r.newest, expire |-> r.expire,
             cleared |-> r.cleared, hist |-> r.hist, data |-> r.data, snap |-> r.snap]
    BY <1>1 DEF RowType
  <2> QED
    BY <1>1, <1>3, <2>1 DEF NoRow, Blank
<1> QED
  BY <1>2, <1>3 DEF r

\* TypeOK, from its parts.
LEMMA Parts == TypeInv => TypeOK
<1> SUFFICES ASSUME TypeInv PROVE TypeOK
  OBVIOUS
<1>1. \A a \in App \ Saved : [app[a] EXCEPT !.snap = FALSE] = Blank
  BY NoRowMeans DEF TypeInv, RowTypes
<1>2. owed \subseteq App
  BY DEF TypeInv, RemovalTypes, Ever
<1> QED
  BY <1>1, <1>2 DEF TypeInv, TypeOK, RequestTypes, RowTypes, RemovalTypes, OtherTypes, RowType,
                    SubmissionType, Kind, ChangeType, RemovalType, Owner

LEMMA Bounds == MaxEdits \in Nat /\ MaxMoves \in Nat /\ MaxErrors \in Nat
BY RetentionBounds

\* The first states have their types.
LEMMA TypeInit == Init => TypeInv
<1> SUFFICES ASSUME Init PROVE TypeInv
  OBVIOUS
<1>1. RequestTypes
  BY Nothing DEF Init, RequestTypes
<1>2. RowTypes
  BY Nothing DEF Init, RowTypes
<1>3. RemovalTypes
  BY Nothing DEF Init, RemovalTypes, Removers, At
<1>4. OtherTypes
  <2>1. edits \in 0..MaxEdits /\ moves \in 0..MaxMoves /\ errors \in 0..MaxErrors
    BY Bounds DEF Init
  <2> QED
    BY <2>1 DEF Init, OtherTypes
<1> QED
  BY <1>1, <1>2, <1>3, <1>4 DEF TypeInv

\* Parts of the state that stay as they are keep their types.
LEMMA RequestsStay ==
    ASSUME RequestTypes, UNCHANGED requestVars PROVE RequestTypes'
BY DEF RequestTypes, requestVars

LEMMA RemovalsStay ==
    ASSUME RemovalTypes, UNCHANGED <<removal, owed>>, Ever \subseteq Ever' PROVE RemovalTypes'
BY DEF RemovalTypes, At

\* A row that is written for an application that is there.
LEMMA RowWritten ==
    ASSUME RowTypes, NEW a \in App, NEW row \in RowType, app' = [app EXCEPT ![a] = row],
           Saved' = Saved, a \in Saved \/ NoRow(row)
    PROVE  RowTypes'
BY DEF RowTypes

\* A request to create an application, but for the two steps that write rows.
LEMMA TypeRequest ==
    ASSUME TypeInv, NEW a \in App,
           \/ \E by \in Owner : ReadListing(a, by)
           \/ BeginSave(a) \/ SaveFails(a) \/ EndCreate(a)
    PROVE  TypeInv'
<1> USE DEF TypeInv
<1>1. UNCHANGED <<account, listing, setting, app, change, removal, replaced, counts, latest,
                  missed, lost, kept, crossed, owed>>
  BY DEF ReadListing, BeginSave, SaveFails, EndCreate, historyVars, counts
<1>2. Saved' = Saved /\ Ever \subseteq Ever'
  BY DEF ReadListing, BeginSave, SaveFails, EndCreate, Saved, Ever, RequestTypes
<1>3. RequestTypes'
  <2>1. CASE \E by \in Owner : ReadListing(a, by)
    BY <2>1 DEF ReadListing, RequestTypes, SubmissionType
  <2>2. CASE BeginSave(a)
    BY <2>2 DEF BeginSave, RequestTypes, SubmissionType, Newest, Saved
  <2>3. CASE SaveFails(a) \/ EndCreate(a)
    BY <2>3, Nothing DEF SaveFails, EndCreate, RequestTypes
  <2> QED
    BY <2>1, <2>2, <2>3
<1>4. RowTypes'
  BY <1>1, <1>2 DEF RowTypes
<1>5. RemovalTypes'
  BY <1>1, <1>2, RemovalsStay
<1>6. raced' \subseteq App
  BY DEF ReadListing, BeginSave, SaveFails, EndCreate, historyVars, Saving, OtherTypes
<1>7. OtherTypes'
  BY <1>1, <1>6 DEF OtherTypes, counts
<1> QED
  BY <1>3, <1>4, <1>5, <1>7

\* The row that is inserted.
LEMMA NewRowTyped ==
    ASSUME RequestTypes, NEW a \in App, NEW expire \in {"later", "past", "never"}
    PROVE  /\ NewRow(a, expire) \in RowType
           /\ NewRow(a, expire).owner = submission[a].by
           /\ NewRow(a, expire).newest = (submission[a].by = User)
           /\ NewRow(a, expire).expire = expire
           /\ NewRow(a, expire).cleared = "no"
BY DEF NewRow, Blank, RowType, RequestTypes, SubmissionType, Owner

LEMMA TypeCommit ==
    ASSUME TypeInv, NEW a \in App, CommitSave(a)
    PROVE  TypeInv'
<1> USE DEF TypeInv
<1>1. UNCHANGED <<account, listing, setting, change, removal, replaced, counts, raced, missed,
                  lost, kept, crossed, owed, submission>> /\ latest' \in {latest, a}
  BY DEF CommitSave
<1>2. Ever \subseteq Ever' /\ Saved' = Saved \cup {a}
  BY DEF CommitSave, Ever, Saved, RequestTypes
<1>3. RequestTypes'
  BY DEF CommitSave, RequestTypes
<1>4. RowTypes'
  <2>1. PICK expire \in {"later", "past", "never"} :
            app' = [b \in App |-> IF b = a THEN NewRow(a, expire)
                       ELSE [app[b] EXCEPT !.newest = @ /\ b \notin submission[a].seen]]
    BY DEF CommitSave
  <2>2. ASSUME NEW b \in App \ {a}
        PROVE  app'[b] \in RowType /\ (b \notin Saved => NoRow(app'[b]))
    <3>1. app'[b] = [app[b] EXCEPT !.newest = app[b].newest /\ b \notin submission[a].seen]
      BY <2>1
    <3> QED
      BY <3>1 DEF RowTypes, RowType, NoRow
  <2> QED
    BY <1>2, <2>1, <2>2, NewRowTyped DEF RowTypes
<1>5. RemovalTypes'
  BY <1>1, <1>2, RemovalsStay
<1>6. OtherTypes'
  BY <1>1 DEF OtherTypes, counts
<1> QED
  BY <1>3, <1>4, <1>5, <1>6

LEMMA TypeRollBack ==
    ASSUME TypeInv, NEW a \in App, RollBackCreate(a)
    PROVE  TypeInv'
<1> USE DEF TypeInv
<1>1. /\ UNCHANGED <<account, listing, setting, change, removal, replaced, edits, moves, raced,
                     missed, lost, kept, crossed, owed>>
      /\ latest' \in {latest, None} /\ errors' = errors + 1 /\ errors < MaxErrors
  BY DEF RollBackCreate
<1>2. Ever \subseteq Ever' /\ Saved' = Saved \ {a}
  BY DEF RollBackCreate, Ever, Saved, RequestTypes
<1>3. RequestTypes'
  BY Nothing DEF RollBackCreate, RequestTypes
<1>4. RowTypes'
  <2> DEFINE row == [Blank EXCEPT !.snap = app[a].snap]
  <2>1. row \in RowType /\ NoRow(row)
    BY Nothing DEF Blank, RowTypes, RowType, NoRow
  <2>2. app' = [app EXCEPT ![a] = row]
    BY DEF RollBackCreate
  <2> HIDE DEF row
  <2> QED
    BY <1>2, <2>1, <2>2 DEF RowTypes
<1>5. RemovalTypes'
  BY <1>1, <1>2, RemovalsStay
<1>6. OtherTypes'
  BY <1>1, Bounds DEF OtherTypes
<1> QED
  BY <1>3, <1>4, <1>5, <1>6

\* The listing, and the passing of expireAfter.
LEMMA TypeListing ==
    ASSUME TypeInv,
           \/ CloseListing \/ ReopenListing \/ SetExpireAfter \/ SetExpireAfterLost
           \/ \E a \in App : ExpireAfterPasses(a)
    PROVE  TypeInv'
<1> USE DEF TypeInv
<1>1. /\ UNCHANGED <<account, requestVars, removal, replaced, edits, latest, raced, kept, crossed,
                     owed>>
      /\ Saved' = Saved /\ Ever' = Ever
  BY DEF CloseListing, ReopenListing, SetExpireAfter, SetExpireAfterLost, ExpireAfterPasses,
         counts, historyVars, requestVars, Saved, Ever
<1>2. RowTypes'
  <2>1. CASE SetExpireAfter
    <3>1. app' = [a \in App |-> IF a \in Saved THEN [app[a] EXCEPT !.expire = "later"] ELSE app[a]]
      BY <2>1 DEF SetExpireAfter
    <3> QED
      BY <1>1, <3>1 DEF RowTypes, RowType
  <2>2. ASSUME NEW a \in App, ExpireAfterPasses(a) PROVE RowTypes'
    BY <1>1, <2>2 DEF ExpireAfterPasses, RowTypes, RowType
  <2>3. CASE CloseListing \/ ReopenListing \/ SetExpireAfterLost
    BY <1>1, <2>3 DEF CloseListing, ReopenListing, SetExpireAfterLost, RowTypes
  <2> QED
    BY <2>1, <2>2, <2>3
<1>3. missed' \subseteq App /\ listing' \in {"open", "closed"} /\ setting' \in BOOLEAN
      /\ lost' \in BOOLEAN
  BY DEF CloseListing, ReopenListing, SetExpireAfter, SetExpireAfterLost, ExpireAfterPasses,
         historyVars, OtherTypes
<1>4. moves' \in 0..MaxMoves /\ errors' \in 0..MaxErrors
  BY Bounds DEF CloseListing, ReopenListing, SetExpireAfter, SetExpireAfterLost,
                ExpireAfterPasses, counts, OtherTypes
<1>5. OtherTypes'
  BY <1>1, <1>3, <1>4 DEF OtherTypes
<1> QED
  BY <1>1, <1>2, <1>5, RequestsStay, RemovalsStay

\* What a change of an application writes.
ChangeStep(a) ==
    \/ OpenForm(a) \/ ReadForSnapshot(a) \/ WriteSnapshot(a) \/ WriteForm(a)
    \/ Connect(a) \/ ChangeFails(a)

LEMMA TypeChange ==
    ASSUME TypeInv, NEW a \in App, ChangeStep(a)
    PROVE  TypeInv'
<1> USE DEF TypeInv
<1>1. /\ UNCHANGED <<account, listing, setting, at, submission, removal, moves,
                     latest, raced, missed, lost, kept, owed>>
      /\ Saved' = Saved /\ Ever' = Ever
  BY DEF ChangeStep, OpenForm, ReadForSnapshot, WriteSnapshot, WriteForm, Connect, ChangeFails,
         counts, historyVars, Saved, Ever
<1>2. change[a] \in ChangeType /\ app[a] \in RowType
  BY DEF RequestTypes, RowTypes
<1>3. RequestTypes'
  <2>1. CASE OpenForm(a)
    BY <1>1, <1>2, <2>1 DEF OpenForm, RequestTypes, ChangeType, Kind, RowType
  <2>2. CASE ReadForSnapshot(a)
    BY <1>1, <1>2, <2>2 DEF ReadForSnapshot, RequestTypes, ChangeType, Kind, RowType
  <2>3. CASE WriteSnapshot(a)
    BY <1>1, <1>2, <2>3 DEF WriteSnapshot, RequestTypes, ChangeType, Kind
  <2>4. CASE WriteForm(a) \/ Connect(a) \/ ChangeFails(a)
    BY <1>1, <2>4, Nothing DEF WriteForm, Connect, ChangeFails, RequestTypes
  <2> QED
    BY <2>1, <2>2, <2>3, <2>4 DEF ChangeStep
<1>4. RowTypes'
  <2>1. CASE OpenForm(a) \/ ReadForSnapshot(a) \/ ChangeFails(a)
    BY <1>1, <2>1 DEF OpenForm, ReadForSnapshot, ChangeFails, RowTypes
  <2>2. CASE WriteSnapshot(a)
    BY <1>1, <1>2, <2>2 DEF WriteSnapshot, RowTypes, RowType, ChangeType, NoRow
  <2>3. CASE WriteForm(a)
    BY <1>1, <1>2, <2>3 DEF WriteForm, RowTypes, RowType, ChangeType, RequestTypes, Saved
  <2>4. CASE Connect(a)
    BY <1>1, <1>2, <2>4 DEF Connect, RowTypes, RowType, Owner
  <2> QED
    BY <2>1, <2>2, <2>3, <2>4 DEF ChangeStep
<1>5. edits' \in 0..MaxEdits /\ errors' \in 0..MaxErrors /\ crossed' \subseteq App
  BY Bounds DEF ChangeStep, OpenForm, ReadForSnapshot, WriteSnapshot, WriteForm, Connect,
                ChangeFails, counts, historyVars, OtherTypes
<1>6. replaced' \subseteq Removers
  BY DEF ChangeStep, OpenForm, ReadForSnapshot, WriteSnapshot, WriteForm, Connect, ChangeFails,
         OtherTypes, RemovalTypes
<1>7. OtherTypes'
  BY <1>1, <1>5, <1>6 DEF OtherTypes
<1> QED
  BY <1>1, <1>3, <1>4, <1>7, RemovalsStay

LEMMA TypeCreateAccount ==
    ASSUME TypeInv, CreateAccount
    PROVE  TypeInv'
<1> USE DEF TypeInv
<1>1. /\ UNCHANGED <<listing, setting, at, submission, app, removal, replaced, counts,
                     historyVars>>
      /\ Saved' = Saved /\ Ever' = Ever /\ account' = "exists"
  BY DEF CreateAccount, Saved, Ever
<1>2. RequestTypes'
  <2> DEFINE connect == [Unchanged EXCEPT !.kind = "connect"]
  <2>1. connect \in ChangeType /\ connect.kind = "connect"
    BY DEF Unchanged, ChangeType, Kind
  <2>2. \A a \in App : change'[a] \in {change[a], connect}
    BY DEF CreateAccount
  <2>3. DOMAIN change' = App /\ change' = [a \in App |-> change'[a]]
    BY DEF CreateAccount
  <2> HIDE DEF connect
  <2> QED
    BY <1>1, <2>1, <2>2, <2>3 DEF RequestTypes
<1>3. RowTypes' /\ RemovalTypes' /\ OtherTypes'
  BY <1>1, RemovalsStay DEF RowTypes, OtherTypes, counts, historyVars
<1> QED
  BY <1>2, <1>3

\* A removal that starts.
LEMMA StartTyped ==
    ASSUME NEW list \in SUBSET App
    PROVE  LET start == [Idle EXCEPT !.pc = "next", !.list = list, !.todo = list]
           IN  /\ start \in RemovalType /\ start.pc = "next"
               /\ start.list = list /\ start.todo = list
BY Nothing DEF Idle, RemovalType

\* What a removal r may become without endangering the types.
LEMMA RemovalWritten ==
    ASSUME RemovalTypes, NEW r \in Removers, NEW new \in RemovalType,
           removal' = [removal EXCEPT ![r] = new], Ever' = Ever, owed' \subseteq Ever,
           new.list \cup new.todo \subseteq Ever,
           new.pc \in {"found", "dropped"} => new.app \in Ever
    PROVE  RemovalTypes'
<1>1. removal' \in [Removers -> RemovalType] /\ removal'[r] = new
  BY DEF RemovalTypes
<1>2. \A s \in Removers \ {r} : removal'[s] = removal[s]
  BY DEF RemovalTypes
<1> QED
  BY <1>1, <1>2 DEF RemovalTypes, At

LEMMA TypeStart ==
    ASSUME TypeInv, StartJob \/ StartDeletion
    PROVE  TypeInv'
<1> USE DEF TypeInv
<1>1. /\ UNCHANGED <<account, listing, setting, app, requestVars, replaced, counts, historyVars>>
      /\ Saved' = Saved /\ Ever' = Ever
  BY DEF StartJob, StartDeletion, requestVars, Saved, Ever
<1>2. PICK r \in Removers, list \in SUBSET Saved :
          removal' = [removal EXCEPT ![r] = [Idle EXCEPT !.pc = "next", !.list = list,
                                                         !.todo = list]]
  BY DEF StartJob, StartDeletion, Removers, Due
<1>3. list \subseteq App /\ list \subseteq Ever
  BY DEF Saved, Ever
<1>4. RemovalTypes'
  <2> DEFINE new == [Idle EXCEPT !.pc = "next", !.list = list, !.todo = list]
  <2>1. /\ new \in RemovalType /\ new.pc = "next" /\ new.list = list /\ new.todo = list
    BY <1>3, StartTyped
  <2>2. removal' = [removal EXCEPT ![r] = new] /\ owed' \subseteq Ever
    BY <1>1, <1>2 DEF historyVars, RemovalTypes
  <2> HIDE DEF new
  <2> QED
    BY <1>1, <1>3, <2>1, <2>2, RemovalWritten
<1> QED
  BY <1>1, <1>4, RequestsStay DEF RowTypes, OtherTypes, counts, historyVars

LEMMA TypeFind ==
    ASSUME TypeInv, NEW r \in Removers, NEW a \in App, FindUncleared(r, a)
    PROVE  TypeInv'
<1> USE DEF TypeInv
<1>1. /\ UNCHANGED <<account, listing, setting, app, requestVars, replaced, counts, historyVars>>
      /\ Saved' = Saved /\ Ever' = Ever
  BY DEF FindUncleared, requestVars, Saved, Ever
<1>2. removal[r] \in RemovalType /\ removal[r].list \cup removal[r].todo \subseteq Ever
      /\ removal[r].pc = "next" /\ app[a].owner \in Owner
  BY DEF FindUncleared, RemovalTypes, RowTypes, RowType
<1>3. RemovalTypes'
  <2> DEFINE old == removal[r]
             rest == old.todo \ {a}
             found == [old EXCEPT !.pc = "found", !.todo = rest, !.app = a,
                                  !.owner = app[a].owner]
             left == [old EXCEPT !.todo = rest]
  <2>1. CASE a \in Saved /\ app[a].cleared = "no"
    <3>1. removal' = [removal EXCEPT ![r] = found]
      BY <2>1 DEF FindUncleared
    <3>2. found \in RemovalType /\ found.list \cup found.todo \subseteq Ever /\ found.app = a
      BY <1>2 DEF RemovalType
    <3>3. a \in Ever /\ owed' \subseteq Ever
      BY <1>1, <2>1 DEF Saved, Ever, historyVars, RemovalTypes
    <3> HIDE DEF found
    <3> QED
      BY <1>1, <3>1, <3>2, <3>3, RemovalWritten
  <2>2. CASE ~(a \in Saved /\ app[a].cleared = "no")
    <3>1. removal' = [removal EXCEPT ![r] = left] /\ owed' \subseteq Ever
      BY <1>1, <2>2 DEF FindUncleared, historyVars, RemovalTypes
    <3>2. left \in RemovalType /\ left.list \cup left.todo \subseteq Ever /\ left.pc = "next"
      BY <1>2 DEF RemovalType
    <3> HIDE DEF left
    <3> QED
      BY <1>1, <3>1, <3>2, RemovalWritten
  <2> QED
    BY <2>1, <2>2
<1> QED
  BY <1>1, <1>3, RequestsStay DEF RowTypes, OtherTypes, counts, historyVars

LEMMA TypeDrop ==
    ASSUME TypeInv, NEW r \in Removers, DropSnapshots(r)
    PROVE  TypeInv'
<1> USE DEF TypeInv
<1>1. /\ UNCHANGED <<account, listing, setting, requestVars, replaced, counts, historyVars>>
      /\ Saved' = Saved /\ Ever' = Ever
  BY DEF DropSnapshots, requestVars, Saved, Ever
<1>2. RemovalTypes'
  BY <1>1 DEF DropSnapshots, RemovalTypes, RemovalType, At, historyVars
<1>3. RowTypes'
  BY <1>1 DEF DropSnapshots, RowTypes, RowType, NoRow
<1> QED
  BY <1>1, <1>2, <1>3, RequestsStay DEF OtherTypes, counts, historyVars

LEMMA TypeClear ==
    ASSUME TypeInv, NEW r \in Removers, Clear(r)
    PROVE  TypeInv'
<1> USE DEF TypeInv
<1>1. /\ UNCHANGED <<account, listing, setting, requestVars, counts, latest, raced, missed, lost,
                     crossed, owed>>
      /\ Saved' = Saved /\ Ever' = Ever /\ replaced' \subseteq Removers
  BY DEF Clear, requestVars, Saved, Ever, OtherTypes
<1>2. RemovalTypes'
  <2> DEFINE new == [removal[r] EXCEPT !.pc = "next", !.app = None, !.owner = None]
  <2>1. removal' = [removal EXCEPT ![r] = new] /\ owed' \subseteq Ever
    BY <1>1 DEF Clear, RemovalTypes
  <2>2. removal[r] \in RemovalType /\ removal[r].list \cup removal[r].todo \subseteq Ever
    BY DEF RemovalTypes
  <2>3. new \in RemovalType /\ new.pc = "next" /\ new.list \cup new.todo \subseteq Ever
    BY <2>2 DEF RemovalType, Owner
  <2> HIDE DEF new
  <2> QED
    BY <1>1, <2>1, <2>3, RemovalWritten
<1>3. RowTypes' /\ kept' \subseteq App
  <2> DEFINE a == removal[r].app
  <2>1. a \in Saved /\ app' = [app EXCEPT ![a] = Cleared(r, app[a])]
        /\ kept' \in {kept, kept \cup {a}}
    BY DEF Clear
  <2>2. a \in App /\ app[a] \in RowType /\ removal[r].owner \in Owner
    BY <2>1 DEF Saved, RowTypes, RemovalTypes, RemovalType
  <2>3. Cleared(r, app[a]) \in RowType
    BY <2>2 DEF Cleared, RowType
  <2> HIDE DEF a
  <2> QED
    BY <1>1, <2>1, <2>2, <2>3, RowWritten DEF OtherTypes
<1> QED
  BY <1>1, <1>2, <1>3, RequestsStay DEF OtherTypes, counts

LEMMA TypeEnd ==
    ASSUME TypeInv, EndJob \/ DeleteAccount \/ \E r \in Removers : RemovalFails(r)
    PROVE  TypeInv'
<1> USE DEF TypeInv
<1>1. /\ UNCHANGED <<listing, setting, requestVars, edits, moves, latest, raced, missed, lost,
                     kept, crossed>>
      /\ Saved' = Saved /\ Ever' = Ever
  BY DEF EndJob, DeleteAccount, RemovalFails, requestVars, counts, historyVars, Saved, Ever
<1>2. PICK r \in Removers : removal' = [removal EXCEPT ![r] = Idle]
  BY DEF EndJob, DeleteAccount, RemovalFails, Removers
<1>3. owed' \subseteq Ever
  BY DEF EndJob, DeleteAccount, RemovalFails, historyVars, RemovalTypes, Removers
<1>4. RemovalTypes'
  BY <1>1, <1>2, <1>3, Nothing, RemovalWritten
<1>5. RowTypes'
  <2>1. CASE DeleteAccount
    <3>1. ASSUME NEW a \in App
          PROVE  app'[a] \in RowType /\ (a \notin Saved => NoRow(app'[a]))
      BY <2>1 DEF DeleteAccount, RowTypes, RowType, NoRow, Owner
    <3>2. app' = [a \in App |-> app'[a]]
      BY <2>1 DEF DeleteAccount
    <3> QED
      BY <1>1, <3>1, <3>2 DEF RowTypes
  <2>2. CASE EndJob \/ \E s \in Removers : RemovalFails(s)
    BY <1>1, <2>2 DEF EndJob, RemovalFails, RowTypes
  <2> QED
    BY <2>1, <2>2
<1>6. account' \in {"none", "exists", "gone"} /\ errors' \in 0..MaxErrors
      /\ replaced' \subseteq Removers
  BY Bounds DEF EndJob, DeleteAccount, RemovalFails, counts, OtherTypes
<1> QED
  BY <1>1, <1>4, <1>5, <1>6, RequestsStay DEF OtherTypes

LEMMA TypeStep == ASSUME TypeInv, [Next]_vars PROVE TypeInv'
<1>1. CASE UNCHANGED vars
  <2>1. Saved' = Saved /\ Ever' = Ever
    BY <1>1 DEF vars, requestVars, Saved, Ever
  <2> QED
    BY <1>1, <2>1, RequestsStay, RemovalsStay
       DEF vars, counts, historyVars, TypeInv, RowTypes, OtherTypes
<1> QED
  BY <1>1, TypeRequest, TypeCommit, TypeRollBack, TypeListing, TypeChange, TypeCreateAccount,
     TypeStart, TypeFind, TypeDrop, TypeClear, TypeEnd
     DEF Next, RemovalStep, ChangeStep, Owner

\* The types, and what they need to be kept.
LEMMA TypesHold == Spec => []TypeInv
<1>1. TypeInv /\ [Next]_vars => TypeInv'
  BY TypeStep
<1> QED
  BY <1>1, TypeInit, PTL DEF Spec

\* Every value is of its type, and of an application that was rolled back there is
\* nothing left but snapshots (create, removePII).
THEOREM Types == Spec => []TypeOK
BY TypesHold, Parts, PTL

----------------------------------------------------------------------------
(* What the steps write. *)

\* The rows after an application is saved.
LEMMA Committed ==
    ASSUME TypeInv, NEW a \in App, CommitSave(a)
    PROVE  /\ at[a] = "begun" /\ at' = [at EXCEPT ![a] = "fresh"]
           /\ a \notin Saved /\ a \notin Ever /\ Saved' = Saved \cup {a}
           /\ app'[a].owner = submission[a].by
           /\ app'[a].newest = (submission[a].by = User)
           /\ app'[a].cleared = "no"
           /\ submission[a].closed => app'[a].expire # "never"
           /\ \A b \in App \ {a} :
                 /\ app'[b].newest = (app[b].newest /\ b \notin submission[a].seen)
                 /\ app'[b].owner = app[b].owner /\ app'[b].expire = app[b].expire
                 /\ app'[b].cleared = app[b].cleared /\ app'[b].hist = app[b].hist
                 /\ app'[b].data = app[b].data /\ app'[b].snap = app[b].snap
<1> USE DEF TypeInv
<1>1. /\ at[a] = "begun" /\ at' = [at EXCEPT ![a] = "fresh"]
      /\ a \notin Saved /\ a \notin Ever /\ Saved' = Saved \cup {a}
  BY DEF CommitSave, Saved, Ever, RequestTypes
<1>2. PICK expire \in IF submission[a].closed THEN {"later", "past"} ELSE {"never"} :
          app' = [b \in App |-> IF b = a THEN NewRow(a, expire)
                     ELSE [app[b] EXCEPT !.newest = @ /\ b \notin submission[a].seen]]
  BY DEF CommitSave
<1>3. expire \in {"later", "past", "never"} /\ (submission[a].closed => expire # "never")
  BY <1>2
<1>4. app'[a] = NewRow(a, expire)
  BY <1>2
<1>5. ASSUME NEW b \in App \ {a}
      PROVE  /\ app'[b].newest = (app[b].newest /\ b \notin submission[a].seen)
             /\ app'[b].owner = app[b].owner /\ app'[b].expire = app[b].expire
             /\ app'[b].cleared = app[b].cleared /\ app'[b].hist = app[b].hist
             /\ app'[b].data = app[b].data /\ app'[b].snap = app[b].snap
  <2>1. app'[b] = [app[b] EXCEPT !.newest = app[b].newest /\ b \notin submission[a].seen]
    BY <1>2
  <2> QED
    BY <2>1 DEF RowTypes, RowType
<1> QED
  BY <1>1, <1>3, <1>4, <1>5, NewRowTyped

\* The rows after a creation is rolled back.
LEMMA RolledBack ==
    ASSUME TypeInv, NEW a \in App, RollBackCreate(a)
    PROVE  /\ at[a] = "fresh" /\ at' = [at EXCEPT ![a] = "undone"]
           /\ a \in Saved /\ Saved' = Saved \ {a}
           /\ app'[a].newest = FALSE
           /\ \A b \in App \ {a} : app'[b] = app[b] /\ submission'[b] = submission[b]
<1> USE DEF TypeInv
<1>1. /\ at[a] = "fresh" /\ at' = [at EXCEPT ![a] = "undone"]
      /\ a \in Saved /\ Saved' = Saved \ {a}
  BY DEF RollBackCreate, Saved, RequestTypes
<1>2. app'[a] = [Blank EXCEPT !.snap = app[a].snap]
  BY DEF RollBackCreate, RowTypes
<1>3. app'[a].newest = FALSE
  BY <1>2 DEF Blank
<1>4. \A b \in App \ {a} : app'[b] = app[b] /\ submission'[b] = submission[b]
  BY DEF RollBackCreate, RowTypes, RequestTypes
<1> QED
  BY <1>1, <1>3, <1>4

\* The row and the removal after personal data is cleared.
LEMMA ClearedRow ==
    ASSUME TypeInv, NEW r \in Removers, Clear(r)
    PROVE  LET a == removal[r].app
           IN  /\ a \in Saved /\ At(r, a) /\ Saved' = Saved
               /\ app'[a].data = (app[a].data /\ r \in replaced)
               /\ app'[a].snap = FALSE /\ app'[a].hist = removal[r].owner
               /\ app'[a].cleared = IF app[a].cleared = "no" THEN r ELSE app[a].cleared
               /\ app'[a].owner = app[a].owner /\ app'[a].newest = app[a].newest
               /\ app'[a].expire = app[a].expire
               /\ \A b \in App \ {a} : app'[b] = app[b]
               /\ removal'[r].pc = "next" /\ removal'[r].todo = removal[r].todo
               /\ removal'[r].list = removal[r].list
               /\ \A s \in Removers \ {r} : removal'[s] = removal[s]
<1> USE DEF TypeInv
<1> DEFINE a == removal[r].app
<1>1. a \in Saved /\ At(r, a) /\ Saved' = Saved /\ app' = [app EXCEPT ![a] = Cleared(r, app[a])]
  <2>1. a \in Saved /\ app' = [app EXCEPT ![a] = Cleared(r, app[a])]
    BY DEF Clear
  <2>2. Saved' = Saved
    BY DEF Clear, requestVars, Saved
  <2>3. At(r, a)
    BY DEF Clear, At
  <2> QED
    BY <2>1, <2>2, <2>3
<1>2. a \in App /\ app[a] \in RowType
  BY <1>1 DEF Saved, RowTypes
<1>3. app'[a] = Cleared(r, app[a]) /\ \A b \in App \ {a} : app'[b] = app[b]
  BY <1>1, <1>2 DEF RowTypes
<1>4. /\ app'[a].data = (app[a].data /\ r \in replaced)
      /\ app'[a].snap = FALSE /\ app'[a].hist = removal[r].owner
      /\ app'[a].cleared = IF app[a].cleared = "no" THEN r ELSE app[a].cleared
      /\ app'[a].owner = app[a].owner /\ app'[a].newest = app[a].newest
      /\ app'[a].expire = app[a].expire
  BY <1>2, <1>3 DEF Cleared, RowType
<1>5. /\ removal'[r].pc = "next" /\ removal'[r].todo = removal[r].todo
      /\ removal'[r].list = removal[r].list
      /\ \A s \in Removers \ {r} : removal'[s] = removal[s]
  BY DEF Clear, RemovalTypes, RemovalType
<1> QED
  BY <1>1, <1>3, <1>4, <1>5

\* The removal after its next application is read.
LEMMA Found ==
    ASSUME TypeInv, NEW r \in Removers, NEW a \in App, FindUncleared(r, a)
    PROVE  /\ removal[r].pc = "next" /\ a \in removal[r].todo
           /\ removal'[r].list = removal[r].list
           /\ removal'[r].todo = removal[r].todo \ {a}
           /\ \A s \in Removers \ {r} : removal'[s] = removal[s]
           /\ IF a \in Saved /\ app[a].cleared = "no"
              THEN removal'[r].pc = "found" /\ removal'[r].app = a
                   /\ removal'[r].owner = app[a].owner
              ELSE removal'[r].pc = "next"
<1> USE DEF TypeInv
<1> DEFINE rest == removal[r].todo \ {a}
<1>1. removal[r] \in RemovalType /\ removal[r].pc = "next" /\ a \in removal[r].todo
  BY DEF FindUncleared, RemovalTypes
<1>2. \A s \in Removers \ {r} : removal'[s] = removal[s]
  BY DEF FindUncleared, RemovalTypes
<1>3. CASE a \in Saved /\ app[a].cleared = "no"
  <2>1. removal'[r] = [removal[r] EXCEPT !.pc = "found", !.todo = rest, !.app = a,
                                        !.owner = app[a].owner]
    BY <1>3 DEF FindUncleared, RemovalTypes
  <2> QED
    BY <1>1, <1>2, <1>3, <2>1 DEF RemovalType
<1>4. CASE ~(a \in Saved /\ app[a].cleared = "no")
  <2>1. removal'[r] = [removal[r] EXCEPT !.todo = rest]
    BY <1>4 DEF FindUncleared, RemovalTypes
  <2> QED
    BY <1>1, <1>2, <1>4, <2>1 DEF RemovalType
<1> QED
  BY <1>3, <1>4

\* A removal that begins.
LEMMA Started ==
    ASSUME TypeInv, StartJob \/ StartDeletion
    PROVE  \E r \in Removers, list \in SUBSET Saved :
              /\ removal'[r].pc = "next" /\ removal'[r].list = list /\ removal'[r].todo = list
              /\ \A s \in Removers \ {r} : removal'[s] = removal[s]
              /\ r = "job" => list \subseteq Due
              /\ r = "account" => account = "exists" /\ \A a \in list : app[a].owner = User
<1> USE DEF TypeInv
<1>1. PICK r \in Removers, list \in SUBSET Saved :
          /\ removal' = [removal EXCEPT ![r] = [Idle EXCEPT !.pc = "next", !.list = list,
                                                            !.todo = list]]
          /\ r = "job" => list \subseteq Due
          /\ r = "account" => account = "exists" /\ \A a \in list : app[a].owner = User
  <2>1. CASE StartJob
    BY <2>1 DEF StartJob, Removers, Due
  <2>2. CASE StartDeletion
    BY <2>2 DEF StartDeletion, Removers
  <2> QED
    BY <2>1, <2>2
<1>2. list \in SUBSET App
  BY DEF Saved
<1>3. removal'[r].pc = "next" /\ removal'[r].list = list /\ removal'[r].todo = list
  BY <1>1, <1>2, StartTyped DEF RemovalTypes
<1>4. \A s \in Removers \ {r} : removal'[s] = removal[s]
  BY <1>1 DEF RemovalTypes
<1> QED
  BY <1>1, <1>3, <1>4

\* A removal that ends.
LEMMA Ended ==
    ASSUME TypeInv, EndJob \/ DeleteAccount \/ \E r \in Removers : RemovalFails(r)
    PROVE  \E r \in Removers :
              /\ removal'[r] = Idle
              /\ \A s \in Removers \ {r} : removal'[s] = removal[s]
              /\ DeleteAccount => r = "account"
BY DEF EndJob, DeleteAccount, RemovalFails, Removers, TypeInv, RemovalTypes

\* What most steps leave alone of the rows, and of the removals.
RowsStand ==
    /\ Saved' = Saved /\ latest' = latest
    /\ \A b \in App : /\ app'[b].newest = app[b].newest
                      /\ app'[b].cleared = app[b].cleared
                      /\ app'[b].hist = app[b].hist

RemovalsStand == removal' = removal /\ owed' = owed

RemovalStarts == StartJob \/ StartDeletion

RemovalEnds == EndJob \/ DeleteAccount \/ \E r \in Removers : RemovalFails(r)

\* The steps that write a removal.
RemovalWrites ==
    \/ RemovalStarts \/ RemovalEnds
    \/ \E r \in Removers : (\E a \in App : FindUncleared(r, a)) \/ DropSnapshots(r) \/ Clear(r)

\* The steps that write no row.
LEMMA NoRowWritten ==
    ASSUME TypeInv, NEW a,
           \/ UNCHANGED vars
           \/ \E by \in Owner : ReadListing(a, by)
           \/ BeginSave(a) \/ SaveFails(a) \/ EndCreate(a)
           \/ CloseListing \/ ReopenListing \/ SetExpireAfterLost
           \/ OpenForm(a) \/ ReadForSnapshot(a) \/ ChangeFails(a) \/ CreateAccount
           \/ RemovalStarts \/ EndJob
           \/ \E r \in Removers : FindUncleared(r, a) \/ RemovalFails(r)
    PROVE  app' = app /\ Saved' = Saved /\ latest' = latest
<1> USE DEF TypeInv
<1>1. CASE UNCHANGED vars
  BY <1>1 DEF vars, historyVars, requestVars, Saved
<1>2. CASE \/ \E by \in Owner : ReadListing(a, by)
           \/ BeginSave(a) \/ SaveFails(a) \/ EndCreate(a)
  <2>1. app' = app /\ latest' = latest
    BY <1>2 DEF ReadListing, BeginSave, SaveFails, EndCreate, historyVars
  <2>2. Saved' = Saved
    BY <1>2 DEF ReadListing, BeginSave, SaveFails, EndCreate, Saved, RequestTypes
  <2> QED
    BY <2>1, <2>2
<1>3. CASE CloseListing \/ ReopenListing \/ SetExpireAfterLost \/ RemovalStarts \/ EndJob
  BY <1>3 DEF CloseListing, ReopenListing, SetExpireAfterLost, RemovalStarts, StartJob,
              StartDeletion, EndJob, historyVars, requestVars, Saved
<1>4. CASE OpenForm(a) \/ ReadForSnapshot(a) \/ ChangeFails(a) \/ CreateAccount
  BY <1>4 DEF OpenForm, ReadForSnapshot, ChangeFails, CreateAccount, historyVars, Saved
<1>5. CASE \E r \in Removers : FindUncleared(r, a) \/ RemovalFails(r)
  BY <1>5 DEF FindUncleared, RemovalFails, historyVars, requestVars, Saved
<1> QED
  BY <1>1, <1>2, <1>3, <1>4, <1>5

\* The steps that write other parts of the rows: when they expire, whose they are,
\* what personal data there is.
LEMMA OtherPartsWritten ==
    ASSUME TypeInv, NEW a,
           \/ SetExpireAfter \/ ExpireAfterPasses(a)
           \/ WriteSnapshot(a) \/ WriteForm(a) \/ Connect(a)
           \/ DeleteAccount
           \/ \E r \in Removers : DropSnapshots(r)
    PROVE  RowsStand
<1> USE DEF TypeInv
<1>1. Saved' = Saved /\ latest' = latest
  BY DEF SetExpireAfter, ExpireAfterPasses, WriteSnapshot, WriteForm, Connect, DeleteAccount,
         DropSnapshots, historyVars, requestVars, Saved
<1>2. SUFFICES ASSUME NEW b \in App
               PROVE  /\ app'[b].newest = app[b].newest /\ app'[b].cleared = app[b].cleared
                      /\ app'[b].hist = app[b].hist
  BY <1>1 DEF RowsStand
<1>3. app[b] \in RowType
  BY DEF RowTypes
<1>4. CASE SetExpireAfter
  BY <1>3, <1>4 DEF SetExpireAfter, RowType
<1>5. CASE DeleteAccount
  BY <1>3, <1>5 DEF DeleteAccount, RowType
<1>6. CASE ExpireAfterPasses(a)
  BY <1>3, <1>6 DEF ExpireAfterPasses, RowTypes, RowType
<1>7. CASE WriteSnapshot(a) \/ WriteForm(a) \/ Connect(a)
  BY <1>3, <1>7 DEF WriteSnapshot, WriteForm, Connect, RowTypes, RowType
<1>8. CASE \E r \in Removers : DropSnapshots(r)
  BY <1>3, <1>8 DEF DropSnapshots, RowTypes, RowType
<1> QED
  BY <1>4, <1>5, <1>6, <1>7, <1>8

\* Only saving, rolling back and clearing write more of the rows than that.
LEMMA RowSteps ==
    ASSUME TypeInv, [Next]_vars
    PROVE  \/ \E a \in App : CommitSave(a) \/ RollBackCreate(a)
           \/ \E r \in Removers : Clear(r)
           \/ RowsStand
<1> SUFFICES ASSUME ~(\E a \in App : CommitSave(a) \/ RollBackCreate(a)),
                    ~(\E r \in Removers : Clear(r))
             PROVE  RowsStand
  OBVIOUS
<1> QED
  BY NoRowWritten, OtherPartsWritten DEF Next, RemovalStep, RemovalStarts, RowsStand, Owner

LEMMA RemovalSteps == ASSUME [Next]_vars PROVE RemovalWrites \/ RemovalsStand
<1>1. CASE UNCHANGED vars
  BY <1>1 DEF vars, historyVars, RemovalsStand
<1>2. ASSUME NEW a \in App,
             \/ \E by \in {User, Staff, None} : ReadListing(a, by)
             \/ BeginSave(a) \/ CommitSave(a) \/ SaveFails(a)
             \/ EndCreate(a) \/ RollBackCreate(a)
      PROVE  RemovalsStand
  BY <1>2 DEF ReadListing, BeginSave, CommitSave, SaveFails, EndCreate, RollBackCreate,
              historyVars, RemovalsStand
<1>3. ASSUME NEW a \in App, ExpireAfterPasses(a) \/ ChangeStep(a)
      PROVE  RemovalsStand
  BY <1>3 DEF ChangeStep, ExpireAfterPasses, OpenForm, ReadForSnapshot, WriteSnapshot, WriteForm,
              Connect, ChangeFails, historyVars, RemovalsStand
<1>4. CASE CloseListing \/ ReopenListing \/ SetExpireAfter \/ SetExpireAfterLost \/ CreateAccount
  BY <1>4 DEF CloseListing, ReopenListing, SetExpireAfter, SetExpireAfterLost, CreateAccount,
              historyVars, RemovalsStand
<1> QED
  BY <1>1, <1>2, <1>3, <1>4
     DEF Next, RemovalStep, RemovalWrites, RemovalStarts, RemovalEnds, ChangeStep

LEMMA Dropped ==
    ASSUME TypeInv, NEW r \in Removers, DropSnapshots(r)
    PROVE  /\ removal[r].pc = "found" /\ removal'[r].pc = "dropped"
           /\ removal'[r].app = removal[r].app /\ removal'[r].owner = removal[r].owner
           /\ removal'[r].todo = removal[r].todo /\ removal'[r].list = removal[r].list
           /\ \A s \in Removers \ {r} : removal'[s] = removal[s]
BY DEF DropSnapshots, TypeInv, RemovalTypes, RemovalType

----------------------------------------------------------------------------
(* The newest application of the account is not cleared by the job.  It is *)
(* marked as the newest from its saving on: a later saving unmarks those   *)
(* it saw, and is then the latest itself.  So it is never due, and neither *)
(* on the list of a job nor the one a job is at.                           *)

SeenInv == \A a \in App : submission[a].by # User => submission[a].seen = {}

LatestInv ==
    latest # None =>
        /\ latest \in Saved /\ app[latest].newest /\ app[latest].cleared # "job"
        /\ latest \notin removal["job"].todo /\ ~At("job", latest)

LEMMA SeenInit == Init => SeenInv
BY Nothing DEF Init, SeenInv

LEMMA SeenStep == ASSUME TypeInv, SeenInv, [Next]_vars PROVE SeenInv'
<1> USE DEF TypeInv
<1>1. ASSUME NEW a \in App, (\E by \in Owner : ReadListing(a, by)) \/ BeginSave(a)
      PROVE  SeenInv'
  <2>1. ASSUME NEW by \in Owner, ReadListing(a, by) PROVE SeenInv'
    BY <2>1 DEF ReadListing, SeenInv, RequestTypes
  <2>2. ASSUME BeginSave(a) PROVE SeenInv'
    <3>1. submission'[a].by = submission[a].by
          /\ submission'[a].seen = IF submission[a].by = User THEN Newest ELSE {}
      BY <2>2 DEF BeginSave, RequestTypes, SubmissionType
    <3>2. \A b \in App \ {a} : submission'[b] = submission[b]
      BY <2>2 DEF BeginSave, RequestTypes
    <3> QED
      BY <3>1, <3>2 DEF SeenInv
  <2> QED
    BY <1>1, <2>1, <2>2
<1>2. ASSUME NEW a \in App, SaveFails(a) \/ EndCreate(a) \/ RollBackCreate(a)
      PROVE  SeenInv'
  BY <1>2, Nothing DEF SaveFails, EndCreate, RollBackCreate, SeenInv, RequestTypes
<1>3. ASSUME NEW a \in App, CommitSave(a) \/ ExpireAfterPasses(a) \/ ChangeStep(a)
      PROVE  submission' = submission
  BY <1>3 DEF CommitSave, ExpireAfterPasses, ChangeStep, OpenForm, ReadForSnapshot, WriteSnapshot,
              WriteForm, Connect, ChangeFails, requestVars
<1>4. CASE \/ UNCHANGED vars
           \/ CloseListing \/ ReopenListing \/ SetExpireAfter \/ SetExpireAfterLost
           \/ CreateAccount \/ RemovalWrites
  BY <1>4 DEF vars, CloseListing, ReopenListing, SetExpireAfter, SetExpireAfterLost,
              CreateAccount, RemovalWrites, RemovalStarts, RemovalEnds, StartJob, StartDeletion,
              EndJob, DeleteAccount, RemovalFails, FindUncleared, DropSnapshots, Clear,
              requestVars, SeenInv
<1> QED
  BY <1>1, <1>2, <1>3, <1>4
     DEF Next, RemovalStep, RemovalWrites, RemovalStarts, RemovalEnds, ChangeStep, Owner, SeenInv

LEMMA LatestInit == Init => LatestInv
BY DEF Init, LatestInv

\* A step that leaves the rows alone does not put the latest on the job's list.
LEMMA LatestNotDue ==
    ASSUME TypeInv, LatestInv, RowsStand, [Next]_vars,
           ~(\E r \in Removers : Clear(r)), latest # None
    PROVE  latest \notin removal'["job"].todo /\ ~At("job", latest)'
<1> USE DEF TypeInv
<1>1. /\ latest \in Saved /\ app[latest].newest
      /\ latest \notin removal["job"].todo /\ ~At("job", latest) /\ latest' = latest
  BY DEF LatestInv, RowsStand
<1>2. CASE RemovalsStand
  BY <1>1, <1>2 DEF RemovalsStand, At
<1>3. CASE RemovalStarts
  <2>1. PICK r \in Removers, list \in SUBSET Saved :
              /\ removal'[r].pc = "next" /\ removal'[r].todo = list
              /\ \A s \in Removers \ {r} : removal'[s] = removal[s]
              /\ r = "job" => list \subseteq Due
    BY <1>3, Started DEF RemovalStarts
  <2>2. latest \notin Due
    BY <1>1 DEF Due
  <2> QED
    BY <1>1, <2>1, <2>2 DEF At, Removers
<1>4. ASSUME NEW r \in Removers, NEW a \in App, FindUncleared(r, a)
      PROVE  latest \notin removal'["job"].todo /\ ~At("job", latest)'
  <2>1. CASE r = "job"
    BY <1>1, <1>4, <2>1, Found DEF At
  <2>2. CASE r # "job"
    BY <1>1, <1>4, <2>2, Found DEF At, Removers
  <2> QED
    BY <2>1, <2>2
<1>5. ASSUME NEW r \in Removers, DropSnapshots(r)
      PROVE  latest \notin removal'["job"].todo /\ ~At("job", latest)'
  <2>1. CASE r = "job"
    BY <1>1, <1>5, <2>1, Dropped DEF At
  <2>2. CASE r # "job"
    BY <1>1, <1>5, <2>2, Dropped DEF At, Removers
  <2> QED
    BY <2>1, <2>2
<1>6. CASE RemovalEnds
  <2>1. PICK r \in Removers : /\ removal'[r] = Idle
                              /\ \A s \in Removers \ {r} : removal'[s] = removal[s]
    BY <1>6, Ended DEF RemovalEnds
  <2> QED
    BY <1>1, <2>1, Nothing DEF At, Removers
<1> QED
  BY <1>2, <1>3, <1>4, <1>5, <1>6, RemovalSteps DEF RemovalWrites

LEMMA LatestStep ==
    ASSUME TypeInv, SeenInv, LatestInv, [Next]_vars
    PROVE  LatestInv'
<1> USE DEF TypeInv
<1>1. ASSUME NEW a \in App, CommitSave(a) PROVE LatestInv'
  <2>1. removal' = removal /\ latest' = IF submission[a].by = User THEN a ELSE latest
    BY <1>1 DEF CommitSave
  <2>2. CASE submission[a].by = User
    <3>1. latest' = a /\ a \notin removal["job"].todo /\ ~At("job", a)
      BY <1>1, <2>1, <2>2, Committed DEF RemovalTypes, Removers
    <3> QED
      BY <1>1, <2>1, <2>2, <3>1, Committed DEF LatestInv, At
  <2>3. CASE submission[a].by # User
    <3>1. latest' = latest /\ submission[a].seen = {}
      BY <2>1, <2>3 DEF SeenInv
    <3>2. SUFFICES ASSUME latest # None PROVE LatestInv'
      BY <3>1 DEF LatestInv
    <3>3. latest \in App \ {a}
      BY <1>1, <3>2, Committed DEF LatestInv, Saved
    <3>4. /\ app'[latest].newest = (app[latest].newest /\ latest \notin submission[a].seen)
          /\ app'[latest].cleared = app[latest].cleared /\ Saved' = Saved \cup {a}
      BY <1>1, <3>3, Committed
    <3>5. latest \in Saved' /\ app'[latest].newest /\ app'[latest].cleared # "job"
      BY <3>1, <3>2, <3>4 DEF LatestInv
    <3>6. latest \notin removal'["job"].todo /\ ~At("job", latest)'
      BY <2>1, <3>1, <3>2 DEF LatestInv, At
    <3> QED
      BY <3>1, <3>5, <3>6 DEF LatestInv
  <2> QED
    BY <2>2, <2>3
<1>2. ASSUME NEW a \in App, RollBackCreate(a) PROVE LatestInv'
  <2>1. removal' = removal /\ latest' = IF latest = a THEN None ELSE latest
    BY <1>2 DEF RollBackCreate
  <2>2. SUFFICES ASSUME latest # None, latest # a PROVE LatestInv'
    BY <2>1 DEF LatestInv
  <2>3. latest' = latest /\ latest \in Saved \ {a}
    BY <2>1, <2>2 DEF LatestInv
  <2>4. app'[latest] = app[latest] /\ latest \in Saved'
    BY <1>2, <2>3, RolledBack DEF Saved
  <2> QED
    BY <2>1, <2>2, <2>3, <2>4 DEF LatestInv, At
<1>3. ASSUME NEW r \in Removers, Clear(r) PROVE LatestInv'
  <2>1. latest' = latest
    BY <1>3 DEF Clear
  <2>2. SUFFICES ASSUME latest # None PROVE LatestInv'
    BY <2>1 DEF LatestInv
  <2>3. latest \in Saved' /\ app'[latest].newest = app[latest].newest
    BY <1>3, <2>2, ClearedRow DEF LatestInv, Saved
  <2>4. app'[latest].cleared # "job"
    <3>1. CASE latest = removal[r].app
      <4>1. r # "job"
        BY <1>3, <2>2, <3>1 DEF LatestInv, At, Clear
      <4>2. app'[latest].cleared = IF app[latest].cleared = "no" THEN r ELSE app[latest].cleared
        BY <1>3, <3>1, ClearedRow
      <4> QED
        BY <2>2, <4>1, <4>2 DEF LatestInv
    <3>2. CASE latest # removal[r].app
      <4>1. latest \in App /\ app[latest].cleared # "job"
        BY <2>2 DEF LatestInv, Saved
      <4>2. \A b \in App \ {removal[r].app} : app'[b] = app[b]
        BY <1>3, ClearedRow
      <4> QED
        BY <3>2, <4>1, <4>2
    <3> QED
      BY <3>1, <3>2
  <2>5. latest \notin removal'["job"].todo /\ ~At("job", latest)'
    BY <1>3, <2>1, <2>2, ClearedRow DEF LatestInv, At, Removers
  <2> QED
    BY <2>1, <2>2, <2>3, <2>4, <2>5 DEF LatestInv
<1>4. CASE RowsStand /\ ~\E r \in Removers : Clear(r)
  <2>1. latest' = latest /\ Saved' = Saved
    BY <1>4 DEF RowsStand
  <2>2. SUFFICES ASSUME latest # None PROVE LatestInv'
    BY <2>1 DEF LatestInv
  <2>3. latest \in App
    BY <2>2 DEF LatestInv, Saved
  <2> QED
    BY <1>4, <2>1, <2>2, <2>3, LatestNotDue DEF LatestInv, RowsStand
<1> QED
  BY <1>1, <1>2, <1>3, <1>4, RowSteps

(* "Only delete applications that ... is not the most recent application   *)
(* for that user" (removePIICronJob), whatever overlapped.                 *)
THEOREM LatestIsKept == Spec => []NewestKept
<1>1. Init => TypeInv /\ SeenInv /\ LatestInv
  BY TypeInit, SeenInit, LatestInit
<1>2. TypeInv /\ SeenInv /\ LatestInv /\ [Next]_vars => (TypeInv /\ SeenInv /\ LatestInv)'
  BY TypeStep, SeenStep, LatestStep
<1>3. LatestInv => NewestKept
  BY DEF LatestInv, NewestKept
<1> QED
  BY <1>1, <1>2, <1>3, PTL DEF Spec

----------------------------------------------------------------------------
(* Two newest applications were saved at the same time.  The invariant is  *)
(* also about the transactions under way: of two of them both overlap, and *)
(* one that overlaps no other saw every newest application there is.       *)

Sees(a, b) == a \in Saving /\ b \in Newest /\ b \in submission[a].seen

Together == \A a, b \in Newest \cup Saving :
                a # b => (a \in raced /\ b \in raced) \/ Sees(a, b) \/ Sees(b, a)

NewestOwned == \A a \in App : app[a].newest => app[a].owner = User \/ account = "gone"

NewestInv == Together /\ NewestOwned

LEMMA NewestInit == Init => NewestInv
BY DEF Init, NewestInv, Together, NewestOwned, Newest, Saving, Saved, Blank

LEMMA AccountSteps ==
    ASSUME [Next]_vars
    PROVE  \/ account' = account
           \/ account = "none" /\ account' = "exists"
           \/ DeleteAccount /\ account' = "gone"
<1>1. ASSUME NEW a \in App,
             \/ \E by \in {User, Staff, None} : ReadListing(a, by)
             \/ BeginSave(a) \/ CommitSave(a) \/ SaveFails(a) \/ EndCreate(a)
             \/ RollBackCreate(a) \/ ExpireAfterPasses(a) \/ ChangeStep(a)
      PROVE  account' = account
  BY <1>1 DEF ReadListing, BeginSave, CommitSave, SaveFails, EndCreate, RollBackCreate,
              ExpireAfterPasses, ChangeStep, OpenForm, ReadForSnapshot, WriteSnapshot, WriteForm,
              Connect, ChangeFails
<1>2. CASE \/ UNCHANGED vars
           \/ CloseListing \/ ReopenListing \/ SetExpireAfter \/ SetExpireAfterLost
           \/ StartJob \/ StartDeletion \/ EndJob
           \/ \E r \in Removers : RemovalStep(r) \/ RemovalFails(r)
  BY <1>2 DEF vars, CloseListing, ReopenListing, SetExpireAfter, SetExpireAfterLost, StartJob,
              StartDeletion, EndJob, RemovalStep, FindUncleared, DropSnapshots, Clear,
              RemovalFails
<1>3. CASE CreateAccount \/ DeleteAccount
  BY <1>3 DEF CreateAccount, DeleteAccount
<1> QED
  BY <1>1, <1>2, <1>3 DEF Next, ChangeStep

\* Transactions begin one by one, and end.
LEMMA SavingSteps ==
    ASSUME TypeInv, [Next]_vars
    PROVE  \/ \E a \in App : BeginSave(a)
           \/ /\ raced' = raced /\ Saving' \subseteq Saving
              /\ \A a \in Saving' : submission'[a] = submission[a]
<1> USE DEF TypeInv
<1>1. CASE UNCHANGED <<at, submission, raced>>
  BY <1>1 DEF Saving
<1>2. ASSUME NEW a \in App,
             \/ \E by \in Owner : ReadListing(a, by)
             \/ CommitSave(a) \/ SaveFails(a) \/ EndCreate(a) \/ RollBackCreate(a)
      PROVE  /\ raced' = raced /\ Saving' \subseteq Saving
             /\ \A b \in Saving' : submission'[b] = submission[b]
  <2>1. raced' = raced /\ at' \in [App -> {"new", "read", "begun", "fresh", "saved", "undone"}]
        /\ at'[a] # "begun"
        /\ \A b \in App \ {a} : at'[b] = at[b] /\ submission'[b] = submission[b]
    BY <1>2 DEF ReadListing, CommitSave, SaveFails, EndCreate, RollBackCreate, RequestTypes,
                historyVars
  <2> QED
    BY <2>1 DEF Saving
<1>3. ASSUME NEW a \in App, ExpireAfterPasses(a) \/ ChangeStep(a)
      PROVE  UNCHANGED <<at, submission, raced>>
  BY <1>3 DEF ExpireAfterPasses, ChangeStep, OpenForm, ReadForSnapshot, WriteSnapshot, WriteForm,
              Connect, ChangeFails, requestVars, historyVars
<1>4. CASE \/ UNCHANGED vars
           \/ CloseListing \/ ReopenListing \/ SetExpireAfter \/ SetExpireAfterLost
           \/ CreateAccount \/ RemovalWrites
  <2>1. UNCHANGED <<at, submission, raced>>
    BY <1>4 DEF vars, CloseListing, ReopenListing, SetExpireAfter, SetExpireAfterLost,
                CreateAccount, RemovalWrites, RemovalStarts, RemovalEnds, StartJob, StartDeletion,
                EndJob, DeleteAccount, RemovalFails, FindUncleared, DropSnapshots, Clear,
                requestVars, historyVars
  <2> QED
    BY <1>1, <2>1
<1> QED
  BY <1>1, <1>2, <1>3, <1>4
     DEF Next, RemovalStep, RemovalWrites, RemovalStarts, RemovalEnds, ChangeStep, Owner

\* Whose a row is changes with the sign-up and with the account only.
LEMMA OwnerSteps ==
    ASSUME TypeInv, [Next]_vars, NEW b \in App, ~CommitSave(b), ~RollBackCreate(b)
    PROVE  \/ app'[b].owner = app[b].owner
           \/ Connect(b) /\ account = "exists" /\ app'[b].owner = User
           \/ DeleteAccount /\ app'[b].owner # User
<1> USE DEF TypeInv
<1>1. app[b] \in RowType
  BY DEF RowTypes
<1>2. ASSUME NEW a \in App, CommitSave(a) \/ RollBackCreate(a)
      PROVE  app'[b].owner = app[b].owner
  <2>1. b \in App \ {a}
    BY <1>2
  <2>2. CASE CommitSave(a)
    BY ONLY TypeInv, <2>1, <2>2, Committed
  <2>3. CASE RollBackCreate(a)
    <3>1. app'[b] = app[b]
      BY ONLY TypeInv, <2>1, <2>3, RolledBack
    <3> QED
      BY <3>1
  <2> QED
    BY <1>2, <2>2, <2>3
<1>3. ASSUME NEW r \in Removers, Clear(r)
      PROVE  app'[b].owner = app[b].owner
  <2>1. CASE removal[r].app = b
    BY <1>3, <2>1, ClearedRow
  <2>2. CASE removal[r].app # b
    BY <1>3, <2>2, ClearedRow
  <2> QED
    BY <2>1, <2>2
<1>4. CASE DeleteAccount
  BY <1>1, <1>4, Owners DEF DeleteAccount, RowType
<1>5. ASSUME NEW a \in App, Connect(a)
      PROVE  app'[b].owner = app[b].owner \/ (Connect(b) /\ account = "exists"
                                              /\ app'[b].owner = User)
  BY <1>1, <1>5 DEF Connect, RowTypes, RowType
<1>6. ASSUME NEW a \in App, ExpireAfterPasses(a) \/ WriteSnapshot(a) \/ WriteForm(a)
      PROVE  app'[b].owner = app[b].owner
  BY <1>1, <1>6 DEF ExpireAfterPasses, WriteSnapshot, WriteForm, RowTypes, RowType
<1>7. CASE SetExpireAfter
  BY <1>1, <1>7 DEF SetExpireAfter, RowType
<1>8. ASSUME NEW r \in Removers, DropSnapshots(r)
      PROVE  app'[b].owner = app[b].owner
  <2>1. app'[b] = app[b] \/ app'[b] = [app[b] EXCEPT !.snap = FALSE]
    BY <1>8 DEF DropSnapshots, RowTypes
  <2> QED
    BY <1>1, <2>1 DEF RowType
<1> QED
  BY <1>2, <1>3, <1>4, <1>5, <1>6, <1>7, <1>8, NoRowWritten
     DEF Next, RemovalStep, RemovalStarts, Owner

LEMMA OwnedStep ==
    ASSUME TypeInv, NewestOwned, [Next]_vars
    PROVE  NewestOwned'
<1> SUFFICES ASSUME NEW b \in App, app'[b].newest
             PROVE  app'[b].owner = User \/ account' = "gone"
  BY DEF NewestOwned
<1>1. CASE CommitSave(b)
  BY <1>1, Committed
<1>2. CASE RollBackCreate(b)
  BY <1>2, RolledBack
<1>3. CASE ~CommitSave(b) /\ ~RollBackCreate(b)
  <2>1. app[b].newest
    <3>1. ASSUME NEW a \in App, CommitSave(a) \/ RollBackCreate(a) PROVE app[b].newest
      BY <1>3, <3>1, Committed, RolledBack
    <3>2. ASSUME NEW r \in Removers, Clear(r) PROVE app[b].newest
      BY <3>2, ClearedRow
    <3> QED
      BY <3>1, <3>2, RowSteps DEF RowsStand
  <2>2. app[b].owner = User \/ account = "gone"
    BY <2>1 DEF NewestOwned
  <2>3. account = "gone" => account' = "gone"
    BY AccountSteps
  <2> QED
    BY <1>3, <2>2, <2>3, OwnerSteps, AccountSteps DEF DeleteAccount
<1> QED
  BY <1>1, <1>2, <1>3

\* Fewer newest applications, and fewer transactions.
LEMMA TogetherFewer ==
    ASSUME Together, raced' = raced, Newest' \subseteq Newest, Saving' \subseteq Saving,
           \A a \in Saving' : submission'[a] = submission[a]
    PROVE  Together'
<1>1. Newest \cap Saving = {}
  BY DEF Newest, Saving, Saved
<1> SUFFICES ASSUME NEW a \in (Newest \cup Saving)', NEW b \in (Newest \cup Saving)', a # b
             PROVE  ((a \in raced /\ b \in raced) \/ Sees(a, b) \/ Sees(b, a))'
  BY DEF Together
<1>2. (a \in raced /\ b \in raced) \/ Sees(a, b) \/ Sees(b, a)
  BY DEF Together
<1> QED
  BY <1>1, <1>2 DEF Sees

LEMMA TogetherStep ==
    ASSUME TypeInv, NewestInv, [Next]_vars
    PROVE  Together'
<1> USE DEF TypeInv, NewestInv
<1>1. Newest \cap Saving = {} /\ (Newest \cap Saving = {})'
  BY DEF Newest, Saving, Saved
<1>2. ASSUME NEW a \in App, BeginSave(a) PROVE Together'
  <2>1. Newest' = Newest
    BY <1>2 DEF BeginSave, Newest, Saved, RequestTypes
  <2>2. /\ \A b \in App \ {a} : submission'[b] = submission[b] /\ at'[b] = at[b]
        /\ at[a] = "read" /\ at'[a] = "begun" /\ submission'[a].by = submission[a].by
        /\ submission'[a].seen = IF submission[a].by = User THEN Newest ELSE {}
    BY <1>2 DEF BeginSave, RequestTypes, SubmissionType
  <2>3. Saving' = IF submission[a].by = User THEN Saving \cup {a} ELSE Saving
    BY <2>2 DEF Saving
  <2>4. CASE submission[a].by # User
    <3>1. raced' = raced
      BY <1>2, <2>4 DEF BeginSave
    <3>2. a \notin Saving
      BY <2>2 DEF Saving
    <3>3. \A b \in Saving' : submission'[b] = submission[b]
      BY <2>2, <2>3, <2>4, <3>2 DEF Saving
    <3> QED
      BY <2>1, <2>3, <2>4, <3>1, <3>3, TogetherFewer
  <2>5. CASE submission[a].by = User
    <3>1. raced' = IF Saving # {} THEN raced \cup {a} \cup Saving ELSE raced
      BY <1>2, <2>5 DEF BeginSave
    <3>2. a \notin Saving /\ a \in Saving' /\ a \notin Newest
      BY <2>2, <2>3, <2>5 DEF Saving, Newest, Saved
    <3>3. ASSUME NEW b \in (Newest \cup Saving)', a # b
          PROVE  (a \in raced /\ b \in raced)' \/ Sees(a, b)'
      BY <2>1, <2>2, <2>3, <2>5, <3>1, <3>2, <3>3 DEF Sees
    <3>4. ASSUME NEW b \in (Newest \cup Saving)' \ {a}, NEW c \in (Newest \cup Saving)' \ {a},
                 b # c
          PROVE  ((b \in raced /\ c \in raced) \/ Sees(b, c) \/ Sees(c, b))'
      <4>1. (b \in raced /\ c \in raced) \/ Sees(b, c) \/ Sees(c, b)
        BY <2>1, <2>3, <2>5, <3>4 DEF Together
      <4>2. \A d \in Saving : d \in Saving' /\ submission'[d] = submission[d]
        BY <2>2, <2>3, <3>2 DEF Saving
      <4> QED
        BY <2>1, <3>1, <4>1, <4>2 DEF Sees
    <3> QED
      BY <3>3, <3>4 DEF Together
  <2> QED
    BY <2>4, <2>5
<1>3. ASSUME NEW a \in App, CommitSave(a) PROVE Together'
  <2>1. /\ raced' = raced /\ submission' = submission
        /\ at[a] = "begun" /\ at' = [at EXCEPT ![a] = "fresh"]
    BY <1>3 DEF CommitSave
  <2>2. Saving' = Saving \ {a}
    BY <2>1 DEF Saving, RequestTypes
  <2>3. ASSUME NEW b \in Newest', b # a PROVE b \in Newest /\ b \notin submission[a].seen
    <3>1. b \in App \ {a} /\ b \in Saved' /\ app'[b].owner = User /\ app'[b].newest
      BY <2>3 DEF Newest, Saved
    <3>2. /\ app'[b].newest = (app[b].newest /\ b \notin submission[a].seen)
          /\ app'[b].owner = app[b].owner /\ Saved' = Saved \cup {a}
      BY <1>3, <3>1, Committed
    <3> QED
      BY <3>1, <3>2 DEF Newest
  <2>4. CASE submission[a].by # User
    <3>1. a \notin Newest'
      BY <1>3, <2>4, Committed DEF Newest
    <3> QED
      BY <2>1, <2>2, <2>3, <3>1, TogetherFewer
  <2>5. CASE submission[a].by = User
    <3>1. a \in Saving /\ a \notin Saving' /\ a \notin Newest
      BY <2>1, <2>2, <2>5 DEF Saving, Newest, Saved
    <3>2. ASSUME NEW b \in (Newest \cup Saving)', a # b
          PROVE  a \in raced /\ b \in raced
      <4>1. b \in Newest \cup Saving
        BY <2>2, <2>3, <3>2
      <4>2. (a \in raced /\ b \in raced) \/ Sees(a, b) \/ Sees(b, a)
        BY <3>1, <3>2, <4>1 DEF Together
      <4>3. ~Sees(b, a)
        BY <3>1 DEF Sees
      <4>4. ~Sees(a, b)
        <5>1. CASE b \in Newest'
          BY <2>3, <3>2, <5>1 DEF Sees
        <5>2. CASE b \in Saving'
          BY <1>1, <2>2, <5>2 DEF Sees
        <5> QED
          BY <3>2, <5>1, <5>2
      <4> QED
        BY <4>2, <4>3, <4>4
    <3>3. ASSUME NEW b \in (Newest \cup Saving)' \ {a}, NEW c \in (Newest \cup Saving)' \ {a},
                 b # c
          PROVE  ((b \in raced /\ c \in raced) \/ Sees(b, c) \/ Sees(c, b))'
      <4>1. (b \in raced /\ c \in raced) \/ Sees(b, c) \/ Sees(c, b)
        BY <2>2, <2>3, <3>3 DEF Together
      <4>2. /\ b \in Saving => b \in Saving'
            /\ c \in Saving => c \in Saving'
            /\ b \in Newest => b \in Newest'
            /\ c \in Newest => c \in Newest'
        BY <1>1, <2>2, <3>3
      <4> QED
        BY <2>1, <4>1, <4>2 DEF Sees
    <3> QED
      BY <2>1, <3>2, <3>3 DEF Together
  <2> QED
    BY <2>4, <2>5
<1>4. CASE ~(\E a \in App : BeginSave(a) \/ CommitSave(a))
  <2>1. /\ raced' = raced /\ Saving' \subseteq Saving
        /\ \A a \in Saving' : submission'[a] = submission[a]
    BY <1>4, SavingSteps
  <2>2. ASSUME NEW b \in Newest' PROVE b \in Newest
    <3>1. ~RollBackCreate(b)
      BY RolledBack DEF Newest, Saved
    <3>2. b \in App /\ b \in Saved /\ app[b].newest
      <4>1. ASSUME NEW a \in App, RollBackCreate(a) PROVE b \in Saved /\ app[b].newest
        BY <3>1, <4>1, RolledBack DEF Newest, Saved
      <4>2. ASSUME NEW r \in Removers, Clear(r) PROVE b \in Saved /\ app[b].newest
        BY <4>2, ClearedRow DEF Newest, Saved
      <4>3. CASE RowsStand
        BY <4>3 DEF RowsStand, Newest, Saved
      <4> QED
        BY <1>4, <4>1, <4>2, <4>3, RowSteps DEF Newest, Saved
    <3>3. app[b].owner = User \/ account = "gone"
      BY <3>2 DEF NewestOwned
    <3>4. app[b].owner = User
      BY <1>4, <3>1, <3>2, <3>3, OwnerSteps DEF Newest
    <3> QED
      BY <3>2, <3>4 DEF Newest
  <2> QED
    BY <2>1, <2>2, TogetherFewer
<1> QED
  BY <1>2, <1>3, <1>4

(* An account has two newest applications only when they were saved at the *)
(* same time (create).                                                     *)
THEOREM NewestIsOne == Spec => []OneNewest
<1>1. Init => TypeInv /\ NewestInv
  BY TypeInit, NewestInit
<1>2. TypeInv /\ NewestInv /\ [Next]_vars => (TypeInv /\ NewestInv)'
  BY TypeStep, OwnedStep, TogetherStep DEF NewestInv
<1>3. NewestInv => OneNewest
  <2>1. Newest \cap Saving = {}
    BY DEF Newest, Saving, Saved
  <2> QED
    BY <2>1 DEF NewestInv, Together, Sees, OneNewest
<1> QED
  BY <1>1, <1>2, <1>3, PTL DEF Spec

----------------------------------------------------------------------------
(* A closed listing whose closing is over.  Besides the saved applications *)
(* the invariant is about those on their way: a request that was not there *)
(* when expireAfter was set has read the listing as closed.                *)

Closed == listing = "closed" /\ ~setting /\ ~lost

\* What is known of an application once the listing is closed and its closing over.
Expires(a) ==
    /\ a \in Saved => app[a].expire # "never"
    /\ at[a] \in {"read", "begun"} => submission[a].closed

ExpireInv == Closed => \A a \in App \ missed : Expires(a)

LEMMA ExpireInit == Init => ExpireInv
BY DEF Init, ExpireInv, Closed

\* A step that keeps what Expires says, and does not end a closing.
LEMMA ExpireKept ==
    ASSUME ExpireInv, Closed' => Closed, missed' = missed,
           \A a \in App \ missed : Expires(a) => Expires(a)'
    PROVE  ExpireInv'
BY DEF ExpireInv

\* No step but setting it makes an expireAfter "never" again.
LEMMA ExpireWritten ==
    ASSUME TypeInv, [Next]_vars, NEW b \in App, ~CommitSave(b), b \in Saved', ~RollBackCreate(b),
           app[b].expire # "never"
    PROVE  app'[b].expire # "never"
<1> USE DEF TypeInv
<1>1. app[b] \in RowType
  BY DEF RowTypes
<1>2. ASSUME NEW a \in App, CommitSave(a) \/ RollBackCreate(a)
      PROVE  app'[b].expire = app[b].expire
  <2>1. b \in App \ {a}
    BY <1>2
  <2>2. CASE CommitSave(a)
    BY ONLY TypeInv, <2>1, <2>2, Committed
  <2>3. CASE RollBackCreate(a)
    <3>1. app'[b] = app[b]
      BY ONLY TypeInv, <2>1, <2>3, RolledBack
    <3> QED
      BY <3>1
  <2> QED
    BY <1>2, <2>2, <2>3
<1>3. ASSUME NEW r \in Removers, Clear(r)
      PROVE  app'[b].expire = app[b].expire
  <2>1. CASE removal[r].app = b
    BY <1>3, <2>1, ClearedRow
  <2>2. CASE removal[r].app # b
    BY <1>3, <2>2, ClearedRow
  <2> QED
    BY <2>1, <2>2
<1>4. CASE DeleteAccount
  BY <1>1, <1>4 DEF DeleteAccount, RowType
<1>5. ASSUME NEW a \in App, WriteSnapshot(a) \/ WriteForm(a) \/ Connect(a)
      PROVE  app'[b].expire = app[b].expire
  BY <1>1, <1>5 DEF WriteSnapshot, WriteForm, Connect, RowTypes, RowType
<1>6. ASSUME NEW a \in App, ExpireAfterPasses(a)
      PROVE  app'[b].expire \in {app[b].expire, "past"}
  BY <1>1, <1>6 DEF ExpireAfterPasses, RowTypes, RowType
<1>7. CASE SetExpireAfter
  BY <1>1, <1>7 DEF SetExpireAfter, RowType
<1>8. ASSUME NEW r \in Removers, DropSnapshots(r)
      PROVE  app'[b].expire = app[b].expire
  <2>1. app'[b] = app[b] \/ app'[b] = [app[b] EXCEPT !.snap = FALSE]
    BY <1>8 DEF DropSnapshots, RowTypes
  <2> QED
    BY <1>1, <2>1 DEF RowType
<1> QED
  BY <1>2, <1>3, <1>4, <1>5, <1>6, <1>7, <1>8, NoRowWritten
     DEF Next, RemovalStep, RemovalStarts, Owner

LEMMA ExpireStep ==
    ASSUME TypeInv, ExpireInv, [Next]_vars
    PROVE  ExpireInv'
<1> USE DEF TypeInv
<1>1. ASSUME NEW a \in App, NEW by \in Owner, ReadListing(a, by) PROVE ExpireInv'
  <2>1. /\ UNCHANGED <<app, missed, listing, setting, lost>> /\ Saved' = Saved
        /\ at' = [at EXCEPT ![a] = "read"] /\ at[a] = "new"
        /\ submission'[a].closed = (listing = "closed")
        /\ \A b \in App \ {a} : submission'[b] = submission[b]
    BY <1>1 DEF ReadListing, historyVars, RequestTypes, Saved
  <2>2. Closed' => Closed
    BY <2>1 DEF Closed
  <2>3. CASE ~Closed
    BY <2>2, <2>3 DEF ExpireInv
  <2>4. CASE Closed
    <3>1. \A b \in App \ missed : Expires(b) => Expires(b)'
      BY <2>1, <2>4 DEF Expires, Closed, RequestTypes
    <3> QED
      BY <2>1, <2>2, <3>1, ExpireKept
  <2> QED
    BY <2>3, <2>4
<1>2. ASSUME NEW a \in App, BeginSave(a) \/ SaveFails(a) \/ EndCreate(a) PROVE ExpireInv'
  <2>1. UNCHANGED <<app, missed, listing, setting, lost>>
    BY <1>2 DEF BeginSave, SaveFails, EndCreate, historyVars
  <2>2. /\ \A b \in App \ {a} : submission'[b] = submission[b] /\ at'[b] = at[b]
        /\ BeginSave(a) => at[a] = "read" /\ submission'[a].closed = submission[a].closed
    BY <1>2 DEF BeginSave, SaveFails, EndCreate, RequestTypes, SubmissionType
  <2>3. at'[a] \in {"read", "begun"} => BeginSave(a)
    BY <1>2 DEF BeginSave, SaveFails, EndCreate, RequestTypes
  <2>4. Saved' = Saved
    BY <1>2, NoRowWritten
  <2>5. \A b \in App \ missed : Expires(b) => Expires(b)'
    BY <2>1, <2>2, <2>3, <2>4 DEF Expires
  <2>6. Closed' => Closed
    BY <2>1 DEF Closed
  <2> QED
    BY <2>1, <2>5, <2>6, ExpireKept
<1>3. ASSUME NEW a \in App, CommitSave(a) PROVE ExpireInv'
  <2>1. /\ UNCHANGED <<missed, listing, setting, lost, submission>>
        /\ at[a] = "begun" /\ at' = [at EXCEPT ![a] = "fresh"] /\ Saved' = Saved \cup {a}
    BY <1>3, Committed DEF CommitSave
  <2>2. Expires(a) => Expires(a)'
    BY <1>3, <2>1, Committed DEF Expires, RequestTypes
  <2>3. \A b \in App \ {a} : app'[b].expire = app[b].expire
    BY <1>3, Committed
  <2>4. \A b \in App \ {a} : Expires(b) => Expires(b)'
    BY <2>1, <2>3 DEF Expires, RequestTypes
  <2>5. Closed' => Closed
    BY <2>1 DEF Closed
  <2> QED
    BY <2>1, <2>2, <2>4, <2>5, ExpireKept
<1>4. ASSUME NEW a \in App, RollBackCreate(a) PROVE ExpireInv'
  <2>1. /\ UNCHANGED <<missed, listing, setting, lost>>
        /\ at' = [at EXCEPT ![a] = "undone"] /\ Saved' = Saved \ {a}
    BY <1>4, RolledBack DEF RollBackCreate
  <2>2. \A b \in App \ {a} : app'[b] = app[b] /\ submission'[b] = submission[b]
    BY <1>4, RolledBack
  <2>3. \A b \in App : Expires(b) => Expires(b)'
    BY <2>1, <2>2 DEF Expires, RequestTypes
  <2>4. Closed' => Closed
    BY <2>1 DEF Closed
  <2> QED
    BY <2>1, <2>3, <2>4, ExpireKept
<1>5. CASE SetExpireAfter
  <2>1. /\ Saved' = Saved /\ at' = at /\ submission' = submission
        /\ missed' = missed \cup {a \in App : at[a] \in {"read", "begun"} /\ ~submission[a].closed}
    BY <1>5 DEF SetExpireAfter, requestVars, Saved
  <2>2. ASSUME NEW a \in Saved PROVE app'[a].expire # "never"
    BY <1>5 DEF SetExpireAfter, RowTypes, RowType, Saved
  <2> QED
    BY <2>1, <2>2 DEF ExpireInv, Expires
<1>6. CASE CloseListing \/ ReopenListing \/ SetExpireAfterLost
  BY <1>6 DEF CloseListing, ReopenListing, SetExpireAfterLost, ExpireInv, Closed
<1>7. CASE \/ UNCHANGED vars
           \/ \E a \in App : ExpireAfterPasses(a) \/ ChangeStep(a)
           \/ CreateAccount \/ RemovalWrites
  <2>1. UNCHANGED <<at, submission, missed, listing, setting, lost>>
    BY <1>7 DEF vars, ExpireAfterPasses, ChangeStep, OpenForm, ReadForSnapshot, WriteSnapshot,
                WriteForm, Connect, ChangeFails, CreateAccount, RemovalWrites, RemovalStarts,
                RemovalEnds, StartJob, StartDeletion, EndJob, DeleteAccount, RemovalFails,
                FindUncleared, DropSnapshots, Clear, requestVars, historyVars
  <2>2. Saved' = Saved
    BY <2>1 DEF Saved
  <2>3. ASSUME NEW b \in App, Expires(b) PROVE Expires(b)'
    <3>1. ~CommitSave(b) /\ ~RollBackCreate(b)
      BY <2>2, Committed, RolledBack
    <3> QED
      BY <2>1, <2>2, <2>3, <3>1, ExpireWritten DEF Expires
  <2>4. Closed' => Closed
    BY <2>1 DEF Closed
  <2> QED
    BY <2>1, <2>3, <2>4, ExpireKept
<1> QED
  BY <1>1, <1>2, <1>3, <1>4, <1>5, <1>6, <1>7
     DEF Next, RemovalStep, RemovalWrites, RemovalStarts, RemovalEnds, ChangeStep, Owner

(* A closed listing whose closing is over has no application without       *)
(* expireAfter, late ones included, except those that were being saved     *)
(* (create, setExpireAfterValueOnApplications).                            *)
THEOREM ClosingExpires == Spec => []ClosedExpires
<1>1. Init => TypeInv /\ ExpireInv
  BY TypeInit, ExpireInit
<1>2. TypeInv /\ ExpireInv /\ [Next]_vars => (TypeInv /\ ExpireInv)'
  BY TypeStep, ExpireStep
<1>3. ExpireInv => ClosedExpires
  BY DEF ExpireInv, Expires, Closed, ClosedExpires, Saved
<1> QED
  BY <1>1, <1>2, <1>3, PTL DEF Spec

----------------------------------------------------------------------------
(* What removePII clears is gone, unless a request held it or an update    *)
(* had replaced the rows it looked up.  The invariant is also about the    *)
(* requests: none holds data of a cleared application, so none brings it   *)
(* back.                                                                   *)

\* No personal data in the row, the snapshots or a request.
NoData(a) == ~app[a].data /\ ~app[a].snap /\ ~InRequest(a)

DataInv == \A a \in Saved \ kept : app[a].cleared # "no" => NoData(a)

LEMMA DataInit == Init => DataInv
BY DEF Init, DataInv, Saved

\* A step that clears nothing, and brings no data to where there was none.
LEMMA DataKept ==
    ASSUME DataInv, kept' = kept, Saved' \subseteq Saved,
           \A a \in Saved' : /\ app'[a].cleared = app[a].cleared
                             /\ app[a].cleared # "no" /\ NoData(a) => NoData(a)'
    PROVE  DataInv'
BY DEF DataInv, Saved

\* The changes of an application copy no data that is not there.
LEMMA DataChange ==
    ASSUME TypeInv, NEW a \in App, ChangeStep(a), NEW b \in App, NoData(b)
    PROVE  NoData(b)'
<1> USE DEF TypeInv
<1>1. /\ app[b] \in RowType /\ change[b] \in ChangeType
      /\ app \in [App -> RowType] /\ change \in [App -> ChangeType]
  BY DEF RowTypes, RequestTypes
<1>2. ~app[b].data /\ ~app[b].snap /\ ~change[b].form /\ ~change[b].copy
  BY DEF NoData, InRequest
<1>3. CASE OpenForm(a)
  <2>1. app' = app /\ change' = [change EXCEPT ![a] = [kind |-> "form", form |-> app[a].data,
                                                       copy |-> FALSE]]
    BY <1>3 DEF OpenForm
  <2> QED
    BY <1>1, <1>2, <2>1 DEF NoData, InRequest
<1>4. CASE ReadForSnapshot(a)
  <2>1. /\ app' = app /\ change'[b].form = change[b].form
        /\ change'[b].copy = IF b = a THEN app[b].data ELSE change[b].copy
    BY <1>1, <1>4 DEF ReadForSnapshot, ChangeType
  <2> QED
    BY <1>2, <2>1 DEF NoData, InRequest
<1>5. CASE WriteSnapshot(a)
  <2>1. /\ change'[b].form = change[b].form
        /\ change'[b].copy = (b # a /\ change[b].copy)
    BY <1>1, <1>5 DEF WriteSnapshot, ChangeType
  <2>2. /\ app'[b].data = app[b].data
        /\ app'[b].snap = (app[b].snap \/ (b = a /\ change[b].copy))
    BY <1>1, <1>5 DEF WriteSnapshot, RowType, ChangeType
  <2> QED
    BY <1>2, <2>1, <2>2 DEF NoData, InRequest
<1>6. CASE WriteForm(a) \/ Connect(a) \/ ChangeFails(a)
  <2>1. change'[b] = IF b = a THEN Unchanged ELSE change[b]
    BY <1>1, <1>6 DEF WriteForm, Connect, ChangeFails
  <2>2. ~change'[b].form /\ ~change'[b].copy
    BY <1>2, <2>1, Nothing
  <2>3. ~app'[b].data /\ ~app'[b].snap
    BY <1>1, <1>2, <1>6 DEF WriteForm, Connect, ChangeFails, RowType
  <2> QED
    BY <2>2, <2>3 DEF NoData, InRequest
<1> QED
  BY <1>3, <1>4, <1>5, <1>6 DEF ChangeStep

\* The steps that are neither a change nor a saving, a rolling back or a clearing.
OtherStep ==
    \/ UNCHANGED vars
    \/ \E a \in App : \/ \E by \in Owner : ReadListing(a, by)
                      \/ BeginSave(a) \/ SaveFails(a) \/ EndCreate(a)
                      \/ ExpireAfterPasses(a)
                      \/ \E r \in Removers : FindUncleared(r, a)
    \/ CloseListing \/ ReopenListing \/ SetExpireAfter \/ SetExpireAfterLost
    \/ CreateAccount \/ RemovalStarts \/ RemovalEnds
    \/ \E r \in Removers : DropSnapshots(r)

LEMMA OtherSteps ==
    ASSUME [Next]_vars
    PROVE  \/ \E a \in App : CommitSave(a) \/ RollBackCreate(a) \/ ChangeStep(a)
           \/ \E r \in Removers : Clear(r)
           \/ OtherStep
BY DEF Next, RemovalStep, RemovalStarts, RemovalEnds, ChangeStep, OtherStep, Owner

\* Nor do those.
LEMMA DataOther ==
    ASSUME TypeInv, NEW b \in App, NoData(b), OtherStep
    PROVE  NoData(b)'
<1> USE DEF TypeInv, OtherStep
<1>1. app[b] \in RowType
  BY DEF RowTypes
<1>2. ~app[b].data /\ ~app[b].snap /\ ~change[b].form /\ ~change[b].copy
  BY DEF NoData, InRequest
<1>3. ~change'[b].form /\ ~change'[b].copy
  <2>1. CASE CreateAccount
    <3>1. change'[b] = change[b] \/ change'[b] = [Unchanged EXCEPT !.kind = "connect"]
      BY <2>1 DEF CreateAccount
    <3> QED
      BY <1>2, <3>1, Nothing DEF Unchanged
  <2>2. CASE ~CreateAccount
    <3>1. change' = change
      BY <2>2 DEF vars, ReadListing, BeginSave, SaveFails, EndCreate, ExpireAfterPasses,
                  FindUncleared, CloseListing, ReopenListing, SetExpireAfter, SetExpireAfterLost,
                  RemovalStarts, StartJob, StartDeletion, RemovalEnds, EndJob, DeleteAccount,
                  RemovalFails, DropSnapshots, requestVars
    <3> QED
      BY <1>2, <3>1
  <2> QED
    BY <2>1, <2>2
<1>4. ~app'[b].data /\ ~app'[b].snap
  <2>1. CASE SetExpireAfter
    BY <1>1, <1>2, <2>1 DEF SetExpireAfter, RowType
  <2>2. CASE DeleteAccount
    BY <1>1, <1>2, <2>2 DEF DeleteAccount, RowType
  <2>3. ASSUME NEW a \in App, ExpireAfterPasses(a) PROVE ~app'[b].data /\ ~app'[b].snap
    BY <1>1, <1>2, <2>3 DEF ExpireAfterPasses, RowTypes, RowType
  <2>4. ASSUME NEW r \in Removers, DropSnapshots(r) PROVE ~app'[b].data /\ ~app'[b].snap
    <3>1. app'[b] = app[b] \/ app'[b] = [app[b] EXCEPT !.snap = FALSE]
      BY <2>4 DEF DropSnapshots, RowTypes
    <3> QED
      BY <1>1, <1>2, <3>1 DEF RowType
  <2> QED
    BY <1>2, <2>1, <2>2, <2>3, <2>4, NoRowWritten DEF RemovalEnds
<1> QED
  BY <1>3, <1>4 DEF NoData, InRequest

LEMMA DataStep ==
    ASSUME TypeInv, DataInv, [Next]_vars
    PROVE  DataInv'
<1> USE DEF TypeInv
<1>1. ASSUME NEW a \in App, CommitSave(a) PROVE DataInv'
  <2>1. kept' = kept /\ change' = change
    BY <1>1 DEF CommitSave
  <2>2. app'[a].cleared = "no" /\ Saved' = Saved \cup {a}
    BY <1>1, Committed
  <2>3. \A b \in App \ {a} : /\ app'[b].cleared = app[b].cleared
                             /\ app'[b].data = app[b].data /\ app'[b].snap = app[b].snap
    BY <1>1, Committed
  <2>4. \A b \in App \ {a} : NoData(b) => NoData(b)'
    BY <2>1, <2>3 DEF NoData, InRequest
  <2> QED
    BY <2>1, <2>2, <2>3, <2>4 DEF DataInv, Saved
<1>2. ASSUME NEW a \in App, RollBackCreate(a) PROVE DataInv'
  <2>1. kept' = kept /\ change' = change
    BY <1>2 DEF RollBackCreate
  <2>2. Saved' = Saved \ {a} /\ \A b \in App \ {a} : app'[b] = app[b]
    BY <1>2, RolledBack
  <2>3. \A b \in Saved' : app'[b] = app[b] /\ (NoData(b) => NoData(b)')
    BY <2>1, <2>2 DEF NoData, InRequest, Saved
  <2> QED
    BY <2>1, <2>2, <2>3, DataKept
<1>3. ASSUME NEW r \in Removers, Clear(r) PROVE DataInv'
  <2>0. PICK a \in App : a = removal[r].app
    BY <1>3 DEF Clear, Saved
  <2>1. /\ change' = change
        /\ kept' = IF Remains(r, a) THEN kept \cup {a} ELSE kept
    BY <1>3, <2>0 DEF Clear, requestVars
  <2>2. /\ Saved' = Saved /\ app'[a].data = (app[a].data /\ r \in replaced)
        /\ app'[a].snap = FALSE
        /\ \A b \in App \ {a} : app'[b] = app[b]
    BY <1>3, <2>0, ClearedRow
  <2>3. \A b \in App \ {a} : NoData(b) => NoData(b)'
    BY <2>1, <2>2 DEF NoData, InRequest
  <2>4. ~Remains(r, a) => NoData(a)'
    BY <2>1, <2>2 DEF NoData, InRequest, Remains
  <2> QED
    BY <2>1, <2>2, <2>3, <2>4 DEF DataInv, Saved
<1>4. CASE OtherStep \/ \E a \in App : ChangeStep(a)
  <2>1. ASSUME NEW a \in App, ChangeStep(a) PROVE kept' = kept
    BY <2>1 DEF ChangeStep, OpenForm, ReadForSnapshot, WriteSnapshot, WriteForm, Connect,
                ChangeFails, historyVars
  <2>2. ASSUME OtherStep PROVE kept' = kept
    BY <2>2 DEF OtherStep, vars, ReadListing, BeginSave, SaveFails, EndCreate, ExpireAfterPasses,
                CloseListing, ReopenListing, SetExpireAfter, SetExpireAfterLost, CreateAccount,
                RemovalStarts, StartJob, StartDeletion, RemovalEnds, EndJob, DeleteAccount,
                FindUncleared, DropSnapshots, RemovalFails, historyVars
  <2>3. RowsStand
    <3>1. ASSUME NEW a \in App, ChangeStep(a) PROVE RowsStand
      BY <3>1, NoRowWritten, OtherPartsWritten DEF ChangeStep, RowsStand
    <3>2. CASE OtherStep
      BY <3>2, NoRowWritten, OtherPartsWritten DEF OtherStep, RemovalEnds, RowsStand
    <3> QED
      BY <1>4, <3>1, <3>2
  <2>4. ASSUME NEW b \in App, NoData(b) PROVE NoData(b)'
    BY <1>4, <2>4, DataChange, DataOther
  <2>5. kept' = kept
    BY <1>4, <2>1, <2>2
  <2> QED
    BY <2>3, <2>4, <2>5, DataKept DEF RowsStand, Saved
<1> QED
  BY <1>1, <1>2, <1>3, <1>4, OtherSteps

(* Of what removePII clears nothing remains of an application that it      *)
(* cleared, neither in the rows nor in a row of application_snapshot,      *)
(* unless a request held the data at the time, or an update had replaced   *)
(* the rows since removePII looked them up.                                *)
THEOREM ClearedDataIsGone == Spec => []ClearedHasNoData
<1>1. Init => TypeInv /\ DataInv
  BY TypeInit, DataInit
<1>2. TypeInv /\ DataInv /\ [Next]_vars => (TypeInv /\ DataInv)'
  BY TypeStep, DataStep
<1>3. DataInv => ClearedHasNoData
  BY DEF DataInv, NoData, ClearedHasNoData
<1> QED
  BY <1>1, <1>2, <1>3, PTL DEF Spec

----------------------------------------------------------------------------
(* What went with an account was cleared and tells whose it was.  While    *)
(* the account is being deleted, what is on its list is still to come, is  *)
(* the one it is at, or was cleared; and whoever clears an application of  *)
(* the account has read its owner, unless it got one since.                *)

Traced(a) ==
    /\ app[a].cleared # "no" => app[a].hist = User \/ a \in crossed
    /\ \A r \in Removers : At(r, a) => removal[r].owner = User \/ a \in crossed

TracedInv == \A a \in Saved : app[a].owner = User \/ a \in owed => Traced(a)

Handled(a) ==
    a \in removal["account"].todo \/ At("account", a) \/ app[a].cleared # "no"

ListInv ==
    removal["account"].pc # "rest" =>
        /\ account = "exists"
        /\ \A a \in removal["account"].list \cap Saved : app[a].owner = User /\ Handled(a)

OwedInv == \A a \in owed \cap Saved : app[a].cleared # "no"

GoneInv == TracedInv /\ ListInv /\ OwedInv

LEMMA GoneInit == Init => GoneInv
BY Nothing DEF Init, GoneInv, TracedInv, ListInv, OwedInv, Saved

\* Histories grow, and only the deletion of the account owes anything.
LEMMA HistorySteps ==
    ASSUME [Next]_vars
    PROVE  crossed \subseteq crossed' /\ (owed' = owed \/ DeleteAccount)
<1>1. ASSUME NEW a \in App, CommitSave(a) \/ RollBackCreate(a)
      PROVE  crossed' = crossed /\ owed' = owed
  BY <1>1 DEF CommitSave, RollBackCreate
<1>2. ASSUME NEW a \in App, ChangeStep(a)
      PROVE  crossed \subseteq crossed' /\ owed' = owed
  BY <1>2 DEF ChangeStep, OpenForm, ReadForSnapshot, WriteSnapshot, WriteForm, Connect,
              ChangeFails, historyVars
<1>3. ASSUME NEW r \in Removers, Clear(r)
      PROVE  crossed' = crossed /\ owed' = owed
  BY <1>3 DEF Clear
<1>4. ASSUME OtherStep PROVE crossed' = crossed /\ (owed' = owed \/ DeleteAccount)
  BY <1>4 DEF OtherStep, vars, ReadListing, BeginSave, SaveFails, EndCreate, ExpireAfterPasses,
              CloseListing, ReopenListing, SetExpireAfter, SetExpireAfterLost, CreateAccount,
              RemovalStarts, StartJob, StartDeletion, RemovalEnds, EndJob, DeleteAccount,
              FindUncleared, DropSnapshots, RemovalFails, historyVars
<1> QED
  BY <1>1, <1>2, <1>3, <1>4, OtherSteps

\* The steps that write no more than parts of rows.
LEMMA OtherRows ==
    ASSUME TypeInv, OtherStep \/ \E a \in App : ChangeStep(a)
    PROVE  RowsStand
<1>1. ASSUME NEW a \in App, ChangeStep(a) PROVE RowsStand
  BY <1>1, NoRowWritten, OtherPartsWritten DEF ChangeStep, RowsStand
<1>2. CASE OtherStep
  BY <1>2, NoRowWritten, OtherPartsWritten DEF OtherStep, RemovalEnds, RowsStand
<1> QED
  BY <1>1, <1>2

\* The application of the account that a removal is at after a step was the one it was
\* at before, or has been found now.
LEMMA AtSteps ==
    ASSUME TypeInv, [Next]_vars, NEW r \in Removers, NEW b, At(r, b)'
    PROVE  \/ At(r, b) /\ removal'[r].owner = removal[r].owner
           \/ b \in Saved /\ app[b].cleared = "no" /\ removal'[r].owner = app[b].owner
<1> USE DEF At
<1>1. CASE RemovalsStand
  BY <1>1 DEF RemovalsStand
<1>2. CASE RemovalStarts
  BY <1>2, Started DEF RemovalStarts
<1>3. CASE RemovalEnds
  BY <1>3, Ended, Nothing DEF RemovalEnds
<1>4. ASSUME NEW s \in Removers, NEW a \in App, FindUncleared(s, a)
      PROVE  \/ At(r, b) /\ removal'[r].owner = removal[r].owner
             \/ b \in Saved /\ app[b].cleared = "no" /\ removal'[r].owner = app[b].owner
  <2>1. CASE s = r
    BY <1>4, <2>1, Found
  <2>2. CASE s # r
    BY <1>4, <2>2, Found
  <2> QED
    BY <2>1, <2>2
<1>5. ASSUME NEW s \in Removers, DropSnapshots(s)
      PROVE  At(r, b) /\ removal'[r].owner = removal[r].owner
  <2>1. CASE s = r
    BY <1>5, <2>1, Dropped
  <2>2. CASE s # r
    BY <1>5, <2>2, Dropped
  <2> QED
    BY <2>1, <2>2
<1>6. ASSUME NEW s \in Removers, Clear(s)
      PROVE  At(r, b) /\ removal'[r].owner = removal[r].owner
  <2>1. s # r
    BY <1>6, ClearedRow
  <2> QED
    BY <1>6, <2>1, ClearedRow
<1> QED
  BY <1>1, <1>2, <1>3, <1>4, <1>5, <1>6, RemovalSteps DEF RemovalWrites

LEMMA TracedStep ==
    ASSUME TypeInv, GoneInv, [Next]_vars
    PROVE  TracedInv'
<1> USE DEF TypeInv, GoneInv
<1> SUFFICES ASSUME NEW b \in App, b \in Saved', app'[b].owner = User \/ b \in owed'
             PROVE  Traced(b)'
  BY DEF TracedInv, Saved
<1>1. crossed \subseteq crossed' /\ (owed' = owed \/ DeleteAccount)
  BY HistorySteps
<1>2. CASE CommitSave(b)
  <2>1. removal' = removal /\ app'[b].cleared = "no" /\ b \notin Ever
    BY <1>2, Committed DEF CommitSave
  <2> QED
    BY <2>1 DEF Traced, At, RemovalTypes
<1>3. CASE Connect(b)
  <2>1. /\ removal' = removal /\ app'[b].cleared = app[b].cleared
        /\ crossed' = IF app[b].cleared # "no" \/ \E r \in DOMAIN removal : removal[r].app = b
                      THEN crossed \cup {b} ELSE crossed
    BY <1>3, OtherPartsWritten DEF Connect, RowsStand
  <2>2. DOMAIN removal = Removers
    BY DEF RemovalTypes
  <2> QED
    BY <2>1, <2>2 DEF Traced, At
<1>4. CASE ~CommitSave(b) /\ ~Connect(b)
  <2>1. ~RollBackCreate(b)
    BY RolledBack
  <2>2. b \in Saved
    <3>1. ASSUME NEW a \in App, CommitSave(a) \/ RollBackCreate(a) PROVE b \in Saved
      <4>1. a # b
        BY <1>4, <2>1, <3>1
      <4>2. Saved' = Saved \cup {a} \/ Saved' = Saved \ {a}
        BY <3>1, Committed, RolledBack
      <4> QED
        BY <4>1, <4>2
    <3>2. ASSUME NEW r \in Removers, Clear(r) PROVE b \in Saved
      BY <3>2, ClearedRow
    <3> QED
      BY <3>1, <3>2, RowSteps DEF RowsStand
  <2>3. app[b].owner = User \/ b \in owed
    <3>1. CASE app'[b].owner = User
      BY <1>4, <2>1, <3>1, OwnerSteps
    <3>2. CASE b \in owed' /\ owed' # owed
      <4>1. b \in removal["account"].list /\ removal["account"].pc # "rest"
        BY <1>1, <3>2 DEF DeleteAccount
      <4> QED
        BY <2>2, <4>1 DEF ListInv
    <3> QED
      BY <3>1, <3>2
  <2>4. Traced(b)
    BY <2>2, <2>3 DEF TracedInv
  <2>5. app'[b].cleared # "no" => app'[b].hist = User \/ b \in crossed'
    <3>1. CASE app'[b].cleared = app[b].cleared /\ app'[b].hist = app[b].hist
      BY <1>1, <2>4, <3>1 DEF Traced
    <3>2. ASSUME NEW r \in Removers, Clear(r), removal[r].app = b
          PROVE  app'[b].hist = User \/ b \in crossed'
      <4>1. At(r, b) /\ app'[b].hist = removal[r].owner
        BY <3>2, ClearedRow
      <4> QED
        BY <1>1, <2>4, <4>1 DEF Traced
    <3>3. ASSUME NEW r \in Removers, Clear(r), removal[r].app # b
          PROVE  app'[b].cleared = app[b].cleared /\ app'[b].hist = app[b].hist
      BY <3>3, ClearedRow
    <3>4. ASSUME NEW a \in App, CommitSave(a) \/ RollBackCreate(a)
          PROVE  app'[b].cleared = app[b].cleared /\ app'[b].hist = app[b].hist
      <4>1. b \in App \ {a}
        BY <1>4, <2>1, <3>4
      <4>2. CASE CommitSave(a)
        BY <4>1, <4>2, Committed
      <4>3. CASE RollBackCreate(a)
        BY <4>1, <4>3, RolledBack
      <4> QED
        BY <3>4, <4>2, <4>3
    <3> QED
      BY <3>1, <3>2, <3>3, <3>4, RowSteps DEF RowsStand
  <2>6. ASSUME NEW r \in Removers, At(r, b)'
        PROVE  removal'[r].owner = User \/ b \in crossed'
    <3>1. CASE At(r, b) /\ removal'[r].owner = removal[r].owner
      BY <1>1, <2>4, <3>1 DEF Traced
    <3>2. CASE app[b].cleared = "no" /\ removal'[r].owner = app[b].owner
      <4>1. b \notin owed
        BY <2>2, <3>2 DEF OwedInv
      <4> QED
        BY <2>3, <3>2, <4>1
    <3> QED
      BY <2>6, <3>1, <3>2, AtSteps
  <2> QED
    BY <2>5, <2>6 DEF Traced
<1> QED
  BY <1>2, <1>3, <1>4

\* What was cleared stays cleared.
LEMMA ClearedStays ==
    ASSUME TypeInv, [Next]_vars, NEW b \in Saved, b \in Saved', app[b].cleared # "no"
    PROVE  app'[b].cleared # "no"
<1>1. b \in App
  BY DEF Saved
<1>2. ASSUME NEW a \in App, CommitSave(a) \/ RollBackCreate(a)
      PROVE  app'[b].cleared = app[b].cleared
  BY <1>1, <1>2, Committed, RolledBack
<1>3. ASSUME NEW r \in Removers, Clear(r)
      PROVE  app'[b].cleared = app[b].cleared
  <2>1. CASE removal[r].app = b
    BY <1>3, <2>1, ClearedRow
  <2>2. CASE removal[r].app # b
    BY <1>1, <1>3, <2>2, ClearedRow
  <2> QED
    BY <2>1, <2>2
<1> QED
  BY <1>1, <1>2, <1>3, RowSteps DEF RowsStand

\* What is on a list was there before, so no step puts it there again.
LEMMA ListedBefore ==
    ASSUME TypeInv, [Next]_vars, NEW b \in Ever, b \in Saved'
    PROVE  b \in App /\ b \in Saved /\ ~CommitSave(b) /\ ~RollBackCreate(b)
<1>1. b \in App
  BY DEF Ever
<1>2. ~CommitSave(b) /\ ~RollBackCreate(b)
  BY <1>1, Committed, RolledBack
<1>3. ASSUME NEW a \in App, CommitSave(a) \/ RollBackCreate(a) PROVE b \in Saved
  BY <1>2, <1>3, Committed, RolledBack
<1>4. ASSUME NEW r \in Removers, Clear(r) PROVE b \in Saved
  BY <1>4, ClearedRow
<1> QED
  BY <1>1, <1>2, <1>3, <1>4, RowSteps DEF RowsStand

LEMMA OwedStep ==
    ASSUME TypeInv, GoneInv, [Next]_vars
    PROVE  OwedInv'
<1> USE DEF TypeInv, GoneInv
<1> SUFFICES ASSUME NEW b \in owed', b \in Saved'
             PROVE  app'[b].cleared # "no"
  BY DEF OwedInv
<1>1. owed \subseteq Ever /\ removal["account"].list \subseteq Ever
  BY DEF RemovalTypes, Removers
<1>2. CASE owed' = owed
  BY <1>1, <1>2, ListedBefore, ClearedStays DEF OwedInv
<1>3. CASE DeleteAccount
  <2>1. /\ b \in removal["account"].list /\ removal["account"].todo = {}
        /\ removal["account"].pc = "next"
    BY <1>3 DEF DeleteAccount
  <2>2. b \in Saved
    BY <1>1, <2>1, ListedBefore
  <2>3. app[b].cleared # "no"
    BY <2>1, <2>2 DEF ListInv, Handled, At
  <2> QED
    BY <2>2, <2>3, ClearedStays
<1> QED
  BY <1>2, <1>3, HistorySteps

\* Whose an application on the account's list is.
LEMMA ListedOwned ==
    ASSUME TypeInv, ListInv, [Next]_vars, removal["account"].pc # "rest", ~DeleteAccount,
           NEW b \in removal["account"].list, b \in Saved'
    PROVE  b \in Saved /\ app'[b].owner = User /\ Handled(b)
<1>1. b \in Ever
  BY DEF TypeInv, RemovalTypes, Removers
<1>2. b \in App /\ b \in Saved /\ ~CommitSave(b) /\ ~RollBackCreate(b)
  BY <1>1, ListedBefore
<1>3. app[b].owner = User /\ Handled(b)
  BY <1>2 DEF ListInv
<1> QED
  BY <1>2, <1>3, OwnerSteps

LEMMA ListStep ==
    ASSUME TypeInv, GoneInv, [Next]_vars
    PROVE  ListInv'
<1> USE DEF TypeInv, GoneInv
<1> DEFINE old == removal["account"]
           new == removal'["account"]
<1>1. SUFFICES ASSUME new.pc # "rest"
               PROVE  /\ account' = "exists"
                      /\ \A b \in new.list : b \in Saved' => /\ app'[b].owner = User
                                                             /\ Handled(b)'
  BY DEF ListInv
<1>2. ~DeleteAccount
  BY <1>1, Nothing DEF DeleteAccount, RemovalTypes, Removers
<1>3. account' = account \/ (account = "none" /\ account' = "exists")
  BY <1>2, AccountSteps
<1>4. ASSUME old.pc # "rest", new.list = old.list,
             \A b \in Saved : b \in old.todo => \/ b \in new.todo \/ app[b].cleared # "no"
                                                \/ At("account", b)',
             \A b \in Saved' : At("account", b) => At("account", b)' \/ app'[b].cleared # "no"
      PROVE  /\ account' = "exists"
             /\ \A b \in new.list : b \in Saved' => app'[b].owner = User /\ Handled(b)'
  <2>1. account' = "exists"
    BY <1>3, <1>4 DEF ListInv
  <2>2. ASSUME NEW b \in new.list, b \in Saved' PROVE app'[b].owner = User /\ Handled(b)'
    <3>1. b \in Saved /\ app'[b].owner = User /\ Handled(b)
      BY <1>2, <1>4, <2>2, ListedOwned
    <3>2. app[b].cleared # "no" => app'[b].cleared # "no"
      BY <2>2, <3>1, ClearedStays
    <3> QED
      BY <1>4, <2>2, <3>1, <3>2 DEF Handled
  <2> QED
    BY <2>1, <2>2
<1>5. CASE new = old
  <2>1. \A b : At("account", b) => At("account", b)'
    BY <1>5 DEF At
  <2> QED
    BY <1>1, <1>4, <1>5, <2>1
<1>6. CASE RemovalStarts
  <2>1. PICK r \in Removers, list \in SUBSET Saved :
              /\ removal'[r].pc = "next" /\ removal'[r].list = list /\ removal'[r].todo = list
              /\ \A s \in Removers \ {r} : removal'[s] = removal[s]
              /\ r = "account" => account = "exists" /\ \A a \in list : app[a].owner = User
    BY <1>6, Started DEF RemovalStarts
  <2>2. app' = app /\ account' = account
    BY <1>6 DEF RemovalStarts, StartJob, StartDeletion
  <2>3. CASE r = "account"
    BY <2>1, <2>2, <2>3 DEF Handled
  <2>4. CASE r # "account"
    BY <1>5, <2>1, <2>4 DEF Removers
  <2> QED
    BY <2>3, <2>4
<1>7. ASSUME NEW r \in Removers, NEW a \in App, FindUncleared(r, a)
      PROVE  /\ account' = "exists"
             /\ \A b \in new.list : b \in Saved' => app'[b].owner = User /\ Handled(b)'
  <2>1. CASE r = "account"
    <3>1. /\ old.pc = "next" /\ new.list = old.list /\ new.todo = old.todo \ {a}
          /\ a \in Saved /\ app[a].cleared = "no" => new.pc = "found" /\ new.app = a
      BY <1>7, <2>1, Found
    <3>2. \A b \in Saved : b \in old.todo => \/ b \in new.todo \/ app[b].cleared # "no"
                                             \/ At("account", b)'
      BY <3>1 DEF At
    <3>3. \A b : ~At("account", b)
      BY <3>1 DEF At
    <3> QED
      BY <1>4, <3>1, <3>2, <3>3
  <2>2. CASE r # "account"
    BY <1>5, <1>7, <2>2, Found DEF Removers
  <2> QED
    BY <2>1, <2>2
<1>8. ASSUME NEW r \in Removers, DropSnapshots(r)
      PROVE  /\ account' = "exists"
             /\ \A b \in new.list : b \in Saved' => app'[b].owner = User /\ Handled(b)'
  <2>1. CASE r = "account"
    <3>1. /\ old.pc = "found" /\ new.pc = "dropped" /\ new.list = old.list
          /\ new.todo = old.todo /\ new.app = old.app
      BY <1>8, <2>1, Dropped
    <3>2. \A b : At("account", b) => At("account", b)'
      BY <3>1 DEF At
    <3> QED
      BY <1>4, <3>1, <3>2
  <2>2. CASE r # "account"
    BY <1>5, <1>8, <2>2, Dropped DEF Removers
  <2> QED
    BY <2>1, <2>2
<1>9. ASSUME NEW r \in Removers, Clear(r)
      PROVE  /\ account' = "exists"
             /\ \A b \in new.list : b \in Saved' => app'[b].owner = User /\ Handled(b)'
  <2>1. CASE r = "account"
    <3>1. /\ old.pc = "dropped" /\ new.list = old.list /\ new.todo = old.todo
          /\ app'[old.app].cleared # "no"
      <4>1. /\ old.pc = "dropped" /\ new.list = old.list /\ new.todo = old.todo
        BY <1>9, <2>1, ClearedRow DEF Clear
      <4>2. app'[old.app].cleared = IF app[old.app].cleared = "no" THEN r
                                    ELSE app[old.app].cleared
        BY <1>9, <2>1, ClearedRow
      <4> QED
        BY <2>1, <4>1, <4>2
    <3>2. \A b : At("account", b) => app'[b].cleared # "no"
      BY <3>1 DEF At
    <3> QED
      BY <1>4, <3>1, <3>2
  <2>2. CASE r # "account"
    BY <1>5, <1>9, <2>2, ClearedRow DEF Removers
  <2> QED
    BY <2>1, <2>2
<1>10. CASE RemovalEnds
  <2>1. PICK r \in Removers : /\ removal'[r] = Idle
                              /\ \A s \in Removers \ {r} : removal'[s] = removal[s]
    BY <1>10, Ended DEF RemovalEnds
  <2>2. r # "account"
    BY <1>1, <2>1, Nothing
  <2> QED
    BY <1>5, <2>1, <2>2 DEF Removers
<1> QED
  BY <1>5, <1>6, <1>7, <1>8, <1>9, <1>10, RemovalSteps DEF RemovalWrites, RemovalsStand

(* What went with an account was cleared and tells whose it was, also when *)
(* the job was at the same application (deleteUserAndRelatedInfo).         *)
THEOREM WentWithAccount == Spec => []GoneIsCleared
<1>1. Init => TypeInv /\ GoneInv
  BY TypeInit, GoneInit
<1>2. TypeInv /\ GoneInv /\ [Next]_vars => (TypeInv /\ GoneInv)'
  BY TypeStep, TracedStep, ListStep, OwedStep DEF GoneInv
<1>3. GoneInv => GoneIsCleared
  BY DEF GoneInv, TracedInv, OwedInv, Traced, GoneIsCleared
<1> QED
  BY <1>1, <1>2, <1>3, PTL DEF Spec
=============================================================================

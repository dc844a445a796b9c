--------------------------- MODULE LotteryProofs ---------------------------
(***************************************************************************)
(* Proofs about Lottery, for any applications, preferences, generations    *)
(* and bounds.                                                             *)
(***************************************************************************)
EXTENDS Lottery, FiniteSetTheorems, TLAPS

USE ClaimsAssumption, GeneralAssumption, NoneAssumption

----------------------------------------------------------------------------
(* Types. *)

LEMMA SubsetCount ==
    ASSUME NEW A \in SUBSET Application PROVE Cardinality(A) \in Nat
<1>1. IsFiniteSet(A)
  BY FiniteAssumption, FS_Subset
<1> QED BY <1>1, FS_CardinalityType

LEMMA Bounds == MaxWrites \in Nat /\ MaxChanges \in Nat /\ MaxFailures \in Nat
BY LotteryBounds

\* Parts of the state that stay as they are keep their types.
LEMMA CallsStay == ASSUME CallTypeOK, UNCHANGED <<gen, latest>> PROVE CallTypeOK'
BY DEF CallTypeOK, GenTypeOK

LEMMA RowsStay == ASSUME RowTypeOK, UNCHANGED rowVars PROVE RowTypeOK'
BY DEF RowTypeOK, rowVars

LEMMA AppsStay == ASSUME AppTypeOK, UNCHANGED <<appVars, late>> PROVE AppTypeOK'
BY DEF AppTypeOK, appVars

LEMMA ClocksStay ==
    ASSUME ClockTypeOK, UNCHANGED clockVars, behind' \in BOOLEAN PROVE ClockTypeOK'
BY DEF ClockTypeOK, clockVars

LEMMA StatusStays ==
    ASSUME StatusTypeOK, UNCHANGED <<status, pending, past>> PROVE StatusTypeOK'
BY DEF StatusTypeOK

LEMMA TypeInit == Init => TypeOK
<1> SUFFICES ASSUME Init PROVE TypeOK
  OBVIOUS
<1>1. AppTypeOK
  BY DEF Init, AppTypeOK
<1>2. StatusTypeOK /\ RowTypeOK
  BY DEF Init, StatusTypeOK, RowTypeOK
<1>3. ClockTypeOK
  BY DEF Init, ClockTypeOK
<1>4. CountTypeOK
  BY Bounds DEF Init, CountTypeOK
<1>5. CallTypeOK
  BY DEF Init, CallTypeOK, GenTypeOK, NewGeneration
<1> QED BY <1>1, <1>2, <1>3, <1>4, <1>5 DEF TypeOK

LEMMA TypeApplication ==
    ASSUME TypeOK, NEW a \in Application, ApplicationStep(a) PROVE TypeOK'
<1> USE DEF TypeOK
<1>1. AppTypeOK'
  BY DEF ApplicationStep, CreateApplication, StampCreate, BeginDelete, EndDelete,
         ReviewApplication, AppTypeOK
<1>2. UNCHANGED <<clockVars, status, pending, past, rowVars, gen, latest>>
      /\ behind' \in {TRUE, behind}
  BY DEF ApplicationStep, CreateApplication, StampCreate, BeginDelete, EndDelete,
         ReviewApplication
<1>3. CountTypeOK'
  BY Bounds DEF ApplicationStep, CreateApplication, StampCreate, BeginDelete, EndDelete,
         ReviewApplication, CanWrite, CountTypeOK
<1>4. behind' \in BOOLEAN
  BY <1>2 DEF ClockTypeOK
<1> QED BY <1>1, <1>2, <1>3, <1>4, CallsStay, RowsStay, ClocksStay, StatusStays

LEMMA TypeListing ==
    ASSUME TypeOK, CloseListing \/ ReopenListing \/ TimePasses PROVE TypeOK'
<1> USE DEF TypeOK
<1>1. UNCHANGED <<appVars, late, status, pending, past, rowVars, gen, latest, behind>>
  BY DEF CloseListing, ReopenListing, TimePasses
<1>2. ClockTypeOK'
  BY DEF CloseListing, ReopenListing, TimePasses, ClockTypeOK
<1>3. CountTypeOK'
  BY Bounds DEF CloseListing, ReopenListing, TimePasses, CountTypeOK
<1> QED BY <1>1, <1>2, <1>3, AppsStay, CallsStay, RowsStay, StatusStays

LEMMA TypeStatus ==
    ASSUME TypeOK,
           \/ Retract \/ Release \/ Publish \/ AutoPublish \/ Expire
           \/ \E s \in Status : WriteStatus(s) \/ WriteStatusFails(s)
    PROVE  TypeOK'
<1> USE DEF TypeOK
<1>1. UNCHANGED <<appVars, late, clockVars, rowVars, gen, latest>>
      /\ behind' \in {FALSE, behind}
  BY DEF Retract, Release, Publish, AutoPublish, Expire, Ask, WriteStatus, WriteStatusFails
<1>2. StatusTypeOK'
  BY DEF Retract, Release, Publish, AutoPublish, Expire, Ask, WriteStatus, WriteStatusFails,
         Status, StatusTypeOK
<1>3. CountTypeOK'
  <2>1. CASE Retract \/ Release \/ Publish \/ AutoPublish \/ Expire
    <3>1. /\ writes' = writes /\ failures' = failures
          /\ changes' = changes \/ (changes < MaxChanges /\ changes' = changes + 1)
      BY <2>1 DEF Retract, Release, Publish, AutoPublish, Expire, Ask, ByPerson
    <3> QED BY <3>1, Bounds DEF CountTypeOK
  <2>2. ASSUME NEW s \in Status, WriteStatus(s) \/ WriteStatusFails(s) PROVE CountTypeOK'
    <3>1. /\ writes' = writes /\ changes' = changes
          /\ failures' = failures \/ (failures < MaxFailures /\ failures' = failures + 1)
      BY <2>2 DEF WriteStatus, WriteStatusFails
    <3> QED BY <3>1, Bounds DEF CountTypeOK
  <2> QED BY <2>1, <2>2
<1>4. behind' \in BOOLEAN
  BY <1>1 DEF ClockTypeOK
<1> QED BY <1>1, <1>2, <1>3, <1>4, AppsStay, CallsStay, RowsStay, ClocksStay

LEMMA TypeGenerate ==
    ASSUME TypeOK, NEW n \in Generation, GenerateStep(n) PROVE TypeOK'
<1> USE DEF TypeOK
<1>1. ASSUME DeletePositions(n) \/ DeleteTotals(n) PROVE RowTypeOK' /\ CallTypeOK'
  BY <1>1 DEF DeletePositions, DeleteTotals, Advance, RowTypeOK, CallTypeOK, GenTypeOK
<1>2. ASSUME FindApplications(n) PROVE RowTypeOK' /\ CallTypeOK'
  <2>1. Entrants \subseteq Application
    BY DEF Entrants
  <2> QED BY <1>2, <2>1, RowsStay DEF FindApplications, CallTypeOK, GenTypeOK
<1>3. ASSUME WriteGeneral(n) PROVE RowTypeOK' /\ CallTypeOK'
  <2>1. PICK order \in Orders(gen[n].apps) :
          /\ gen' = [gen EXCEPT ![n].pc = "generalTotal", ![n].order = order]
          /\ positions' = positions \cup
                {[by |-> n, question |-> General, app |-> a, ordinal |-> order[a]] :
                    a \in gen[n].apps}
    BY <1>3 DEF WriteGeneral
  <2>2. gen[n].apps \subseteq Application
    BY DEF CallTypeOK, GenTypeOK
  <2>3. \A a \in gen[n].apps : order[a] \in Nat
    BY DEF Orders
  <2>4. RowTypeOK'
    BY <1>3, <2>1, <2>2, <2>3 DEF WriteGeneral, RowTypeOK, Position
  <2>5. CallTypeOK'
    BY <1>3, <2>1 DEF WriteGeneral, CallTypeOK, GenTypeOK
  <2> QED BY <2>4, <2>5
<1>4. ASSUME WriteGeneralTotal(n) PROVE RowTypeOK' /\ CallTypeOK'
  <2>1. Cardinality(gen[n].apps) \in Nat
    BY SubsetCount DEF CallTypeOK, GenTypeOK
  <2> QED BY <1>4, <2>1 DEF WriteGeneralTotal, Advance, RowTypeOK, Total, CallTypeOK, GenTypeOK
<1>5. ASSUME NEW q \in Question, WriteRanks(n, q) PROVE RowTypeOK' /\ CallTypeOK'
  <2>1. gen[n].apps \subseteq Application /\ Claimants(n, q) \subseteq Application
    BY DEF CallTypeOK, GenTypeOK, Claimants
  <2>2. \A a : Rank(n, q, a) \in Nat
    BY <2>1, SubsetCount DEF Rank
  <2>3. RowTypeOK'
    <3> DEFINE rows == {[by |-> n, question |-> q, app |-> a, ordinal |-> Rank(n, q, a)] :
                           a \in Claimants(n, q)}
    <3>1. positions' = positions \cup rows /\ totals' = totals
      BY <1>5 DEF WriteRanks
    <3>2. rows \subseteq Position
      BY <2>1, <2>2 DEF Position
    <3> QED BY <3>1, <3>2 DEF RowTypeOK
  <2>4. CallTypeOK'
    <3>1. PICK pc \in {"ranks", "rankTotal"}, at \in {General, q} :
             gen' = [gen EXCEPT ![n].pc = pc, ![n].todo = @ \ {q}, ![n].at = at]
      BY <1>5 DEF WriteRanks
    <3>2. gen[n].pc = "ranks" /\ latest' = latest
      BY <1>5 DEF WriteRanks
    <3> QED BY <3>1, <3>2 DEF CallTypeOK, GenTypeOK
  <2> QED BY <2>3, <2>4
<1>6. ASSUME WriteRankTotal(n) PROVE RowTypeOK' /\ CallTypeOK'
  <2>1. Cardinality(Claimants(n, gen[n].at)) \in Nat
    BY SubsetCount DEF CallTypeOK, GenTypeOK, Claimants
  <2> QED BY <1>6, <2>1 DEF WriteRankTotal, RowTypeOK, Total, CallTypeOK, GenTypeOK
<1>7. ASSUME EndGenerate(n) PROVE RowTypeOK' /\ CallTypeOK'
  <2>1. RowTypeOK' /\ latest' = latest
    BY <1>7, RowsStay DEF EndGenerate
  <2>2. CASE closed
    <3>1. gen' = [gen EXCEPT ![n] = [@ EXCEPT !.pc = "done", !.order = <<>>]]
      BY <1>7, <2>2 DEF EndGenerate
    <3> QED BY <3>1, <2>1 DEF CallTypeOK, GenTypeOK
  <2>3. CASE ~closed
    <3>1. gen' = [gen EXCEPT ![n] = Failed]
      BY <1>7, <2>3 DEF EndGenerate
    <3> QED BY <3>1, <2>1 DEF Failed, NewGeneration, CallTypeOK, GenTypeOK
  <2> QED BY <2>1, <2>2, <2>3
<1>8. RowTypeOK' /\ CallTypeOK'
  BY <1>1, <1>2, <1>3, <1>4, <1>5, <1>6, <1>7 DEF GenerateStep
<1>9. /\ UNCHANGED <<appVars, clockVars, behind, status, past, writes, changes, failures>>
      /\ late' \in {late, {}} /\ pending' \in {pending, pending \cup {"ran"}}
  BY DEF GenerateStep, DeletePositions, DeleteTotals, FindApplications, WriteGeneral,
         WriteGeneralTotal, WriteRanks, WriteRankTotal, EndGenerate
<1>10. AppTypeOK'
  BY <1>9 DEF AppTypeOK, appVars
<1>11. StatusTypeOK'
  BY <1>9 DEF StatusTypeOK, Status
<1>12. CountTypeOK' /\ ClockTypeOK'
  BY <1>9 DEF CountTypeOK, ClockTypeOK, clockVars
<1> QED BY <1>8, <1>10, <1>11, <1>12

LEMMA TypeStartOrFail ==
    ASSUME TypeOK, NEW n \in Generation, StartGenerate(n) \/ GenerateFails(n) PROVE TypeOK'
<1> USE DEF TypeOK
<1>1. UNCHANGED <<appVars, clockVars, behind, status, pending, past, late, rowVars, writes,
                  changes>>
  BY DEF StartGenerate, GenerateFails
<1>2. CountTypeOK'
  <2>1. /\ writes' = writes /\ changes' = changes
        /\ failures' = failures \/ (failures < MaxFailures /\ failures' = failures + 1)
    BY DEF StartGenerate, GenerateFails
  <2> QED BY <2>1, Bounds DEF CountTypeOK
<1>3. behind' \in BOOLEAN
  BY <1>1 DEF ClockTypeOK
<1>4. CASE StartGenerate(n)
  <2>1. \A m \in Generation :
          gen'[m] = IF m = n
                    THEN [NewGeneration EXCEPT !.pc = gen'[m].pc, !.alone = gen'[m].alone]
                    ELSE [gen[m] EXCEPT !.alone = gen'[m].alone]
    BY <1>4 DEF StartGenerate, NewGeneration, CallTypeOK, GenTypeOK
  <2>2. /\ DOMAIN gen' = Generation /\ latest' = n
        /\ gen'[n].pc \in {"find", "positions"}
        /\ \A m \in Generation : gen'[m].alone \in BOOLEAN
    <3> DEFINE others == {m \in Generation : Working(m)}
    <3>1. \A m \in Generation :
             gen'[m].alone =
                 IF m = n THEN others = {} /\ (status = "none" => positions = {} /\ totals = {})
                 ELSE gen[m].alone /\ m \notin others
      BY <1>4 DEF StartGenerate, NewGeneration, CallTypeOK, GenTypeOK
    <3>2. \A m \in Generation : gen'[m].alone \in BOOLEAN
      <4> HIDE DEF others
      <4> QED BY <3>1, Zenon
    <3>3. DOMAIN gen' = Generation /\ latest' = n /\ gen'[n].pc \in {"find", "positions"}
      BY <1>4 DEF StartGenerate, NewGeneration, CallTypeOK, GenTypeOK
    <3> QED BY <3>2, <3>3
  <2>3. GenTypeOK'
    <3> SUFFICES ASSUME NEW m \in Generation
                 PROVE  /\ DOMAIN gen'[m] = {"pc", "alone", "apps", "order", "todo", "at"}
                        /\ gen'[m].pc \in {"new", "positions", "totals", "find", "general",
                                           "generalTotal", "ranks", "rankTotal", "done", "failed"}
                        /\ gen'[m].alone \in BOOLEAN
                        /\ gen'[m].apps \subseteq Application
                        /\ gen'[m].todo \subseteq Question
                        /\ gen'[m].at \in Question \cup {General}
                        /\ gen'[m].pc \in {"generalTotal", "ranks", "rankTotal"} =>
                               gen'[m].order \in Orders(gen'[m].apps)
      BY DEF GenTypeOK
    <3>1. CASE m = n
      BY <3>1, <2>1, <2>2 DEF NewGeneration
    <3>2. CASE m # n
      <4>1. /\ DOMAIN gen'[m] = DOMAIN gen[m] /\ gen'[m].pc = gen[m].pc
            /\ gen'[m].apps = gen[m].apps /\ gen'[m].order = gen[m].order
            /\ gen'[m].todo = gen[m].todo /\ gen'[m].at = gen[m].at
        <5>1. gen'[m] = [gen[m] EXCEPT !.alone = gen'[m].alone]
          BY <3>2, <2>1
        <5>2. DOMAIN gen[m] = {"pc", "alone", "apps", "order", "todo", "at"}
          BY DEF CallTypeOK, GenTypeOK
        <5> DEFINE old == gen[m]  new == gen'[m]  v == gen'[m].alone
        <5>3. new = [old EXCEPT !.alone = v]
          BY <5>1
        <5> HIDE DEF old, new, v
        <5>4. DOMAIN new = DOMAIN old /\ \A f \in DOMAIN old : f # "alone" => new[f] = old[f]
          BY <5>3
        <5> QED BY <5>2, <5>4 DEF old, new
      <4> QED BY <4>1, <2>2 DEF CallTypeOK, GenTypeOK
    <3> QED BY <3>1, <3>2
  <2>4. CallTypeOK'
    BY <2>2, <2>3 DEF CallTypeOK
  <2> QED BY <2>4, <1>1, <1>2, <1>3, AppsStay, RowsStay, ClocksStay, StatusStays
<1>5. CASE GenerateFails(n)
  <2>1. CallTypeOK'
    BY <1>5 DEF GenerateFails, Failed, NewGeneration, CallTypeOK, GenTypeOK
  <2> QED BY <2>1, <1>1, <1>2, <1>3, AppsStay, RowsStay, ClocksStay, StatusStays
<1> QED BY <1>4, <1>5

LEMMA TypeInNext == ASSUME TypeOK, [Next]_vars PROVE TypeOK'
<1>1. CASE UNCHANGED vars
  <2>1. behind' \in BOOLEAN /\ CountTypeOK'
    BY <1>1 DEF vars, TypeOK, ClockTypeOK, CountTypeOK
  <2> QED BY <1>1, <2>1, AppsStay, RowsStay, CallsStay, ClocksStay, StatusStays
          DEF vars, TypeOK
<1> QED BY <1>1, TypeApplication, TypeListing, TypeStatus, TypeGenerate, TypeStartOrFail
        DEF Next

\* Every value is of its type: among them, the status is never "errored", and
\* the order a generation holds in memory gives every ordinal once.
THEOREM Types == Spec => []TypeOK
<1>1. TypeOK /\ [Next]_vars => TypeOK'
  BY TypeInNext
<1> QED BY <1>1, TypeInit, PTL DEF Spec

----------------------------------------------------------------------------
(* The status. *)

\* Who asks for a status has seen the one before it, and what has been seen
\* stays seen.
PastInv ==
    /\ status \in past \cup {"none"}
    /\ "released" \in pending \cup past => "ran" \in past
    /\ "published" \in pending \cup past => {"ran", "released"} \subseteq past

\* Applicants see no results of a lottery that was not run and released before,
\* however the requests of people and the cron jobs interleave.
THEOREM PublicationFollowsRelease == Spec => []PublishedWasReleased
<1>1. Init => PastInv
  BY DEF Init, PastInv
<1>2. PastInv /\ [Next]_vars => PastInv'
  <2> SUFFICES ASSUME PastInv, [Next]_vars PROVE PastInv'
    OBVIOUS
  <2>1. ASSUME NEW a \in Application, ApplicationStep(a) PROVE PastInv'
    BY <2>1 DEF ApplicationStep, CreateApplication, StampCreate, BeginDelete, EndDelete,
                ReviewApplication, PastInv
  <2>2. CASE CloseListing \/ ReopenListing \/ TimePasses \/ UNCHANGED vars
    BY <2>2 DEF CloseListing, ReopenListing, TimePasses, vars, PastInv
  <2>3. ASSUME NEW n \in Generation, StartGenerate(n) \/ GenerateStep(n) \/ GenerateFails(n)
        PROVE  PastInv'
    <3>1. status' = status /\ past' = past /\ pending' \in {pending, pending \cup {"ran"}}
      BY <2>3 DEF StartGenerate, GenerateFails, GenerateStep, DeletePositions, DeleteTotals,
                  FindApplications, WriteGeneral, WriteGeneralTotal, WriteRanks,
                  WriteRankTotal, EndGenerate
    <3> QED BY <3>1 DEF PastInv
  <2>4. CASE Retract \/ Release \/ Publish \/ AutoPublish \/ Expire
    BY <2>4 DEF Retract, Release, Publish, AutoPublish, Expire, Ask, PastInv
  <2>5. ASSUME NEW s \in Status, WriteStatus(s) \/ WriteStatusFails(s) PROVE PastInv'
    BY <2>5 DEF WriteStatus, WriteStatusFails, PastInv
  <2> QED BY <2>1, <2>2, <2>3, <2>4, <2>5 DEF Next
<1>3. PastInv => PublishedWasReleased
  BY DEF PastInv, PublishedWasReleased
<1> QED BY <1>1, <1>2, <1>3, PTL DEF Spec

----------------------------------------------------------------------------
(* Orders and the ranks taken from them. *)

\* RankIn(order, C, a): the position of a among C; RankRows: the rows of a preference.
RankIn(order, C, a) == Cardinality({b \in C : order[b] <= order[a]})

OrderRows(n, q, C, order) ==
    {[by |-> n, question |-> q, app |-> a, ordinal |-> order[a]] : a \in C}

RankRows(n, q, C, order) ==
    {[by |-> n, question |-> q, app |-> a, ordinal |-> RankIn(order, C, a)] : a \in C}

\* An order of the applications is an injection into as many ordinals: it gives
\* every ordinal, and the rows made of it number the applications.
LEMMA OrderNumbers ==
    ASSUME NEW C \in SUBSET Application, NEW f \in Orders(C), NEW n, NEW q
    PROVE  Numbers(OrderRows(n, q, C, f), C)
<1> DEFINE N == Cardinality(C)
           row(a) == [by |-> n, question |-> q, app |-> a, ordinal |-> f[a]]
           rows == {row(a) : a \in C}
<1>1. IsFiniteSet(C) /\ N \in Nat
  BY FiniteAssumption, FS_Subset, FS_CardinalityType
<1>2. f \in [C -> 1..N] /\ \A a, b \in C : f[a] = f[b] => a = b
  BY DEF Orders
<1>3. IsFiniteSet(1..N) /\ Cardinality(1..N) = N
  <2>1. IsFiniteSet(1..N) /\ Cardinality(1..N) = IF 1 > N THEN 0 ELSE N - 1 + 1
    BY <1>1, FS_Interval
  <2> QED
    BY <1>1, <2>1
<1>4. f \in Injection(C, 1..N)
  BY <1>2 DEF Injection, IsInjective
<1>5. f \in Surjection(C, 1..N)
  <2> HIDE DEF N
  <2>1. Cardinality(C) = Cardinality(1..N)
    BY <1>3 DEF N
  <2> QED
    BY <1>3, <1>4, <2>1, FS_Injection
<1>6. \A k \in 1..N : \E a \in C : f[a] = k
  BY <1>5 DEF Surjection
<1>7. \A a : row(a).app = a /\ row(a).ordinal = f[a]
  OBVIOUS
<1>8. {p.app : p \in rows} = C
  <2> HIDE DEF row
  <2> QED
    BY <1>7
<1>9. {p.ordinal : p \in rows} = 1..N
  <2>1. \A p \in rows : p.ordinal \in 1..N
    <3> HIDE DEF row, N
    <3> QED
      BY <1>2, <1>7
  <2>2. \A k \in 1..N : \E p \in rows : p.ordinal = k
    <3> HIDE DEF row, N
    <3> QED
      BY <1>6, <1>7
  <2> HIDE DEF row, N, rows
  <2> QED
    BY <2>1, <2>2
<1>10. Cardinality(rows) = N
  <2> DEFINE g == [a \in C |-> row(a)]
  <2>1. g \in [C -> rows]
    <3> HIDE DEF row
    <3> QED
      OBVIOUS
  <2>2. \A a, b \in C : g[a] = g[b] => a = b
    <3> HIDE DEF row
    <3> QED
      BY <1>7
  <2>3. \A p \in rows : \E a \in C : g[a] = p
    <3> HIDE DEF row
    <3> QED
      OBVIOUS
  <2>4. g \in Bijection(C, rows)
    <3> HIDE DEF g, rows
    <3> QED
      BY <2>1, <2>2, <2>3 DEF Bijection, Injection, Surjection, IsInjective
  <2>5. ExistsBijection(C, rows)
    BY <2>4 DEF ExistsBijection
  <2> HIDE DEF rows, g
  <2> QED
    BY <1>1, <2>5, FS_Bijection
<1>11. OrderRows(n, q, C, f) = rows
  BY DEF OrderRows
<1> HIDE DEF rows
<1> QED
  BY <1>8, <1>9, <1>10, <1>11 DEF Numbers

\* Ranks among some of the applications are an order of these, and the same one.
LEMMA RankOrder ==
    ASSUME NEW apps \in SUBSET Application, NEW order \in Orders(apps), NEW C \in SUBSET apps
    PROVE  /\ [a \in C |-> RankIn(order, C, a)] \in Orders(C)
           /\ \A a, b \in C :
                  /\ RankIn(order, C, a) \in Nat
                  /\ RankIn(order, C, a) < RankIn(order, C, b) <=> order[a] < order[b]
<1> DEFINE Upto(a) == {b \in C : order[b] <= order[a]}
           rank == [a \in C |-> RankIn(order, C, a)]
<1>1. IsFiniteSet(C) /\ Cardinality(C) \in Nat
  BY FiniteAssumption, FS_Subset, FS_CardinalityType
<1>2. /\ \A a \in C : order[a] \in Nat
      /\ \A a, b \in C : order[a] = order[b] => a = b
  <2>1. order \in [apps -> 1..Cardinality(apps)]
    BY DEF Orders
  <2>2. Cardinality(apps) \in Nat
    BY SubsetCount
  <2>3. \A a \in C : order[a] \in Nat
    BY <2>1, <2>2
  <2>4. \A a, b \in C : order[a] = order[b] => a = b
    BY DEF Orders
  <2> QED
    BY <2>3, <2>4
<1>3. ASSUME NEW a \in C
      PROVE  /\ IsFiniteSet(Upto(a)) /\ RankIn(order, C, a) = Cardinality(Upto(a))
             /\ RankIn(order, C, a) \in 1..Cardinality(C)
  <2>1. Upto(a) \in SUBSET C /\ a \in Upto(a)
    BY <1>2
  <2>2. /\ IsFiniteSet(Upto(a)) /\ Cardinality(Upto(a)) <= Cardinality(C)
        /\ Cardinality(Upto(a)) \in Nat
    <3> HIDE DEF Upto
    <3> QED
      BY <1>1, <2>1, FS_Subset, FS_CardinalityType
  <2>3. Cardinality(Upto(a)) # 0
    <3> HIDE DEF Upto
    <3> QED
      BY <2>1, <2>2, FS_EmptySet
  <2>4. RankIn(order, C, a) = Cardinality(Upto(a))
    BY DEF RankIn
  <2> HIDE DEF Upto
  <2> QED
    BY <1>1, <2>2, <2>3, <2>4
<1>4. ASSUME NEW a \in C, NEW b \in C, order[a] < order[b]
      PROVE  RankIn(order, C, a) < RankIn(order, C, b)
  <2>1. Upto(a) \in SUBSET Upto(b) /\ b \in Upto(b) /\ b \notin Upto(a)
    BY <1>2, <1>4
  <2> HIDE DEF Upto
  <2>2. Upto(a) # Upto(b)
    BY <2>1
  <2>3. Cardinality(Upto(a)) <= Cardinality(Upto(b)) /\ Cardinality(Upto(a)) # Cardinality(Upto(b))
    BY <1>3, <2>1, <2>2, FS_Subset
  <2> QED
    BY <1>1, <1>3, <2>3
<1>5. \A a \in C : RankIn(order, C, a) \in Nat
  BY SubsetCount DEF RankIn
<1>6. ASSUME NEW a \in C, NEW b \in C
      PROVE  RankIn(order, C, a) < RankIn(order, C, b) <=> order[a] < order[b]
  <2>1. order[a] < order[b] \/ order[b] < order[a] \/ a = b
    BY <1>2
  <2> QED
    BY <1>4, <1>5, <2>1
<1>7. rank \in [C -> 1..Cardinality(C)]
  BY <1>3
<1>8. \A a, b \in C : rank[a] = rank[b] => a = b
  <2>1. SUFFICES ASSUME NEW a \in C, NEW b \in C, RankIn(order, C, a) = RankIn(order, C, b)
                 PROVE  a = b
    OBVIOUS
  <2>2. ~(order[a] < order[b]) /\ ~(order[b] < order[a])
    BY <1>5, <1>6, <2>1
  <2> QED
    BY <1>2, <2>2
<1>9. rank \in Orders(C)
  <2> HIDE DEF rank
  <2> QED
    BY <1>7, <1>8 DEF Orders
<1> QED
  BY <1>5, <1>6, <1>9

----------------------------------------------------------------------------
(* What a generation alone at work has done, step by step. *)

\* Nothing overlapped generation n, and it goes on or is over.
Alone(n) == latest = n /\ gen[n].alone /\ gen[n].pc \notin {"new", "failed"}

\* Positions, and totals, are those of the general list and of the preferences qs.
Placed(n, apps, order, qs) ==
    /\ PositionsOn(General) = OrderRows(n, General, apps, order)
    /\ \A q \in Question :
          PositionsOn(q) = IF q \in qs THEN RankRows(n, q, apps \cap Claims[q], order) ELSE {}

Counted(apps, qs) ==
    /\ TotalsOn(General) = {Cardinality(apps)}
    /\ \A q \in Question :
          TotalsOn(q) = IF q \in qs THEN {Cardinality(apps \cap Claims[q])} \ {0} ELSE {}

Stage(n) ==
    LET g == gen[n]
    IN /\ \A m \in Generation \ {n} : ~Working(m)
       /\ g.pc = "totals" => positions = {}
       /\ g.pc \in {"find", "general"} => positions = {} /\ totals = {}
       /\ g.pc \in {"general", "generalTotal"} => g.todo = Question
       /\ g.pc = "generalTotal" => totals = {} /\ Placed(n, g.apps, g.order, {})
       /\ g.pc \in {"ranks", "rankTotal"} => Placed(n, g.apps, g.order, Question \ g.todo)
       /\ g.pc = "ranks" => Counted(g.apps, Question \ g.todo)
       /\ g.pc = "rankTotal" =>
             /\ g.at \in Question /\ g.apps \cap Claims[g.at] # {}
             /\ g.at \notin g.todo /\ Counted(g.apps, Question \ (g.todo \cup {g.at}))
       /\ g.pc = "done" =>
             /\ Counted(g.apps, Question)
             /\ \E order \in Orders(g.apps) : Placed(n, g.apps, order, Question)

RankInv == \A n \in Generation : Alone(n) => Stage(n)

\* Rows of one question are added to that question alone.
LEMMA PositionsAdded ==
    ASSUME NEW q, NEW rows, \A p \in rows : p.question = q, positions' = positions \cup rows
    PROVE  /\ PositionsOn(q)' = PositionsOn(q) \cup rows
           /\ \A r : r # q => PositionsOn(r)' = PositionsOn(r)
BY DEF PositionsOn

LEMMA TotalAdded ==
    ASSUME NEW t, totals' = totals \cup {t}
    PROVE  /\ TotalsOn(t.question)' = TotalsOn(t.question) \cup {t.total}
           /\ \A r : r # t.question => TotalsOn(r)' = TotalsOn(r)
BY DEF TotalsOn

\* Rows that stay leave both as they are.
LEMMA PlacedStays ==
    ASSUME NEW n, NEW apps, NEW order, NEW qs, Placed(n, apps, order, qs), UNCHANGED positions
    PROVE  Placed(n, apps, order, qs)'
BY DEF Placed, PositionsOn

LEMMA CountedStays ==
    ASSUME NEW apps, NEW qs, Counted(apps, qs), UNCHANGED totals
    PROVE  Counted(apps, qs)'
BY DEF Counted, TotalsOn

\* A generation that begins while no other works; it finds no rows, or deletes them.
LEMMA StageStart ==
    ASSUME TypeOK, RankInv, NEW n \in Generation, StartGenerate(n)
    PROVE  RankInv'
<1> USE DEF TypeOK, CallTypeOK, GenTypeOK
<1> DEFINE others == {m \in Generation : Working(m)}
<1>1. /\ latest' = n /\ UNCHANGED rowVars /\ gen[n].pc = "new"
      /\ gen' = [m \in Generation |->
                    IF m = n
                    THEN [NewGeneration EXCEPT
                             !.pc = IF status = "none" THEN "find" ELSE "positions",
                             !.alone = others = {} /\ (status = "none" => positions = {} /\ totals = {})]
                    ELSE [gen[m] EXCEPT !.alone = @ /\ m \notin others]]
  BY DEF StartGenerate
<1>2. \A m \in Generation \ {n} : gen'[m].pc = gen[m].pc
  BY <1>1
<1>3. /\ gen'[n].pc = IF status = "none" THEN "find" ELSE "positions"
      /\ gen'[n].alone = (others = {} /\ (status = "none" => positions = {} /\ totals = {}))
  BY <1>1 DEF NewGeneration
<1>4. SUFFICES ASSUME Alone(n)' PROVE Stage(n)'
  BY <1>1 DEF RankInv, Alone
<1>5. others = {} /\ (status = "none" => positions = {} /\ totals = {})
  BY <1>3, <1>4 DEF Alone
<1>6. \A m \in Generation \ {n} : ~Working(m)'
  BY <1>2, <1>5 DEF Working
<1>7. gen'[n].pc = "positions" \/ (gen'[n].pc = "find" /\ positions' = {} /\ totals' = {})
  BY <1>1, <1>3, <1>5 DEF rowVars
<1> QED
  BY <1>6, <1>7 DEF Stage

\* Who is alone after a step of generation n was so before, and it is n.
LEMMA StageBefore ==
    ASSUME TypeOK, RankInv, NEW n \in Generation, Working(n), latest' = latest,
           \A m \in Generation \ {n} : gen'[m] = gen[m],
           gen'[n].alone = gen[n].alone \/ gen'[n].pc = "failed",
           Alone(n)' /\ Stage(n) => Stage(n)'
    PROVE  RankInv'
<1>1. SUFFICES ASSUME NEW m \in Generation, Alone(m)' PROVE Stage(m)'
  BY DEF RankInv
<1>2. CASE m = n
  <2>1. Alone(n)
    BY <1>1, <1>2 DEF Alone, Working
  <2> QED
    BY <1>1, <1>2, <2>1 DEF RankInv
<1>3. CASE m # n
  <2>1. Alone(m)
    BY <1>1, <1>3 DEF Alone
  <2>2. Stage(m)
    BY <2>1 DEF RankInv
  <2> QED
    BY <1>3, <2>2 DEF Stage
<1> QED
  BY <1>2, <1>3

\* Only generation n changes, and it stays out of the states "new" and "failed".
LEMMA StageOthers ==
    ASSUME TypeOK, NEW n \in Generation, Stage(n), NEW g, gen' = [gen EXCEPT ![n] = g]
    PROVE  gen'[n] = g /\ \A m \in Generation \ {n} : gen'[m] = gen[m] /\ ~Working(m)'
<1> USE DEF TypeOK, CallTypeOK
<1>1. gen'[n] = g /\ \A m \in Generation \ {n} : gen'[m] = gen[m]
  OBVIOUS
<1>2. \A m \in Generation \ {n} : ~Working(m)
  BY DEF Stage
<1> QED
  BY <1>1, <1>2 DEF Working

\* The rows of earlier generations go, and the applications are read.
LEMMA StagePrepare ==
    ASSUME TypeOK, NEW n \in Generation, Stage(n),
           DeletePositions(n) \/ DeleteTotals(n) \/ FindApplications(n)
    PROVE  Stage(n)'
<1> USE DEF TypeOK, CallTypeOK, GenTypeOK
<1>1. CASE DeletePositions(n)
  <2>1. gen'[n].pc = "totals" /\ positions' = {} /\ \A m \in Generation \ {n} : gen'[m] = gen[m]
    BY <1>1 DEF DeletePositions, Advance
  <2> QED
    BY <2>1 DEF Stage, Working
<1>2. CASE DeleteTotals(n)
  <2>1. /\ gen'[n].pc = "find" /\ positions' = {} /\ totals' = {}
        /\ \A m \in Generation \ {n} : gen'[m] = gen[m]
    BY <1>2 DEF DeleteTotals, Advance, Stage
  <2> QED
    BY <2>1 DEF Stage, Working
<1>3. CASE FindApplications(n)
  <2>1. /\ gen'[n].pc = "general" /\ gen'[n].todo = Question /\ positions' = {} /\ totals' = {}
        /\ \A m \in Generation \ {n} : gen'[m] = gen[m]
    BY <1>3 DEF FindApplications, rowVars, Stage
  <2> QED
    BY <2>1 DEF Stage, Working
<1> QED
  BY <1>1, <1>2, <1>3

\* The general list and its total.
LEMMA StageGeneral ==
    ASSUME TypeOK, NEW n \in Generation, Stage(n), WriteGeneral(n) \/ WriteGeneralTotal(n)
    PROVE  Stage(n)'
<1> USE DEF TypeOK, CallTypeOK, GenTypeOK
<1>1. CASE WriteGeneral(n)
  <2>1. PICK order \in Orders(gen[n].apps) :
          /\ gen' = [gen EXCEPT ![n].pc = "generalTotal", ![n].order = order]
          /\ positions' = positions \cup OrderRows(n, General, gen[n].apps, order)
    BY <1>1 DEF WriteGeneral, OrderRows
  <2>2. /\ gen'[n].pc = "generalTotal" /\ gen'[n].order = order
        /\ gen'[n].apps = gen[n].apps /\ gen'[n].todo = Question
        /\ \A m \in Generation \ {n} : gen'[m] = gen[m]
    BY <1>1, <2>1 DEF WriteGeneral, Stage
  <2>3. positions = {} /\ totals' = {}
    BY <1>1 DEF WriteGeneral, Stage
  <2>4. PICK apps : apps = gen[n].apps
    OBVIOUS
  <2>5. \A p \in OrderRows(n, General, apps, order) : p.question = General
    BY DEF OrderRows
  <2>6. /\ PositionsOn(General)' = PositionsOn(General) \cup OrderRows(n, General, apps, order)
        /\ \A r : r # General => PositionsOn(r)' = PositionsOn(r)
    BY <2>1, <2>4, <2>5, PositionsAdded
  <2>7. \A r : PositionsOn(r) = {}
    BY <2>3 DEF PositionsOn
  <2>8. Placed(n, apps, order, {})'
    BY <2>6, <2>7 DEF Placed
  <2> QED
    BY <2>2, <2>3, <2>4, <2>8 DEF Stage, Working
<1>2. CASE WriteGeneralTotal(n)
  <2>1. PICK apps, order, t :
            /\ apps = gen[n].apps /\ order = gen[n].order
            /\ t = [by |-> n, question |-> General, total |-> Cardinality(gen[n].apps)]
    OBVIOUS
  <2>2. /\ gen'[n].pc = "ranks" /\ gen'[n].apps = apps /\ gen'[n].order = order
        /\ gen'[n].todo = Question /\ UNCHANGED positions
        /\ \A m \in Generation \ {n} : gen'[m] = gen[m]
    BY <1>2, <2>1 DEF WriteGeneralTotal, Advance, Stage
  <2>3. Placed(n, apps, order, {}) /\ totals = {} /\ totals' = totals \cup {t}
    BY <1>2, <2>1 DEF WriteGeneralTotal, Stage
  <2>4. Placed(n, apps, order, {})'
    BY <2>2, <2>3, PlacedStays
  <2>5. t.question = General /\ t.total = Cardinality(apps)
    BY <2>1
  <2>6. /\ TotalsOn(General)' = TotalsOn(General) \cup {Cardinality(apps)}
        /\ \A r : r # General => TotalsOn(r)' = TotalsOn(r)
    BY <2>3, <2>5, TotalAdded
  <2>7. \A r : TotalsOn(r) = {}
    BY <2>3 DEF TotalsOn
  <2>8. Counted(apps, {})'
    BY <2>6, <2>7 DEF Counted
  <2>9. Question \ Question = {}
    OBVIOUS
  <2> QED
    BY <2>2, <2>4, <2>8, <2>9 DEF Stage, Working
<1> QED
  BY <1>1, <1>2

\* A preference and its total; without claimants there is none.
LEMMA StageRanks ==
    ASSUME TypeOK, NEW n \in Generation, Stage(n), NEW q \in Question, WriteRanks(n, q)
    PROVE  Stage(n)'
<1> USE DEF TypeOK, CallTypeOK, GenTypeOK
<1>1. PICK apps, order, todo, C :
          /\ apps = gen[n].apps /\ order = gen[n].order /\ todo = gen[n].todo
          /\ C = apps \cap Claims[q]
  OBVIOUS
<1>2. Claimants(n, q) = C /\ q \in todo /\ todo \subseteq Question /\ gen[n].pc = "ranks"
  BY <1>1 DEF Claimants, WriteRanks
<1>3. /\ gen'[n].pc = IF C = {} THEN "ranks" ELSE "rankTotal"
      /\ gen'[n].at = IF C = {} THEN General ELSE q
      /\ gen'[n].apps = apps /\ gen'[n].order = order /\ gen'[n].todo = todo \ {q}
      /\ \A m \in Generation \ {n} : gen'[m] = gen[m]
  BY <1>1, <1>2 DEF WriteRanks
<1>4. Placed(n, apps, order, Question \ todo) /\ Counted(apps, Question \ todo)
  BY <1>1, <1>2 DEF Stage
<1>5. positions' = positions \cup RankRows(n, q, C, order) /\ UNCHANGED totals
  <2>1. \A a : Rank(n, q, a) = RankIn(order, C, a)
    BY <1>1, <1>2 DEF RankIn, Rank
  <2>2. RankRows(n, q, C, order) =
           {[by |-> n, question |-> q, app |-> a, ordinal |-> Rank(n, q, a)] : a \in C}
    BY <2>1 DEF RankRows
  <2> QED
    BY <1>2, <2>2 DEF WriteRanks
<1>6. \A p \in RankRows(n, q, C, order) : p.question = q
  BY DEF RankRows
<1>7. /\ PositionsOn(q)' = PositionsOn(q) \cup RankRows(n, q, C, order)
      /\ \A r : r # q => PositionsOn(r)' = PositionsOn(r)
  BY <1>5, <1>6, PositionsAdded
<1>8. PositionsOn(q) = {}
  BY <1>2, <1>4 DEF Placed
<1>9. Placed(n, apps, order, Question \ (todo \ {q}))'
  <2>1. PositionsOn(q)' = RankRows(n, q, C, order)
    BY <1>7, <1>8
  <2>2. \A r \in Question \ {q} : r \in Question \ (todo \ {q}) <=> r \in Question \ todo
    OBVIOUS
  <2>3. \A r \in Question \ {q} :
           PositionsOn(r)' = IF r \in Question \ (todo \ {q})
                             THEN RankRows(n, r, apps \cap Claims[r], order) ELSE {}
    BY <1>4, <1>7, <2>2 DEF Placed
  <2>4. PositionsOn(General)' = OrderRows(n, General, apps, order)
    BY <1>4, <1>7 DEF Placed
  <2> QED
    BY <1>1, <2>1, <2>3, <2>4 DEF Placed
<1>10. CASE C = {}
  <2>1. Cardinality(C) = 0
    BY <1>10, FS_EmptySet
  <2>2. Counted(apps, Question \ (todo \ {q}))
    <3>1. TotalsOn(q) = {Cardinality(C)} \ {0}
      BY <1>2, <1>4, <2>1 DEF Counted
    <3>2. \A r \in Question \ {q} : r \in Question \ (todo \ {q}) <=> r \in Question \ todo
      OBVIOUS
    <3> QED
      BY <1>1, <1>2, <1>4, <3>1, <3>2 DEF Counted
  <2>3. Counted(apps, Question \ (todo \ {q}))'
    BY <1>5, <2>2, CountedStays
  <2> QED
    BY <1>3, <1>9, <1>10, <2>3 DEF Stage, Working
<1>11. CASE C # {}
  <2>1. Question \ ((todo \ {q}) \cup {q}) = Question \ todo
    BY <1>2
  <2>2. Counted(apps, Question \ ((todo \ {q}) \cup {q}))'
    BY <1>4, <1>5, <2>1, CountedStays
  <2> QED
    BY <1>1, <1>3, <1>9, <1>11, <2>2 DEF Stage, Working
<1> QED
  BY <1>10, <1>11

LEMMA StageRankTotal ==
    ASSUME TypeOK, NEW n \in Generation, Stage(n), WriteRankTotal(n)
    PROVE  Stage(n)'
<1> USE DEF TypeOK, CallTypeOK, GenTypeOK
<1>1. PICK apps, order, todo, q, C, t :
          /\ apps = gen[n].apps /\ order = gen[n].order /\ todo = gen[n].todo
          /\ q = gen[n].at /\ C = apps \cap Claims[q]
          /\ t = [by |-> n, question |-> q, total |-> Cardinality(C)]
  OBVIOUS
<1>2. /\ q \in Question /\ C # {} /\ q \notin todo
      /\ Placed(n, apps, order, Question \ todo) /\ Counted(apps, Question \ (todo \cup {q}))
  BY <1>1 DEF WriteRankTotal, Stage
<1>3. /\ gen'[n].pc = "ranks" /\ gen'[n].apps = apps /\ gen'[n].order = order
      /\ gen'[n].todo = todo /\ UNCHANGED positions /\ totals' = totals \cup {t}
      /\ \A m \in Generation \ {n} : gen'[m] = gen[m]
  BY <1>1 DEF WriteRankTotal, Claimants
<1>4. Placed(n, apps, order, Question \ todo)'
  BY <1>2, <1>3, PlacedStays
<1>5. /\ TotalsOn(q)' = TotalsOn(q) \cup {Cardinality(C)}
      /\ \A r : r # q => TotalsOn(r)' = TotalsOn(r)
  <2>1. t.question = q /\ t.total = Cardinality(C)
    BY <1>1
  <2> QED
    BY <1>3, <2>1, TotalAdded
<1>6. Cardinality(C) # 0
  <2>1. C \subseteq Application
    BY <1>1
  <2>2. IsFiniteSet(C)
    BY <2>1, FiniteAssumption, FS_Subset
  <2> QED
    BY <1>2, <2>2, FS_EmptySet
<1>7. TotalsOn(q) = {}
  BY <1>2 DEF Counted
<1>8. TotalsOn(q)' = {Cardinality(C)} \ {0}
  BY <1>5, <1>6, <1>7
<1>9. Counted(apps, Question \ todo)'
  BY <1>1, <1>2, <1>5, <1>8 DEF Counted
<1> QED
  BY <1>3, <1>4, <1>9 DEF Stage, Working

\* The generation is over.
LEMMA StageEnd ==
    ASSUME TypeOK, NEW n \in Generation, Stage(n), EndGenerate(n), Alone(n)'
    PROVE  Stage(n)'
<1> USE DEF TypeOK, CallTypeOK, GenTypeOK
<1>1. closed
  BY DEF EndGenerate, Failed, NewGeneration, Alone
<1>2. PICK apps, order : apps = gen[n].apps /\ order = gen[n].order
  OBVIOUS
<1>3. /\ gen'[n].pc = "done" /\ gen'[n].apps = apps /\ UNCHANGED <<positions, totals>>
      /\ \A m \in Generation \ {n} : gen'[m] = gen[m]
  BY <1>1, <1>2 DEF EndGenerate, rowVars
<1>4. gen[n].pc = "ranks" /\ gen[n].todo = {} /\ Question \ gen[n].todo = Question
  BY DEF EndGenerate
<1>5. Placed(n, apps, order, Question) /\ Counted(apps, Question) /\ order \in Orders(apps)
  BY <1>2, <1>4 DEF Stage
<1>6. Placed(n, apps, order, Question)' /\ Counted(apps, Question)'
  BY <1>3, <1>5, PlacedStays, CountedStays
<1> QED
  BY <1>3, <1>5, <1>6 DEF Stage, Working

\* Each step keeps the account of the generation that is alone.
LEMMA StageNext ==
    ASSUME TypeOK, RankInv, [Next]_vars
    PROVE  RankInv'
<1>1. ASSUME UNCHANGED <<gen, latest, positions, totals>>
      PROVE  RankInv'
  <2>1. \A q : PositionsOn(q)' = PositionsOn(q) /\ TotalsOn(q)' = TotalsOn(q)
    BY <1>1 DEF PositionsOn, TotalsOn
  <2>2. \A n, apps, order, qs : Placed(n, apps, order, qs)' <=> Placed(n, apps, order, qs)
    BY <2>1 DEF Placed
  <2>3. \A apps, qs : Counted(apps, qs)' <=> Counted(apps, qs)
    BY <2>1 DEF Counted
  <2>4. SUFFICES ASSUME NEW n \in Generation, Alone(n)' PROVE Stage(n)'
    BY DEF RankInv
  <2>5. Stage(n)
    BY <1>1, <2>4 DEF RankInv, Alone
  <2> QED
    BY <1>1, <2>2, <2>3, <2>5 DEF Stage, Working
<1>2. ASSUME NEW a \in Application, ApplicationStep(a)
      PROVE  RankInv'
  BY <1>1, <1>2 DEF ApplicationStep, CreateApplication, StampCreate, BeginDelete, EndDelete,
                    ReviewApplication, rowVars
<1>3. CASE \/ CloseListing \/ ReopenListing \/ TimePasses
           \/ Retract \/ Release \/ Publish \/ AutoPublish \/ Expire
           \/ \E s \in Status : WriteStatus(s) \/ WriteStatusFails(s)
           \/ UNCHANGED vars
  BY <1>1, <1>3 DEF CloseListing, ReopenListing, TimePasses, Retract, Release, Publish,
                    AutoPublish, Expire, Ask, WriteStatus, WriteStatusFails, rowVars, vars
<1>4. ASSUME NEW n \in Generation, GenerateStep(n) \/ GenerateFails(n)
      PROVE  RankInv'
  <2> USE DEF TypeOK, CallTypeOK, GenTypeOK
  <2>1. Working(n)
    BY <1>4 DEF GenerateStep, GenerateFails, DeletePositions, DeleteTotals,
                FindApplications, WriteGeneral, WriteGeneralTotal, WriteRanks,
                WriteRankTotal, EndGenerate, Working
  <2>2. /\ latest' = latest /\ \A m \in Generation \ {n} : gen'[m] = gen[m]
        /\ gen'[n].alone = gen[n].alone \/ gen'[n].pc = "failed"
    <3>1. CASE DeletePositions(n) \/ DeleteTotals(n) \/ FindApplications(n)
      BY <3>1 DEF DeletePositions, DeleteTotals, FindApplications, Advance
    <3>2. CASE WriteGeneral(n) \/ WriteGeneralTotal(n)
      BY <3>2 DEF WriteGeneral, WriteGeneralTotal, Advance
    <3>3. CASE WriteRankTotal(n) \/ \E q \in Question : WriteRanks(n, q)
      <4>1. /\ gen'[n].alone = gen[n].alone
            /\ \A m \in Generation \ {n} : gen'[m] = gen[m]
        <5>1. CASE WriteRankTotal(n)
          BY <5>1 DEF WriteRankTotal
        <5>2. ASSUME NEW q \in Question, WriteRanks(n, q)
              PROVE  /\ gen'[n].alone = gen[n].alone
                     /\ \A m \in Generation \ {n} : gen'[m] = gen[m]
          <6>1. PICK C : C = Claimants(n, q)
            OBVIOUS
          <6> QED
            BY <5>2, <6>1 DEF WriteRanks
        <5> QED
          BY <3>3, <5>1, <5>2
      <4>2. latest' = latest
        BY <3>3 DEF WriteRankTotal, WriteRanks
      <4> QED
        BY <4>1, <4>2
    <3>4. CASE EndGenerate(n) \/ GenerateFails(n)
      <4>1. /\ gen'[n].alone = gen[n].alone \/ gen'[n].pc = "failed"
            /\ \A m \in Generation \ {n} : gen'[m] = gen[m]
        <5>1. CASE EndGenerate(n) /\ closed
          <6>1. gen' = [gen EXCEPT ![n] = [gen[n] EXCEPT !.pc = "done", !.order = <<>>]]
            BY <5>1 DEF EndGenerate
          <6> QED
            BY <6>1
        <5>2. CASE GenerateFails(n) \/ (EndGenerate(n) /\ ~closed)
          BY <5>2 DEF EndGenerate, GenerateFails, Failed, NewGeneration
        <5> QED
          BY <3>4, <5>1, <5>2
      <4>2. latest' = latest
        BY <3>4 DEF EndGenerate, GenerateFails
      <4> QED
        BY <4>1, <4>2
    <3> QED
      BY <1>4, <3>1, <3>2, <3>3, <3>4 DEF GenerateStep
  <2>3. ASSUME Alone(n)', Stage(n)
        PROVE  Stage(n)'
    <3>1. ~GenerateFails(n)
      BY <2>3 DEF GenerateFails, Failed, NewGeneration, Alone
    <3> QED
      BY <1>4, <2>3, <3>1, StagePrepare, StageGeneral, StageRanks, StageRankTotal, StageEnd
         DEF GenerateStep
  <2> QED
    BY <2>1, <2>2, <2>3, StageBefore
<1> QED
  BY <1>2, <1>3, <1>4, StageStart DEF Next

\* After a generation that nothing overlapped, and that found no rows or deleted
\* them, every entrant has exactly one general position, every claimant of a
\* preference one rank in it, in the order of the general list, and the totals count
\* them (lotteryGenerate, lotteryRandomizer): whatever earlier generations left.
THEOREM RanksInOrder == Spec => []Ranked
<1>1. Init => RankInv
  BY NoneAssumption DEF Init, RankInv, Alone
<1>2. TypeOK /\ RankInv /\ [Next]_vars => RankInv'
  BY StageNext
<1>3. ASSUME TypeOK, RankInv
      PROVE  Ranked
  <2>1. SUFFICES ASSUME NEW n \in Generation, latest = n, gen[n].pc = "done", gen[n].alone
                 PROVE  /\ Numbers(PositionsOn(General), gen[n].apps)
                        /\ TotalsOn(General) = {Cardinality(gen[n].apps)}
                        /\ \A q \in Question :
                              /\ Numbers(PositionsOn(q), Claimants(n, q))
                              /\ InGeneralOrder(q)
                              /\ TotalsOn(q) = {Cardinality(Claimants(n, q))} \ {0}
    BY DEF Ranked
  <2>2. PICK apps : apps = gen[n].apps
    OBVIOUS
  <2>3. apps \in SUBSET Application
    BY <1>3, <2>2 DEF TypeOK, CallTypeOK, GenTypeOK
  <2>4. Stage(n)
    BY <1>3, <2>1 DEF RankInv, Alone
  <2>5. Counted(apps, Question) /\ \E order \in Orders(apps) : Placed(n, apps, order, Question)
    BY <2>1, <2>2, <2>4 DEF Stage
  <2>6. PICK order \in Orders(apps) : Placed(n, apps, order, Question)
    BY <2>5
  <2>7. Numbers(PositionsOn(General), apps)
    BY <2>3, <2>6, OrderNumbers DEF Placed
  <2>8. TotalsOn(General) = {Cardinality(apps)}
    BY <2>5 DEF Counted
  <2>9. ASSUME NEW q \in Question
        PROVE  /\ Numbers(PositionsOn(q), Claimants(n, q)) /\ InGeneralOrder(q)
               /\ TotalsOn(q) = {Cardinality(Claimants(n, q))} \ {0}
    <3>1. PICK C : C = apps \cap Claims[q]
      OBVIOUS
    <3>2. Claimants(n, q) = C /\ C \in SUBSET apps
      BY <2>2, <3>1 DEF Claimants
    <3>3. PICK rank : rank = [a \in C |-> RankIn(order, C, a)]
      OBVIOUS
    <3>4. rank \in Orders(C)
      BY <2>3, <3>2, <3>3, RankOrder
    <3>5. PositionsOn(q) = RankRows(n, q, C, order)
      BY <2>6, <3>1 DEF Placed
    <3>6. RankRows(n, q, C, order) = OrderRows(n, q, C, rank)
      BY <3>3 DEF RankRows, OrderRows
    <3>7. Numbers(PositionsOn(q), C)
      BY <2>3, <3>2, <3>4, <3>5, <3>6, OrderNumbers
    <3>8. InGeneralOrder(q)
      <4>1. SUFFICES ASSUME NEW p \in PositionsOn(q), NEW r \in PositionsOn(q),
                            NEW x \in PositionsOn(General), NEW y \in PositionsOn(General),
                            p.app = x.app, r.app = y.app
                     PROVE  p.ordinal < r.ordinal <=> x.ordinal < y.ordinal
        BY DEF InGeneralOrder
      <4>2. /\ p.app \in C /\ p.ordinal = RankIn(order, C, p.app)
            /\ r.app \in C /\ r.ordinal = RankIn(order, C, r.app)
        BY <3>5 DEF RankRows
      <4>3. x.ordinal = order[x.app] /\ y.ordinal = order[y.app]
        BY <2>6 DEF Placed, OrderRows
      <4>4. RankIn(order, C, p.app) < RankIn(order, C, r.app) <=> order[p.app] < order[r.app]
        BY <2>3, <3>2, <4>2, RankOrder
      <4> QED
        BY <4>1, <4>2, <4>3, <4>4
    <3>9. TotalsOn(q) = {Cardinality(C)} \ {0}
      BY <2>5, <3>1 DEF Counted
    <3> QED
      BY <3>2, <3>7, <3>8, <3>9
  <2> QED
    BY <2>2, <2>7, <2>8, <2>9
<1> QED
  BY <1>1, <1>2, <1>3, Types, PTL DEF Spec
=============================================================================

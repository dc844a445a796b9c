------------------------------ MODULE CronJob ------------------------------
(***************************************************************************)
(* One cron job in the instances of the API (cron-job.service.ts): each    *)
(* instance has its own timer and asks the row of the job in cron_job      *)
(* whether to run; the job then marks the row as started.  The row is      *)
(* read, and written two calls later, with nothing locked in between.      *)
(*                                                                         *)
(* Times are not numbers: row says whether lastRunDate is less than five   *)
(* minutes ago.  When a timer fires is left open.                          *)
(***************************************************************************)
CONSTANT Instance

VARIABLES
    row,      \* the row of the job: none, marked recently, marked before that
    call,     \* where each instance is in its call of the job
    ungated,  \* history: calls whose answer of the gate is outdated, or not asked for
    long,     \* history: calls that marked the row five minutes ago or more
    met       \* history: calls that worked at the same time as another

cronVars == <<row, call, ungated, long, met>>

Gated == {"passed", "update", "create"}   \* past the gate, row not marked

WorkingCalls == {i \in Instance : call[i] = "working"}

\* The timer of instance i fires and the gate lets it through.
Fire(i) ==
    /\ call[i] = "idle" /\ row # "recent"
    /\ call' = [call EXCEPT ![i] = "passed"]
    /\ UNCHANGED <<row, ungated, long, met>>

\* The endpoint of the job calls it without asking.
FireByHand(i) ==
    /\ call[i] = "idle"
    /\ call' = [call EXCEPT ![i] = "passed"]
    /\ ungated' = ungated \cup {i}
    /\ UNCHANGED <<row, long, met>>

\* markCronJobAsStarted: find the row, then update it or create it.
FindRow(i) ==
    /\ call[i] = "passed"
    /\ call' = [call EXCEPT ![i] = IF row = "none" THEN "create" ELSE "update"]
    /\ UNCHANGED <<row, ungated, long, met>>

\* Variant of MarkRow: the row is created with no date.
MarkRowUndated(i) ==
    /\ call[i] = "update" \/ (call[i] = "create" /\ row = "none")
    /\ row' = IF row = "none" THEN "old" ELSE "recent"
    /\ call' = [call EXCEPT ![i] = "working"]
    /\ ungated' = ungated \cup {j \in Instance \ {i} : call[j] \in Gated}
    /\ met' = IF WorkingCalls = {} THEN met ELSE met \cup {i} \cup WorkingCalls
    /\ UNCHANGED long

MarkRow(i) ==
    /\ call[i] = "update" \/ (call[i] = "create" /\ row = "none")
    /\ row' = "recent"
    /\ call' = [call EXCEPT ![i] = "working"]
    /\ ungated' = ungated \cup {j \in Instance \ {i} : call[j] \in Gated}
    /\ met' = IF WorkingCalls = {} THEN met ELSE met \cup {i} \cup WorkingCalls
    /\ UNCHANGED long

Ends(i) ==
    /\ call' = [call EXCEPT ![i] = "idle"]
    /\ ungated' = ungated \ {i} /\ long' = long \ {i} /\ met' = met \ {i}

\* The name of a job is unique: the second create throws, and the job with it.
CreateFails(i) ==
    /\ call[i] = "create" /\ row # "none"
    /\ Ends(i)
    /\ UNCHANGED row

\* The job is over: done, failed and caught by the timer, or gone with its process.
Return(i) ==
    /\ call[i] # "idle"
    /\ Ends(i)
    /\ UNCHANGED row

FiveMinutesPass ==
    /\ row = "recent"
    /\ row' = "old"
    /\ long' = long \cup WorkingCalls
    /\ UNCHANGED <<call, ungated, met>>

----------------------------------------------------------------------------
Init ==
    /\ row = "none"
    /\ call = [i \in Instance |-> "idle"]
    /\ ungated = {} /\ long = {} /\ met = {}

Next ==
    \/ \E i \in Instance :
          \/ Fire(i) \/ FireByHand(i) \/ FindRow(i) \/ MarkRow(i) \/ CreateFails(i)
          \/ Return(i)
    \/ FiveMinutesPass

Spec == Init /\ [][Next]_cronVars

TypeOK ==
    /\ row \in {"none", "recent", "old"}
    /\ call \in [Instance -> {"idle", "working"} \cup Gated]
    /\ {ungated, long, met} \subseteq SUBSET Instance

----------------------------------------------------------------------------
(* What the comment on the gate says, as far as reading and then writing   *)
(* the row can give it: of two calls at work at once, one was let through  *)
(* before the other had marked the row (or was started by hand), or one    *)
(* has been at work for five minutes.                                      *)
NoOverlap ==
    \A i, j \in WorkingCalls : i # j => {i, j} \cap (ungated \cup long) # {}

\* What makes it inductive.
GateInv ==
    /\ TypeOK
    /\ NoOverlap
    /\ \A i \in WorkingCalls \ long :
          /\ row = "recent"
          /\ \A j \in Instance \ {i} : call[j] \in Gated => j \in ungated
=============================================================================

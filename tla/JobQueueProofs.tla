-------------------------- MODULE JobQueueProofs --------------------------
(***************************************************************************)
(* Proofs about JobQueue, for any number of jobs, handlers and retries.    *)
(***************************************************************************)
EXTENDS JobQueue, TLAPS

Running(r) == /\ r.status = "running"
              /\ r.attempts >= 1
              /\ r.attempts <= r.max_retries + 1
              /\ ~r.result /\ ~r.completed

\* A record closed by its task; cancelled if the task was told to stop.
Ended(r, stopped) ==
    /\ r.status \in Terminal
    /\ r.completed
    /\ r.attempts >= 1
    /\ r.attempts <= r.max_retries + 1
    /\ r.status = "failed" /\ ~r.result => r.attempts = r.max_retries + 1
    /\ stopped => r.status = "cancelled"

\* The inductive invariant: what a record holds, by where its task is.
Consistent(j) ==
    /\ task[j] = "none" => /\ record[j] = Fresh(0)
                           /\ ~cancelling[j]
    /\ task[j] = "created" => record[j] = Fresh(record[j].max_retries)
    /\ task[j] = "attempt" => Running(record[j])
    /\ task[j] = "done" => \/ Ended(record[j], cancelling[j])
                           \/ /\ cancelling[j]
                              /\ record[j] = Fresh(record[j].max_retries)

QueueInv == TypeOK /\ \A j \in Jobs : Consistent(j)

LEMMA FreshType == \A retries \in Nat : Fresh(retries) \in JobRecord
BY DEF Fresh, JobRecord, RunStatus

LEMMA VerdictType == Verdicts \subseteq RunStatus /\ Verdicts \subseteq Terminal
BY QueueAssumption DEF RunStatus, Terminal

\* What the steps write into a record is a record again.
LEMMA RecordType ==
    ASSUME NEW r \in JobRecord
    PROVE  /\ [r EXCEPT !.error = TRUE] \in JobRecord
           /\ [r EXCEPT !.attempts = r.attempts + 1] \in JobRecord
           /\ [r EXCEPT !.status = "running", !.attempts = r.attempts + 1] \in JobRecord
           /\ \A s \in RunStatus :
                 /\ Closed(r, s) \in JobRecord
                 /\ [Closed(r, s) EXCEPT !.result = TRUE] \in JobRecord
<1>1. [r EXCEPT !.error = TRUE] \in JobRecord
  BY DEF JobRecord
<1>2. [r EXCEPT !.attempts = r.attempts + 1] \in JobRecord
  BY DEF JobRecord
<1>3. [r EXCEPT !.status = "running", !.attempts = r.attempts + 1] \in JobRecord
  <2>1. "running" \in RunStatus /\ r.attempts + 1 \in Nat
    BY DEF JobRecord, RunStatus
  <2>. QED
    BY <2>1 DEF JobRecord
<1>4. ASSUME NEW s \in RunStatus
      PROVE  /\ Closed(r, s) \in JobRecord
             /\ [Closed(r, s) EXCEPT !.result = TRUE] \in JobRecord
  BY DEF JobRecord, Closed
<1>. QED
  BY <1>1, <1>2, <1>3, <1>4

(***************************************************************************)
(* Type correctness.                                                       *)
(***************************************************************************)
LEMMA TypeInit == Init => TypeOK
BY FreshType, QueueAssumption DEF Init, TypeOK

LEMMA FailAttemptType ==
    ASSUME TypeOK, NEW j \in Jobs, FailAttempt(j)
    PROVE  TypeOK'
<1> DEFINE r == [record[j] EXCEPT !.error = TRUE]
<1>0. record[j] \in JobRecord
  BY DEF TypeOK
<1>1. r \in JobRecord
  BY <1>0, RecordType
<1>2. CASE LastAttempt(r) /\ Settle(j, Closed(r, "failed"))
  <2>1. Closed(r, "failed") \in JobRecord
    BY <1>1, RecordType DEF RunStatus
  <2>. QED
    BY <1>2, <2>1 DEF TypeOK, Settle, FailAttempt
<1>3. CASE ~LastAttempt(r) /\ record' = [record EXCEPT ![j] = [r EXCEPT !.attempts = @ + 1]]
           /\ UNCHANGED task
  <2>1. [r EXCEPT !.attempts = @ + 1] \in JobRecord
    BY <1>1, RecordType
  <2>. QED
    BY <1>3, <2>1 DEF TypeOK, FailAttempt
<1>. QED
  BY <1>2, <1>3 DEF FailAttempt

LEMMA TypeStep == TypeOK /\ [Next]_queueVars => TypeOK'
<1> SUFFICES ASSUME TypeOK, [Next]_queueVars PROVE TypeOK'
  OBVIOUS
<1> USE DEF TypeOK
<1>1. CASE UNCHANGED queueVars
  BY <1>1 DEF queueVars
<1>2. ASSUME NEW j \in Jobs, NEW retries \in 0..MaxRetries, Submit(j, retries)
      PROVE  TypeOK'
  BY <1>2, FreshType, QueueAssumption DEF Submit
<1>3. ASSUME NEW j \in Jobs, Begin(j) PROVE TypeOK'
  <2>1. [record[j] EXCEPT !.status = "running", !.attempts = @ + 1] \in JobRecord
    BY RecordType
  <2>. QED
    BY <1>3, <2>1 DEF Begin
<1>4. ASSUME NEW j \in Jobs, NeverBegun(j) PROVE TypeOK'
  BY <1>4 DEF NeverBegun
<1>5. ASSUME NEW j \in Jobs, TimeOut(j) \/ Raise(j) PROVE TypeOK'
  BY <1>5, FailAttemptType DEF TimeOut, Raise
<1>6. ASSUME NEW j \in Jobs, Cancelled(j) PROVE TypeOK'
  <2>1. Closed(record[j], "cancelled") \in JobRecord
    BY RecordType DEF RunStatus
  <2>. QED
    BY <1>6, <2>1 DEF Cancelled, Settle
<1>7. ASSUME NEW j \in Jobs, NEW verdict \in Verdicts, Return(j, verdict) PROVE TypeOK'
  <2>1. [Closed(record[j], verdict) EXCEPT !.result = TRUE] \in JobRecord
    BY RecordType, VerdictType
  <2>. QED
    BY <1>7, <2>1 DEF Return, Settle
<1>8. ASSUME NEW j \in Jobs, Expire(j) PROVE TypeOK'
  BY <1>8 DEF Expire
<1>9. ASSUME NEW j \in Jobs, NEW c \in Callers, Cancel(c, j) PROVE TypeOK'
  BY <1>9 DEF Cancel
<1>10. ASSUME NEW c \in Callers, CancelReturns(c) PROVE TypeOK'
  BY <1>10 DEF CancelReturns
<1>11. CASE Restart
  BY <1>11, FreshType DEF Restart
<1>. QED
  BY <1>1, <1>2, <1>3, <1>4, <1>5, <1>6, <1>7, <1>8, <1>9, <1>10, <1>11
  DEF Next, TaskStep, FactoryStep

\* Every variable of the queue keeps its type, whatever the constants.
THEOREM TypeCorrect == SafeSpec => []TypeOK
BY TypeInit, TypeStep, PTL DEF SafeSpec

(***************************************************************************)
(* The inductive invariant.                                                *)
(***************************************************************************)
\* A step that leaves the job alone leaves its part of the invariant alone.
LEMMA Untouched ==
    ASSUME NEW k \in Jobs, Consistent(k),
           record'[k] = record[k], task'[k] = task[k], cancelling'[k] = cancelling[k]
    PROVE  Consistent(k)'
BY DEF Consistent

LEMMA FailAttemptStep ==
    ASSUME TypeOK, NEW j \in Jobs, Running(record[j]), task[j] = "attempt",
           ~cancelling[j], FailAttempt(j)
    PROVE  Consistent(j)'
<1> DEFINE r == [record[j] EXCEPT !.error = TRUE]
<1>0. /\ record[j] \in JobRecord
      /\ Running(r)
      /\ cancelling'[j] = FALSE
      /\ r.attempts \in Nat /\ r.max_retries \in Nat
  BY DEF TypeOK, FailAttempt, Running, JobRecord
<1>1. CASE LastAttempt(r) /\ Settle(j, Closed(r, "failed"))
  <2>1. record'[j] = Closed(r, "failed") /\ task'[j] = "done"
    BY <1>1 DEF TypeOK, Settle
  <2>2. r.attempts = r.max_retries + 1
    BY <1>0, <1>1 DEF LastAttempt, Running
  <2>3. Ended(Closed(r, "failed"), FALSE)
    BY <1>0, <2>2 DEF Ended, Closed, Running, Terminal, JobRecord
  <2>. QED
    BY <1>0, <2>1, <2>3 DEF Consistent
<1>2. CASE /\ ~LastAttempt(r)
           /\ record' = [record EXCEPT ![j] = [r EXCEPT !.attempts = @ + 1]]
           /\ UNCHANGED task
  <2>1. record'[j] = [r EXCEPT !.attempts = @ + 1] /\ task'[j] = "attempt"
    BY <1>2 DEF TypeOK
  <2>2. Running([r EXCEPT !.attempts = @ + 1])
    BY <1>0, <1>2 DEF LastAttempt, Running, JobRecord
  <2>. QED
    BY <2>1, <2>2 DEF Consistent
<1>. QED
  BY <1>1, <1>2 DEF FailAttempt

LEMMA InvStep == QueueInv /\ [Next]_queueVars => QueueInv'
<1> SUFFICES ASSUME QueueInv, [Next]_queueVars PROVE \A k \in Jobs : Consistent(k)'
  BY TypeStep DEF QueueInv
<1> SUFFICES ASSUME NEW k \in Jobs PROVE Consistent(k)'
  OBVIOUS
<1>0. TypeOK /\ Consistent(k)
  BY DEF QueueInv
<1> USE <1>0 DEF TypeOK
<1>1. CASE UNCHANGED queueVars
  BY <1>1, Untouched DEF queueVars
<1>2. ASSUME NEW j \in Jobs, NEW retries \in 0..MaxRetries, Submit(j, retries)
      PROVE  Consistent(k)'
  <2>1. CASE k = j
    BY <1>2, <2>1 DEF Submit, Consistent, Fresh
  <2>2. CASE k # j
    BY <1>2, <2>2, Untouched DEF Submit
  <2>. QED
    BY <2>1, <2>2
<1>3. ASSUME NEW j \in Jobs, Begin(j) PROVE Consistent(k)'
  <2>1. CASE k = j
    <3>1. record[k] = Fresh(record[k].max_retries) /\ record[k].max_retries \in Nat
      BY <1>3, <2>1 DEF Begin, Consistent, JobRecord
    <3>2. /\ record'[k] = [record[k] EXCEPT !.status = "running", !.attempts = @ + 1]
          /\ task'[k] = "attempt"
      BY <1>3, <2>1 DEF Begin
    <3>3. Running(record'[k])
      BY <3>1, <3>2 DEF Running, Fresh
    <3>. QED
      BY <3>2, <3>3 DEF Consistent
  <2>2. CASE k # j
    BY <1>3, <2>2, Untouched DEF Begin
  <2>. QED
    BY <2>1, <2>2
<1>4. ASSUME NEW j \in Jobs, NeverBegun(j) PROVE Consistent(k)'
  <2>1. CASE k = j
    BY <1>4, <2>1 DEF NeverBegun, Consistent
  <2>2. CASE k # j
    BY <1>4, <2>2, Untouched DEF NeverBegun
  <2>. QED
    BY <2>1, <2>2
<1>5. ASSUME NEW j \in Jobs, TimeOut(j) \/ Raise(j) PROVE Consistent(k)'
  <2>0. FailAttempt(j) /\ task[j] = "attempt" /\ ~cancelling[j]
    BY <1>5 DEF TimeOut, Raise, Signalled
  <2>1. CASE k = j
    BY <2>0, <2>1, FailAttemptStep DEF Consistent
  <2>2. CASE k # j
    BY <2>0, <2>2, Untouched DEF FailAttempt, Settle
  <2>. QED
    BY <2>1, <2>2
<1>6. ASSUME NEW j \in Jobs, Cancelled(j) PROVE Consistent(k)'
  <2>1. CASE k = j
    <3>1. record'[k] = Closed(record[k], "cancelled") /\ task'[k] = "done"
      BY <1>6, <2>1 DEF Cancelled, Settle
    <3>2. Running(record[k]) /\ record[k] \in JobRecord
      BY <1>6, <2>1 DEF Cancelled, Consistent
    <3>3. Ended(Closed(record[k], "cancelled"), TRUE)
      BY <3>2 DEF Ended, Running, Closed, Terminal, JobRecord
    <3>4. cancelling'[k] = TRUE
      BY <1>6, <2>1 DEF Cancelled
    <3>. QED
      BY <3>1, <3>3, <3>4 DEF Consistent
  <2>2. CASE k # j
    BY <1>6, <2>2, Untouched DEF Cancelled, Settle
  <2>. QED
    BY <2>1, <2>2
<1>7. ASSUME NEW j \in Jobs, NEW verdict \in Verdicts, Return(j, verdict)
      PROVE  Consistent(k)'
  <2>1. CASE k = j
    <3> DEFINE r == [Closed(record[k], verdict) EXCEPT !.result = TRUE]
    <3>1. record'[k] = r /\ task'[k] = "done" /\ cancelling'[k] = FALSE
      BY <1>7, <2>1 DEF Return, Settle, Signalled
    <3>2. Running(record[k]) /\ record[k] \in JobRecord
      BY <1>7, <2>1 DEF Return, Consistent
    <3>3. Ended(r, FALSE)
      BY <3>2, VerdictType DEF Ended, Running, Closed, JobRecord
    <3>. QED
      BY <3>1, <3>3 DEF Consistent
  <2>2. CASE k # j
    BY <1>7, <2>2, Untouched DEF Return, Settle
  <2>. QED
    BY <2>1, <2>2
<1>8. ASSUME NEW j \in Jobs, Expire(j) PROVE Consistent(k)'
  BY <1>8, Untouched DEF Expire
<1>9. ASSUME NEW j \in Jobs, NEW c \in Callers, Cancel(c, j) PROVE Consistent(k)'
  <2>1. CASE k = j
    BY <1>9, <2>1 DEF Cancel, InQueue, Consistent
  <2>2. CASE k # j
    BY <1>9, <2>2, Untouched DEF Cancel
  <2>. QED
    BY <2>1, <2>2
<1>10. ASSUME NEW c \in Callers, CancelReturns(c) PROVE Consistent(k)'
  BY <1>10, Untouched DEF CancelReturns
<1>11. CASE Restart
  BY <1>11 DEF Restart, Consistent
<1>. QED
  BY <1>1, <1>2, <1>3, <1>4, <1>5, <1>6, <1>7, <1>8, <1>9, <1>10, <1>11
  DEF Next, TaskStep, FactoryStep

\* The inductive invariant holds in every state.
THEOREM Consistency == SafeSpec => []QueueInv
<1>1. Init => QueueInv
  BY TypeInit DEF Init, QueueInv, Consistent
<1>. QED
  BY <1>1, InvStep, PTL DEF SafeSpec

(***************************************************************************)
(* The safety properties.                                                  *)
(***************************************************************************)
LEMMA InvImplies == QueueInv => ClosedWhenDone /\ FailedWhenExhausted /\ CancelWins
<1> SUFFICES ASSUME QueueInv, NEW j \in Jobs
             PROVE  /\ record[j].completed <=> record[j].status \in Terminal
                    /\ record[j].completed => task[j] = "done"
                    /\ task[j] = "done" /\ record[j].attempts > 0 => record[j].completed
                    /\ record[j].attempts <= record[j].max_retries + 1
                    /\ record[j].status = "failed" /\ ~record[j].result
                          => record[j].attempts = record[j].max_retries + 1
                    /\ cancelling[j] /\ task[j] = "done"
                          => record[j].status = IF record[j].attempts = 0
                                                THEN "queued" ELSE "cancelled"
  BY DEF ClosedWhenDone, FailedWhenExhausted, CancelWins
<1>0. record[j] \in JobRecord /\ Consistent(j) /\ task[j] \in {"none", "created", "attempt", "done"}
  BY DEF QueueInv, TypeOK
<1>1. CASE record[j] = Fresh(record[j].max_retries) /\ (task[j] = "done" => cancelling[j])
  BY <1>0, <1>1 DEF Fresh, Terminal, JobRecord
<1>2. CASE Running(record[j]) /\ task[j] = "attempt"
  BY <1>0, <1>2 DEF Running, Terminal, JobRecord
<1>3. CASE Ended(record[j], cancelling[j]) /\ task[j] = "done"
  BY <1>0, <1>3 DEF Ended, Terminal, JobRecord
<1>4. record[j] = Fresh(0) => record[j] = Fresh(record[j].max_retries)
  BY DEF Fresh
<1>. QED
  BY <1>0, <1>1, <1>2, <1>3, <1>4 DEF Consistent

\* No path out of _run leaves a record open: closed exactly when its task has ended.
THEOREM ClosesRecords == SafeSpec => []ClosedWhenDone
BY Consistency, InvImplies, PTL

\* A job fails for want of a result only after max_retries + 1 attempts.
THEOREM RetriesAreUsed == SafeSpec => []FailedWhenExhausted
BY Consistency, InvImplies, PTL

\* A cancellation accepted in time is never overtaken by a verdict or a timeout.
THEOREM CancelDecides == SafeSpec => []CancelWins
BY Consistency, InvImplies, PTL

LEMMA EndStep ==
    ASSUME TypeOK, Next, NEW j \in Jobs, task[j] = "done"
    PROVE  \/ record'[j] = record[j] /\ task'[j] = "done"
           \/ \A k \in Jobs : task'[k] = "none"
<1>1. ASSUME NEW k \in Jobs, NEW retries \in 0..MaxRetries, Submit(k, retries)
      PROVE  record'[j] = record[j] /\ task'[j] = "done"
  BY <1>1 DEF Submit, TypeOK
<1>2. ASSUME NEW k \in Jobs, TaskStep(k) \/ FactoryStep(k)
      PROVE  record'[j] = record[j] /\ task'[j] = "done"
  <2>1. k # j
    BY <1>2 DEF TaskStep, FactoryStep, Begin, NeverBegun, TimeOut, Cancelled, Return, Raise
  <2>. QED
    BY <1>2, <2>1 DEF TaskStep, FactoryStep, Begin, NeverBegun, TimeOut, Cancelled,
                      Return, Raise, FailAttempt, Settle, TypeOK
<1>3. ASSUME NEW k \in Jobs, Expire(k) \/ \E c \in Callers : Cancel(c, k)
      PROVE  record'[j] = record[j] /\ task'[j] = "done"
  BY <1>3 DEF Expire, Cancel
<1>4. ASSUME NEW c \in Callers, CancelReturns(c)
      PROVE  record'[j] = record[j] /\ task'[j] = "done"
  BY <1>4 DEF CancelReturns
<1>5. CASE Restart
  BY <1>5 DEF Restart
<1>. QED
  BY <1>1, <1>2, <1>3, <1>4, <1>5 DEF Next

\* The record of a job that ended is never rewritten in this process.
THEOREM EndsForGood == SafeSpec => EndIsFinal
<1>1. TypeOK /\ [Next]_queueVars => [KeepsEnded]_queueVars
  BY EndStep DEF KeepsEnded
<1>. QED
  BY <1>1, TypeCorrect, PTL DEF SafeSpec, EndIsFinal

(***************************************************************************)
(* JobQueue implements the safety part of JobLifecycle.                    *)
(***************************************************************************)
LEMMA LifecycleInit == Init => Lifecycle!Init
BY DEF Init, Lifecycle!Init, PhaseOf, Fresh

\* The attempts a job may still begin: the image of budget.
Budget == [j \in Jobs |-> IF task[j] = "none" THEN 0
                          ELSE record[j].max_retries + 1 - record[j].attempts]

\* The steps of job j that change its record or its task.
JobStep(j) == \/ \E retries \in 0..MaxRetries : Submit(j, retries)
              \/ Begin(j) \/ NeverBegun(j) \/ TimeOut(j) \/ Raise(j) \/ Cancelled(j)
              \/ \E verdict \in Verdicts : Return(j, verdict)

LEMMA LifecycleStep == QueueInv /\ [Next]_queueVars => [Lifecycle!Next]_(Lifecycle!lvars)
<1> SUFFICES ASSUME QueueInv, [Next]_queueVars
             PROVE  [Lifecycle!Next]_(Lifecycle!lvars)
  OBVIOUS
<1>0. TypeOK /\ \A j \in Jobs : Consistent(j)
  BY DEF QueueInv
<1>1. CASE UNCHANGED <<record, task>>
  BY <1>1 DEF Lifecycle!lvars
<1>2. ASSUME NEW j \in Jobs, NEW retries \in 0..MaxRetries, Submit(j, retries)
      PROVE  Lifecycle!Accept(j, retries)
  <2>1. /\ record' = [record EXCEPT ![j] = Fresh(retries)]
        /\ task' = [task EXCEPT ![j] = "created"]
        /\ task[j] = "none" /\ retries \in Nat
    BY <1>2, QueueAssumption DEF Submit
  <2>2. record'[j] = Fresh(retries) /\ \A k \in Jobs \ {j} : record'[k] = record[k]
    BY <1>0, <2>1 DEF TypeOK
  <2>3. task'[j] = "created" /\ \A k \in Jobs \ {j} : task'[k] = task[k]
    BY <1>0, <2>1 DEF TypeOK
  <2>4. record'[j].attempts = 0 /\ record'[j].max_retries + 1 - record'[j].attempts = retries + 1
    BY <2>1, <2>2 DEF Fresh
  <2>5. [k \in Jobs |-> PhaseOf(task'[k])]
          = [[k \in Jobs |-> PhaseOf(task[k])] EXCEPT ![j] = "waiting"]
    BY <2>3 DEF PhaseOf
  <2>6. [k \in Jobs |-> record'[k].attempts]
          = [[k \in Jobs |-> record[k].attempts] EXCEPT ![j] = 0]
    BY <2>2, <2>4
  <2>7. Budget' = [Budget EXCEPT ![j] = retries + 1]
    BY <2>2, <2>3, <2>4 DEF Budget
  <2>. QED
    BY <2>1, <2>5, <2>6, <2>7 DEF Lifecycle!Accept, PhaseOf, Budget
<1>3. ASSUME NEW j \in Jobs, Begin(j) PROVE Lifecycle!Attempt(j)
  BY <1>0, <1>3 DEF Begin, Lifecycle!Attempt, PhaseOf, Fresh, Consistent, TypeOK, JobRecord
<1>4. ASSUME NEW j \in Jobs, NeverBegun(j) PROVE Lifecycle!End(j)
  BY <1>0, <1>4 DEF NeverBegun, Lifecycle!End, PhaseOf, TypeOK
<1>5. ASSUME NEW j \in Jobs, task[j] = "attempt", NEW r, Settle(j, r),
             r.attempts = record[j].attempts, r.max_retries = record[j].max_retries
      PROVE  Lifecycle!End(j)
  BY <1>0, <1>5 DEF Settle, Lifecycle!End, PhaseOf, TypeOK
<1>6. ASSUME NEW j \in Jobs, TimeOut(j) \/ Raise(j)
      PROVE  Lifecycle!Attempt(j) \/ Lifecycle!End(j)
  <2> DEFINE r == [record[j] EXCEPT !.error = TRUE]
  <2>0. /\ FailAttempt(j) /\ task[j] = "attempt"
        /\ record[j] \in JobRecord /\ Running(record[j])
    BY <1>0, <1>6 DEF TimeOut, Raise, Consistent, TypeOK
  <2>1. CASE LastAttempt(r) /\ Settle(j, Closed(r, "failed"))
    <3>1. /\ Closed(r, "failed").attempts = record[j].attempts
          /\ Closed(r, "failed").max_retries = record[j].max_retries
      BY <2>0 DEF Closed, JobRecord
    <3>. QED
      BY <1>5, <2>0, <2>1, <3>1
  <2>2. CASE /\ ~LastAttempt(r)
             /\ record' = [record EXCEPT ![j] = [r EXCEPT !.attempts = @ + 1]]
             /\ UNCHANGED task
    <3>1. /\ record[j].attempts \in Nat /\ record[j].max_retries \in Nat
          /\ record[j].attempts <= record[j].max_retries
      BY <2>0, <2>2 DEF LastAttempt, JobRecord
    <3>2. /\ record'[j].attempts = record[j].attempts + 1
          /\ record'[j].max_retries = record[j].max_retries
          /\ \A k \in Jobs \ {j} : record'[k] = record[k]
      BY <1>0, <2>0, <2>2 DEF TypeOK, JobRecord
    <3>3. [k \in Jobs |-> PhaseOf(task'[k])]
            = [[k \in Jobs |-> PhaseOf(task[k])] EXCEPT ![j] = "active"]
      BY <2>0, <2>2 DEF PhaseOf
    <3>4. [k \in Jobs |-> record'[k].attempts]
            = [[k \in Jobs |-> record[k].attempts] EXCEPT ![j] = @ + 1]
      BY <3>2
    <3>5. Budget[j] = record[j].max_retries + 1 - record[j].attempts
      BY <2>0 DEF Budget
    <3>6. Budget'[j] = Budget[j] - 1 /\ \A k \in Jobs \ {j} : Budget'[k] = Budget[k]
      BY <2>0, <2>2, <3>1, <3>2, <3>5 DEF Budget
    <3>7. Budget = [k \in Jobs |-> Budget[k]] /\ Budget' = [k \in Jobs |-> Budget'[k]]
      BY DEF Budget
    <3>8. Budget' = [Budget EXCEPT ![j] = @ - 1]
      BY <3>6, <3>7
    <3>9. Budget[j] > 0
      BY <3>1, <3>5
    <3>. QED
      BY <2>0, <3>3, <3>4, <3>8, <3>9 DEF Lifecycle!Attempt, PhaseOf, Budget
  <2>. QED
    BY <2>0, <2>1, <2>2 DEF FailAttempt
<1>7. ASSUME NEW j \in Jobs, Cancelled(j) PROVE Lifecycle!End(j)
  <2>1. record[j] \in JobRecord
    BY <1>0 DEF TypeOK
  <2>2. /\ Closed(record[j], "cancelled").attempts = record[j].attempts
        /\ Closed(record[j], "cancelled").max_retries = record[j].max_retries
    BY <2>1 DEF Closed, JobRecord
  <2>. QED
    BY <1>5, <1>7, <2>2 DEF Cancelled
<1>8. ASSUME NEW j \in Jobs, NEW verdict \in Verdicts, Return(j, verdict)
      PROVE  Lifecycle!End(j)
  <2> DEFINE r == [Closed(record[j], verdict) EXCEPT !.result = TRUE]
  <2>1. record[j] \in JobRecord
    BY <1>0 DEF TypeOK
  <2>2. r.attempts = record[j].attempts /\ r.max_retries = record[j].max_retries
    BY <2>1 DEF Closed, JobRecord
  <2>. QED
    BY <1>5, <1>8, <2>2 DEF Return
<1>9. ASSUME Restart PROVE Lifecycle!Forget
  BY <1>9 DEF Restart, Lifecycle!Forget, PhaseOf, Fresh
<1>10. Next => \/ UNCHANGED <<record, task>>
               \/ \E j \in Jobs : JobStep(j)
               \/ Restart
  BY DEF Next, TaskStep, FactoryStep, JobStep, Expire, Cancel, CancelReturns
<1>11. UNCHANGED queueVars => UNCHANGED <<record, task>>
  BY DEF queueVars
<1>12. ASSUME NEW j \in Jobs, JobStep(j) PROVE Lifecycle!Next
  <2>1. \/ \E retries \in 0..MaxRetries : Lifecycle!Accept(j, retries)
        \/ Lifecycle!Attempt(j)
        \/ Lifecycle!End(j)
    BY <1>12, <1>2, <1>3, <1>4, <1>6, <1>7, <1>8 DEF JobStep
  <2>. QED
    BY <2>1 DEF Lifecycle!Next
<1>. QED
  BY <1>1, <1>9, <1>10, <1>11, <1>12 DEF Lifecycle!Next

\* Every behaviour of the queue is one JobLifecycle allows: a job begins at most
\* max_retries + 1 attempts, ends once, and is not revived.
THEOREM ImplementsLifecycle == SafeSpec => Lifecycle!Safety
BY LifecycleInit, LifecycleStep, Consistency, PTL DEF SafeSpec, Lifecycle!Safety
===========================================================================

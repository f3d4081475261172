----------------------------- MODULE JobQueue -----------------------------
(***************************************************************************)
(* AsyncJobQueue of app/services/job_queue.py: the process-local worker of *)
(* the API.  One asyncio task per job runs the caller's factory under      *)
(* wait_for, retries it, and records how it ended; any request handler may *)
(* cancel it and wait for it.                                              *)
(*                                                                         *)
(* A step is what the event loop runs between two awaits.  task.cancel()   *)
(* and the timer of wait_for only leave a note (cancelling, expired); the  *)
(* exception is thrown at the task's next step, which is an action of its  *)
(* own.  wait_for is that of Python 3.12 and later (.python-version names  *)
(* 3.14), where a cancellation that arrives together with the timer stays  *)
(* a cancellation.                                                         *)
(***************************************************************************)
EXTENDS Naturals

CONSTANTS Jobs,        \* job identifiers (correlation ids)
          Callers,     \* request handlers that cancel jobs
          MaxRetries,  \* bound: largest max_retries submitted
          Verdicts,    \* statuses the factories return
          NoJob        \* "waits for no job"

RunStatus == {"queued", "running", "waiting", "passed", "failed", "warning", "cancelled"}
Terminal == {"passed", "failed", "warning", "cancelled"}

ASSUME QueueAssumption == /\ MaxRetries \in Nat
                          /\ Verdicts \subseteq {"passed", "failed", "warning"}
                          /\ NoJob \notin Jobs

VARIABLES record,      \* record[j]: the JobRecord of j
          task,        \* task[j]: none, created, attempt (inside wait_for) or done
          cancelling,  \* cancelling[j]: task.cancel() was called
          expired,     \* expired[j]: the timer of the current attempt fired
          waiting      \* waiting[c]: the job whose task handler c awaits

queueVars == <<record, task, cancelling, expired, waiting>>

JobRecord == [status: RunStatus, attempts: Nat, max_retries: Nat,
              error: BOOLEAN, result: BOOLEAN, completed: BOOLEAN]

Fresh(retries) == [status |-> "queued", attempts |-> 0, max_retries |-> retries,
                   error |-> FALSE, result |-> FALSE, completed |-> FALSE]

TypeOK == /\ record \in [Jobs -> JobRecord]
          /\ task \in [Jobs -> {"none", "created", "attempt", "done"}]
          /\ cancelling \in [Jobs -> BOOLEAN]
          /\ expired \in [Jobs -> BOOLEAN]
          /\ waiting \in [Callers -> Jobs \cup {NoJob}]

Init == /\ record = [j \in Jobs |-> Fresh(0)]
        /\ task = [j \in Jobs |-> "none"]
        /\ cancelling = [j \in Jobs |-> FALSE]
        /\ expired = [j \in Jobs |-> FALSE]
        /\ waiting = [c \in Callers |-> NoJob]

InQueue(j) == task[j] # "none"
Signalled(j) == cancelling[j] \/ expired[j]
---------------------------------------------------------------------------
Submit(j, retries) ==
    /\ task[j] = "none"
    /\ record' = [record EXCEPT ![j] = Fresh(retries)]
    /\ task' = [task EXCEPT ![j] = "created"]
    /\ UNCHANGED <<cancelling, expired, waiting>>

\* The task's first step: status, started_at, and the first wait_for(factory()).
Begin(j) ==
    /\ task[j] = "created"
    /\ ~cancelling[j]
    /\ record' = [record EXCEPT ![j].status = "running", ![j].attempts = @ + 1]
    /\ task' = [task EXCEPT ![j] = "attempt"]
    /\ UNCHANGED <<cancelling, expired, waiting>>

\* Cancelled before its first step: the body of _run, finally included, never runs.
NeverBegun(j) ==
    /\ task[j] = "created"
    /\ cancelling[j]
    /\ task' = [task EXCEPT ![j] = "done"]
    /\ UNCHANGED <<record, cancelling, expired, waiting>>

\* record.status and, in the finally clause, completed_at.
Closed(r, status) == [r EXCEPT !.status = status, !.completed = TRUE]

Settle(j, r) == /\ record' = [record EXCEPT ![j] = r]
                /\ task' = [task EXCEPT ![j] = "done"]

Return(j, verdict) ==
    /\ task[j] = "attempt"
    /\ ~Signalled(j)
    /\ Settle(j, [Closed(record[j], verdict) EXCEPT !.result = TRUE])
    /\ UNCHANGED <<cancelling, expired, waiting>>

\* Gives up one attempt early.
MutantLastAttemptEarly(r) == r.attempts >= r.max_retries

\* Runs one attempt too many.
MutantLastAttemptLate(r) == r.attempts > r.max_retries + 1

LastAttempt(r) == r.attempts > r.max_retries

\* The two except clauses that retry: record.error, then failed or the next turn
\* of the while loop, which starts the next attempt in the same step.
FailAttempt(j) ==
    LET r == [record[j] EXCEPT !.error = TRUE]
    IN  /\ \/ /\ LastAttempt(r)
              /\ Settle(j, Closed(r, "failed"))
           \/ /\ ~LastAttempt(r)
              /\ record' = [record EXCEPT ![j] = [r EXCEPT !.attempts = @ + 1]]
              /\ UNCHANGED task
        /\ expired' = [expired EXCEPT ![j] = FALSE]
        /\ UNCHANGED <<cancelling, waiting>>

Raise(j) ==
    /\ task[j] = "attempt"
    /\ ~Signalled(j)
    /\ FailAttempt(j)

\* The event loop's timer; the attempt learns of it at its next step.
Expire(j) ==
    /\ task[j] = "attempt"
    /\ ~expired[j]
    /\ expired' = [expired EXCEPT ![j] = TRUE]
    /\ UNCHANGED <<record, task, cancelling, waiting>>

\* wait_for turns the cancellation into a TimeoutError (no uncancel() test).
MutantTimeOut(j) ==
    /\ task[j] = "attempt"
    /\ expired[j]
    /\ FailAttempt(j)

TimeOut(j) ==
    /\ task[j] = "attempt"
    /\ expired[j]
    /\ ~cancelling[j]
    /\ FailAttempt(j)

\* The cancellation escapes before the record is closed.
MutantCancelled(j) ==
    /\ task[j] = "attempt"
    /\ cancelling[j]
    /\ Settle(j, record[j])
    /\ UNCHANGED <<cancelling, expired, waiting>>

Cancelled(j) ==
    /\ task[j] = "attempt"
    /\ cancelling[j]
    /\ Settle(j, Closed(record[j], "cancelled"))
    /\ UNCHANGED <<cancelling, expired, waiting>>

\* cancel() up to `await task`; a finished task is not cancelled again.
Cancel(c, j) ==
    /\ waiting[c] = NoJob
    /\ InQueue(j)
    /\ cancelling' = [cancelling EXCEPT ![j] = @ \/ task[j] # "done"]
    /\ waiting' = [waiting EXCEPT ![c] = j]
    /\ UNCHANGED <<record, task, expired>>

\* Waits for completed_at instead of for the task.
MutantCancelReturns(c) ==
    /\ waiting[c] # NoJob
    /\ record[waiting[c]].completed
    /\ waiting' = [waiting EXCEPT ![c] = NoJob]
    /\ UNCHANGED <<record, task, cancelling, expired>>

CancelReturns(c) ==
    /\ waiting[c] # NoJob
    /\ task[waiting[c]] = "done"
    /\ waiting' = [waiting EXCEPT ![c] = NoJob]
    /\ UNCHANGED <<record, task, cancelling, expired>>

\* The process dies and a new one builds an empty queue.
Restart == /\ record' = [j \in Jobs |-> Fresh(0)]
           /\ task' = [j \in Jobs |-> "none"]
           /\ cancelling' = [j \in Jobs |-> FALSE]
           /\ expired' = [j \in Jobs |-> FALSE]
           /\ waiting' = [c \in Callers |-> NoJob]
---------------------------------------------------------------------------
TaskStep(j) == Begin(j) \/ NeverBegun(j) \/ TimeOut(j) \/ Cancelled(j)

FactoryStep(j) == (\E verdict \in Verdicts : Return(j, verdict)) \/ Raise(j)

Next == \/ \E j \in Jobs : \/ \E retries \in 0..MaxRetries : Submit(j, retries)
                           \/ TaskStep(j)
                           \/ FactoryStep(j)
                           \/ Expire(j)
                           \/ \E c \in Callers : Cancel(c, j)
        \/ \E c \in Callers : CancelReturns(c)
        \/ Restart

\* The event loop runs every ready task and every due timer.  Nothing is assumed
\* of the factory: it may never answer.
Fairness == /\ \A j \in Jobs : WF_queueVars(TaskStep(j)) /\ WF_queueVars(Expire(j))
            /\ \A c \in Callers : WF_queueVars(CancelReturns(c))

SafeSpec == Init /\ [][Next]_queueVars
Spec == SafeSpec /\ Fairness
---------------------------------------------------------------------------
(***************************************************************************)
(* Properties.                                                             *)
(***************************************************************************)

\* A job is closed, with completed_at and a terminal status, exactly when its task
\* has ended after having begun: no path out of _run (return, raise, the last
\* retry, a cancellation) leaves the record running.
ClosedWhenDone ==
    \A j \in Jobs :
        /\ record[j].completed <=> record[j].status \in Terminal
        /\ record[j].completed => task[j] = "done"
        /\ task[j] = "done" /\ record[j].attempts > 0 => record[j].completed

\* A job is failed for want of a result only when every attempt it was given has
\* been used, and it is never given one more.
FailedWhenExhausted ==
    \A j \in Jobs :
        /\ record[j].attempts <= record[j].max_retries + 1
        /\ record[j].status = "failed" /\ ~record[j].result
              => record[j].attempts = record[j].max_retries + 1

\* A cancellation accepted before the task ended decides how it ends, whatever the
\* factory returns or the timer does meanwhile.  A task that never began stays queued.
CancelWins ==
    \A j \in Jobs :
        cancelling[j] /\ task[j] = "done"
            => record[j].status = IF record[j].attempts = 0 THEN "queued" ELSE "cancelled"

\* Nothing that happens after a job has ended (a late timer, a second cancel)
\* rewrites its record; only a restart loses it.
KeepsEnded == \A j \in Jobs : task[j] = "done" => \/ record'[j] = record[j] /\ task'[j] = "done"
                                                  \/ \A k \in Jobs : task'[k] = "none"
EndIsFinal == [][KeepsEnded]_queueVars

\* A handler blocked in cancel() is always released.
CancelAnswered == \A c \in Callers : waiting[c] # NoJob ~> waiting[c] = NoJob

\* The queue keeps the promise of JobLifecycle.
PhaseOf(t) == CASE t = "none" -> "absent"
                [] t = "created" -> "waiting"
                [] t = "attempt" -> "active"
                [] OTHER -> "over"

Lifecycle == INSTANCE JobLifecycle WITH
    phase <- [j \in Jobs |-> PhaseOf(task[j])],
    started <- [j \in Jobs |-> record[j].attempts],
    budget <- [j \in Jobs |-> IF task[j] = "none" THEN 0
                              ELSE record[j].max_retries + 1 - record[j].attempts]

KeepsLifecycle == Lifecycle!Spec
===========================================================================

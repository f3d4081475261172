------------------------------ MODULE ApiJobs ------------------------------
(***************************************************************************)
(* The asynchronous API endpoints of app/api/v1/api_specs.py: a request    *)
(* inserts a durable run in MongoDB, submits a factory to the JobQueue,    *)
(* and the factory reports its progress by updating the run it finds by    *)
(* correlation id.  POST .../cancel cancels the job and then writes the    *)
(* run itself.  A job comes from execute-async or security-scan-async,     *)
(* whose factories differ in where they report and what they clear.        *)
(*                                                                         *)
(* A MongoDB call runs in a thread of the driver: it is in flight until it *)
(* lands, and cancelling the coroutine that awaits it does not call it     *)
(* back.  Writes of an abandoned attempt may land late, or never.          *)
(***************************************************************************)
EXTENDS Naturals

CONSTANTS Jobs, Callers, MaxRetries, NoJob,
          Faults       \* what may go wrong: a subset of {"timeout", "db", "restart"}

RunStatus == {"queued", "running", "waiting", "passed", "failed", "warning", "cancelled"}
Terminal == {"passed", "failed", "warning", "cancelled"}
Verdicts == {"passed", "failed", "warning"}

ASSUME ApiAssumption == /\ MaxRetries \in Nat
                        /\ NoJob \notin Jobs
                        /\ Faults \subseteq {"timeout", "db", "restart"}

VARIABLES
    record, task, cancelling, expired, waiting,   \* the JobQueue's
    post,       \* post[j]: none, inserted, accepted or rejected: the request that made j
    run,        \* run[j]: the api_runs document of j
    pc,         \* pc[j]: what the factory of j awaits
    verdict,    \* verdict[j]: the status the factory is about to report
    inflight,   \* writes to api_runs that have left the factories and not landed
    writing     \* writing[c]: the job whose run handler c is marking cancelled

queueVars == <<record, task, cancelling, expired, waiting>>
factoryVars == <<pc, verdict, inflight>>
vars == <<record, task, cancelling, expired, waiting,
          post, run, pc, verdict, inflight, writing>>

Queue == INSTANCE JobQueue

\* generation_mode is deterministic for execute-async and passive for a scan.
Run == [mode: {"deterministic", "passive"}, status: RunStatus \cup {"none"},
        failure: BOOLEAN, completed: BOOLEAN]
Write == [job: Jobs, attempt: Nat, set: Verdicts \cup {"running", "exception"}]

TypeOK ==
    /\ Queue!TypeOK
    /\ post \in [Jobs -> {"none", "inserted", "accepted", "rejected"}]
    /\ run \in [Jobs -> Run]
    /\ pc \in [Jobs -> {"idle", "marking", "working", "reporting", "excusing"}]
    /\ verdict \in [Jobs -> Verdicts]
    /\ inflight \subseteq Write
    /\ writing \in [Callers -> Jobs \cup {NoJob}]

NoRun == [mode |-> "deterministic", status |-> "none", failure |-> FALSE, completed |-> FALSE]

Init ==
    /\ Queue!Init
    /\ post = [j \in Jobs |-> "none"]
    /\ run = [j \in Jobs |-> NoRun]
    /\ pc = [j \in Jobs |-> "idle"]
    /\ verdict = [j \in Jobs |-> "passed"]
    /\ inflight = {}
    /\ writing = [c \in Callers |-> NoJob]
---------------------------------------------------------------------------
(***************************************************************************)
(* The request: insert the run, then submit.                               *)
(***************************************************************************)
InsertRun(j, mode) ==
    /\ post[j] = "none"
    /\ post' = [post EXCEPT ![j] = "inserted"]
    /\ run' = [run EXCEPT ![j] = [NoRun EXCEPT !.mode = mode, !.status = "queued"]]
    /\ UNCHANGED <<queueVars, factoryVars, writing>>

Enqueue(j, retries) ==
    /\ post[j] = "inserted"
    /\ Queue!Submit(j, retries)
    /\ post' = [post EXCEPT ![j] = "accepted"]
    /\ UNCHANGED <<run, factoryVars, writing>>

\* submit() refuses timeout_seconds <= 0 or max_retries < 0, after the insert.
RefuseParameters(j) ==
    /\ post[j] = "inserted"
    /\ post' = [post EXCEPT ![j] = "rejected"]
    /\ UNCHANGED <<queueVars, run, factoryVars, writing>>
---------------------------------------------------------------------------
(***************************************************************************)
(* The factories.  Each awaits one write at a time: the running mark, then *)
(* the HTTP work, then the verdict or the exception.                       *)
(***************************************************************************)
Scan(j) == run[j].mode = "passive"

\* A test case passes or fails; a passive scan passes or warns.
VerdictsOf(j) == IF Scan(j) THEN {"passed", "warning"} ELSE {"passed", "failed"}

NewWrite(j, attempt, what) == [job |-> j, attempt |-> attempt, set |-> what]

Await(j, step, what) ==
    /\ pc' = [pc EXCEPT ![j] = step]
    /\ inflight' = inflight \cup {NewWrite(j, record[j].attempts, what)}

Landed(j, what) == NewWrite(j, record[j].attempts, what) \notin inflight

\* The factory can take its next step: no exception is about to be thrown into it.
Resumes(j, step) == pc[j] = step /\ ~Queue!Signalled(j)

\* What the factory does at the end of a failed attempt: nothing more, or the
\* running mark of the next one.
NextAttempt(j) ==
    IF task'[j] = "attempt"
    THEN /\ pc' = [pc EXCEPT ![j] = "marking"]
         /\ inflight' = inflight \cup {NewWrite(j, record'[j].attempts, "running")}
    ELSE /\ pc' = [pc EXCEPT ![j] = "idle"]
         /\ UNCHANGED inflight

FactoryRaises(j) ==
    /\ Queue!Raise(j)
    /\ NextAttempt(j)
    /\ UNCHANGED <<post, run, verdict, writing>>

BeginAttempt(j) ==
    /\ Queue!Begin(j)
    /\ pc' = [pc EXCEPT ![j] = "marking"]
    /\ inflight' = inflight \cup {NewWrite(j, 1, "running")}
    /\ UNCHANGED <<post, run, verdict, writing>>

\* Starts the work without awaiting the running mark.
MutantMarked(j) ==
    /\ Resumes(j, "marking")
    /\ pc' = [pc EXCEPT ![j] = "working"]
    /\ UNCHANGED <<queueVars, post, run, verdict, inflight, writing>>

Marked(j) ==
    /\ Resumes(j, "marking")
    /\ Landed(j, "running")
    /\ pc' = [pc EXCEPT ![j] = "working"]
    /\ UNCHANGED <<queueVars, post, run, verdict, inflight, writing>>

\* execute_api_test, or scan_api_security with the findings saved, returned.
WorkReturns(j) ==
    /\ Resumes(j, "working")
    /\ \E v \in VerdictsOf(j) : /\ verdict' = [verdict EXCEPT ![j] = v]
                                /\ Await(j, "reporting", v)
    /\ UNCHANGED <<queueVars, post, run, writing>>

WorkRaises(j) ==
    /\ Resumes(j, "working")
    /\ Await(j, "excusing", "exception")
    /\ UNCHANGED <<queueVars, post, run, verdict, writing>>

\* Returns without awaiting the final write.
MutantReported(j) ==
    /\ Resumes(j, "reporting")
    /\ Queue!Return(j, verdict[j])
    /\ pc' = [pc EXCEPT ![j] = "idle"]
    /\ UNCHANGED <<post, run, verdict, inflight, writing>>

Reported(j) ==
    /\ Resumes(j, "reporting")
    /\ Landed(j, verdict[j])
    /\ Queue!Return(j, verdict[j])
    /\ pc' = [pc EXCEPT ![j] = "idle"]
    /\ UNCHANGED <<post, run, verdict, inflight, writing>>

\* The failure is written, then the exception is raised again.
Excused(j) ==
    /\ Resumes(j, "excusing")
    /\ Landed(j, "exception")
    /\ FactoryRaises(j)

\* A database call raises: before, after or without the write it carried.  Only the
\* scan reports inside its try block; every other error escapes to the queue.
DatabaseRaises(j) ==
    /\ "db" \in Faults
    /\ \/ /\ Resumes(j, "marking") \/ Resumes(j, "excusing")
          /\ FactoryRaises(j)
       \/ /\ Resumes(j, "reporting")
          /\ ~Scan(j)
          /\ FactoryRaises(j)
       \/ /\ Resumes(j, "reporting")
          /\ Scan(j)
          /\ Await(j, "excusing", "exception")
          /\ UNCHANGED <<queueVars, post, run, verdict, writing>>
---------------------------------------------------------------------------
(***************************************************************************)
(* The queue's own steps.  `except Exception` of the factories catches     *)
(* neither the cancellation nor the one wait_for uses for its timeout.     *)
(***************************************************************************)
\* The timeout covers the HTTP call only, not the database calls around it.
MutantExpire(j) ==
    /\ "timeout" \in Faults
    /\ pc[j] = "working"
    /\ Queue!Expire(j)
    /\ UNCHANGED <<post, run, factoryVars, writing>>

Expire(j) ==
    /\ "timeout" \in Faults
    /\ Queue!Expire(j)
    /\ UNCHANGED <<post, run, factoryVars, writing>>

TimeOut(j) ==
    /\ Queue!TimeOut(j)
    /\ NextAttempt(j)
    /\ UNCHANGED <<post, run, verdict, writing>>

\* The cancellation is retried like any failure.
MutantCancelled(j) ==
    /\ task[j] = "attempt"
    /\ cancelling[j]
    /\ Queue!FailAttempt(j)
    /\ NextAttempt(j)
    /\ UNCHANGED <<post, run, verdict, writing>>

Cancelled(j) ==
    /\ Queue!Cancelled(j)
    /\ pc' = [pc EXCEPT ![j] = "idle"]
    /\ UNCHANGED <<post, run, verdict, inflight, writing>>

NeverBegun(j) ==
    /\ Queue!NeverBegun(j)
    /\ UNCHANGED <<post, run, factoryVars, writing>>
---------------------------------------------------------------------------
(***************************************************************************)
(* The database.                                                           *)
(***************************************************************************)

\* Success does not clear failure_details.
MutantUpdatedStale(r, w) ==
    CASE w.set = "running" -> [r EXCEPT !.status = "running"]
      [] w.set = "exception" -> [r EXCEPT !.status = "failed", !.failure = TRUE, !.completed = TRUE]
      [] OTHER -> [r EXCEPT !.status = w.set, !.completed = TRUE,
                            !.failure = @ \/ w.set = "failed"]

\* update_by_correlation: $set of the fields of write w on run r.
Updated(r, w) ==
    CASE w.set = "running" -> [r EXCEPT !.status = "running"]
      [] w.set = "exception" -> [r EXCEPT !.status = "failed", !.failure = TRUE, !.completed = TRUE]
      [] OTHER -> [r EXCEPT !.status = w.set, !.completed = TRUE,
                            !.failure = IF r.mode = "passive" THEN @ ELSE w.set = "failed"]

Land(w) ==
    /\ run' = [run EXCEPT ![w.job] = Updated(@, w)]
    /\ inflight' = inflight \ {w}
    /\ UNCHANGED <<queueVars, post, pc, verdict, writing>>

\* Some live attempt is awaiting w.
Awaited(w) ==
    /\ w.attempt = record[w.job].attempts
    /\ \/ pc[w.job] = "marking" /\ w.set = "running"
       \/ pc[w.job] = "reporting" /\ w.set = verdict[w.job]
       \/ pc[w.job] = "excusing" /\ w.set = "exception"

\* A call nobody awaits is withdrawn before its thread picks it up, or fails unseen.
Drop(w) ==
    /\ ~Awaited(w)
    /\ inflight' = inflight \ {w}
    /\ UNCHANGED <<queueVars, post, run, pc, verdict, writing>>
---------------------------------------------------------------------------
(***************************************************************************)
(* POST /jobs/{job_id}/cancel: cancel the job, await its task, then write  *)
(* the run, whatever the job had become.                                   *)
(***************************************************************************)
RequestCancel(c, j) ==
    /\ writing[c] = NoJob
    /\ Queue!Cancel(c, j)
    /\ UNCHANGED <<post, run, factoryVars, writing>>

\* The handler does not wait for the task it cancelled.
MutantCancelReturned(c) ==
    /\ waiting[c] # NoJob
    /\ waiting' = [waiting EXCEPT ![c] = NoJob]
    /\ writing' = [writing EXCEPT ![c] = waiting[c]]
    /\ UNCHANGED <<record, task, cancelling, expired, post, run, factoryVars>>

CancelReturned(c) ==
    /\ Queue!CancelReturns(c)
    /\ writing' = [writing EXCEPT ![c] = waiting[c]]
    /\ UNCHANGED <<post, run, factoryVars>>

WriteCancelled(c) ==
    /\ writing[c] # NoJob
    /\ run' = [run EXCEPT ![writing[c]].status = "cancelled", ![writing[c]].completed = TRUE]
    /\ writing' = [writing EXCEPT ![c] = NoJob]
    /\ UNCHANGED <<queueVars, post, factoryVars>>

CancelWriteFails(c) ==
    /\ "db" \in Faults
    /\ writing[c] # NoJob
    /\ writing' = [writing EXCEPT ![c] = NoJob]
    /\ UNCHANGED <<queueVars, post, run, factoryVars>>

\* The process dies: jobs, handlers and factories are gone, the runs stay.
Restart ==
    /\ "restart" \in Faults
    /\ Queue!Restart
    /\ post' = [j \in Jobs |-> IF post[j] = "inserted" THEN "rejected" ELSE post[j]]
    /\ pc' = [j \in Jobs |-> "idle"]
    /\ writing' = [c \in Callers |-> NoJob]
    /\ UNCHANGED <<run, verdict, inflight>>
---------------------------------------------------------------------------
Request(j) == \/ \E mode \in {"deterministic", "passive"} : InsertRun(j, mode)
              \/ \E retries \in 0..MaxRetries : Enqueue(j, retries)
              \/ RefuseParameters(j)

QueueStep(j) == BeginAttempt(j) \/ NeverBegun(j) \/ TimeOut(j) \/ Cancelled(j)

FactoryStep(j) == \/ Marked(j) \/ WorkReturns(j) \/ WorkRaises(j)
                  \/ Reported(j) \/ Excused(j) \/ DatabaseRaises(j)

HandlerStep(c) == CancelReturned(c) \/ WriteCancelled(c) \/ CancelWriteFails(c)

DatabaseStep(j) == \E w \in inflight : w.job = j /\ (Land(w) \/ Drop(w))

Next == \/ \E j \in Jobs : \/ Request(j) \/ QueueStep(j) \/ Expire(j)
                           \/ FactoryStep(j) \/ DatabaseStep(j)
                           \/ \E c \in Callers : RequestCancel(c, j)
        \/ \E c \in Callers : HandlerStep(c)
        \/ Restart

\* The event loop runs ready tasks, due timers and cancel handlers.  Nothing is
\* promised of requests, of the target under test, or of restarts.
LoopFairness ==
    /\ \A j \in Jobs : WF_vars(QueueStep(j)) /\ WF_vars(Expire(j))
    /\ \A c \in Callers : WF_vars(HandlerStep(c))

SafeSpec == Init /\ [][Next]_vars
Spec == SafeSpec /\ LoopFairness
---------------------------------------------------------------------------
(***************************************************************************)
(* Properties.                                                             *)
(***************************************************************************)

\* A factory is inside its body exactly while its task is in an attempt; a cancel
\* handler about to write has seen its job's task end.  So once the handler answers,
\* no request of the test is still being made for that job.
CancelStopsWork ==
    /\ \A j \in Jobs : pc[j] # "idle" <=> task[j] = "attempt"
    /\ \A c \in Callers : writing[c] # NoJob => task[writing[c]] = "done"

\* Without a retry, a cancellation or a restart, a run that holds a verdict never
\* becomes unfinished: one attempt writes its run in order, though a write may land late.
NoRegression ==
    [][\A j \in Jobs :
          /\ run[j].status \in Verdicts
          /\ run'[j].status \notin Terminal
          => record[j].attempts # 1 \/ cancelling[j]]_vars

\* However its attempts were retried, a passed run of execute-async keeps no failure
\* details of an earlier attempt.  (A scan's does: its success does not clear them.)
PassedRunIsClean ==
    \A j \in Jobs : run[j].status = "passed" /\ ~Scan(j) => ~run[j].failure

\* What GET /jobs/{job_id} answers of j: a refused or forgotten job is not found.
StatusOf(j) == IF post[j] \in {"none", "inserted"} THEN "none"
               ELSE IF post[j] = "rejected" \/ task[j] = "none" THEN "lost"
               ELSE record[j].status

\* A polling client sees what JobService says: in particular the verdict of a single
\* attempt is in the durable run before the job is seen to end with it, and only a cancel
\* changes it later, whichever writes are late, fail or get lost.
Service == INSTANCE JobService WITH
    status <- [j \in Jobs |-> StatusOf(j)],
    durable <- [j \in Jobs |-> run[j].status],
    attempts <- [j \in Jobs |-> record[j].attempts]

KeepsService == Service!Safety

\* The queue under the endpoints behaves as JobQueue says.
UsesQueue == Queue!Spec

\* Every job the API accepted comes to an end, even one whose target never answers.
JobsEnd == \A j \in Jobs : post[j] = "accepted" ~> task[j] \in {"done", "none"}
---------------------------------------------------------------------------
(***************************************************************************)
(* What CHECKPOINT.md:77 says: "Worker completion, failure, timeout,       *)
(* retry, and cancellation states update the persisted API run using its   *)
(* correlation ID."  This is violated.                                     *)
(***************************************************************************)
Quiet(j) == /\ \A w \in inflight : w.job # j
            /\ \A c \in Callers : waiting[c] # j /\ writing[c] # j

\* Failure and timeout: a job that failed for want of a result left a failed run.
\* A timeout does not: the exception that ends the attempt passes every except
\* clause of the factory.
FailurePersisted ==
    \A j \in Jobs :
        /\ task[j] = "done" /\ record[j].status = "failed" /\ ~record[j].result
        /\ Quiet(j)
        => run[j].status \in {"failed", "cancelled"}
===========================================================================

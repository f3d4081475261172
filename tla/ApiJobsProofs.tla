--------------------------- MODULE ApiJobsProofs ---------------------------
(***************************************************************************)
(* Proofs about ApiJobs, for any jobs, handlers, retries and faults: its   *)
(* types, that the queue under it behaves as JobQueue, and that a cancel   *)
(* endpoint answers only when the work has stopped.                        *)
(***************************************************************************)
EXTENDS ApiJobs, TLAPS

\* The theorems of the queue, about the queue under the endpoints.
QP == INSTANCE JobQueueProofs

LEMMA VerdictsOfType == \A j \in Jobs : VerdictsOf(j) \subseteq Verdicts
BY DEF VerdictsOf, Verdicts

(***************************************************************************)
(* The queue's variables move only as JobQueue allows.                     *)
(***************************************************************************)
LEMMA QueueStepOf ==
    ASSUME verdict \in [Jobs -> Verdicts], [Next]_vars
    PROVE  [Queue!Next]_queueVars
<1>1. CASE UNCHANGED vars
  BY <1>1 DEF vars, queueVars
<1>2. ASSUME NEW j \in Jobs, Request(j) PROVE [Queue!Next]_queueVars
  BY <1>2 DEF Request, InsertRun, Enqueue, RefuseParameters, Queue!Next
<1>3. ASSUME NEW j \in Jobs, QueueStep(j) \/ Expire(j) PROVE Queue!Next
  BY <1>3 DEF QueueStep, BeginAttempt, NeverBegun, TimeOut, Cancelled, Expire,
              Queue!Next, Queue!TaskStep
<1>4. ASSUME NEW j \in Jobs, FactoryRaises(j) PROVE Queue!Next
  BY <1>4 DEF FactoryRaises, Queue!Next, Queue!FactoryStep
<1>5. ASSUME NEW j \in Jobs, Reported(j) PROVE Queue!Next
  BY <1>5 DEF Reported, Queue!Next, Queue!FactoryStep
<1>6. ASSUME NEW j \in Jobs, FactoryStep(j) PROVE [Queue!Next]_queueVars
  BY <1>4, <1>5, <1>6 DEF FactoryStep, Marked, WorkReturns, WorkRaises, Excused, DatabaseRaises
<1>7. ASSUME NEW j \in Jobs, DatabaseStep(j) PROVE UNCHANGED queueVars
  BY <1>7 DEF DatabaseStep, Land, Drop
<1>8. ASSUME NEW j \in Jobs, NEW c \in Callers, RequestCancel(c, j) PROVE Queue!Next
  BY <1>8 DEF RequestCancel, Queue!Next
<1>9. ASSUME NEW c \in Callers, HandlerStep(c) PROVE [Queue!Next]_queueVars
  BY <1>9 DEF HandlerStep, CancelReturned, WriteCancelled, CancelWriteFails, Queue!Next
<1>10. CASE Restart
  BY <1>10 DEF Restart, Queue!Next
<1>. QED
  BY <1>1, <1>2, <1>3, <1>6, <1>7, <1>8, <1>9, <1>10 DEF Next

\* Two names for one module: the queue of ApiJobs and that of the proofs.
LEMMA SameQueue == /\ Queue!TypeOK <=> QP!TypeOK
                   /\ Queue!Init <=> QP!Init
                   /\ [Queue!Next]_queueVars <=> [QP!Next]_(QP!queueVars)
BY DEF queueVars,
   Queue!TypeOK, QP!TypeOK, Queue!Init, QP!Init, Queue!Next, QP!Next,
       Queue!queueVars, QP!queueVars, Queue!JobRecord, QP!JobRecord, Queue!Fresh,
       QP!Fresh, Queue!RunStatus, QP!RunStatus, Queue!Terminal, QP!Terminal,
       Queue!Submit, QP!Submit, Queue!TaskStep, QP!TaskStep, Queue!FactoryStep,
       QP!FactoryStep, Queue!Begin, QP!Begin, Queue!NeverBegun, QP!NeverBegun,
       Queue!TimeOut, QP!TimeOut, Queue!Cancelled, QP!Cancelled, Queue!Return,
       QP!Return, Queue!Raise, QP!Raise, Queue!FailAttempt, QP!FailAttempt,
       Queue!LastAttempt, QP!LastAttempt, Queue!Closed, QP!Closed, Queue!Settle,
       QP!Settle, Queue!Signalled, QP!Signalled, Queue!InQueue, QP!InQueue,
       Queue!Expire, QP!Expire, Queue!Cancel, QP!Cancel, Queue!CancelReturns,
       QP!CancelReturns, Queue!Restart, QP!Restart

LEMMA SameQueueAfter == Queue!TypeOK' <=> QP!TypeOK'
BY DEF Queue!TypeOK, QP!TypeOK, Queue!JobRecord, QP!JobRecord, Queue!RunStatus, QP!RunStatus

\* What JobQueue assumes of its constants holds here.
LEMMA QueueAssumed == /\ MaxRetries \in Nat
                      /\ Verdicts \subseteq {"passed", "failed", "warning"}
                      /\ NoJob \notin Jobs
BY ApiAssumption DEF Verdicts

(***************************************************************************)
(* Type correctness.                                                       *)
(***************************************************************************)
LEMMA WriteType ==
    ASSUME TypeOK, NEW j \in Jobs, NEW what \in Verdicts \cup {"running", "exception"}
    PROVE  /\ NewWrite(j, record[j].attempts, what) \in Write
           /\ NewWrite(j, 1, what) \in Write
<1>1. record[j].attempts \in Nat
  BY DEF TypeOK, Queue!TypeOK, Queue!JobRecord
<1>. QED
  BY <1>1 DEF NewWrite, Write

LEMMA UpdatedType == ASSUME NEW r \in Run, NEW w \in Write PROVE Updated(r, w) \in Run
BY DEF Updated, Run, Write, RunStatus, Verdicts

LEMMA CancelledType ==
    ASSUME NEW r \in Run PROVE [r EXCEPT !.status = "cancelled", !.completed = TRUE] \in Run
<1>1. "cancelled" \in RunStatus
  BY DEF RunStatus
<1>. QED
  BY <1>1 DEF Run

LEMMA NextAttemptType ==
    ASSUME TypeOK, Queue!TypeOK', NEW j \in Jobs, NextAttempt(j)
    PROVE  /\ pc' \in [Jobs -> {"idle", "marking", "working", "reporting", "excusing"}]
           /\ inflight' \subseteq Write
<1>1. NewWrite(j, record'[j].attempts, "running") \in Write
  BY DEF Queue!TypeOK, Queue!JobRecord, NewWrite, Write
<1>. QED
  BY <1>1 DEF NextAttempt, TypeOK

LEMMA TypeStep == TypeOK /\ [Next]_vars => TypeOK'
<1> SUFFICES ASSUME TypeOK, [Next]_vars PROVE TypeOK'
  OBVIOUS
<1>0. Queue!TypeOK'
  <2>1. Queue!TypeOK /\ [Queue!Next]_queueVars
    BY QueueStepOf DEF TypeOK
  <2>2. QP!TypeOK'
    BY <2>1, SameQueue, QueueAssumed, QP!TypeStep
  <2>. QED
    BY <2>2, SameQueueAfter
<1>1. CASE UNCHANGED vars
  BY <1>0, <1>1 DEF vars, TypeOK
<1>2. ASSUME NEW j \in Jobs, Request(j) PROVE TypeOK'
  <2>1. \A mode \in {"deterministic", "passive"} :
            [NoRun EXCEPT !.mode = mode, !.status = "queued"] \in Run
    BY DEF NoRun, Run, RunStatus
  <2>2. ASSUME NEW mode \in {"deterministic", "passive"}, InsertRun(j, mode) PROVE TypeOK'
    BY <1>0, <2>1, <2>2 DEF InsertRun, factoryVars, TypeOK
  <2>3. ASSUME NEW retries \in 0..MaxRetries, Enqueue(j, retries) PROVE TypeOK'
    BY <1>0, <2>3 DEF Enqueue, factoryVars, TypeOK
  <2>4. ASSUME RefuseParameters(j) PROVE TypeOK'
    BY <1>0, <2>4 DEF RefuseParameters, factoryVars, TypeOK
  <2>. QED
    BY <1>2, <2>2, <2>3, <2>4 DEF Request
<1>3. ASSUME NEW j \in Jobs, BeginAttempt(j) PROVE TypeOK'
  BY <1>0, <1>3, WriteType DEF BeginAttempt, TypeOK
<1>4. ASSUME NEW j \in Jobs, NeverBegun(j) \/ Cancelled(j) \/ Expire(j) PROVE TypeOK'
  BY <1>0, <1>4 DEF NeverBegun, Cancelled, Expire, factoryVars, TypeOK
<1>5. ASSUME NEW j \in Jobs, TimeOut(j) \/ FactoryRaises(j) PROVE TypeOK'
  BY <1>0, <1>5, NextAttemptType DEF TimeOut, FactoryRaises, TypeOK
<1>6. ASSUME NEW j \in Jobs, Marked(j) \/ Reported(j) PROVE TypeOK'
  BY <1>0, <1>6 DEF Marked, Reported, TypeOK
<1>7. ASSUME NEW j \in Jobs, WorkReturns(j) PROVE TypeOK'
  <2>1. PICK v \in VerdictsOf(j) : /\ verdict' = [verdict EXCEPT ![j] = v]
                                   /\ Await(j, "reporting", v)
    BY <1>7 DEF WorkReturns
  <2>2. v \in Verdicts
    BY VerdictsOfType
  <2>. QED
    BY <1>0, <1>7, <2>1, <2>2, WriteType DEF WorkReturns, Await, TypeOK
<1>8. ASSUME NEW j \in Jobs, WorkRaises(j) \/ DatabaseRaises(j) PROVE TypeOK'
  BY <1>0, <1>5, <1>8, WriteType DEF WorkRaises, DatabaseRaises, Await, TypeOK
<1>9. ASSUME NEW j \in Jobs, DatabaseStep(j) PROVE TypeOK'
  <2>1. PICK w \in inflight : Land(w) \/ Drop(w)
    BY <1>9 DEF DatabaseStep
  <2>2. w \in Write /\ w.job \in Jobs
    BY DEF TypeOK, Write
  <2>3. Updated(run[w.job], w) \in Run
    BY <2>2, UpdatedType DEF TypeOK
  <2>. QED
    BY <1>0, <2>1, <2>2, <2>3 DEF Land, Drop, TypeOK
<1>10. ASSUME NEW j \in Jobs, NEW c \in Callers, RequestCancel(c, j) PROVE TypeOK'
  BY <1>0, <1>10 DEF RequestCancel, factoryVars, TypeOK
<1>11. ASSUME NEW c \in Callers, CancelReturned(c) PROVE TypeOK'
  BY <1>0, <1>11 DEF CancelReturned, factoryVars, TypeOK, Queue!TypeOK
<1>12. ASSUME NEW c \in Callers, WriteCancelled(c) PROVE TypeOK'
  <2>1. writing[c] \in Jobs
    BY <1>12 DEF WriteCancelled, TypeOK
  <2>2. [run[writing[c]] EXCEPT !.status = "cancelled", !.completed = TRUE] \in Run
    BY <2>1, CancelledType DEF TypeOK
  <2>. QED
    BY <1>0, <1>12, <2>1, <2>2 DEF WriteCancelled, factoryVars, TypeOK
<1>13. ASSUME NEW c \in Callers, CancelWriteFails(c) PROVE TypeOK'
  BY <1>0, <1>13 DEF CancelWriteFails, factoryVars, TypeOK
<1>14. CASE Restart
  BY <1>0, <1>14 DEF Restart, TypeOK
<1>. QED
  BY <1>1, <1>2, <1>3, <1>4, <1>5, <1>6, <1>7, <1>8, <1>9, <1>10, <1>11, <1>12, <1>13, <1>14
  DEF Next, QueueStep, FactoryStep, HandlerStep, Excused

LEMMA TypeInit == Init => TypeOK
<1>1. Init => Queue!TypeOK
  BY SameQueue, QueueAssumed, QP!TypeInit DEF Init
<1>. QED
  BY <1>1 DEF Init, TypeOK, Run, NoRun, RunStatus, Verdicts

\* Jobs, runs, handlers and writes in flight keep their types, whatever the constants.
THEOREM TypeCorrect == SafeSpec => []TypeOK
BY TypeInit, TypeStep, PTL DEF SafeSpec

(***************************************************************************)
(* The API implements the safety part of JobQueue.                         *)
(***************************************************************************)
\* Whatever the endpoints, the database and the faults do, records and tasks move as
\* JobQueue allows; so its theorems hold of the API's jobs.
THEOREM ImplementsQueue == SafeSpec => Queue!SafeSpec
<1>1. Init => Queue!Init
  BY DEF Init
<1>2. TypeOK /\ [Next]_vars => [Queue!Next]_queueVars
  BY QueueStepOf DEF TypeOK
<1>. QED
  BY <1>1, <1>2, TypeCorrect, PTL DEF SafeSpec, Queue!SafeSpec, Queue!queueVars, queueVars

(***************************************************************************)
(* A cancel endpoint answers only when the work has stopped.               *)
(***************************************************************************)
StopInv == TypeOK /\ CancelStopsWork

\* A step of the queue that only follows its own task cannot revive a finished one.
LEMMA FailAttemptTask ==
    ASSUME TypeOK, NEW j \in Jobs, task[j] = "attempt", Queue!FailAttempt(j), NextAttempt(j)
    PROVE  /\ pc'[j] # "idle" <=> task'[j] = "attempt"
           /\ \A k \in Jobs \ {j} : pc'[k] = pc[k] /\ task'[k] = task[k]
           /\ waiting' = waiting
BY DEF Queue!FailAttempt, Queue!Settle, NextAttempt, TypeOK, Queue!TypeOK

LEMMA StopStep == StopInv /\ [Next]_vars => StopInv'
<1> SUFFICES ASSUME StopInv, [Next]_vars PROVE CancelStopsWork'
  BY TypeStep DEF StopInv
<1>0. TypeOK /\ CancelStopsWork
  BY DEF StopInv
<1> USE <1>0 DEF CancelStopsWork, TypeOK, Queue!TypeOK
<1>1. CASE UNCHANGED vars
  BY <1>1 DEF vars
<1>2. ASSUME NEW j \in Jobs, Request(j) PROVE CancelStopsWork'
  BY <1>2 DEF Request, InsertRun, Enqueue, RefuseParameters, factoryVars, queueVars, Queue!Submit
<1>3. ASSUME NEW j \in Jobs, BeginAttempt(j) \/ NeverBegun(j) \/ Cancelled(j) \/ Expire(j)
      PROVE  CancelStopsWork'
  BY <1>3 DEF BeginAttempt, NeverBegun, Cancelled, Expire, factoryVars, Queue!Begin,
              Queue!NeverBegun, Queue!Cancelled, Queue!Settle, Queue!Expire
<1>4. ASSUME NEW j \in Jobs, TimeOut(j) \/ FactoryRaises(j) PROVE CancelStopsWork'
  BY <1>4, FailAttemptTask DEF TimeOut, FactoryRaises, Queue!TimeOut, Queue!Raise
<1>5. ASSUME NEW j \in Jobs, Marked(j) \/ WorkReturns(j) \/ WorkRaises(j) \/ Reported(j)
      PROVE  CancelStopsWork'
  BY <1>5 DEF Marked, WorkReturns, WorkRaises, Reported, Resumes, Await, queueVars,
              Queue!Return, Queue!Settle
<1>6. ASSUME NEW j \in Jobs, Excused(j) \/ DatabaseRaises(j) PROVE CancelStopsWork'
  BY <1>4, <1>6 DEF Excused, DatabaseRaises, Resumes, Await, queueVars
<1>7. ASSUME NEW j \in Jobs, DatabaseStep(j) PROVE CancelStopsWork'
  BY <1>7 DEF DatabaseStep, Land, Drop, queueVars
<1>8. ASSUME NEW j \in Jobs, NEW c \in Callers, RequestCancel(c, j) PROVE CancelStopsWork'
  BY <1>8 DEF RequestCancel, Queue!Cancel, factoryVars
<1>9. ASSUME NEW c \in Callers, HandlerStep(c) PROVE CancelStopsWork'
  BY <1>9, ApiAssumption DEF HandlerStep, CancelReturned, WriteCancelled, CancelWriteFails,
              Queue!CancelReturns, factoryVars, queueVars
<1>10. CASE Restart
  BY <1>10 DEF Restart, Queue!Restart
<1>. QED
  BY <1>1, <1>2, <1>3, <1>4, <1>5, <1>6, <1>7, <1>8, <1>9, <1>10
  DEF Next, QueueStep, FactoryStep

\* When a cancel endpoint goes on to write the run, the factory is no longer running,
\* and a factory is running only inside an attempt of its task.
THEOREM CancelStops == SafeSpec => []CancelStopsWork
<1>1. Init => StopInv
  <2>1. Init => TypeOK
    BY TypeInit
  <2>. QED
    BY <2>1 DEF Init, StopInv, CancelStopsWork, Queue!Init
<1>2. StopInv => CancelStopsWork
  BY DEF StopInv
<1>. QED
  BY <1>1, <1>2, StopStep, PTL DEF SafeSpec

(***************************************************************************)
(* The details of an earlier failure.                                      *)
(***************************************************************************)
\* A write that passes a run of execute-async clears its failure details.
LEMMA UpdatedIsClean ==
    ASSUME NEW r \in Run, NEW w \in Write, r.mode = "deterministic",
           r.status = "passed" => ~r.failure
    PROVE  /\ Updated(r, w).mode = "deterministic"
           /\ Updated(r, w).status = "passed" => ~Updated(r, w).failure
BY DEF Updated, Run, Write, Verdicts

LEMMA UpdatedKeepsMode ==
    ASSUME NEW r \in Run, NEW w \in Write PROVE Updated(r, w).mode = r.mode
BY DEF Updated, Run, Write, Verdicts

LEMMA CleanStep == TypeOK /\ PassedRunIsClean /\ [Next]_vars => PassedRunIsClean'
<1> SUFFICES ASSUME TypeOK, PassedRunIsClean, [Next]_vars PROVE PassedRunIsClean'
  OBVIOUS
<1>1. CASE UNCHANGED run
  BY <1>1 DEF PassedRunIsClean, Scan
<1>2. ASSUME NEW j \in Jobs, NEW mode \in {"deterministic", "passive"}, InsertRun(j, mode)
      PROVE  PassedRunIsClean'
  <2>1. run' = [run EXCEPT ![j] = [NoRun EXCEPT !.mode = mode, !.status = "queued"]]
    BY <1>2 DEF InsertRun
  <2>. QED
    BY <2>1 DEF PassedRunIsClean, Scan, TypeOK, NoRun
<1>3. ASSUME NEW w \in inflight, Land(w) PROVE PassedRunIsClean'
  <2>1. w \in Write /\ w.job \in Jobs /\ run[w.job] \in Run
    BY DEF TypeOK, Write
  <2>2. run' = [run EXCEPT ![w.job] = Updated(@, w)]
    BY <1>3 DEF Land
  <2>3. run[w.job].mode \in {"deterministic", "passive"}
    BY <2>1 DEF Run
  <2>4. run'[w.job].status = "passed" /\ run'[w.job].mode # "passive" => ~run'[w.job].failure
    BY <2>1, <2>2, <2>3, UpdatedIsClean, UpdatedKeepsMode DEF PassedRunIsClean, Scan, TypeOK
  <2>. QED
    BY <2>2, <2>4 DEF PassedRunIsClean, Scan, TypeOK
<1>4. ASSUME NEW c \in Callers, WriteCancelled(c) PROVE PassedRunIsClean'
  <2>1. writing[c] \in Jobs /\ run[writing[c]] \in Run
    BY <1>4 DEF WriteCancelled, TypeOK
  <2>2. run'[writing[c]].status = "cancelled"
    BY <1>4, <2>1 DEF WriteCancelled, TypeOK, Run
  <2>. QED
    BY <1>4, <2>1, <2>2 DEF WriteCancelled, PassedRunIsClean, Scan, TypeOK
<1>. QED
  BY <1>1, <1>2, <1>3, <1>4 DEF Next, vars, Request, Enqueue, RefuseParameters, QueueStep,
     BeginAttempt, NeverBegun, TimeOut, Cancelled, Expire, FactoryStep, Marked, WorkReturns,
     WorkRaises, Reported, Excused, DatabaseRaises, FactoryRaises, DatabaseStep, Drop,
     RequestCancel, HandlerStep, CancelReturned, CancelWriteFails, Restart

\* A run of execute-async that ends passed tells of no failure, whichever attempts failed
\* before and however late their writes landed.
THEOREM PassesAreClean == SafeSpec => []PassedRunIsClean
<1>1. Init => PassedRunIsClean
  BY DEF Init, NoRun, PassedRunIsClean
<1>. QED
  BY <1>1, TypeInit, TypeStep, CleanStep, PTL DEF SafeSpec

(***************************************************************************)
(* The endpoints implement JobService.  Three facts are needed of each job *)
(* besides the types: how its request, its record and its task go          *)
(* together, and which writes its single attempt can have left in flight.  *)
(***************************************************************************)
NoneInFlight(j) == \A w \in inflight : w.job # j
OnlyInFlight(j, what) == \A w \in inflight : w.job = j => w = NewWrite(j, 1, what)

\* Before its request was accepted a job has a run, at most, that nothing has touched.
Requested(j) == /\ post[j] # "accepted" => task[j] = "none" /\ NoneInFlight(j)
                /\ post[j] = "none" => run[j].status = "none"
                /\ post[j] = "inserted" => run[j].status = "queued"
                /\ run[j].status = "none" => post[j] = "none"

Recorded(j) == /\ task[j] = "none" => record[j].attempts = 0
               /\ task[j] = "created" => record[j].status = "queued"
               /\ task[j] = "attempt" => record[j].status = "running" /\ record[j].attempts >= 1
               /\ task[j] = "done" => record[j].status \in {"queued"} \cup Terminal
               /\ record[j].status = "queued" => record[j].attempts = 0
               /\ task[j] # "none" /\ record[j].attempts = 0
                     => record[j].status = "queued" /\ NoneInFlight(j)

\* The first attempt has at most the one write it awaits in flight, until it fails.
InOrder(j) ==
    record[j].attempts = 1 =>
        /\ pc[j] = "marking" => OnlyInFlight(j, "running")
        /\ pc[j] = "working" => NoneInFlight(j)
        /\ pc[j] = "reporting" => /\ OnlyInFlight(j, verdict[j])
                                  /\ NoneInFlight(j) => run[j].status = verdict[j]
        /\ record[j].status \in {"passed", "warning"} => NoneInFlight(j)

Kept(j) == Requested(j) /\ Recorded(j) /\ InOrder(j)

ServeInv == StopInv /\ \A j \in Jobs : Kept(j)

\* A step that leaves the state of a job alone.
Untouched(j) == /\ post'[j] = post[j] /\ run'[j] = run[j] /\ task'[j] = task[j]
                /\ record'[j] = record[j] /\ pc'[j] = pc[j] /\ verdict'[j] = verdict[j]
                /\ \A w : w.job = j => (w \in inflight' <=> w \in inflight)

LEMMA UntouchedIsKept == ASSUME NEW j \in Jobs, Kept(j), Untouched(j) PROVE Kept(j)'
<1>1. NoneInFlight(j)' <=> NoneInFlight(j)
  BY DEF Untouched, NoneInFlight
<1>2. \A what : OnlyInFlight(j, what)' <=> OnlyInFlight(j, what)
  BY DEF Untouched, OnlyInFlight, NewWrite
<1>3. Requested(j)' /\ Recorded(j)'
  BY <1>1 DEF Kept, Untouched, Requested, Recorded
<1>4. InOrder(j)'
  BY <1>1, <1>2 DEF Kept, Untouched, InOrder
<1>. QED
  BY <1>3, <1>4 DEF Kept

\* How the status a client sees of j, the status of its run and its attempts may move.
Moves(j) ==
    LET still == StatusOf(j)' = StatusOf(j)
        runStill == run'[j].status = run[j].status
        attemptsStill == record'[j].attempts = record[j].attempts
    IN  \/ still /\ runStill /\ attemptsStill
        \/ /\ StatusOf(j) = "none" /\ run[j].status = "none" /\ run'[j].status = "queued"
           /\ still /\ attemptsStill
        \/ /\ StatusOf(j) = "none" /\ run[j].status = "queued"
           /\ StatusOf(j)' \in {"queued", "lost"}
           /\ runStill /\ attemptsStill
        \/ /\ StatusOf(j) \in {"queued", "running"} /\ StatusOf(j)' = "running"
           /\ record'[j].attempts = record[j].attempts + 1 /\ runStill
        \/ /\ StatusOf(j) \notin {"none", "queued"}
           /\ ~(StatusOf(j) \in {"passed", "warning"} /\ record[j].attempts = 1)
           /\ run'[j].status \in {"running", "passed", "warning", "failed"}
           /\ still /\ attemptsStill
        \/ /\ StatusOf(j) = "running" /\ StatusOf(j)' \in Service!Ended
           /\ StatusOf(j)' \in {"passed", "warning"} /\ record[j].attempts = 1
                 => run[j].status = StatusOf(j)'
           /\ runStill /\ attemptsStill
        \/ /\ StatusOf(j) \in {"queued"} \cup Service!Ended /\ run'[j].status = "cancelled"
           /\ still /\ attemptsStill

\* A step in which one job moves so and no other is touched is a step of JobService.
LEMMA MoveServes ==
    ASSUME NEW j \in Jobs, Moves(j), \A k \in Jobs \ {j} : Untouched(k)
    PROVE  [Service!Next]_(Service!svars)
<1> DEFINE Status == [k \in Jobs |-> StatusOf(k)]
           Durable == [k \in Jobs |-> run[k].status]
           Attempts == [k \in Jobs |-> record[k].attempts]
<1>1. /\ Status' = [Status EXCEPT ![j] = StatusOf(j)']
      /\ Durable' = [Durable EXCEPT ![j] = run'[j].status]
      /\ Attempts' = [Attempts EXCEPT ![j] = record'[j].attempts]
  BY DEF Untouched, StatusOf
<1>2. /\ Status[j] = StatusOf(j) /\ Durable[j] = run[j].status
      /\ Attempts[j] = record[j].attempts
  OBVIOUS
<1>3. /\ StatusOf(j)' = StatusOf(j) => Status' = Status
      /\ run'[j].status = run[j].status => Durable' = Durable
      /\ record'[j].attempts = record[j].attempts => Attempts' = Attempts
  BY <1>1, <1>2
<1> HIDE DEF Status, Durable, Attempts
<1>. QED
  BY <1>1, <1>2, <1>3 DEF Moves, Service!Next, Service!svars, Service!Insert, Service!Accept,
     Service!Refuse, Service!Attempt, Service!Report, Service!End, Service!CancelRun,
     Service!Firm, Service!Ended, Status, Durable, Attempts

\* What a step of j establishes.
Serves(j) == Kept(j)' /\ Moves(j) /\ \A k \in Jobs \ {j} : Untouched(k)

\* The facts about j that the leaves below start from.
LEMMA Known ==
    ASSUME ServeInv, NEW j \in Jobs
    PROVE  /\ Requested(j) /\ Recorded(j) /\ InOrder(j)
           /\ pc[j] # "idle" <=> task[j] = "attempt"
           /\ task[j] = "attempt" => post[j] = "accepted" /\ StatusOf(j) = record[j].status
           /\ record[j] \in Queue!JobRecord /\ run[j] \in Run /\ verdict[j] \in Verdicts
           /\ record[j].attempts \in Nat
BY DEF ServeInv, StopInv, CancelStopsWork, Kept, Requested, StatusOf, TypeOK, Queue!TypeOK,
   Queue!JobRecord

LEMMA RequestServes == ASSUME ServeInv, NEW j \in Jobs, Request(j) PROVE Serves(j)
<1> USE Known DEF ServeInv, StopInv
<1>1. ASSUME NEW mode \in {"deterministic", "passive"}, InsertRun(j, mode) PROVE Serves(j)
  <2>1. run'[j].status = "queued"
    BY <1>1 DEF InsertRun, TypeOK, NoRun
  <2>2. Kept(j)'
    BY <1>1, <2>1 DEF InsertRun, queueVars, factoryVars, Kept, Requested, Recorded, InOrder,
       NoneInFlight, OnlyInFlight, TypeOK
  <2>. QED
    BY <1>1, <2>1, <2>2 DEF InsertRun, queueVars, factoryVars, Serves, Moves, StatusOf,
       Requested, Untouched, TypeOK
<1>2. ASSUME NEW retries \in 0..MaxRetries, Enqueue(j, retries) PROVE Serves(j)
  <2>1. /\ record'[j].status = "queued" /\ record'[j].attempts = 0 /\ task'[j] = "created"
        /\ post'[j] = "accepted"
    BY <1>2 DEF Enqueue, Queue!Submit, Queue!Fresh, TypeOK, Queue!TypeOK
  <2>2. Kept(j)'
    BY <1>2, <2>1 DEF Enqueue, factoryVars, Kept, Requested, Recorded, InOrder,
       NoneInFlight, OnlyInFlight
  <2>3. Moves(j)
    BY <1>2, <2>1 DEF Enqueue, Queue!Submit, Moves, StatusOf, Requested, Recorded
  <2>. QED
    BY <1>2, <2>2, <2>3 DEF Enqueue, Queue!Submit, factoryVars, Serves, Untouched, TypeOK,
       Queue!TypeOK
<1>3. ASSUME RefuseParameters(j) PROVE Serves(j)
  <2>1. Kept(j)'
    BY <1>3 DEF RefuseParameters, queueVars, factoryVars, Kept, Requested, Recorded, InOrder,
       NoneInFlight, OnlyInFlight, NewWrite, TypeOK
  <2>. QED
    BY <1>3, <2>1 DEF RefuseParameters, queueVars, factoryVars, Serves, Moves, StatusOf,
       Requested, Untouched, TypeOK
<1>. QED
  BY <1>1, <1>2, <1>3 DEF Request

LEMMA BeginServes == ASSUME ServeInv, NEW j \in Jobs, BeginAttempt(j) PROVE Serves(j)
<1> USE Known DEF ServeInv, StopInv
<1>1. /\ record'[j].status = "running" /\ record'[j].attempts = 1 /\ task'[j] = "attempt"
      /\ record[j].attempts = 0 /\ StatusOf(j) = "queued" /\ NoneInFlight(j)
      /\ post[j] = "accepted"
  BY DEF BeginAttempt, Queue!Begin, Recorded, Requested, StatusOf, TypeOK, Queue!TypeOK,
     Queue!JobRecord
<1>2. /\ pc'[j] = "marking" /\ run' = run /\ post' = post
      /\ inflight' = inflight \cup {NewWrite(j, 1, "running")}
  BY DEF BeginAttempt, TypeOK
<1>3. Kept(j)'
  <2>1. OnlyInFlight(j, "running")'
    BY <1>1, <1>2 DEF NoneInFlight, OnlyInFlight, NewWrite
  <2>2. post'[j] = "accepted" /\ run'[j].status # "none"
    BY <1>1, <1>2 DEF Requested
  <2>. QED
    BY <1>1, <1>2, <2>1, <2>2 DEF Kept, Requested, Recorded, InOrder
<1>4. Moves(j)
  BY <1>1, <1>2 DEF Moves, StatusOf, Requested
<1>. QED
  BY <1>2, <1>3, <1>4 DEF BeginAttempt, Queue!Begin, Serves, Untouched, TypeOK, Queue!TypeOK,
     NewWrite

LEMMA NeverBegunServes == ASSUME ServeInv, NEW j \in Jobs, NeverBegun(j) PROVE Serves(j)
<1> USE Known DEF ServeInv, StopInv
<1>1. Kept(j)'
  BY DEF NeverBegun, Queue!NeverBegun, factoryVars, Kept, Requested, Recorded, InOrder,
     NoneInFlight, OnlyInFlight, NewWrite, TypeOK, Queue!TypeOK
<1>. QED
  BY <1>1 DEF NeverBegun, Queue!NeverBegun, factoryVars, Serves, Moves, StatusOf, Untouched,
     TypeOK, Queue!TypeOK

\* Flags and handlers are not among what JobService sees.
LEMMA FlagsServe ==
    ASSUME ServeInv, NEW j \in Jobs,
           UNCHANGED <<post, run, task, record, pc, verdict, inflight>>
    PROVE  Serves(j)
<1>1. Untouched(j) /\ \A k \in Jobs : Untouched(k)
  BY DEF Untouched
<1>2. Kept(j)'
  BY <1>1, UntouchedIsKept DEF ServeInv
<1>. QED
  BY <1>1, <1>2 DEF Serves, Moves, Untouched, StatusOf

LEMMA ClosedRecord ==
    ASSUME NEW r \in Queue!JobRecord, NEW status \in Queue!RunStatus
    PROVE  /\ Queue!Closed(r, status) \in Queue!JobRecord
           /\ Queue!Closed(r, status).status = status
           /\ Queue!Closed(r, status).attempts = r.attempts
BY DEF Queue!Closed, Queue!JobRecord

\* An attempt ends without a result: the job fails, or begins its next attempt.
LEMMA FailOutcome ==
    ASSUME TypeOK, NEW j \in Jobs, task[j] = "attempt", Queue!FailAttempt(j), NextAttempt(j)
    PROVE  \/ /\ task'[j] = "attempt" /\ record'[j].status = record[j].status
              /\ record'[j].attempts = record[j].attempts + 1
           \/ /\ task'[j] = "done" /\ record'[j].status = "failed"
              /\ record'[j].attempts = record[j].attempts
              /\ pc'[j] = "idle" /\ inflight' = inflight
<1> DEFINE r == [record[j] EXCEPT !.error = TRUE]
           closed == Queue!Closed(r, "failed")
<1>1. /\ r \in Queue!JobRecord /\ r.attempts = record[j].attempts
      /\ r.status = record[j].status
  BY DEF TypeOK, Queue!TypeOK, Queue!JobRecord
<1>2. closed.attempts = record[j].attempts /\ closed.status = "failed"
  BY <1>1, ClosedRecord DEF Queue!RunStatus
<1>3. \/ Queue!Settle(j, closed)
      \/ record' = [record EXCEPT ![j] = [r EXCEPT !.attempts = @ + 1]] /\ UNCHANGED task
  BY DEF Queue!FailAttempt
<1> HIDE DEF r, closed
<1>4. CASE Queue!Settle(j, closed)
  BY <1>2, <1>4 DEF Queue!Settle, NextAttempt, TypeOK, Queue!TypeOK
<1>5. CASE record' = [record EXCEPT ![j] = [r EXCEPT !.attempts = @ + 1]] /\ UNCHANGED task
  BY <1>1, <1>5 DEF TypeOK, Queue!TypeOK, Queue!JobRecord
<1>. QED
  BY <1>3, <1>4, <1>5

LEMMA FailServes ==
    ASSUME ServeInv, NEW j \in Jobs, task[j] = "attempt", Queue!FailAttempt(j),
           NextAttempt(j), UNCHANGED <<post, run, verdict>>
    PROVE  Serves(j)
<1> USE Known DEF ServeInv, StopInv
<1>1. /\ StatusOf(j) = "running" /\ record[j].status = "running"
      /\ record[j].attempts >= 1 /\ post'[j] = "accepted" /\ run' = run
  BY DEF Recorded
<1>2. /\ \A k \in Jobs \ {j} : Untouched(k)
      /\ \A w \in inflight' : w \in inflight \/ w.job = j
  BY DEF Queue!FailAttempt, Queue!Settle, NextAttempt, Untouched, TypeOK, Queue!TypeOK, NewWrite
<1>3. CASE /\ task'[j] = "attempt" /\ record'[j].status = record[j].status
           /\ record'[j].attempts = record[j].attempts + 1
  <2>1. StatusOf(j)' = "running"
    BY <1>1, <1>3 DEF StatusOf
  <2>2. Kept(j)'
    BY <1>1, <1>3 DEF Kept, Requested, Recorded, InOrder
  <2>. QED
    BY <1>1, <1>2, <1>3, <2>1, <2>2 DEF Serves, Moves
<1>4. CASE /\ task'[j] = "done" /\ record'[j].status = "failed"
           /\ record'[j].attempts = record[j].attempts /\ pc'[j] = "idle"
  <2>1. StatusOf(j)' = "failed"
    BY <1>1, <1>4 DEF StatusOf
  <2>2. Kept(j)'
    BY <1>1, <1>4 DEF Kept, Requested, Recorded, InOrder, Terminal
  <2>. QED
    BY <1>1, <1>2, <1>4, <2>1, <2>2 DEF Serves, Moves, Service!Ended
<1>. QED
  BY <1>3, <1>4, FailOutcome

LEMMA CancelledServes == ASSUME ServeInv, NEW j \in Jobs, Cancelled(j) PROVE Serves(j)
<1> USE Known DEF ServeInv, StopInv
<1>1. /\ record'[j].attempts = record[j].attempts /\ record'[j].status = "cancelled"
      /\ task'[j] = "done" /\ pc'[j] = "idle" /\ post'[j] = "accepted" /\ run' = run
      /\ StatusOf(j) = "running" /\ record[j].attempts >= 1
  BY DEF Cancelled, Queue!Cancelled, Queue!Settle, Queue!Closed, TypeOK, Queue!TypeOK,
     Queue!JobRecord, Recorded
<1>2. StatusOf(j)' = "cancelled"
  BY <1>1 DEF StatusOf
<1>3. Kept(j)'
  BY <1>1 DEF Cancelled, Kept, Requested, Recorded, InOrder, Terminal
<1>. QED
  BY <1>1, <1>2, <1>3 DEF Cancelled, Queue!Cancelled, Queue!Settle, Serves, Moves, Untouched,
     Service!Ended, TypeOK, Queue!TypeOK

\* The steps inside an attempt that change neither the record nor the run.
LEMMA FactoryServes == ASSUME ServeInv, NEW j \in Jobs, FactoryStep(j) PROVE Serves(j)
<1> USE Known DEF ServeInv, StopInv
<1>1. ASSUME FactoryRaises(j) PROVE Serves(j)
  BY <1>1, FailServes DEF FactoryRaises, Queue!Raise
<1>2. ASSUME NEW step \in {"working", "reporting", "excusing"},
             task[j] = "attempt", pc' = [pc EXCEPT ![j] = step],
             UNCHANGED <<queueVars, post, run>>,
             \A k \in Jobs \ {j} : verdict'[k] = verdict[k],
             \A w \in inflight \cup inflight' : w.job # j => (w \in inflight' <=> w \in inflight),
             InOrder(j)'
      PROVE  Serves(j)
  <2>1. post[j] = "accepted" /\ record[j].attempts >= 1 /\ record[j].status = "running"
    BY <1>2 DEF Recorded
  <2>2. Requested(j)' /\ Recorded(j)'
    BY <1>2, <2>1 DEF queueVars, Requested, Recorded
  <2>3. \A k \in Jobs \ {j} : Untouched(k)
    BY <1>2 DEF queueVars, Untouched, TypeOK
  <2>. QED
    BY <1>2, <2>2, <2>3 DEF queueVars, Serves, Kept, Moves, StatusOf
<1>3. ASSUME Marked(j) PROVE Serves(j)
  <2>1. record[j].attempts = 1 => NoneInFlight(j)'
    BY <1>3 DEF Marked, Resumes, Landed, InOrder, OnlyInFlight, NoneInFlight
  <2>2. record[j].status = "running"
    BY <1>3 DEF Marked, Resumes, Recorded
  <2>3. InOrder(j)'
    BY <1>3, <2>1, <2>2 DEF Marked, InOrder, queueVars, TypeOK
  <2>. QED
    BY <1>2, <1>3, <2>3 DEF Marked, Resumes
<1>4. ASSUME WorkReturns(j) PROVE Serves(j)
  <2>1. PICK v \in Verdicts : /\ verdict' = [verdict EXCEPT ![j] = v]
                              /\ Await(j, "reporting", v)
    BY <1>4, VerdictsOfType DEF WorkReturns
  <2>2. record[j].status = "running" /\ pc'[j] = "reporting" /\ verdict'[j] = v
    BY <1>4, <2>1 DEF WorkReturns, Resumes, Await, Recorded, TypeOK
  <2>3. inflight' = inflight \cup {NewWrite(j, record[j].attempts, v)}
    BY <2>1 DEF Await
  <2>4. record[j].attempts = 1 => OnlyInFlight(j, v)' /\ ~NoneInFlight(j)'
    <3> SUFFICES ASSUME record[j].attempts = 1
                 PROVE  OnlyInFlight(j, v)' /\ ~NoneInFlight(j)'
      OBVIOUS
    <3>1. NoneInFlight(j) /\ inflight' = inflight \cup {NewWrite(j, 1, v)}
      BY <1>4, <2>3 DEF WorkReturns, Resumes, InOrder
    <3>2. NewWrite(j, 1, v) \in inflight' /\ NewWrite(j, 1, v).job = j
      BY <3>1 DEF NewWrite
    <3>3. OnlyInFlight(j, v)'
      BY <3>1 DEF OnlyInFlight, NoneInFlight, NewWrite
    <3>. QED
      BY <3>2, <3>3 DEF NoneInFlight
  <2>5. InOrder(j)'
    BY <1>4, <2>2, <2>4 DEF WorkReturns, InOrder, queueVars
  <2>. QED
    BY <1>2, <1>4, <2>1, <2>3, <2>5 DEF WorkReturns, Resumes, Await, NewWrite, TypeOK
<1>5. ASSUME Resumes(j, "working") \/ Resumes(j, "reporting"), Await(j, "excusing", "exception"),
             UNCHANGED <<queueVars, post, run, verdict>>
      PROVE  Serves(j)
  <2>1. record[j].status = "running" /\ pc'[j] = "excusing"
    BY <1>5 DEF Resumes, Await, Recorded, TypeOK
  <2>2. InOrder(j)'
    BY <1>5, <2>1 DEF InOrder, queueVars
  <2>. QED
    BY <1>2, <1>5, <2>2 DEF Resumes, Await, NewWrite
<1>6. ASSUME Reported(j) PROVE Serves(j)
  <2>1. /\ task[j] = "attempt" /\ record[j].status = "running" /\ record[j].attempts >= 1
        /\ post[j] = "accepted" /\ verdict[j] \in Verdicts
    BY <1>6 DEF Reported, Resumes, Recorded
  <2>2. /\ task'[j] = "done" /\ pc'[j] = "idle" /\ run' = run /\ post' = post
        /\ inflight' = inflight /\ verdict' = verdict
        /\ record' = [record EXCEPT ![j] = [Queue!Closed(record[j], verdict[j])
                                            EXCEPT !.result = TRUE]]
    BY <1>6 DEF Reported, Queue!Return, Queue!Settle, TypeOK, Queue!TypeOK
  <2>3. /\ Queue!Closed(record[j], verdict[j]) \in Queue!JobRecord
        /\ Queue!Closed(record[j], verdict[j]).status = verdict[j]
        /\ Queue!Closed(record[j], verdict[j]).attempts = record[j].attempts
    BY <2>1, ClosedRecord DEF Queue!RunStatus, Verdicts
  <2>4. record'[j].status = verdict[j] /\ record'[j].attempts = record[j].attempts
    BY <2>2, <2>3 DEF TypeOK, Queue!TypeOK, Queue!JobRecord
  <2>5. record[j].attempts = 1 => NoneInFlight(j) /\ run[j].status = verdict[j]
    BY <1>6, <2>1 DEF Reported, Resumes, Landed, InOrder, OnlyInFlight, NoneInFlight
  <2>6. Kept(j)'
    BY <2>1, <2>2, <2>4, <2>5 DEF Kept, Requested, Recorded, InOrder, NoneInFlight, Verdicts,
       Terminal
  <2>7. StatusOf(j) = "running" /\ StatusOf(j)' = verdict[j]
    BY <2>1, <2>2, <2>4 DEF StatusOf
  <2>8. Moves(j)
    BY <2>1, <2>2, <2>4, <2>5, <2>7 DEF Moves, Service!Ended, Verdicts
  <2>9. \A k \in Jobs \ {j} : Untouched(k)
    BY <1>6, <2>2 DEF Reported, Queue!Return, Queue!Settle, Untouched, TypeOK, Queue!TypeOK
  <2>. QED
    BY <2>6, <2>8, <2>9 DEF Serves
<1>. QED
  BY <1>1, <1>3, <1>4, <1>5, <1>6 DEF FactoryStep, WorkRaises, Excused, DatabaseRaises

LEMMA DatabaseServes == ASSUME ServeInv, NEW j \in Jobs, DatabaseStep(j) PROVE Serves(j)
<1> USE Known DEF ServeInv, StopInv
<1>1. PICK w \in inflight : w.job = j /\ (Land(w) \/ Drop(w))
  BY DEF DatabaseStep
<1>2. /\ w \in Write /\ inflight' = inflight \ {w} /\ post[j] = "accepted"
      /\ UNCHANGED <<record, task, post, pc, verdict>>
  BY <1>1 DEF Land, Drop, queueVars, TypeOK, Requested, NoneInFlight
<1>3. /\ \A k \in Jobs \ {j} : Untouched(k)
      /\ UNCHANGED StatusOf(j) /\ record'[j].attempts = record[j].attempts
  BY <1>1, <1>2 DEF Land, Drop, Untouched, StatusOf, TypeOK
<1>4. /\ NoneInFlight(j) => NoneInFlight(j)'
      /\ \A what : OnlyInFlight(j, what) => OnlyInFlight(j, what)'
      /\ ~NoneInFlight(j)
  BY <1>1, <1>2 DEF NoneInFlight, OnlyInFlight, NewWrite
<1>5. /\ run'[j].status # "none"
      /\ \/ run'[j].status = run[j].status
         \/ run'[j].status \in {"running", "passed", "warning", "failed"}
      /\ Land(w) /\ w.set \in Verdicts => run'[j].status = w.set
  <2>1. run[j] \in Run /\ run[j].status # "none"
    BY <1>2 DEF Requested
  <2>2. CASE ~Land(w)
    BY <1>1, <2>1, <2>2 DEF Drop
  <2>3. CASE Land(w)
    <3>1. run'[j] = Updated(run[j], w)
      BY <1>1, <2>3 DEF Land, TypeOK
    <3>2. /\ Updated(run[j], w).status \in {"running", "passed", "warning", "failed"}
          /\ w.set \in Verdicts => Updated(run[j], w).status = w.set
      BY <1>2, <2>1 DEF Updated, Run, Write, Verdicts
    <3>. QED
      BY <3>1, <3>2
  <2>. QED
    BY <1>1, <2>2, <2>3
<1>6. Requested(j)' /\ Recorded(j)'
  BY <1>2, <1>4, <1>5 DEF Requested, Recorded
<1>7. record[j].attempts = 1 /\ pc[j] = "reporting" => run'[j].status = verdict[j]
  <2> SUFFICES ASSUME record[j].attempts = 1, pc[j] = "reporting"
               PROVE  run'[j].status = verdict[j]
    OBVIOUS
  <2>1. w = NewWrite(j, 1, verdict[j])
    BY <1>1 DEF InOrder, OnlyInFlight
  <2>2. w.set = verdict[j] /\ Awaited(w)
    BY <2>1 DEF Awaited, NewWrite
  <2>. QED
    BY <1>1, <1>5, <2>2 DEF Drop
<1>8. InOrder(j)'
  BY <1>2, <1>4, <1>7 DEF InOrder
<1>9. Moves(j)
  <2>1. StatusOf(j) \notin {"none", "queued"}
    BY <1>2, <1>4 DEF StatusOf, Recorded, Queue!JobRecord, Queue!RunStatus
  <2>2. ~(StatusOf(j) \in {"passed", "warning"} /\ record[j].attempts = 1)
    BY <1>2, <1>4 DEF StatusOf, InOrder
  <2>. QED
    BY <1>3, <1>5, <2>1, <2>2 DEF Moves
<1>. QED
  BY <1>3, <1>6, <1>8, <1>9 DEF Serves, Kept

\* A handler writes the run of the job whose task it saw end.
LEMMA WriteServes ==
    ASSUME ServeInv, NEW c \in Callers, WriteCancelled(c), NEW j \in Jobs, writing[c] = j
    PROVE  Serves(j)
<1> USE Known DEF ServeInv, StopInv
<1>1. task[j] = "done"
  BY ApiAssumption DEF WriteCancelled, CancelStopsWork
<1>2. /\ run'[j].status = "cancelled" /\ \A k \in Jobs \ {j} : Untouched(k)
      /\ UNCHANGED <<record, task, post, pc, verdict, inflight>>
  BY <1>1 DEF WriteCancelled, queueVars, factoryVars, Untouched, TypeOK, Run
<1>3. post[j] = "accepted" /\ pc[j] = "idle" /\ record[j].status \in {"queued"} \cup Terminal
  BY <1>1 DEF Requested, Recorded
<1>4. Kept(j)'
  <2>1. NoneInFlight(j) <=> NoneInFlight(j)'
    BY <1>2 DEF NoneInFlight
  <2>2. Requested(j)' /\ Recorded(j)'
    BY <1>1, <1>2, <1>3, <2>1 DEF Requested, Recorded
  <2>3. InOrder(j)'
    BY <1>1, <1>2, <1>3, <2>1 DEF InOrder
  <2>. QED
    BY <2>2, <2>3 DEF Kept
<1>5. Moves(j)
  BY <1>1, <1>2, <1>3 DEF Moves, StatusOf, Terminal, Service!Ended
<1>. QED
  BY <1>2, <1>4, <1>5 DEF Serves

LEMMA RestartServes ==
    ASSUME ServeInv, Restart PROVE Service!Restart /\ \A j \in Jobs : Kept(j)'
<1>1. ASSUME NEW j \in Jobs
      PROVE  /\ Kept(j)' /\ record'[j].attempts = 0
             /\ StatusOf(j)' = IF run[j].status = "none" THEN "none" ELSE "lost"
  <2>1. /\ record'[j].attempts = 0 /\ task'[j] = "none" /\ pc'[j] = "idle" /\ run' = run
        /\ record'[j].status = "queued"
        /\ post'[j] = (IF post[j] = "inserted" THEN "rejected" ELSE post[j])
        /\ post[j] \in {"none", "inserted", "accepted", "rejected"}
    BY DEF Restart, Queue!Restart, Queue!Fresh, ServeInv, StopInv, TypeOK
  <2>2. NoneInFlight(j) => NoneInFlight(j)'
    BY DEF Restart, NoneInFlight
  <2>. QED
    BY <2>1, <2>2, Known DEF Kept, Requested, Recorded, InOrder, StatusOf
<1>2. run' = run
  BY DEF Restart
<1>. QED
  BY <1>1, <1>2 DEF Service!Restart

LEMMA ServeStep == ServeInv /\ [Next]_vars => ServeInv' /\ [Service!Next]_(Service!svars)
<1> SUFFICES ASSUME ServeInv, [Next]_vars
             PROVE  (\A k \in Jobs : Kept(k)') /\ [Service!Next]_(Service!svars)
  BY StopStep DEF ServeInv
<1>1. ASSUME NEW j \in Jobs, Serves(j)
      PROVE  (\A k \in Jobs : Kept(k)') /\ [Service!Next]_(Service!svars)
  <2>1. ASSUME NEW k \in Jobs PROVE Kept(k)'
    BY <1>1, <2>1, UntouchedIsKept DEF Serves, ServeInv
  <2>. QED
    BY <1>1, <2>1, MoveServes DEF Serves
<1>2. CASE UNCHANGED <<post, run, task, record, pc, verdict, inflight>>
  <2>1. \A k \in Jobs : Kept(k)'
    BY <1>2, FlagsServe DEF Serves
  <2>2. UNCHANGED Service!svars
    BY <1>2 DEF Service!svars, StatusOf
  <2>. QED
    BY <2>1, <2>2
<1>3. ASSUME NEW j \in Jobs, TimeOut(j) PROVE Serves(j)
  BY <1>3, FailServes DEF TimeOut, Queue!TimeOut
<1>4. ASSUME NEW j \in Jobs, Request(j) \/ QueueStep(j) \/ FactoryStep(j) \/ DatabaseStep(j)
      PROVE  Serves(j)
  BY <1>3, <1>4, RequestServes, BeginServes, NeverBegunServes, CancelledServes, FactoryServes,
     DatabaseServes DEF QueueStep
<1>5. ASSUME NEW c \in Callers, WriteCancelled(c) PROVE \E j \in Jobs : Serves(j)
  <2>1. writing[c] \in Jobs
    BY <1>5 DEF WriteCancelled, ServeInv, StopInv, TypeOK
  <2>. QED
    BY <1>5, <2>1, WriteServes
<1>6. CASE Restart
  BY <1>6, RestartServes DEF Service!Next
<1>. QED
  BY <1>1, <1>2, <1>4, <1>5, <1>6 DEF Next, vars, Expire, RequestCancel, HandlerStep,
     CancelReturned, CancelWriteFails, Queue!Expire, Queue!Cancel, Queue!CancelReturns,
     queueVars, factoryVars

LEMMA ServeInit == Init => ServeInv
<1> SUFFICES ASSUME Init PROVE ServeInv
  OBVIOUS
<1>1. TypeOK
  BY TypeInit
<1>2. StopInv
  BY <1>1 DEF Init, StopInv, CancelStopsWork, Queue!Init
<1>3. \A j \in Jobs : Kept(j)
  BY DEF Init, Queue!Init, Queue!Fresh, NoRun, Kept, Requested, Recorded, InOrder, NoneInFlight
<1>. QED
  BY <1>2, <1>3 DEF ServeInv

\* What a client may see of a job and its run, JobService says, whichever attempts are retried,
\* time out or are cancelled, and whichever writes fail, land late or get lost.
THEOREM ImplementsService == SafeSpec => KeepsService
<1>1. Init => Service!Init
  BY DEF Init, Queue!Init, Queue!Fresh, NoRun, StatusOf, Service!Init
<1>. QED
  BY <1>1, ServeInit, ServeStep, PTL DEF SafeSpec, KeepsService, Service!Safety

(***************************************************************************)
(* The writes of a single attempt land in order: while its running mark is *)
(* in flight, the run holds no verdict and no other write of the job is on *)
(* its way.                                                                *)
(***************************************************************************)
Marks(j) == /\ task[j] = "created" => run[j].status = "queued"
            /\ record[j].attempts = 1 =>
                  \A w \in inflight : w.job = j /\ w.set = "running" =>
                      /\ run[j].status \notin Verdicts
                      /\ OnlyInFlight(j, "running")

OrderInv == ServeInv /\ \A j \in Jobs : Marks(j)

\* A step of j that begins no attempt and puts nothing but a verdict in flight.
LEMMA StillMarks ==
    ASSUME OrderInv, NEW j \in Jobs, task'[j] # "created" \/ task[j] = "created",
           record'[j].attempts = record[j].attempts \/ record'[j].attempts # 1,
           run'[j] = run[j],
           \A w \in inflight' : w.job = j => w \in inflight \/ w.set # "running",
           (\E w \in inflight' : w.job = j /\ w \notin inflight) =>
               \/ record'[j].attempts # 1
               \/ \A w \in inflight : w.job = j => w.set # "running"
    PROVE  Marks(j)'
<1>1. Marks(j)
  BY DEF OrderInv
<1> SUFFICES ASSUME record'[j].attempts = 1,
                    NEW w \in inflight', w.job = j, w.set = "running"
             PROVE  run'[j].status \notin Verdicts /\ OnlyInFlight(j, "running")'
  BY <1>1 DEF Marks
<1>2. w \in inflight /\ \A x \in inflight' : x.job = j => x \in inflight
  OBVIOUS
<1>3. run[j].status \notin Verdicts /\ OnlyInFlight(j, "running")
  BY <1>1, <1>2 DEF Marks
<1>. QED
  BY <1>2, <1>3 DEF OnlyInFlight, NewWrite

\* Nor does a verdict go out over a mark.
LEMMA ReportMarks ==
    ASSUME OrderInv, NEW j \in Jobs, NEW what \in Verdicts \cup {"exception"}, NEW step,
           Resumes(j, "working") \/ Resumes(j, "reporting"), Await(j, step, what),
           record' = record, task' = task, run' = run
    PROVE  Marks(j)'
<1> USE Known DEF OrderInv
<1>1. record[j].attempts = 1 => \A w \in inflight : w.job = j => w.set # "running"
  <2>1. record[j].attempts = 1 => NoneInFlight(j) \/ OnlyInFlight(j, verdict[j])
    BY DEF Resumes, InOrder
  <2>. QED
    BY <2>1 DEF NoneInFlight, OnlyInFlight, NewWrite, Verdicts
<1>2. \A w \in inflight' : w \in inflight \/ w.set = what
  BY DEF Await, NewWrite
<1>3. what # "running"
  BY DEF Verdicts
<1>. QED
  BY <1>1, <1>2, <1>3, StillMarks

LEMMA OrderStep == OrderInv /\ [Next]_vars => \A j \in Jobs : Marks(j)'
<1> SUFFICES ASSUME OrderInv, [Next]_vars, NEW j \in Jobs PROVE Marks(j)'
  OBVIOUS
<1> USE Known DEF OrderInv, ServeInv, StopInv
<1>0. Marks(j)
  OBVIOUS
<1>1. CASE Untouched(j)
  <2>1. Marks(j)'
    BY <1>1, StillMarks DEF Untouched
  <2>. QED
    BY <2>1
<1>2. ASSUME NEW i \in Jobs, Serves(i), i # j PROVE Marks(j)'
  BY <1>1, <1>2 DEF Serves
<1>3. CASE Request(j)
  <2>1. /\ inflight' = inflight /\ task[j] = "none" /\ NoneInFlight(j)
        /\ task'[j] = "created" => run'[j].status = "queued"
    BY <1>3 DEF Request, InsertRun, Enqueue, RefuseParameters, factoryVars, queueVars,
       Queue!Submit, Requested, TypeOK, Queue!TypeOK
  <2>. QED
    BY <2>1 DEF Marks, NoneInFlight
<1>4. CASE BeginAttempt(j)
  <2>1. /\ run'[j].status = "queued" /\ task'[j] = "attempt" /\ NoneInFlight(j)
        /\ inflight' = inflight \cup {NewWrite(j, 1, "running")}
    BY <1>0, <1>4 DEF BeginAttempt, Queue!Begin, Marks, Recorded, TypeOK, Queue!TypeOK
  <2>2. OnlyInFlight(j, "running")'
    BY <2>1 DEF OnlyInFlight, NoneInFlight, NewWrite
  <2>. QED
    BY <2>1, <2>2 DEF Marks, Verdicts
<1>5. CASE NeverBegun(j) \/ Cancelled(j) \/ Reported(j) \/ Marked(j)
  <2>1. /\ run' = run /\ inflight' = inflight /\ task'[j] # "created"
    BY <1>5 DEF NeverBegun, Cancelled, Reported, Marked, Resumes, factoryVars, queueVars,
       Queue!NeverBegun, Queue!Cancelled, Queue!Return, Queue!Settle, TypeOK, Queue!TypeOK
  <2>2. CASE NeverBegun(j) \/ Marked(j)
    BY <2>1, <2>2, StillMarks DEF NeverBegun, Queue!NeverBegun, Marked, queueVars
  <2>3. ASSUME Cancelled(j) \/ Reported(j) PROVE record'[j].attempts = record[j].attempts
    <3>1. PICK status \in Queue!RunStatus :
             \/ record' = [record EXCEPT ![j] = Queue!Closed(record[j], status)]
             \/ record' = [record EXCEPT ![j] = [Queue!Closed(record[j], status)
                                                 EXCEPT !.result = TRUE]]
      BY <2>3 DEF Cancelled, Reported, Queue!Cancelled, Queue!Return, Queue!Settle,
         Queue!RunStatus, Verdicts
    <3>2. /\ Queue!Closed(record[j], status) \in Queue!JobRecord
          /\ Queue!Closed(record[j], status).attempts = record[j].attempts
      BY ClosedRecord
    <3>. QED
      BY <3>1, <3>2 DEF TypeOK, Queue!TypeOK, Queue!JobRecord
  <2>. QED
    BY <1>5, <2>1, <2>2, <2>3, StillMarks
<1>6. CASE TimeOut(j) \/ FactoryRaises(j)
  <2>1. /\ Queue!FailAttempt(j) /\ NextAttempt(j) /\ run' = run
        /\ task[j] = "attempt" /\ record[j].attempts >= 1
    BY <1>6 DEF TimeOut, FactoryRaises, Queue!TimeOut, Queue!Raise, Recorded
  <2>2. /\ task'[j] # "created"
        /\ \/ record'[j].attempts # 1
           \/ inflight' = inflight /\ record'[j].attempts = record[j].attempts
    BY <2>1, FailOutcome
  <2>3. CASE record'[j].attempts # 1
    BY <2>2, <2>3 DEF Marks
  <2>. QED
    BY <2>1, <2>2, <2>3, StillMarks
<1>7. CASE WorkReturns(j) \/ WorkRaises(j) \/ DatabaseRaises(j)
  <2>1. CASE WorkReturns(j)
    BY <2>1, ReportMarks, VerdictsOfType DEF WorkReturns, queueVars
  <2>2. CASE WorkRaises(j)
    BY <2>2, ReportMarks DEF WorkRaises, queueVars
  <2>3. CASE DatabaseRaises(j) /\ ~FactoryRaises(j)
    <3>1. /\ Resumes(j, "reporting") /\ Await(j, "excusing", "exception")
          /\ record' = record /\ task' = task /\ run' = run
      BY <2>3 DEF DatabaseRaises, queueVars
    <3>. QED
      BY <3>1, ReportMarks
  <2>. QED
    BY <1>6, <1>7, <2>1, <2>2, <2>3
<1>8. CASE DatabaseStep(j)
  <2>1. PICK w \in inflight : w.job = j /\ (Land(w) \/ Drop(w))
    BY <1>8 DEF DatabaseStep
  <2>2. /\ inflight' = inflight \ {w} /\ UNCHANGED <<record, task>> /\ task[j] # "created"
    BY <2>1 DEF Land, Drop, queueVars, Recorded, NoneInFlight
  <2>3. ASSUME record[j].attempts = 1, NEW x \in inflight', x.job = j, x.set = "running"
        PROVE  FALSE
    <3>1. OnlyInFlight(j, "running")
      BY <1>0, <2>2, <2>3 DEF Marks
    <3>. QED
      BY <2>1, <2>2, <2>3, <3>1 DEF OnlyInFlight
  <2>. QED
    BY <2>2, <2>3 DEF Marks
<1>9. ASSUME NEW c \in Callers, WriteCancelled(c) PROVE Marks(j)'
  <2>1. /\ task[writing[c]] = "done" /\ UNCHANGED <<record, task, inflight>>
        /\ writing[c] \in Jobs /\ run[writing[c]] \in Run
    BY <1>9 DEF WriteCancelled, queueVars, factoryVars, CancelStopsWork, TypeOK
  <2>2. CASE j = writing[c]
    <3>1. run'[j].status = "cancelled"
      BY <1>9, <2>1, <2>2 DEF WriteCancelled, TypeOK, Run
    <3>. QED
      BY <1>0, <2>1, <2>2, <3>1 DEF Marks, OnlyInFlight, NewWrite, Verdicts
  <2>3. CASE j # writing[c]
    <3>1. run'[j] = run[j]
      BY <1>9, <2>1, <2>3 DEF WriteCancelled, TypeOK
    <3>. QED
      BY <2>1, <3>1, StillMarks
  <2>. QED
    BY <2>2, <2>3
<1>10. CASE Restart
  <2>1. record'[j].attempts = 0 /\ task'[j] = "none"
    BY <1>10 DEF Restart, Queue!Restart, Queue!Fresh
  <2>. QED
    BY <2>1 DEF Marks
<1>11. CASE UNCHANGED <<post, run, task, record, pc, verdict, inflight>>
  BY <1>1, <1>11 DEF Untouched
<1>12. ASSUME NEW i \in Jobs, Request(i) \/ QueueStep(i) \/ FactoryStep(i) \/ DatabaseStep(i)
       PROVE  Marks(j)'
  <2>1. CASE i # j
    <3>1. ASSUME TimeOut(i) PROVE Serves(i)
      BY <3>1, FailServes DEF TimeOut, Queue!TimeOut
    <3>. QED
      BY <1>2, <1>12, <2>1, <3>1, RequestServes, BeginServes, NeverBegunServes, CancelledServes,
         FactoryServes, DatabaseServes DEF QueueStep
  <2>2. CASE i = j
    BY <1>3, <1>4, <1>5, <1>6, <1>7, <1>8, <1>12, <2>2 DEF QueueStep, FactoryStep, Excused
  <2>. QED
    BY <2>1, <2>2
<1>. QED
  BY <1>9, <1>10, <1>11, <1>12 DEF Next, vars, Expire, RequestCancel, HandlerStep,
     CancelReturned, CancelWriteFails, Queue!Expire, Queue!Cancel, Queue!CancelReturns,
     queueVars, factoryVars

\* Whatever lands late, a run with a verdict is not made unfinished by its only attempt.
THEOREM VerdictsStay == SafeSpec => NoRegression
<1>1. OrderInv /\ [Next]_vars
      => [\A j \in Jobs :
            /\ run[j].status \in Verdicts
            /\ run'[j].status \notin Terminal
            => record[j].attempts # 1 \/ cancelling[j]]_vars
  <2> SUFFICES ASSUME OrderInv, Next, NEW j \in Jobs, run[j].status \in Verdicts,
                      run'[j].status \notin Terminal, record[j].attempts = 1
               PROVE  FALSE
    BY DEF Verdicts, Terminal
  <2> USE Known DEF OrderInv, ServeInv, StopInv
  <2>1. run' # run
    BY DEF Verdicts, Terminal
  <2>2. CASE \E mode \in {"deterministic", "passive"}, i \in Jobs : InsertRun(i, mode)
    BY <2>2 DEF InsertRun, Requested, TypeOK, Verdicts, Terminal
  <2>3. ASSUME NEW w \in inflight, Land(w) PROVE FALSE
    <3>1. w \in Write /\ run[j] \in Run /\ run' = [run EXCEPT ![w.job] = Updated(@, w)]
      BY <2>3 DEF Land, TypeOK
    <3>2. w.job = j
      BY <3>1 DEF TypeOK, Verdicts, Terminal
    <3>3. run'[j] = Updated(run[j], w)
      BY <3>1, <3>2 DEF TypeOK
    <3>4. w.set # "running" => Updated(run[j], w).status \in Terminal
      BY <3>1 DEF Updated, Write, Run, Verdicts, Terminal
    <3>. QED
      BY <3>2, <3>3, <3>4 DEF Marks
  <2>4. ASSUME NEW c \in Callers, WriteCancelled(c) PROVE FALSE
    <3>1. writing[c] \in Jobs /\ run[writing[c]] \in Run
      BY <2>4 DEF WriteCancelled, TypeOK
    <3>2. j = writing[c] => run'[j].status = "cancelled"
      BY <2>4, <3>1 DEF WriteCancelled, TypeOK, Run
    <3>3. j # writing[c] => run'[j] = run[j]
      BY <2>4, <3>1 DEF WriteCancelled, TypeOK
    <3>. QED
      BY <3>2, <3>3 DEF Verdicts, Terminal
  <2>. QED
    BY <2>1, <2>2, <2>3, <2>4 DEF Next, Request, Enqueue, RefuseParameters, QueueStep,
       BeginAttempt, NeverBegun, TimeOut, Cancelled, Expire, FactoryStep, Marked, WorkReturns,
       WorkRaises, Reported, Excused, DatabaseRaises, FactoryRaises, DatabaseStep, Drop,
       RequestCancel, HandlerStep, CancelReturned, CancelWriteFails, Restart
<1>2. Init => OrderInv
  <2> SUFFICES ASSUME Init PROVE OrderInv
    OBVIOUS
  <2>1. ServeInv
    BY ServeInit
  <2>. QED
    BY <2>1 DEF Init, Queue!Init, OrderInv, Marks
<1>3. OrderInv /\ [Next]_vars => OrderInv'
  BY ServeStep, OrderStep DEF OrderInv
<1>. QED
  BY <1>1, <1>2, <1>3, PTL DEF SafeSpec, NoRegression
===========================================================================

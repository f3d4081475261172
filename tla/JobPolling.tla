----------------------------- MODULE JobPolling -----------------------------
(***************************************************************************)
(* The web client's side of a job (frontend/src/pages/ApiTestingPage.jsx): *)
(* it starts an execution or a scan, then polls GET /jobs/{job_id} until   *)
(* the job's status is terminal or its polls are used up, and shows one    *)
(* active job, which the user may cancel.  An execution can be started     *)
(* while a scan is polled, so that two loops write the one activeJob.      *)
(*                                                                         *)
(* Of the server it knows what JobService promises, which ApiJobs is shown *)
(* to keep.  The endpoint finds the queue's record, awaits the durable     *)
(* run, and only then reads the record.                                    *)
(***************************************************************************)
EXTENDS Naturals

CONSTANTS Jobs, NoJob,
          Scans,       \* the jobs started by scan(), the others by execute()
          MaxPolls     \* bound: a loop asks MaxPolls + 1 times (the client's is 120)

ASSUME PollingAssumption == MaxPolls \in Nat /\ NoJob \notin Jobs /\ Scans \subseteq Jobs

VARIABLES
    status, durable, attempts,      \* the JobService's
    loop,       \* loop[j]: what the client's call for j awaits
    left,       \* left[j]: `remaining` of pollJob
    reply,      \* reply[j]: the status of the record in its answer
    active,     \* activeJob: the job shown, or none
    told,       \* history: told[j], the status with which the loop of j ended
    failed,     \* history: the jobs one of whose polls failed
    cancel      \* cancel[j]: a cancel request for j is out, answered and not yet received, or none

serverVars == <<status, durable, attempts>>
loopVars == <<left, reply>>
clientVars == <<loop, loopVars, active, told, failed, cancel>>
vars == <<serverVars, clientVars>>

Service == INSTANCE JobService

Polling == {"asking", "replied"}

TypeOK ==
    /\ status \in [Jobs -> Service!Statuses]
    /\ durable \in [Jobs -> Service!Statuses \ {"lost"}]
    /\ attempts \in [Jobs -> 0..1]
    /\ loop \in [Jobs -> Polling \cup {"none", "posting", "over"}]
    /\ left \in [Jobs -> 0..MaxPolls]
    /\ reply \in [Jobs -> Service!Statuses]
    /\ active \in Jobs \cup {NoJob}
    /\ told \in [Jobs -> Service!Ended \cup {"nothing"}]
    /\ failed \subseteq Jobs
    /\ cancel \in [Jobs -> {"none", "out", "answered"}]

Init ==
    /\ Service!Init
    /\ loop = [j \in Jobs |-> "none"]
    /\ left = [j \in Jobs |-> MaxPolls]
    /\ reply = [j \in Jobs |-> "none"]
    /\ active = NoJob
    /\ told = [j \in Jobs |-> "nothing"]
    /\ failed = {}
    /\ cancel = [j \in Jobs |-> "none"]

Goto(j, where) == loop' = [loop EXCEPT ![j] = where]
Busy(kind) == \E j \in kind : loop[j] \in Polling \cup {"posting"}
---------------------------------------------------------------------------
(***************************************************************************)
(* execute() and scan().                                                   *)
(***************************************************************************)
\* An execution waits for the one before it (runningOperation), a scan for any active job
\* and the scan before it (loading).  The server then inserts the run.
Click(j) ==
    /\ IF j \in Scans THEN ~Busy(Scans) /\ active = NoJob ELSE ~Busy(Jobs \ Scans)
    /\ loop[j] = "none"
    /\ Service!Insert(j)
    /\ Goto(j, "posting")
    /\ UNCHANGED <<loopVars, active, told, failed, cancel>>

PostAnswered(j) ==
    /\ loop[j] = "posting" /\ status[j] \notin {"none", "lost"}
    /\ active' = j
    /\ Goto(j, "asking")
    /\ UNCHANGED <<serverVars, loopVars, told, failed, cancel>>

\* Refused, or the connection is lost: the toast says so and activeJob stays as it was.
PostFails(j) ==
    /\ loop[j] = "posting"
    /\ Goto(j, "over")
    /\ UNCHANGED <<serverVars, loopVars, active, told, failed, cancel>>
---------------------------------------------------------------------------
(***************************************************************************)
(* pollJob() and get_api_job.                                              *)
(***************************************************************************)
Known(j) == status[j] \notin {"none", "lost"}

\* Answers with the status of the run.
MutantAnswer(j) ==
    /\ loop[j] = "asking" /\ Known(j)
    /\ reply' = [reply EXCEPT ![j] = durable[j]]
    /\ Goto(j, "replied")
    /\ UNCHANGED <<serverVars, left, active, told, failed, cancel>>

\* The record as it is once the durable run has been read.
Answer(j) ==
    /\ loop[j] = "asking" /\ Known(j)
    /\ reply' = [reply EXCEPT ![j] = status[j]]
    /\ Goto(j, "replied")
    /\ UNCHANGED <<serverVars, left, active, told, failed, cancel>>

\* The job's status decides whether the loop ends.
Ends(j) == reply[j] \in Service!Ended

Tell(j) == /\ told' = [told EXCEPT ![j] = IF Ends(j) THEN reply[j] ELSE @]
           /\ reply' = [reply EXCEPT ![j] = "none"]

\* The last poll leaves the job on the screen.
MutantReceive(j) ==
    /\ loop[j] = "replied"
    /\ active' = IF Ends(j) THEN NoJob ELSE j
    /\ Goto(j, IF Ends(j) \/ left[j] = 0 THEN "over" ELSE "asking")
    /\ left' = [left EXCEPT ![j] = IF @ = 0 THEN 0 ELSE @ - 1]
    /\ Tell(j)
    /\ UNCHANGED <<serverVars, failed, cancel>>

\* Counts the polls of a running job only.
MutantReceiveQueued(j) ==
    /\ loop[j] = "replied"
    /\ active' = IF Ends(j) \/ left[j] = 0 THEN NoJob ELSE j
    /\ Goto(j, IF Ends(j) \/ left[j] = 0 THEN "over" ELSE "asking")
    /\ left' = [left EXCEPT ![j] = IF @ = 0 \/ reply[j] = "queued" THEN @ ELSE @ - 1]
    /\ Tell(j)
    /\ UNCHANGED <<serverVars, failed, cancel>>

\* A terminal status or the last poll ends the loop; both free the workspace.
Receive(j) ==
    /\ loop[j] = "replied"
    /\ active' = IF Ends(j) \/ left[j] = 0 THEN NoJob ELSE j
    /\ Goto(j, IF Ends(j) \/ left[j] = 0 THEN "over" ELSE "asking")
    /\ left' = [left EXCEPT ![j] = IF @ = 0 THEN 0 ELSE @ - 1]
    /\ Tell(j)
    /\ UNCHANGED <<serverVars, failed, cancel>>

\* 404 after a restart, or any other error: nothing takes the job off the screen.
PollFails(j) ==
    /\ loop[j] = "asking"
    /\ Goto(j, "over")
    /\ failed' = failed \cup {j}
    /\ UNCHANGED <<serverVars, loopVars, active, told, cancel>>
---------------------------------------------------------------------------
(***************************************************************************)
(* cancelActiveJob() and cancel_api_job.                                   *)
(***************************************************************************)
\* Bound: one cancel request at a time.
Cancel ==
    /\ active # NoJob /\ \A j \in Jobs : cancel[j] = "none"
    /\ cancel' = [cancel EXCEPT ![active] = "out"]
    /\ UNCHANGED <<serverVars, loop, loopVars, active, told, failed>>

\* 404 after a restart, or an error: the job stays shown.
CancelFails(j) ==
    /\ cancel[j] = "out"
    /\ cancel' = [cancel EXCEPT ![j] = "none"]
    /\ UNCHANGED <<serverVars, loop, loopVars, active, told, failed>>

CancelWritten(j) ==
    /\ cancel[j] = "out"
    /\ Service!CancelRun(j)
    /\ cancel' = [cancel EXCEPT ![j] = "answered"]
    /\ UNCHANGED <<loop, loopVars, active, told, failed>>

\* Whatever is shown by then is taken off.
Cleared(j) ==
    /\ cancel[j] = "answered"
    /\ active' = NoJob
    /\ cancel' = [cancel EXCEPT ![j] = "none"]
    /\ UNCHANGED <<serverVars, loop, loopVars, told, failed>>
---------------------------------------------------------------------------
(***************************************************************************)
(* The server.  The client leaves max_retries at its default, 0, so that a *)
(* job has one attempt; it is cancelled only on request.  Only a scan      *)
(* warns.                                                                  *)
(***************************************************************************)
Verdicts(j) == {"passed", "failed"} \cup (IF j \in Scans THEN {"warning"} ELSE {})

ServerStep(j) ==
    /\ \/ Service!Accept(j) \/ Service!Refuse(j)
       \/ attempts[j] = 0 /\ Service!Attempt(j)
       \/ \E s \in Verdicts(j) \cup {"running"} : Service!Report(j, s)
       \/ \E s \in Verdicts(j) : Service!End(j, s)
       \/ cancel[j] = "out" /\ Service!End(j, "cancelled")
    /\ UNCHANGED clientVars

Restart == Service!Restart /\ UNCHANGED clientVars

ClientStep(j) == PostAnswered(j) \/ PostFails(j) \/ Answer(j) \/ Receive(j) \/ PollFails(j)

Next == \/ \E j \in Jobs : \/ Click(j) \/ ClientStep(j) \/ ServerStep(j)
                           \/ CancelFails(j) \/ CancelWritten(j) \/ Cleared(j)
        \/ Cancel \/ Restart

\* A request is answered or fails, and the browser's timer fires.
SafeSpec == Init /\ [][Next]_vars
Spec == SafeSpec /\ \A j \in Jobs : WF_vars(ClientStep(j))
---------------------------------------------------------------------------
(***************************************************************************)
(* Properties.                                                             *)
(***************************************************************************)
\* What the user was told of a job's end is how the job ended, and as long as the process
\* lives the durable run of a job told to have passed says the same or was cancelled since.
ToldIsTrue ==
    \A j \in Jobs :
        told[j] # "nothing" /\ status[j] # "lost" =>
            /\ status[j] = told[j]
            /\ told[j] \in {"passed", "warning"} => durable[j] \in {told[j], "cancelled"}

\* When every loop has ended, the workspace shows no active job, unless one whose poll
\* failed, however the loops of two jobs and late cancels took turns: a scan can be
\* started again.
WorkspaceIsFreed ==
    (\A j \in Jobs : loop[j] \notin Polling) => active \in failed \cup {NoJob}

\* Every loop ends, also for a job that was cancelled before its first step, whose record
\* stays queued for good.
PollingEnds == \A j \in Jobs : loop[j] = "asking" ~> loop[j] = "over"
===========================================================================

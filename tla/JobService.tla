---------------------------- MODULE JobService ----------------------------
(***************************************************************************)
(* What the asynchronous endpoints promise a client that polls a job:      *)
(* how the status of the job, which GET /jobs/{job_id} answers from the    *)
(* queue's record, and that of its durable run move together.  ApiJobs     *)
(* implements this specification, whatever times out or fails; JobPolling  *)
(* is a client of it.                                                      *)
(***************************************************************************)
EXTENDS Naturals

CONSTANT Jobs

VARIABLES status,      \* status[j]: the record's; none before, lost after a restart or refusal
          durable,     \* durable[j]: the status of the api_runs document
          attempts     \* attempts[j] begun

svars == <<status, durable, attempts>>

Ended == {"passed", "warning", "failed", "cancelled"}
Statuses == {"none", "queued", "running", "lost"} \cup Ended

Init == /\ status = [j \in Jobs |-> "none"]
        /\ durable = [j \in Jobs |-> "none"]
        /\ attempts = [j \in Jobs |-> 0]

Insert(j) == /\ status[j] = "none" /\ durable[j] = "none"
             /\ durable' = [durable EXCEPT ![j] = "queued"]
             /\ UNCHANGED <<status, attempts>>

Accept(j) == /\ status[j] = "none" /\ durable[j] = "queued"
             /\ status' = [status EXCEPT ![j] = "queued"]
             /\ UNCHANGED <<durable, attempts>>

Refuse(j) == /\ status[j] = "none" /\ durable[j] = "queued"
             /\ status' = [status EXCEPT ![j] = "lost"]
             /\ UNCHANGED <<durable, attempts>>

Attempt(j) == /\ status[j] \in {"queued", "running"}
              /\ status' = [status EXCEPT ![j] = "running"]
              /\ attempts' = [attempts EXCEPT ![j] = @ + 1]
              /\ UNCHANGED durable

\* The outcome of a single attempt is in the run before the record tells it, and is not
\* written over by the job itself.
Firm(j) == status[j] \in {"passed", "warning"} /\ attempts[j] = 1

Report(j, s) == /\ status[j] \notin {"none", "queued"} /\ ~Firm(j)
                /\ durable' = [durable EXCEPT ![j] = s]
                /\ UNCHANGED <<status, attempts>>

End(j, s) == /\ status[j] = "running"
             /\ s \in {"passed", "warning"} /\ attempts[j] = 1 => durable[j] = s
             /\ status' = [status EXCEPT ![j] = s]
             /\ UNCHANGED <<durable, attempts>>

\* The cancel endpoint, after the job has ended or will never begin.
CancelRun(j) == /\ status[j] \in {"queued"} \cup Ended
                /\ durable' = [durable EXCEPT ![j] = "cancelled"]
                /\ UNCHANGED <<status, attempts>>

Restart == /\ status' = [j \in Jobs |-> IF durable[j] = "none" THEN "none" ELSE "lost"]
           /\ attempts' = [j \in Jobs |-> 0]
           /\ UNCHANGED durable

Next == \/ \E j \in Jobs : \/ Insert(j) \/ Accept(j) \/ Refuse(j) \/ Attempt(j) \/ CancelRun(j)
                           \/ \E s \in Ended : End(j, s)
                           \/ \E s \in {"running", "passed", "warning", "failed"} : Report(j, s)
        \/ Restart

Safety == Init /\ [][Next]_svars
===========================================================================

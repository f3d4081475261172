--------------------------- MODULE JobLifecycle ---------------------------
(***************************************************************************)
(* What the worker boundary promises its callers, with nothing of how it   *)
(* is done: an accepted job waits, runs at most 1 + max_retries attempts   *)
(* one after another, and ends once.  A restart of the process forgets     *)
(* every job.  JobQueue implements this specification.                     *)
(***************************************************************************)
EXTENDS Naturals

CONSTANTS Jobs,        \* identifiers of jobs
          MaxRetries   \* largest max_retries a caller asks for

VARIABLES phase,       \* phase[j]: where job j is in its life
          started,     \* started[j]: attempts begun
          budget       \* budget[j]: attempts job j may still begin

lvars == <<phase, started, budget>>

Phases == {"absent", "waiting", "active", "over"}

Init == /\ phase = [j \in Jobs |-> "absent"]
        /\ started = [j \in Jobs |-> 0]
        /\ budget = [j \in Jobs |-> 0]

Accept(j, retries) ==
    /\ phase[j] = "absent"
    /\ phase' = [phase EXCEPT ![j] = "waiting"]
    /\ started' = [started EXCEPT ![j] = 0]
    /\ budget' = [budget EXCEPT ![j] = retries + 1]

\* The first attempt, or the one after an attempt that failed.
Attempt(j) ==
    /\ phase[j] \in {"waiting", "active"}
    /\ budget[j] > 0
    /\ phase' = [phase EXCEPT ![j] = "active"]
    /\ started' = [started EXCEPT ![j] = @ + 1]
    /\ budget' = [budget EXCEPT ![j] = @ - 1]

End(j) ==
    /\ phase[j] \in {"waiting", "active"}
    /\ phase' = [phase EXCEPT ![j] = "over"]
    /\ UNCHANGED <<started, budget>>

Forget ==
    /\ phase' = [j \in Jobs |-> "absent"]
    /\ started' = [j \in Jobs |-> 0]
    /\ budget' = [j \in Jobs |-> 0]

Next == \/ \E j \in Jobs : \/ \E retries \in 0..MaxRetries : Accept(j, retries)
                           \/ Attempt(j)
                           \/ End(j)
        \/ Forget

Safety == Init /\ [][Next]_lvars

\* Every accepted job ends, unless the process forgets it first.
Ends == \A j \in Jobs :
            phase[j] \in {"waiting", "active"} ~> phase[j] \in {"over", "absent"}

Spec == Safety /\ Ends
===========================================================================

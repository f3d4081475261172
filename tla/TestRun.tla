------------------------------ MODULE TestRun ------------------------------
(***************************************************************************)
(* One test case and the requests that run it: run_single_test and         *)
(* resume_single_test of app/services/test_run_service.py.  A request      *)
(* marks the test "waiting", takes the cached script or has the LLM write  *)
(* one, executes it, has the LLM repair a script that fails of its own bug *)
(* once, writes the outcome, and stores or clears the cached script.       *)
(*                                                                         *)
(* Requests for the same test are handled concurrently; they share nothing *)
(* but the test's document.  Every await on MongoDB, the LLM or the        *)
(* subprocess separates two actions.                                       *)
(***************************************************************************)
EXTENDS Naturals, FiniteSets

CONSTANTS Requests,  \* requests for this test
          Blank,     \* a script without a word in it
          None,      \* no script
          Faults     \* what may go wrong: a subset of {"verdict", "crash"}

\* The LLM writes at most one script for a request, and repairs it at most once.  No
\* two answers are taken to be the same text.
Written(r) == <<r, 1>>
Repaired(r) == <<r, 2>>
Scripts == (Requests \X {1, 2}) \cup {Blank}

ASSUME RunAssumption == /\ None \notin Scripts
                        /\ Blank \notin Requests \X {1, 2}
                        /\ Faults \subseteq {"verdict", "crash"}

Outcomes == {"passed", "failed", "waiting"}
Active == {"started", "writing", "executing", "repairing", "reporting", "caching"}

VARIABLES
    status,   \* the test's status in MongoDB
    cached,   \* its cached_script
    pc,       \* pc[r]: what request r does next
    kind,     \* kind[r]: run or resume
    reused,   \* reused[r]: cached_script as r read it
    script,   \* script[r]: the script r executes
    outcome,  \* outcome[r]: how its last execution was classified
    \* History variable.
    seen      \* the executions so far: [by, script, outcome]

vars == <<status, cached, pc, kind, reused, script, outcome, seen>>

TypeOK == /\ status \in Outcomes \cup {"draft"}
          /\ cached \in Scripts \cup {None}
          /\ pc \in [Requests -> Active \cup {"new", "done", "lost"}]
          /\ kind \in [Requests -> {"run", "resume"}]
          /\ reused \in [Requests -> Scripts \cup {None}]
          /\ script \in [Requests -> Scripts \cup {None}]
          /\ outcome \in [Requests -> Outcomes]
          /\ seen \subseteq [by : Requests, script : Scripts, outcome : Outcomes]

Init == /\ status = "draft"
        /\ cached = None
        /\ pc = [r \in Requests |-> "new"]
        /\ kind = [r \in Requests |-> "run"]
        /\ reused = [r \in Requests |-> None]
        /\ script = [r \in Requests |-> None]
        /\ outcome = [r \in Requests |-> "waiting"]
        /\ seen = {}
---------------------------------------------------------------------------
Goto(r, step) == pc' = [pc EXCEPT ![r] = step]

\* Either endpoint accepts a test in any state.
Start(r, k) ==
    /\ pc[r] = "new"
    /\ Goto(r, IF k = "run" THEN "started" ELSE "writing")
    /\ kind' = [kind EXCEPT ![r] = k]
    /\ status' = "waiting"
    /\ UNCHANGED <<cached, reused, script, outcome, seen>>

ReadCache(r) ==
    /\ pc[r] = "started"
    /\ reused' = [reused EXCEPT ![r] = cached]
    /\ script' = [script EXCEPT ![r] = cached]
    /\ Goto(r, IF cached = None THEN "writing" ELSE "executing")
    /\ UNCHANGED <<status, cached, kind, outcome, seen>>

\* Only run_single_test looks whether the LLM wrote anything.
Write(r) ==
    /\ pc[r] = "writing"
    /\ \E s \in {Written(r)} \cup (IF kind[r] = "resume" THEN {Blank} ELSE {}) :
          script' = [script EXCEPT ![r] = s]
    /\ Goto(r, "executing")
    /\ UNCHANGED <<status, cached, kind, reused, outcome, seen>>

\* Returns without writing the status: the test stays as Start left it.
MutantWriteFails(r) ==
    /\ pc[r] = "writing"
    /\ outcome' = [outcome EXCEPT ![r] = "failed"]
    /\ Goto(r, "done")
    /\ UNCHANGED <<status, cached, kind, reused, script, seen>>

\* The LLM call raises, or a run gets a blank script: failed, and the request ends.
WriteFails(r) ==
    /\ pc[r] = "writing"
    /\ status' = "failed"
    /\ outcome' = [outcome EXCEPT ![r] = "failed"]
    /\ Goto(r, "done")
    /\ UNCHANGED <<cached, kind, reused, script, seen>>

\* How an execution of script s can be classified.  A blank one exits with 0, asserts
\* nothing and leaves no snapshot, which counts as passed.
Exits(s) == IF s = Blank THEN {"passed"} ELSE Outcomes

Classify(r, o) ==
    /\ outcome' = [outcome EXCEPT ![r] = o]
    /\ seen' = seen \cup {[by |-> r, script |-> script[r], outcome |-> o]}
    /\ UNCHANGED <<status, cached, kind, reused, script>>

\* Repairs as long as the failure looks like a script bug.
MutantExecute(r) ==
    /\ pc[r] = "executing"
    /\ \/ \E o \in Exits(script[r]) :
              Classify(r, o) /\ Goto(r, "reporting")
       \/ Classify(r, "failed") /\ Goto(r, "repairing")

\* _execute_and_evaluate; a first failure that reads as a bug of the script leads to
\* a repair.
Execute(r) ==
    /\ pc[r] = "executing"
    /\ \/ \E o \in Exits(script[r]) :
              Classify(r, o) /\ Goto(r, "reporting")
       \/ /\ script[r] \notin {Blank, Repaired(r)}
          /\ Classify(r, "failed")
          /\ Goto(r, "repairing")

\* The LLM asked for the verdict on a script without assertions raises, and nothing
\* catches it.
VerdictRaises(r) ==
    /\ "verdict" \in Faults
    /\ pc[r] = "executing"
    /\ script[r] # Blank
    /\ Goto(r, "lost")
    /\ UNCHANGED <<status, cached, kind, reused, script, outcome, seen>>

\* A repair that raises or is blank leaves the failure as it is.
Repair(r) ==
    /\ pc[r] = "repairing"
    /\ \/ /\ script' = [script EXCEPT ![r] = Repaired(r)]
          /\ Goto(r, "executing")
       \/ /\ Goto(r, "reporting")
          /\ UNCHANGED script
    /\ UNCHANGED <<status, cached, kind, reused, outcome, seen>>

\* The status is written; a resumed run stops there.
Report(r) ==
    /\ pc[r] = "reporting"
    /\ status' = outcome[r]
    /\ Goto(r, IF kind[r] = "run" THEN "caching" ELSE "done")
    /\ UNCHANGED <<cached, kind, reused, script, outcome, seen>>

\* Stores the script of every passing run, one taken from the cache included.
MutantCache(r) ==
    /\ pc[r] = "caching"
    /\ cached' = CASE outcome[r] = "passed" -> script[r]
                   [] outcome[r] # "passed" /\ reused[r] # None -> None
                   [] OTHER -> cached
    /\ Goto(r, "done")
    /\ UNCHANGED <<status, kind, reused, script, outcome, seen>>

\* Stores a new script that passed; clears the cache when a reused one did not.
Recached(r) == IF outcome[r] = "passed" /\ script[r] # reused[r] THEN script[r]
               ELSE IF outcome[r] # "passed" /\ reused[r] # None THEN None ELSE cached

Cache(r) ==
    /\ pc[r] = "caching"
    /\ cached' = Recached(r)
    /\ Goto(r, "done")
    /\ UNCHANGED <<status, kind, reused, script, outcome, seen>>

\* The request dies at an await: the process stops, or a call to MongoDB or the start
\* of the subprocess raises.  A write it was waiting for may have been made.
Crash(r) ==
    /\ "crash" \in Faults
    /\ pc[r] \in Active
    /\ Goto(r, "lost")
    /\ \/ UNCHANGED <<status, cached>>
       \/ pc[r] = "writing" /\ status' = "failed" /\ UNCHANGED cached
       \/ pc[r] = "reporting" /\ status' = outcome[r] /\ UNCHANGED cached
       \/ pc[r] = "caching" /\ cached' = Recached(r) /\ UNCHANGED status
    /\ UNCHANGED <<kind, reused, script, outcome, seen>>
---------------------------------------------------------------------------
Step(r) == \/ ReadCache(r) \/ Write(r) \/ WriteFails(r) \/ Execute(r)
           \/ VerdictRaises(r) \/ Repair(r) \/ Report(r) \/ Cache(r)

Next == \E r \in Requests : \/ \E k \in {"run", "resume"} : Start(r, k)
                            \/ Step(r)
                            \/ Crash(r)

\* Each await ends: MongoDB answers, the LLM client stops retrying, and the
\* subprocess is killed at PLAYWRIGHT_RUN_TIMEOUT_S.
Fairness == \A r \in Requests : WF_vars(Step(r))

SafeSpec == Init /\ [][Next]_vars
Spec == SafeSpec /\ Fairness
---------------------------------------------------------------------------
(***************************************************************************)
(* Properties.                                                             *)
(***************************************************************************)
\* The executions of script s that ended with an outcome in how.
Seen(s, how) == {e \in seen : e.script = s /\ e.outcome \in how}

\* The cached script passed when it was written, without the user's inputs; and no
\* request that has been answered saw it fail or ask.  However requests interleave,
\* a script one of them found stale is not put back by another.
CacheIsTrusted ==
    cached # None =>
        /\ \E e \in Seen(cached, {"passed"}) : kind[e.by] = "run" /\ reused[e.by] # cached
        /\ \A e \in Seen(cached, {"failed", "waiting"}) : pc[e.by] # "done"

Quiet == \A r \in Requests : pc[r] \notin Active
Ended == {r \in Requests : pc[r] = "done"}

\* When no request is being handled and none was lost, the test shows how one of them
\* ended: "waiting" is then a script's demand for inputs, never a mark left behind.
StatusIsEarned ==
    Quiet /\ Ended # {} /\ (\A r \in Requests : pc[r] # "lost")
        => \E r \in Ended : status = outcome[r]

\* Every request that was accepted is answered: repairs do not go on for ever.
RequestsEnd == \A r \in Requests : pc[r] \in Active ~> pc[r] \in {"done", "lost"}
===========================================================================

--------------------------- MODULE SecurityTests ---------------------------
(***************************************************************************)
(* The security tests of one project: generated by the LLM                 *)
(* (app/services/security_generation_service.py), found by a ZAP scan in a *)
(* container (zap_scanner.py), and executed one at a time by the passive   *)
(* checkers (security_run_service.py, security_checkers.py).  Generated    *)
(* tests and alerts share a collection; requests of all three kinds run at *)
(* the same time and meet only there.                                      *)
(*                                                                         *)
(* Every await on the database, the LLM or a subprocess separates two      *)
(* actions.  insert_many is ordered but inserts document by document,      *)
(* under a unique index on (project_id, test_id).                          *)
(***************************************************************************)
EXTENDS Naturals

CONSTANTS Requests,
          Kinds,       \* bound: what the requests may ask for between them
          MaxItems,    \* bound: items in a reply of the LLM, alerts in a report
          MaxSecond,   \* bound: the clock, in seconds
          Responses,   \* what a checked target may answer
          NoRequest

Numbers == 1..MaxItems
Verdicts == {"PASS", "FAIL", "WARNING"}

\* test_id: <<0, n>> is SECnnn, <<s, n>> is ZAP-s-n, the nth alert of a report, numbered in
\* second s.
Tests == (0..MaxSecond) \X Numbers

\* An answer as the checkers see it: the headers they look for and the flags of each cookie.
Response == [answered: BOOLEAN, code: Nat, html: BOOLEAN, reflected: BOOLEAN,
             headers: SUBSET {"hsts", "nosniff", "frame", "csp", "server", "powered"},
             cookies: SUBSET SUBSET {"secure", "httponly"}]

ASSUME SecurityAssumption == /\ Kinds \subseteq [Requests -> {"generate", "scan", "execute"}]
                             /\ MaxItems \in Nat \ {0}
                             /\ MaxSecond \in Nat \ {0}
                             /\ Responses \subseteq Response
                             /\ NoRequest \notin Requests

VARIABLES
    kind,        \* kind[r]: generate, scan or execute
    project,     \* none, bare (without a url) or located
    clock,       \* the second
    status,      \* status[t]: that of the document t, or absent
    by,          \* by[t]: the request that inserted t
    pc,          \* pc[r]: what request r awaits next, or how it ended
    plan,        \* plan[r]: the tests r is to insert, with the status it has for each
    todo,        \* todo[r]: those it has not inserted, or not yet judged
    target,      \* target[r]: the test r executes
    verdict,     \* verdict[r]: what its check returned
    containers   \* the scans whose ZAP container runs

vars == <<kind, project, clock, status, by, pc, plan, todo, target, verdict, containers>>
store == <<status, by>>
check == <<target, verdict>>

Awaits == {"start", "listing", "asking", "again", "inserting", "starting",
           "scanning", "judging", "checking", "recording"}

\* A request is lost when its last write was made and it was not told so.
Ends == {"answered", "failed", "lost"}

IsPlan(p) == /\ p \in [DOMAIN p -> {"draft", "FAIL", "WARNING"}]
             /\ DOMAIN p \subseteq Tests

TypeOK ==
    /\ kind \in [Requests -> {"generate", "scan", "execute"}]
    /\ project \in {"none", "bare", "located"}
    /\ clock \in 1..MaxSecond
    /\ status \in [Tests -> Verdicts \cup {"draft", "absent"}]
    /\ by \in [Tests -> Requests \cup {NoRequest}]
    /\ \A t \in Tests : status[t] = "absent" <=> by[t] = NoRequest
    /\ pc \in [Requests -> Awaits \cup Ends]
    /\ plan = [r \in Requests |-> plan[r]]
    /\ todo \in [Requests -> SUBSET Tests]
    /\ \A r \in Requests : IsPlan(plan[r]) /\ todo[r] \subseteq DOMAIN plan[r]
    /\ target \in [Requests -> Tests]
    /\ verdict \in [Requests -> Verdicts]
    /\ containers \subseteq Requests

Init ==
    /\ kind \in Kinds
    /\ project = "none"
    /\ clock = 1
    /\ status = [t \in Tests |-> "absent"]
    /\ by = [t \in Tests |-> NoRequest]
    /\ pc = [r \in Requests |-> "start"]
    /\ plan = [r \in Requests |-> << >>]
    /\ todo = [r \in Requests |-> {}]
    /\ target = [r \in Requests |-> <<0, 1>>]
    /\ verdict = [r \in Requests |-> "WARNING"]
    /\ containers = {}

Stored == {t \in Tests : status[t] # "absent"}
First(S) == CHOOSE t \in S : \A u \in S : t[2] <= u[2]
Goto(r, where) == pc' = [pc EXCEPT ![r] = where]
Keep(r, where) == Goto(r, where) /\ UNCHANGED <<store, plan, todo>>
Fail(r) == /\ Goto(r, "failed")
           /\ todo' = [todo EXCEPT ![r] = {}]
           /\ UNCHANGED <<store, plan>>
Lost(r) == Goto(r, "lost") /\ todo' = [todo EXCEPT ![r] = {}]
Take(r, p, where) == /\ plan' = [plan EXCEPT ![r] = p]
                     /\ todo' = [todo EXCEPT ![r] = DOMAIN p]
                     /\ Goto(r, IF DOMAIN p = {} THEN "answered" ELSE where)
---------------------------------------------------------------------------
(***************************************************************************)
(* Insertion, for generated tests and alerts alike.                        *)
(***************************************************************************)
\* Goes on behind a duplicate.
MutantInsert(r) ==
    LET t == First(todo[r])
    IN  /\ pc[r] = "inserting"
        /\ IF t \in Stored THEN UNCHANGED store
           ELSE status' = [status EXCEPT ![t] = "draft"] /\ by' = [by EXCEPT ![t] = r]
        /\ IF todo[r] # {t} THEN todo' = [todo EXCEPT ![r] = @ \ {t}] /\ UNCHANGED pc
           ELSE IF kind[r] = "scan"
           THEN todo' = [todo EXCEPT ![r] = DOMAIN plan[r]] /\ Goto(r, "judging")
           ELSE todo' = [todo EXCEPT ![r] = {}] /\ Goto(r, "answered")
        /\ UNCHANGED <<kind, project, clock, plan, check, containers>>

\* A status outside the vocabulary of the model.
MutantInserted(t, r) ==
    /\ status' = [status EXCEPT ![t] = IF kind[r] = "scan" THEN "open" ELSE "draft"]
    /\ by' = [by EXCEPT ![t] = r]

Inserted(t, r) == /\ status' = [status EXCEPT ![t] = "draft"]
                  /\ by' = [by EXCEPT ![t] = r]

\* A duplicate ends the request with what it has inserted.  A scan judges its alerts
\* when all of them are in.
Insert(r) ==
    LET t == First(todo[r])
    IN  /\ pc[r] = "inserting"
        /\ \/ t \in Stored /\ Fail(r)
           \/ /\ t \notin Stored
              /\ Inserted(t, r)
              /\ UNCHANGED plan
              /\ \/ Lost(r)
                 \/ /\ todo' = [todo EXCEPT ![r] = IF @ # {t} THEN @ \ {t}
                                                   ELSE IF kind[r] = "scan" THEN DOMAIN plan[r] ELSE {}]
                    /\ Goto(r, IF todo[r] # {t} THEN "inserting"
                               ELSE IF kind[r] = "scan" THEN "judging" ELSE "answered")
        /\ UNCHANGED <<kind, project, clock, check, containers>>
---------------------------------------------------------------------------
(***************************************************************************)
(* POST /generate.                                                         *)
(***************************************************************************)
\* get_or_create_by_name with a url; its own races are those of Generation.
Locate(r) == /\ pc[r] = "start" /\ kind[r] = "generate"
             /\ project' = "located"
             /\ Keep(r, "listing")
             /\ UNCHANGED <<kind, clock, check, containers>>

\* Whatever is there, a suite, a part of one or alerts, is taken for the suite.
List(r) == /\ pc[r] = "listing"
           /\ Keep(r, IF Stored # {} THEN "answered" ELSE "asking")
           /\ UNCHANGED <<kind, project, clock, check, containers>>

\* The items of a reply that become tests: a list is enumerated, an object without one is
\* taken for a test of its own; items that are no objects or do not validate leave gaps.
Items(shape, good) == IF shape = "object" THEN {1} ELSE good

\* The page is read and described, the LLM answers in JSON.
Reply(r) ==
    /\ pc[r] \in {"asking", "again"}
    /\ \E shape \in {"list", "object"}, good \in SUBSET Numbers :
           Take(r, [t \in {0} \X Items(shape, good) |-> "draft"], "inserting")
    /\ UNCHANGED <<kind, project, clock, store, check, containers>>

\* Corrects the LLM for ever.
MutantMalformed(r) == /\ pc[r] \in {"asking", "again"}
                      /\ Keep(r, IF pc[r] = "asking" THEN "again" ELSE "asking")
                      /\ UNCHANGED <<kind, project, clock, check, containers>>

\* No JSON list or object: the LLM is asked to correct it, once.
Malformed(r) == /\ pc[r] \in {"asking", "again"}
                /\ Keep(r, IF pc[r] = "asking" THEN "again" ELSE "failed")
                /\ UNCHANGED <<kind, project, clock, check, containers>>
---------------------------------------------------------------------------
(***************************************************************************)
(* POST /zap-scan.                                                         *)
(***************************************************************************)
BeginScan(r) == /\ pc[r] = "start" /\ kind[r] = "scan"
                /\ Keep(r, IF project = "located" THEN "starting" ELSE "failed")
                /\ UNCHANGED <<kind, project, clock, check, containers>>

\* docker info has answered; docker run starts a container.
StartContainer(r) == /\ pc[r] = "starting"
                     /\ containers' = containers \cup {r}
                     /\ Keep(r, "scanning")
                     /\ UNCHANGED <<kind, project, clock, check>>

\* Alerts of no risk to speak of keep their place in the numbering.
MutantAlerts(stamps, risks) ==
    [t \in {<<stamps[n], n>> : n \in {m \in DOMAIN risks : risks[m] # "low"}} |-> "FAIL"]

\* The tests of a report, numbered through, with the status each is to get.
Alerts(stamps, risks) == [t \in {<<stamps[n], n>> : n \in DOMAIN risks} |->
                             IF risks[t[2]] = "low" THEN "WARNING" ELSE "FAIL"]

Risks == UNION {[1..k -> {"high", "medium", "low"}] : k \in 0..MaxItems}

\* The clock is read for each alert, in their order: a second may end among them.
Stamps(numbers, seconds) ==
    {stamps \in [numbers -> seconds] : \A m, n \in numbers : m <= n => stamps[m] <= stamps[n]}

\* docker run returns when its container has exited: with an error or no report, or with
\* a report, perhaps of no site or no alerts.
ScanExits(r) ==
    /\ pc[r] = "scanning"
    /\ containers' = containers \ {r}
    /\ \/ Fail(r) /\ UNCHANGED clock
       \/ /\ clock' \in clock..MaxSecond
          /\ \E risks \in Risks : \E stamps \in Stamps(DOMAIN risks, clock..clock') :
                 Take(r, Alerts(stamps, risks), "inserting")
          /\ UNCHANGED store
    /\ UNCHANGED <<kind, project, check>>

\* Makes do with the report there is.
MutantScanTimesOut(r) ==
    /\ pc[r] = "scanning"
    /\ \E risks \in Risks : Take(r, Alerts([n \in DOMAIN risks |-> clock], risks), "inserting")
    /\ UNCHANGED <<kind, project, clock, store, check, containers>>

\* process.kill() ends docker run, not the container; the report directory is removed.
ScanTimesOut(r) == /\ pc[r] = "scanning"
                   /\ Fail(r)
                   /\ UNCHANGED <<kind, project, clock, check, containers>>

\* A container nobody waits for comes to its own end, and --rm removes it.
ContainerEnds(r) == /\ r \in containers
                    /\ pc[r] # "scanning"
                    /\ containers' = containers \ {r}
                    /\ UNCHANGED <<kind, project, clock, store, pc, plan, todo, check>>

\* Leaves the last alert a draft.
MutantJudge(r) ==
    LET t == First(todo[r])
    IN  /\ pc[r] = "judging"
        /\ status' = [status EXCEPT ![t] = IF todo[r] = {t} THEN @ ELSE plan[r][t]]
        /\ todo' = [todo EXCEPT ![r] = @ \ {t}]
        /\ Goto(r, IF todo[r] = {t} THEN "answered" ELSE "judging")
        /\ UNCHANGED <<kind, project, clock, by, plan, check, containers>>

\* One update for each alert that was inserted.
Judge(r) ==
    LET t == First(todo[r])
    IN  /\ pc[r] = "judging"
        /\ status' = [status EXCEPT ![t] = plan[r][t]]
        /\ \/ Lost(r)
           \/ /\ todo' = [todo EXCEPT ![r] = @ \ {t}]
              /\ Goto(r, IF todo[r] = {t} THEN "answered" ELSE "judging")
        /\ UNCHANGED <<kind, project, clock, by, plan, check, containers>>
---------------------------------------------------------------------------
(***************************************************************************)
(* POST /{test_id}/execute, and the checkers.                              *)
(***************************************************************************)
HeadersVerdict(a) == IF /\ {"hsts", "nosniff"} \subseteq a.headers
                        /\ a.headers \cap {"frame", "csp"} # {}
                     THEN "PASS" ELSE "FAIL"

CookieVerdict(a) == IF a.cookies \subseteq {{"secure", "httponly"}} THEN "PASS" ELSE "FAIL"

InputVerdict(a) == IF a.code >= 500 \/ a.reflected THEN "FAIL" ELSE "PASS"

DisclosureVerdict(a) == IF a.headers \cap {"server", "powered"} = {} THEN "PASS" ELSE "WARNING"

AuthVerdict(a) == CASE a.code \in {401, 403} -> "PASS"
                    [] a.code \in {200, 206} /\ ~a.html -> "FAIL"
                    [] OTHER -> "WARNING"

\* The checker of each test_type; whatever goes wrong in one is a warning.
Verdict(type, a) ==
    CASE ~a.answered -> "WARNING"
      [] a.answered /\ type = "security_headers" -> HeadersVerdict(a)
      [] a.answered /\ type = "cookie_security" -> CookieVerdict(a)
      [] a.answered /\ type = "input_validation" -> InputVerdict(a)
      [] a.answered /\ type = "information_disclosure" -> DisclosureVerdict(a)
      [] a.answered /\ type = "authentication_configuration" -> AuthVerdict(a)

\* An alert is filed by its name, never as an authentication test.
TypesOf(t) == {"security_headers", "cookie_security", "input_validation", "information_disclosure"}
              \cup (IF t[1] = 0 THEN {"authentication_configuration"} ELSE {})

FindTest(r) ==
    /\ pc[r] = "start" /\ kind[r] = "execute"
    /\ \/ Fail(r) /\ UNCHANGED target
       \/ \E t \in Stored : Keep(r, "checking") /\ target' = [target EXCEPT ![r] = t]
    /\ UNCHANGED <<kind, project, clock, verdict, containers>>

Check(r) ==
    /\ pc[r] = "checking"
    /\ \E type \in TypesOf(target[r]), a \in Responses :
           verdict' = [verdict EXCEPT ![r] = Verdict(type, a)]
    /\ Keep(r, "recording")
    /\ UNCHANGED <<kind, project, clock, target, containers>>

Record(r) ==
    /\ pc[r] = "recording"
    /\ status' = [status EXCEPT ![target[r]] = verdict[r]]
    /\ Goto(r, "answered") \/ Goto(r, "lost")
    /\ UNCHANGED <<kind, project, clock, by, plan, todo, check, containers>>
---------------------------------------------------------------------------
\* Whatever a request awaits may raise, and the process may die; a container stays.
Stops(r) == /\ pc[r] \in Awaits
            /\ Fail(r)
            /\ UNCHANGED <<kind, project, clock, check, containers>>

\* The projects endpoint, with or without a url.
AddProject == /\ project = "none"
              /\ project' \in {"bare", "located"}
              /\ UNCHANGED <<kind, clock, store, pc, plan, todo, check, containers>>

Tick == /\ clock < MaxSecond
        /\ clock' = clock + 1
        /\ UNCHANGED <<kind, project, store, pc, plan, todo, check, containers>>

GenerateStep(r) == Locate(r) \/ List(r) \/ Reply(r) \/ Malformed(r)
ScanStep(r) == BeginScan(r) \/ StartContainer(r) \/ ScanExits(r) \/ ScanTimesOut(r) \/ Judge(r)
ExecuteStep(r) == FindTest(r) \/ Check(r) \/ Record(r)
Step(r) == GenerateStep(r) \/ ScanStep(r) \/ Insert(r) \/ ExecuteStep(r)

Next == \/ \E r \in Requests : Step(r) \/ Stops(r) \/ ContainerEnds(r)
        \/ AddProject
        \/ Tick

\* Every await of a request ends: the LLM client and the checkers have timeouts, the scan
\* has ZAP_TIMEOUT_S, MongoDB answers.
SafeSpec == Init /\ [][Next]_vars
Spec == SafeSpec /\ \A r \in Requests : WF_vars(Step(r))
---------------------------------------------------------------------------
(***************************************************************************)
(* Properties.                                                             *)
(***************************************************************************)
\* An execution whose verdict is in the database, whether or not its request was told.
Executed(r, t) == kind[r] = "execute" /\ pc[r] \in {"answered", "lost"} /\ target[r] = t

\* A status other than draft is what an execution returned for this test or what the scan
\* that inserted it found; and no test that was executed, and no alert of a scan that was
\* answered, is still a draft, however executions and scans overlap.
StatusIsEarned ==
    \A t \in Stored :
        /\ status[t] # "draft" => \/ \E r \in Requests : Executed(r, t) /\ verdict[r] = status[t]
                                  \/ kind[by[t]] = "scan" /\ status[t] = plan[by[t]][t]
        /\ status[t] = "draft" => /\ \A r \in Requests : ~Executed(r, t)
                                  /\ ~(kind[by[t]] = "scan" /\ pc[by[t]] = "answered")

\* Request r has no test <<s, 1>>; if it scanned, its first alert was numbered before s.
StartsElsewhere(r, s) ==
    /\ <<s, 1>> \notin DOMAIN plan[r]
    /\ kind[r] = "scan" => \E v \in DOMAIN plan[r] : v[2] = 1 /\ v[1] < s

\* Two requests have tests under one prefix only if one of them has no number 1 under it,
\* on which the other would have failed: a suite whose first item the LLM malformed, or a
\* report that was numbered while one second ended and the next began.
OriginsApart ==
    \A t, u \in Stored : t[1] = u[1] /\ by[t] # by[u] =>
        StartsElsewhere(by[t], t[1]) \/ StartsElsewhere(by[u], t[1])

\* What a request has stored is a beginning of what it planned, all of it if it was
\* answered: nobody else's documents are in between, whoever is refused.
SuitesAreOrdered ==
    \A r \in Requests : \A t, u \in DOMAIN plan[r] :
        /\ by[t] = r /\ u[2] < t[2] => by[u] = r
        /\ pc[r] = "answered" => by[t] = r

\* No alert is stored while the container that reports it may still write its report.
ReportIsComplete == \A t \in Stored : by[t] \notin containers

\* Every request ends.
RequestsEnd == \A r \in Requests : <>(pc[r] \in Ends)
===========================================================================

----------------------------- MODULE Generation -----------------------------
(***************************************************************************)
(* Generating the test suite of one project name of one owner:             *)
(* generate_test_cases_for_url of app/services/test_generation_service.py, *)
(* called by its endpoint or, after a decision of its own, by the agent of *)
(* app/services/agent_service.py.  A request finds or creates the project, *)
(* returns the tests there are, or has the LLM write some in batches and   *)
(* inserts them.                                                           *)
(*                                                                         *)
(* Every await separates two actions.  insert_many is ordered and stops at *)
(* its first error, but its documents are inserted one by one: another     *)
(* request may list or insert between two of them.  Two unique indexes     *)
(* hold: (owner_id, name) of projects and (project_id, test_id) of tests.  *)
(***************************************************************************)
EXTENDS Naturals

CONSTANTS Requests,
          Profiles,    \* numbers of batches a generation profile may ask for
          Quick,       \* that of the default profile, the agent's
          BatchSize    \* _BATCH_SIZE

ASSUME GenerationAssumption == /\ Profiles \subseteq Nat \ {0}
                               /\ Quick \in Profiles
                               /\ BatchSize \in Nat \ {0}

VARIABLES
    exists,    \* the project is in MongoDB
    located,   \* it has a url
    tests,     \* its tests, as <<number of test_id, request that inserted it>>
    pc,        \* pc[r]: what request r awaits next
    agent,     \* agent[r]: r is a request to the agent that has not decided yet
    todo,      \* todo[r]: batches still to ask for
    parsed,    \* parsed[r]: cases the LLM has given r
    upto,      \* upto[r]: documents r has inserted
    answer     \* answer[r]: the tests r has returned

vars == <<exists, located, tests, pc, agent, todo, parsed, upto, answer>>

Awaits == {"finding", "creating", "locating", "listing", "deciding", "generating", "saving"}

TypeOK == /\ exists \in BOOLEAN /\ located \in BOOLEAN
          /\ tests \subseteq (Nat \ {0}) \X Requests
          /\ pc \in [Requests -> Awaits \cup {"done", "failed", "lost"}]
          /\ agent \in [Requests -> BOOLEAN]
          /\ todo \in [Requests -> Nat]
          /\ parsed \in [Requests -> Nat]
          /\ upto \in [Requests -> Nat]
          /\ answer \in [Requests -> SUBSET ((Nat \ {0}) \X Requests)]

Init == /\ exists = FALSE /\ located = FALSE
        /\ tests = {}
        /\ pc = [r \in Requests |-> "finding"]
        /\ agent \in [Requests -> BOOLEAN]
        /\ todo \in {t \in [Requests -> Profiles] : \A r \in Requests : agent[r] => t[r] = Quick}
        /\ parsed = [r \in Requests |-> 0]
        /\ upto = [r \in Requests |-> 0]
        /\ answer = [r \in Requests |-> {}]

project == <<exists, located>>
work == <<todo, parsed, upto>>
Goto(r, where) == pc' = [pc EXCEPT ![r] = where]
---------------------------------------------------------------------------
(***************************************************************************)
(* The project.                                                            *)
(***************************************************************************)
\* The projects endpoint, with a url or without one; it answers 409 when there is the name.
AddProject ==
    /\ ~exists
    /\ exists' = TRUE
    /\ located' \in BOOLEAN
    /\ UNCHANGED <<tests, pc, agent, work, answer>>

\* The agent looks for the project without naming a url.
Find(r) ==
    /\ pc[r] = "finding"
    /\ Goto(r, IF ~exists THEN "creating" ELSE IF agent[r] \/ located THEN "listing" ELSE "locating")
    /\ UNCHANGED <<project, tests, agent, work, answer>>

Locate(r) ==
    /\ pc[r] = "locating"
    /\ located' = TRUE
    /\ Goto(r, "listing")
    /\ UNCHANGED <<exists, tests, agent, work, answer>>

\* The unique index refuses a second project of the name; nothing catches that here.
Create(r) ==
    /\ pc[r] = "creating"
    /\ \/ /\ ~exists
          /\ exists' = TRUE
          /\ located' = ~agent[r]
          /\ Goto(r, "listing")
       \/ /\ exists
          /\ Goto(r, "failed")
          /\ UNCHANGED project
    /\ UNCHANGED <<tests, agent, work, answer>>
---------------------------------------------------------------------------
(***************************************************************************)
(* The suite.                                                              *)
(***************************************************************************)
\* The agent's own request lists the tests only to count them.
List(r) ==
    /\ pc[r] = "listing"
    /\ IF agent[r] THEN Goto(r, "deciding") /\ UNCHANGED answer
       ELSE IF tests # {} THEN Goto(r, "done") /\ answer' = [answer EXCEPT ![r] = tests]
       ELSE Goto(r, "generating") /\ UNCHANGED answer
    /\ UNCHANGED <<project, tests, agent, work>>

\* The agent's model may raise, leave it at that, or ask for tests (also by a reply that
\* is no JSON); the project is then looked for again.
Decide(r) ==
    /\ pc[r] = "deciding"
    /\ \E where \in {"failed", "done", "finding"} : Goto(r, where)
    /\ agent' = [agent EXCEPT ![r] = FALSE]
    /\ UNCHANGED <<project, tests, work, answer>>

\* A page's context and one batch; the LLM may give fewer cases than asked for.
Batch(r) ==
    /\ pc[r] = "generating"
    /\ \E n \in 0..BatchSize : parsed' = [parsed EXCEPT ![r] = @ + n]
    /\ todo' = [todo EXCEPT ![r] = @ - 1]
    /\ Goto(r, IF todo[r] > 1 THEN "generating" ELSE IF parsed'[r] > 0 THEN "saving" ELSE "done")
    /\ UNCHANGED <<project, tests, agent, upto, answer>>

\* A batch that fails takes the earlier ones with it.
MutantBatchFails(r) ==
    /\ pc[r] = "generating"
    /\ Goto(r, "failed")
    /\ UNCHANGED <<project, tests, agent, work, answer>>

\* A batch raises, or its reply is no JSON twice; what earlier batches gave is kept.
BatchFails(r) ==
    /\ pc[r] = "generating"
    /\ Goto(r, IF parsed[r] > 0 THEN "saving" ELSE "failed")
    /\ UNCHANGED <<project, tests, agent, work, answer>>

\* insert_many(docs, ordered=False): a refused document does not stop the next one.
MutantSave(r) ==
    /\ pc[r] = "saving"
    /\ LET number == upto[r] + 1
       IN  /\ upto' = [upto EXCEPT ![r] = number]
           /\ tests' = IF \E s \in Requests : <<number, s>> \in tests
                       THEN tests ELSE tests \cup {<<number, r>>}
           /\ Goto(r, IF number < parsed[r] THEN "saving" ELSE "failed")
    /\ UNCHANGED <<project, agent, todo, parsed, answer>>

\* The test of that number is replaced.
MutantSaveReplaces(r) ==
    /\ pc[r] = "saving"
    /\ LET number == upto[r] + 1
       IN  /\ tests' = {t \in tests : t[1] # number} \cup {<<number, r>>}
           /\ upto' = [upto EXCEPT ![r] = number]
           /\ Goto(r, IF number < parsed[r] THEN "saving" ELSE "done")
           /\ answer' = IF number < parsed[r] THEN answer
                        ELSE [answer EXCEPT ![r] = {<<i, r>> : i \in 1..number}]
    /\ UNCHANGED <<project, agent, todo, parsed>>

\* A refused suite is generated again.
MutantSaveAgain(r) ==
    /\ pc[r] = "saving"
    /\ LET number == upto[r] + 1
       IN  \/ /\ \A s \in Requests : <<number, s>> \notin tests
              /\ tests' = tests \cup {<<number, r>>}
              /\ upto' = [upto EXCEPT ![r] = number]
              /\ Goto(r, IF number < parsed[r] THEN "saving" ELSE "done")
              /\ UNCHANGED <<todo, parsed>>
           \/ /\ \E s \in Requests : <<number, s>> \in tests
              /\ todo' = [todo EXCEPT ![r] = 1]
              /\ parsed' = [parsed EXCEPT ![r] = 0]
              /\ Goto(r, "generating")
              /\ UNCHANGED <<tests, upto>>
    /\ UNCHANGED <<project, agent, answer>>

\* MongoDB inserts one of the documents, numbered from 1, or refuses it and those after it.
Save(r) ==
    /\ pc[r] = "saving"
    /\ LET number == upto[r] + 1
       IN  \/ /\ \A s \in Requests : <<number, s>> \notin tests
              /\ tests' = tests \cup {<<number, r>>}
              /\ upto' = [upto EXCEPT ![r] = number]
              /\ Goto(r, IF number < parsed[r] THEN "saving" ELSE "done")
              /\ answer' = IF number < parsed[r] THEN answer
                           ELSE [answer EXCEPT ![r] = {<<i, r>> : i \in 1..number}]
           \/ /\ \E s \in Requests : <<number, s>> \in tests
              /\ Goto(r, "failed")
              /\ UNCHANGED <<tests, upto, answer>>
    /\ UNCHANGED <<project, agent, todo, parsed>>

\* The process or MongoDB stops, or an await raises that no clause catches.
Crash(r) ==
    /\ pc[r] \in Awaits
    /\ Goto(r, "lost")
    /\ UNCHANGED <<project, tests, agent, work, answer>>
---------------------------------------------------------------------------
Step(r) == \/ Find(r) \/ Locate(r) \/ Create(r) \/ List(r) \/ Decide(r)
           \/ Batch(r) \/ BatchFails(r) \/ Save(r)

Next == AddProject \/ \E r \in Requests : Step(r) \/ Crash(r)

\* Every await ends: MongoDB answers, a page load and a call of the LLM have timeouts.
Fairness == \A r \in Requests : WF_vars(Step(r))

SafeSpec == Init /\ [][Next]_vars
Spec == SafeSpec /\ Fairness
---------------------------------------------------------------------------
(***************************************************************************)
(* Properties.                                                             *)
(***************************************************************************)
\* However many requests generate at once, and whichever of them stop half-way, the
\* project's tests are the first ones of one suite, that of a single request.
OneSuite == \A t \in tests : /\ \A s \in tests : s[2] = t[2]
                             /\ \A i \in 1..t[1] : <<i, t[2]>> \in tests

\* docs/DEPLOYMENT_GUIDE.md:203, "existing projects reuse their old tests": what a request
\* was answered stays in the project; one that was answered its own tests had them all
\* inserted, and the project has no others.
AnswersHold ==
    \A r \in Requests : /\ answer[r] \subseteq tests
                        /\ pc[r] = "done" /\ upto[r] > 0 => answer[r] = tests /\ upto[r] = parsed[r]

\* "Keep what earlier batches produced": cases the LLM has given are discarded only
\* when another request has meanwhile filled the project, and then none of them is left.
WorkIsKept ==
    \A r \in Requests : pc[r] = "failed" /\ parsed[r] > 0
                            => upto[r] = 0 /\ \E s \in Requests \ {r} : <<1, s>> \in tests

\* A project with tests has a url (a ZAP scan refuses one without), whether the endpoint,
\* the agent or a generation created it and in whatever order they met.
UrlKnown == tests # {} => exists /\ located

\* Every request ends, whatever the LLM answers it.
RequestsEnd == \A r \in Requests : <>(pc[r] \in {"done", "failed", "lost"})
===========================================================================

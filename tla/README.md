# TLA+ models of AQuA's execution core

AQuA is a FastAPI backend (`src/backend/app`) with a React client: it generates UI tests
with an LLM and runs them as Playwright subprocesses, and it imports API specifications,
executes API tests and passive security scans as background jobs, and keeps their runs and
findings in MongoDB. This directory holds TLA+ models of the parts whose correctness
depends on the order of events, TLC configurations that check them, and proofs checked
by TLAPS.

Running: `tlc -config X.cfg MCX.tla`, `tlapm XProofs.tla`. Source paths below are relative
to `src/backend/app` unless they start otherwise. In `PROJECT.json`, `map` gives the source
lines of every definition, `runs` the checks, `mutants` a plausible defect that each checked
property detects, `hazards` the places of the code where a property is worth having.

## 1. The system

| Component | State it keeps | Operations | Modelled by |
|---|---|---|---|
| Worker boundary, `services/job_queue.py` | `_jobs`, `_tasks` of one process | submit, run/retry/time out, cancel, wait | `JobLifecycle`, `JobQueue` |
| Asynchronous API jobs, `api/v1/api_specs.py`, `db/repositories/api_run_repo.py` | `api_runs` documents, one per job, found by correlation id | execute-async, security-scan-async, cancel | `JobService`, `ApiJobs` |
| Polling client, `src/frontend/src/pages/ApiTestingPage.jsx` | the job shown, the polls left | start, poll, cancel | `JobPolling` |
| API security findings, `api_finding_repo.py`, `services/api_security_scan.py` | `api_findings`, unique by fingerprint | upsert by scans, PATCH of remediation | `ApiFindings` |
| Running a UI test, `services/test_run_service.py` | status and cached script of a test case | run, resume | `TestRun` |
| LLM client, `core/llm/` | slot semaphore, memory of models at their daily cap | chat with retry and fallback | `LlmClient` |
| Generation, `services/test_generation_service.py`, `agent_service.py`, `project_repo.py` | projects, test cases | add project, get-or-create, generate, save | `Generation` |
| Security tests, `services/security_*.py`, `zap_scanner.py`, `security_test_repo.py` | security tests and their status, unique by id; the containers that run | generate, scan, execute | `SecurityTests` |
| Specification import, `openapi_parser.py`, `openapi_import.py`, `api_spec_repo.py` | revisions of a project's specification, unique by checksum | parse, import | `OpenApi`, `SpecImport` |
| API execution, `api_executor.py`, `api_workflow.py` | the variables of one workflow | execute, assert, redact, carry values | `ApiCases` |
| Case generation and scoring, `api_case_generation.py`, `decision_scoring.py`, `postman_import.py` | none | ask, match, score; read a collection | `ApiCases` |
| Accounts; page context and retrieval; durable UI test runs and artifacts; URL checks; demo target | | | not modelled, section 7 |

How they interact. A request of the API runs as a coroutine of one event loop. For a job
it inserts a run, hands the queue a *factory* (a closure) and returns; the queue runs the
factory as a task under `asyncio.wait_for`. The factory reports to MongoDB by itself: the
queue knows nothing of the run. The cancel endpoint calls the queue, waits for the task,
then writes the run as well. So three parties write one document: an attempt, the attempts
that were abandoned before it (their calls are in the driver's threads and are not called
back by a cancellation), and the cancel handlers. The client sees both halves, the record and
the run, in one answer read in two steps, and several of its loops write one `activeJob`. A
passive scan also upserts findings, one call each, and a retried scan upserts them again. UI
tests have no queue: any number of requests may run the same test, and meet only in its
document. Test generation has none either: requests of a user and of the agent meet in the
project and its tests, kept apart only by unique indexes. So do the security tests, where in
addition what the LLM proposes and what ZAP reports share a collection and an execution may
judge a test that a scan is still judging. A specification passes from an import to a client,
which has cases made of it, executes them and chains them. All of them share one LLM client,
whose calls compete for slots and learn from each other which models are over their daily cap.

What is hard, and what therefore is modelled: an exception thrown by a timer or a
cancellation at whichever await the factory is in; the timer and a cancellation arriving
together; a task cancelled before its first step; a database call that lands after the
coroutine that issued it has gone; the process restarting between two writes; handlers
racing on one job; a client that polls on over a restart; several requests reading and
rewriting one cached script; an LLM call that raises after the test was marked as started; two
requests generating for one project, one of them stopped between two inserts, with numbers
that may have gaps; a killed docker client whose container works on; two imports that count
before either inserts; a model found at its cap by one call while another retries; references
that share targets or run in circles; which operation a path belongs to. `PROJECT.json` lists
each at its line.

What makes each part correct:

- *queue*: every record is closed once, when its task ends, with the status its end earned;
  retries are all used and never exceeded; an accepted cancellation decides; callers of
  cancel are released.
- *jobs*: no work is done for a job whose cancel was answered; what a client sees of the record
  and the run moves as `JobService` says; a verdict does not revert to "running"; every
  accepted job ends.
- *client*: what it tells of an end is so; it stops polling; it does not go on to show a job that ended.
- *findings*: concurrent and retried scans neither lose nor invent a sighting, and the
  history of a finding stays.
- *test runs*: the cached script is one that passed without help and that nobody has since
  seen fail; the status left behind is that of a run; every request ends.
- *generation*: a project has the tests of one request only, what was answered stays, what the
  LLM has given is not thrown away without need.
- *security tests*: a status is one somebody found; suites and reports mix only where the numbers
  leave room for it; a report is not read while it is written; every request ends.
- *specifications*: revisions grow with what was stored; all references that can be resolved are.
- *API cases*: a case belongs to its operation; a request without a token is judged by its
  rejection; a workflow hands on what its steps found, redacted.
- *LLM client*: slots are conserved and not held while waiting; a call leaves a model at its cap
  alone, fails for a limit only when nothing else is left, and ends.

## 2. Modules

Two of the modules are abstract specifications, of what a neighbour may rely on:

    JobLifecycle <- JobQueue            the queue, implemented by its code
                      |  INSTANCE
    JobService   <- ApiJobs             the endpoints, composed with the queue
          |  INSTANCE
       JobPolling                       the client, over all the endpoints promise

    OpenApi <- SpecImport, ApiCases <- ApiWorkspace    (EXTENDS: one workspace)

The others (`ApiFindings`, `TestRun`, `LlmClient`, `Generation`, `SecurityTests`) stand alone.
`MC*` modules give TLC what a `.cfg` cannot hold. `*Proofs` hold the theorems of their module,
`ApiPageProofs` those of the two that a user sees on one page of the client, `ApiWorkspace` and
`JobPolling`.

`JobLifecycle` is the abstract specification of the worker boundary: a job waits, begins
at most `1 + max_retries` attempts one after another, ends once, and a restart forgets it.

`JobQueue` is `AsyncJobQueue`. One action is what the event loop runs between two awaits.

| Code | Model |
|---|---|
| `JobRecord` | `record[j]`; error and result reduced to whether they are there |
| the task in `_tasks` | `task[j]`: none, created, attempt (inside `wait_for`), done |
| `task.cancel()`; the timer of `wait_for` | `cancelling[j]`; `expired[j]`: notes, thrown at the task's next step |
| a handler at `await task` in `cancel` | `waiting[c]` |
| `submit` | `Submit` |
| `_run`: first step | `Begin`; `NeverBegun` when cancelled before it |
| `_run`: `return` after the factory | `Return` |
| `_run`: the two retrying `except` clauses | `Raise` and `TimeOut`, both through `FailAttempt` |
| `_run`: `except CancelledError`, `finally` | `Cancelled`, `Closed` |
| `cancel` up to and after `await` | `Cancel`, `CancelReturns` |
| a new process | `Restart` |

`wait_for` is taken to behave as in Python 3.12 and later (the image of the Dockerfile
carries 3.12, `.python-version` says 3.14). In 3.11, which `pyproject.toml` still admits,
a result that is ready when the cancellation arrives wins over it, and `CancelWins` does
not speak of that version.

`JobService` is what a client of the endpoints may rely on: three functions, the status of the
record, that of the run and the attempts begun. What it promises is in two guards. A job is
seen to end with a verdict of its only attempt when the run has it already (`End`), and then
nothing but a cancel changes the run (`Report`, `Firm`). With retries it promises neither,
because a late write of an earlier attempt may still land.

`ApiJobs` composes `INSTANCE JobQueue` with the two endpoints. `run[j]` is the document,
`pc[j]` what the factory awaits (its running mark, the HTTP work, its verdict, its
exception), `inflight` the writes that have left a coroutine and not landed, `writing[c]` the
cancel handler between the queue's answer and its own write. Every factory action states
the queue's action it is part of: `Reported` is `Queue!Return`, `Excused` and
`DatabaseRaises` are `Queue!Raise`, and so on. `UsesQueue` says that the composition is a
behaviour of `JobQueue`, `KeepsService` that it is one of `JobService`, under the mapping
of `Service` (a job that was refused or forgotten is "lost"). The factories
differ where the code does: a scan reports inside its `try` block, so that a failing
report is excused like a failing scan, and it does not clear `failure_details`. `Faults`
selects what may go wrong.

`JobPolling` is the page's side, over `INSTANCE JobService` instead of its implementation.

| Code | Model |
|---|---|
| `execute`, `scan` up to the answer of the POST | `Click`, `PostAnswered`, `PostFails`; a scan is disabled while `activeJob` is set, an execution is not |
| `get_api_job`: the record's status, after the run's `await` | `Answer`, which reads it while the job goes on |
| `pollJob` on an answer | `Receive`; `left[j]` is `remaining` |
| 404 after a restart, any other error | `PollFails` |
| `cancelActiveJob`, `cancel_api_job` | `Cancel`, `CancelWritten`, `Cleared`; `CancelFails` |

`ApiFindings` has one action for each upsert, so that scans interleave between findings;
`AttemptAbandons` leaves an upsert of that attempt in flight (`late`), which may land at any
later time (`LandLate`) or never (`DropLate`). `Upserted` is the update document: `$inc`, `$setOnInsert` and the
`$set` of model defaults. `sent` and `reported` are history variables.

`TestRun` is one test case and any number of requests; each await separates two actions.
`script` values are identities: what a request had written, what it had repaired, or a
blank text. `seen` is a history variable with every execution and how it was classified.
The three outcomes come from `_decide_outcome` and the waiting test of
`_execute_and_evaluate`; which one an execution gets is arbitrary, except that a blank
script asserts nothing, exits with 0 and leaves no snapshot, and so passes. A request that
dies (`Crash`) may have made the write it was waiting for.

`LlmClient` is any number of calls of `chat` over one semaphore. From the answer of a post to the
next await the code is one action, so a call that gives its slot back and asks for it again does
both in `Switch`. `slots` is asyncio's semaphore with its queue; `exhausted` the models whose
`_exhausted_until` lies ahead, and `Lapse` the end of such a window, at any time. Which kind of 429
an answer is, short or for the day, is the environment's choice (`Respond`). `told` is a history
variable: the capped models a call has heard of itself.

`Generation` is one project name of one owner and any number of requests, of users or of the
agent (`agent[r]` until it has decided). Each await is an action, and `insert_many` one action for
each document (`Save`), since it is ordered but not atomic. `tests` are pairs of a number
(`TC001`, ...) and the request that inserted it; `upto[r]` counts the insertions of `r`. Page context,
prompts and contents of cases are left out; a batch gives any number of cases up to `BatchSize`.

`SecurityTests` is one project and any number of requests of three kinds. A document is known
by its `test_id`, a pair: second 0 and n for `SEC00n`, second s and n for `ZAP-s-n`.

| Code | Model |
|---|---|
| `generate_security_tests_for_url`: project, list, LLM, its correction | `Locate`, `List`, `Reply`, `Malformed`; `Items`: the numbers count the items the LLM lists, and the malformed ones leave gaps |
| `create_many`, for generated tests and alerts alike | `Insert`, one document at a time, the first duplicate ends it |
| `run_zap_scan` | `BeginScan`, `StartContainer`, `ScanExits` (report read, each alert numbered with the second it is reached in, `Stamps`) or `ScanTimesOut`, then `Judge` for each alert |
| the container | `containers`, left by `ContainerEnds`, which a timeout does not bring about |
| `run_security_test` | `FindTest`, `Check`, `Record` |
| a request that dies when its last write was made | `Lost`, in `Insert`, `Judge` and `Record` |
| the five checkers | `HeadersVerdict`, `CookieVerdict`, `InputVerdict`, `DisclosureVerdict`, `AuthVerdict`, on an answer of the target (`Response`); which type a test has is in `TypesOf` |

`OpenApi` holds the parser as operators: `Resolved` is `_resolve_local_refs` with its set of
names under resolution, `Operation` an entry with its schemas, response codes and schemes,
`Specification` the list in order of path and method. `SpecImport` adds the requests that
parse and import: `NextVersion` and `Create` are the two calls of the database that one import
makes, under the unique index on the checksum; `counted` is a history variable. `ApiCases` is
a user's session on one specification: `Listed` is the reply of the LLM turned into cases
(`Matches` picks the operation, `Normalized` and `Tokenless` the assertions, `Score` the
priority), `Collect` a Postman collection, `Execute` to `ExecuteFails` one case, and `Begins`
to `StepFails` a workflow, with `Substituted`, `Redacted` and `Extracted` for what one step
hands the next. An item's credential is none, a key of the API's own, an Authorization header, an
`auth_context` the executor sends a token for, or a hollow one, for which it sends nothing. A path is a sequence of segments, `"{}"` any parameter. `ApiWorkspace`
joins the two: the session opens what an import has answered.

## 3. Runs

| Run | Shows | Instance |
|---|---|---|
| `JobQueue` | `ClosedWhenDone`, `FailedWhenExhausted`, `CancelWins`, `CancelAnswered`, and that the queue implements `JobLifecycle`, its liveness included | 2 jobs, 2 handlers, up to 2 retries |
| `ApiJobs` | `CancelStopsWork`, `PassedRunIsClean`, `NoRegression`, `JobsEnd`, `UsesQueue`, `KeepsService` under timeouts, database errors and restarts | 1 job of either kind, 2 handlers, up to 2 retries |
| `JobPolling` | `ToldIsTrue`, `WorkspaceIsFreed`, `PollingEnds` over everything `JobService` allows | an execution and a scan, 2 polls each, a cancel at a time, restarts |
| `ApiFindings` | `NoScanLost`, `CountsAreEarned`, `HistoryKept` | 2 findings, 2 scans, 1 retry, 1 PATCH |
| `TestRun` | `CacheIsTrusted`, `StatusIsEarned`, `RequestsEnd` | 3 requests |
| `LlmClient` | `SlotsAccounted`, `CapIsHeeded`, `LimitedForCause`, `CallsEnd` | 3 calls, 2 slots, 2 models, 2 retries |
| `Generation` | `OneSuite`, `AnswersHold`, `WorkIsKept`, `RequestsEnd` | 3 requests, batches of 2, 1 or 2 batches |
| `SecurityTests` | `TypeOK`, `StatusIsEarned`, `OriginsApart`, `SuitesAreOrdered`, `ReportIsComplete`, `RequestsEnd` | 3 requests in three mixtures of kinds, 2 items or alerts, 2 seconds, 4 answers of a target |
| `ApiWorkspace` | `WorkspaceTypeOK`, `RevisionsFollowAnswers`, `CasesReachOperations`, `RejectionsAreJudged`, `ValuesAreCarried`, `ReferencesAreResolved` | 3 imports, with and without a text in common; documents of 5 operations and of all pairs of schemas over 3 names; replies of 1 item with any of the five credentials, workflows of 3 steps |
| `ApiJobsTimeoutLost`, `ApiFindingsReopened`, `ApiWorkspaceTokens` | one statement of the documentation that the code does not keep, section 5 | the smallest that shows it |

The bounds and why they are enough. Jobs meet only in handlers, which cancel one job at a
time, so two jobs show that a step of one leaves the other alone and one job is enough for
its own run. Two handlers are needed for the second cancel of a job that is being
cancelled or has ended. Two retries give a first, a middle and a last attempt; a write of the
first can still be in flight in the third. The client disables a second execution and a second
scan while one is out, so that one of each is all that can share `activeJob`; its 120 polls
repeat the two. Two scans of two findings give every order of
upserts of one fingerprint and scans stopped half-way. Three requests on one test allow
the pattern that matters for the cache: one reads a script, another finds it stale and clears
it, a third stores a new one. Three calls over two slots leave one waiting, which is handed a slot
that another gives back; with two retries a call can sleep, switch and run out. The code's 12
retries repeat the middle one. Three requests generating for one project are a winner, one that
is refused and one that reuses; suites of up to four tests, from two batches of two, have first,
middle and last insertions and short batches. Two numbers of security tests are the fewest in
which a suite can have a gap at its beginning, which is what lets two suites mix; two seconds
give reports numbered in one second, in different ones, and across the end of one. The mixtures of
kinds have two requests of a kind and one of another. Three imports give a count that another one
has overtaken and a duplicate that is refused. Two schemas over three names, one of them never
defined, give shared, circular, remote and dangling references, singly and together. The three
paths of `Posts` have a parameter that shadows a literal, a public, a protected, an inheriting and an
optional operation. Deadlock is not checked where the system really stops: all
requests were made, or the patches are used up.

Symmetry is used only in runs that check no liveness property.

Every invariant of a run is also a theorem (section 6). A type invariant that is proved is not
repeated by a run, except in `SecurityTests` and `ApiWorkspace`; nor are `EndIsFinal`, `EffortFitsModel` and `UrlKnown`. The definitions named `Mutant...` are
defects of the code they precede; each makes TLC refute a property, which shows that the
property says something about that code.

## 4. Fairness

`JobQueue` and `ApiJobs` assume weak fairness of what the event loop does by itself: a
task that can step steps, a due timer fires, a released handler continues. Nothing is
assumed of a factory, a target or the database: `JobsEnd` and `CancelAnswered` hold even if
none of them ever answers, because `wait_for` and `task.cancel()` interrupt any await.
`Expire` is fair because every attempt has a finite positive timeout, which `submit` insists on.

`JobPolling` assumes that a request of the client is answered or fails, and that the browser's
timer fires (`ClientStep`); nothing of the server, whose jobs need not end: `PollingEnds` is owed
to the bound on polls, for a job cancelled before its first step stays "queued" for good.

`TestRun` assumes that each await ends: the LLM client makes a bounded number of attempts,
the subprocess is killed at `PLAYWRIGHT_RUN_TIMEOUT_S`, MongoDB answers. A request that dies
instead (`Crash`) counts as ended, not as answered. `Generation` assumes the same of its awaits: a
page load has a timeout of 30 s; and so does `SecurityTests`, whose scan has `ZAP_TIMEOUT_S`.
Its containers are not assumed to end.

`LlmClient` justifies what the others assume of it: given that a post ends (`LLM_TIMEOUT_S`) and that
a sleep ends, `CallsEnd` shows that a call does, in whichever order slots, limits and windows come
and go. Windows need not end for it.

`ApiFindings` and `ApiWorkspace` state no fairness and no liveness: their requests are sequences
of calls without a loop.

## 5. What the runs refute

Each of these runs checks one sentence of the repository's documentation or comments and
ends with a counterexample; `PROJECT.json` quotes the sentence.

- `ApiJobsTimeoutLost`: a job that times out leaves its run "running" for ever. `wait_for` ends
  the attempt with `CancelledError`, which passes `except Exception` in the factory
  (`api/v1/api_specs.py:153`); the queue marks only its own record.
- `ApiFindingsReopened`: the upsert's `$set` carries the default remediation state, so a
  later scan reopens a finding that the user had closed.
- `ApiWorkspaceTokens`: a workflow extracts from the result of a step after its body was redacted
  (`api_workflow.py:23`, `api_executor.py:137`), so a step that depends on a token an earlier one
  obtained is sent "[REDACTED]". `tasks.md:45` claims "dependent-request support for authenticated
  workflows", and the page offers `access_token` at `$.token` (`ApiTestingPage.jsx:225`).
  `ValuesAreCarried` says what does hold: all values that are not under a sensitive key are handed on.

The same reading shows more, for which no run is spent because a run would add nothing to the
lines themselves. All of it is behaviour of the models too, so the properties are stated around it.

- *Jobs*. Cancelling a job that has ended overwrites its run with "cancelled", and a write of the
  cancelled factory that lands after that makes it "running" again (`api_specs.py:204`). The answer
  of `GET /jobs/{job_id}` may hold a run older than its record (`:194`). A job the queue refuses
  leaves a run that stays queued (`:340`).
- *Client*. A poll that fails leaves `activeJob` set, and scans disabled, until the user cancels it
  (`ApiTestingPage.jsx:119`).
- *Findings*. An attempt of a retried scan counts its findings again (`api_finding_repo.py:48`).
- *UI tests*. `resume` executes a blank answer of the LLM, which passes without having checked anything
  and without a verdict of the LLM, while `run` refuses it (`test_run_service.py:398`, against
  `docs/DEPLOYMENT_GUIDE.md:199`); `TestRun` has it (`Blank`). A verdict whose LLM call raises leaves
  the executed test at the "waiting" of its start (`test_run_service.py:165`). A test that passes
  after `resume` is not cached (`:408`).
- *LLM client*. "try again in 612ms" is read as 612 minutes (`rate_limits.py:8`).
- *Generation*. A request that meets an insertion in progress is answered a part of the suite
  (`test_generation_service.py:146`). Two requests with different urls can both set the url of a project
  that had none (`project_repo.py:71`).
- *Security tests*. The clock is read for each alert (`zap_scanner.py:173`), so a report that is numbered
  across the end of a second may share the prefix of another one; `OriginsApart` names this exception. Alerts of a scan, or a part of a suite, are taken for the suite by the next
  generation (`security_generation_service.py:127`). The timeout of a scan kills the docker client; the
  container goes on, while its report directory is removed (`zap_scanner.py:111`).
- *Specifications and cases*. A literal path after a template that fits it is never matched, and a url
  of a server other than the first stays in the path (`api_case_generation.py:51`). A case without a token
  expects 401 of an operation whose security is optional, or is given as a key in a header (`:158`). An item
  with an `auth_context` that has no token, or a scheme but bearer and basic, keeps its own assertions
  although no token is sent (`:159`, `api_executor.py:98`), and may pass on 200; the comment at `:160`
  does not say so, and `RejectionsAreJudged` names this exception. A case
  without assertions passes (`api_executor.py:64`). A path of `extract` into a list that is
  too short raises an uncaught `IndexError` (`api_executor.py:51`).

## 6. Proofs

For every set of jobs, handlers, requests, scans, calls and models and every bound:

- `JobQueueProofs`. The inductive invariant is `QueueInv`: it ties the record to the task
  (a created task has a fresh record, a task in an attempt is running with
  `1..max_retries + 1` attempts begun, an ended one is closed or never began), and the
  cancellation and timer notes to tasks that can hold them. It is needed because none of
  the properties is inductive: `FailedWhenExhausted`, for one, says nothing of a record that is
  running. From it follow `TypeCorrect`, `ClosesRecords`, `RetriesAreUsed`, `CancelDecides`,
  `EndsForGood` (an action property) and `ImplementsLifecycle`, the safety part of the
  refinement, step by step under the mapping of `JobQueue`.
- `ApiJobsProofs`. `ImplementsQueue`: every action of `ApiJobs` is a step of `JobQueue` or
  leaves the queue's variables alone; so everything proved of the queue holds under the
  endpoints. `TypeCorrect`, and `CancelStops`: the factory is in its body exactly while the
  task is in an attempt, and a handler about to write has seen the task end. `ImplementsService`
  is the refinement of `JobService`, for any number of jobs, handlers and retries. Its
  invariant (`ServeInv`) says how the request, the record and the task of a job go together, and that
  its first attempt has at most the one write in flight that it awaits (`InOrder`): so a verdict is in
  the run before it is in the record, and nothing is left that could overwrite it. Each action is then
  shown to be a step of `JobService` or a stutter. `VerdictsStay` proves `NoRegression` with one more
  fact, that a running mark in flight is alone and finds no verdict (`Marks`), and `PassesAreClean` that
  a passed execution's run holds no failure.
- `ApiPageProofs`, polling. `TypeCorrect`; `TellsTheTruth`: an end once told stays the record's, and
  a passing one the run's, because `JobService` lets a firm verdict be changed by a cancel
  only; `FreesWorkspace`: what is shown is a job that is polled, one whose poll failed, or nothing.
  With `ImplementsService` they hold of the client on the real endpoints.
- `ApiPageProofs`, workspace. `WorkspaceInv` has four parts, each inductive with what the imports
  guarantee (`Answerable`: what is answered was read from an accepted document).
  `ImportInv`: what a request counted is stored, is not itself, and includes all that its members had
  counted; so `RevisionsHold` is a comparison of cardinalities. `CasesInv`: every case in the list is
  one that `CaseOf` made for the specification still in use, or was collected; hence `CasesReach` and
  `RejectionsJudged`, for any document, reply and collection, and, with the range of `Score`,
  `WorkspaceTypeCorrect`. `FlowInv`: what a step was sent under a name is what the last step before it
  that extracted that name read from its redacted answer (`Handed`), all steps before it have passed
  (`AllPassed`), and what is held is so for the step to come; hence `ValuesCarried`, where redaction
  leaves the value alone. `SchemasInv` says only that schemas were resolved; the work is in
  the lemmas on `_resolve_local_refs`. They show that the recursion ends (`ResolverExists`: by the
  names that may still be followed), and that the names under resolution always lead to those of the value
  at hand in as many steps as there are of them (`Chained`), so that a name met again closes a
  cycle (`OutcomesAreFine`); `ReferencesResolved` follows for documents of any number of names.
- `ApiFindingsProofs`. `TypeCorrect`; `HistoryIsKept`, an action property; and `NoScanIsLost`. Its
  invariant (`SavedAreCounted`) says that the count of a finding is at least the number of scans whose
  current or completed attempt has saved it (`Saved(f)`), a finite set by assumption; saving adds one scan
  to that set and one to the count, a retry takes scans out of it, and no other step changes it.
  `CountsEarned` is the other side: the invariant `Earned` says that what is counted and what is still
  in flight were sent (`Covered`), and that a scan has sent a finding once for each attempt it has begun,
  at most (`SentInBounds`). The sum over scans is opened as a recursive function over finite sets
  (`SumIsRecursive`).
- `SecurityTestsProofs`. The inductive invariant says for each request what it has planned at
  the place it has reached, which of it is stored and owned by it, and how far its alerts are
  judged. Insertion is in order of numbers (the smallest one left exists by well-foundedness), so what
  is stored is a beginning of the plan. From it: `TypeCorrect`, `SuitesStayOrdered`, `ReportsAreComplete`,
  `OriginsStayApart` (two requests that both have number 1 under a prefix compete for that
  document before any other of it, and the one refused stores none) and, with what is
  known of executions that have ended, `StatusesAreEarned`.
- `TestRunProofs`. The inductive invariant `RunInv` says where each script can have come
  from, what the request that holds it has executed, and that a request about to store or
  clear the cache carries the outcome of its last execution. From it: `TypeCorrect`,
  `CacheTrusted` and, with `StatusOwned` (the status is that of an answered request, or a mark of
  one still under way or lost), `StatusEarned`.
- `LlmClientProofs`. The inductive invariant `ClientInv` adds to the slot accounting what a call may
  hold at each place. Two lemmas say that acquiring and releasing keep a semaphore sound, the
  handing over of a slot to the longest waiting call included; each action then is one or both of
  them. From it: `TypeCorrect` (with it the bound on attempts), `SlotsKept`, `CapHeeded` and `EffortFits`.
  `LimitsHaveCause`, an action property, needs types only: just `GiveUp` and `Capped` end a call so.
- `GenerationProofs`. The inductive invariant `GenInv` says that `upto` is the whole truth about
  `tests`, that at most one request has inserted any, and what a request has asked and inserted by
  the place it has reached. The step that matters is `Save`: a request whose number 1 is accepted
  finds the project empty, and from then on every other one is refused at number 1. From it:
  `TypeCorrect`, `SuitesDoNotMix`, `AnswersStand`, `KeepsWork` and `KnowsUrl`.

Assumptions: `QueueAssumption`, `ApiAssumption`, `PollingAssumption`, `FindingsAssumption`,
`SecurityAssumption`, `RunAssumption`, `LlmAssumption`, `GenerationAssumption`, `NamesAssumption`,
`ImportAssumption` and `SessionAssumption`, all checked by TLC on the instances; they say that bounds are numbers (of
slots, batches, items and seconds: positive), that the scans are finitely many, that chains are not
empty, and that the values standing for "none" are not elements of the sets they are added to. The last
three say what a document, a reply, a collection and a workflow are: a document refers to finitely many
names and, once accepted, is a list of paths with lists of operations (`parse_openapi_document` walks it
so); items, folders and steps come in lists; the client sends no workflow without a step
(`ApiTestingPage.jsx:147`).

The prover has no induction over data. Where a proof needs it, a recursive function is opened as the
`CHOOSE` that defines it, a solution is built up to each number (or finite set), and a least
counterexample, which exists by `WFMin`, is refuted: `JoinsExist` (flattening of lists), `WithinSteps`
(paths of references), `ResolverExists`, `LevelsAreOutcomes` and `SumIsRecursive` are of this kind. For this
`Resolved` is a recursive function of a pair, and lists are put together with `FlattenSeq`.

Only model-checked: all liveness (`CancelAnswered`, `JobsEnd`, `PollingEnds`, `RequestsEnd`, `CallsEnd`, the
fairness parts of `KeepsLifecycle` and of `UsesQueue`), since the prover does not handle fairness and
`ENABLED`. The safety of these two is proved, in `ImplementsLifecycle` and `ImplementsQueue`.

## 7. Abstractions, and what is left out

- Texts (errors, results, scripts, evidence) are reduced to whether they exist or to an
  identity. Times are reduced to whether a timer has fired, and to the second in which an alert of
  ZAP is numbered; the system clock is taken not to run backwards. Two answers of the LLM are taken to be different texts.
- Operation ids of one specification are taken to be distinct, as OpenAPI requires: a scan
  then meets each fingerprint once.
- A MongoDB update of one document is atomic. It lands once, late or never; the driver's
  own retry is not modelled.
- `TestRun` leaves out the script files and artifacts on disk, which concurrent runs of
  one test share, and which inputs a script asks for.
- `JobPolling` leaves out the list of cases that a result is written back to by index.
- In `SecurityTests` a target answers each check arbitrarily, out of `Responses`; DNS,
  redirects and the texts of findings are left out, and so is the page that generation reads.
- In `OpenApi` a document is where its fields are, not its YAML; a schema's values nest two deep and
  lists nest like dicts. In `ApiCases` a body is flat, a JSON path one key, the one sensitive key is "token",
  and an assertion other than the status holds or not as the answer says. A url that is
  refused is a failure like any other.
- The process is one worker, as `docs/DEPLOYMENT.md` prescribes for the local queue.
- Not modelled: registration (`auth.py:54` looks for a name, then inserts it, with no
  index to stop the second of two), password hashing and tokens (cryptography over strings), URL
  classification and DNS, page extraction and vector search (data without control),
  the repositories of UI test runs and artifacts, which no endpoint uses, the demo target, presentation in
  the client, and the endpoints that only list.

## 8. What is left

1. `TestRun` with the artifact directory that concurrent runs of one test share, and the inputs a
   script asks for.
2. Registration, as two requests for one name.
3. `SpecImport` against an abstract list of revisions, and what a resolved schema still holds of the
   document's own keys, as theorems of their own.

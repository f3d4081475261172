------------------------------ MODULE ApiCases ------------------------------
(***************************************************************************)
(* What a user does with a specification: have test cases generated        *)
(* (app/services/api_case_generation.py, decision_scoring.py) or taken     *)
(* from a Postman collection (postman_import.py), execute them             *)
(* (api_executor.py) and run workflows, whose steps hand values on         *)
(* (api_workflow.py).  One session; every answer of the LLM and of the API *)
(* under test is its own.                                                  *)
(***************************************************************************)
EXTENDS OpenApi, Integers

CONSTANTS Replies,       \* what the LLM may list: sequences of items
          Collections,   \* Postman collections
          Workflows,     \* sequences of steps
          Answers        \* what the API under test may answer

RawAssertion == [form : STRING, kind : STRING, code : Nat]
ReplyItem == [method : STRING, server : STRING, path : Seq(STRING), credential : STRING, valid : BOOLEAN,
              priority : STRING, category : STRING,
              assertions : Seq(RawAssertion)]

\* The client runs no workflow without a step.
ASSUME SessionAssumption ==
    /\ Replies \subseteq Seq(ReplyItem)
    /\ Collections \subseteq Seq([items : Seq([url : Seq(STRING)])])
    /\ \A w \in Workflows : w # << >> /\ w \in Seq(Range(w))

VARIABLES
    source,      \* the document the session works with
    spec,        \* its specification, as /parse or the list of the saved ones answered it
    phase,       \* what the session awaits: nothing (idle), the LLM, a case, a step
    cases,       \* the generated or collected cases
    trying,      \* the case being executed
    result,      \* {} or the last executed case with its answer and verdict
    workflow,    \* the steps of the workflow that runs or ran last
    variables,   \* what its steps have extracted
    sent,        \* history: the variables each step was sent with
    answered     \* history: what each step was answered

sessionVars == <<source, spec, phase, cases, trying, result, workflow, variables, sent, answered>>
flowVars == <<workflow, variables, sent, answered>>

AssertionKinds == {"status", "header", "json_field", "content_type", "response_time_ms", "json_schema"}
Sensitive == {"token"}
Variables == UNION {UNION {DOMAIN w[i].extract \cup w[i].uses : i \in DOMAIN w} : w \in Workflows}

SessionTypeOK ==
    /\ phase \in {"idle", "asking", "again", "executing", "stepping"}
    /\ \A i \in DOMAIN cases : /\ cases[i].score \in 0..100
                               /\ \A j \in DOMAIN cases[i].assertions :
                                      cases[i].assertions[j].kind \in AssertionKinds
    /\ trying \in 0..Len(cases)
    /\ Cardinality(result) <= 1
    /\ workflow \in Workflows \cup {<< >>}
    /\ DOMAIN variables \subseteq Variables
    /\ Len(answered) <= Len(sent) /\ Len(sent) <= Len(workflow)

SessionInit ==
    /\ source = NoDocument
    /\ spec = [servers |-> << >>, operations |-> << >>]
    /\ phase = "idle"
    /\ cases = << >>
    /\ trying = 0
    /\ result = {}
    /\ workflow = << >>
    /\ variables = << >>
    /\ sent = << >>
    /\ answered = << >>

\* bound: a session opens one specification, and has cases or runs a workflow once.
Fresh == phase = "idle" /\ source # NoDocument /\ cases = << >> /\ workflow = << >>

\* The answer of /parse, or one of the saved specifications.
Open(document) ==
    /\ source = NoDocument
    /\ source' = document
    /\ spec' = Specification(document)
    /\ UNCHANGED <<phase, cases, trying, result, flowVars>>
---------------------------------------------------------------------------
(***************************************************************************)
(* Generation.  An item of a reply names a method and a path, perhaps      *)
(* behind a server, and a credential: none; a key of the API's own, in a   *)
(* header or the query; an Authorization header; an auth_context the       *)
(* executor sends a token for (context); or one it sends nothing for, as   *)
(* it has no token or a scheme but bearer and basic (hollow).              *)
(***************************************************************************)
Alias(kind) == CASE kind = "status_code" -> "status"
                 [] kind \in {"body", "json_path"} -> "json_field"
                 [] kind = "response_time" -> "response_time_ms"
                 [] OTHER -> kind

\* Keeps the kinds the LLM made up.
MutantNormalized(raw) == IF raw.form = "other" THEN << >>
                         ELSE <<[kind |-> Alias(raw.kind), code |-> raw.code]>>

\* _normalize_assertion; code is the first three digits, 0 without any.
Normalized(raw) ==
    CASE raw.form = "text" /\ raw.code # 0 -> <<[kind |-> "status", code |-> raw.code]>>
      [] /\ raw.form = "object" /\ Alias(raw.kind) \in AssertionKinds
         /\ Alias(raw.kind) = "status" => raw.code # 0 -> <<[kind |-> Alias(raw.kind), code |-> raw.code]>>
      [] OTHER -> << >>

AllNormalized(raws) == FlattenSeq([i \in DOMAIN raws |-> Normalized(raws[i])])

\* score_test_case, for a case without severity or history.
Score(priority, category, steps) ==
    LET points == CASE priority = "high" -> 30 [] priority = "medium" -> 20
                    [] priority = "low" -> 10 [] OTHER -> 15
        risk == CASE category = "negative_test" -> 25 [] category = "edge_case" -> 15 [] OTHER -> 5
        cost == IF steps <= 3 THEN 10 ELSE IF steps >= 13 THEN -10 ELSE 10 - 2 * (steps - 3)
        total == points + risk + 15 + cost
    IN  IF total < 0 THEN 0 ELSE IF total > 100 THEN 100 ELSE total

\* A parameter of a path is filled with one segment.
Fits(path, filled) == /\ Len(path) = Len(filled)
                      /\ \A i \in DOMAIN path : path[i] \in {"{}", filled[i]}

\* Any operation of the path will do.
MutantMatches(item) == {i \in DOMAIN spec.operations : Fits(spec.operations[i].path, item.path)}

\* Servers are taken to be different hosts; one that is not the specification's stays in
\* the path, which then fits nothing.
Matches(item) ==
    {i \in DOMAIN spec.operations :
        /\ item.server \in {""} \cup {spec.servers[s] : s \in DOMAIN spec.servers}
        /\ spec.operations[i].method = item.method
        /\ Fits(spec.operations[i].path, item.path)}

Base == IF spec.servers = << >> THEN "" ELSE spec.servers[1]

\* Leaves alone what has a header of its own.
MutantTokenless(operation, item) == operation.auth # {} /\ item.credential = "none"

Tokenless(operation, item) == operation.auth # {} /\ item.credential \in {"none", "key"}

\* The case of an item that matches: behind the first server, whichever server the item
\* named, with 401 for the only outcome if it has no token.
CaseOf(item) ==
    LET i == CHOOSE i \in Matches(item) : \A j \in Matches(item) : i <= j
        asserted == IF Tokenless(spec.operations[i], item) THEN <<[kind |-> "status", code |-> 401]>>
                    ELSE AllNormalized(item.assertions)
        priority == IF item.priority # "" THEN item.priority
                    ELSE IF item.method = "GET" THEN "medium" ELSE "high"
    IN  [operation |-> i, method |-> item.method, server |-> Base, credential |-> item.credential,
         path |-> (IF item.server \in {"", Base} THEN << >> ELSE <<item.server>>) \o item.path,
         assertions |-> asserted,
         score |-> Score(priority, item.category, IF asserted = << >> THEN 1 ELSE Len(asserted))]

Ask == /\ Fresh
       /\ phase' = "asking"
       /\ UNCHANGED <<source, spec, cases, trying, result, flowVars>>

\* No JSON: the LLM is asked to correct it, once.  No array, or no item that matches an
\* operation and validates: refused.
Refused == /\ phase \in {"asking", "again"}
           /\ phase' \in IF phase = "asking" THEN {"again", "idle"} ELSE {"idle"}
           /\ UNCHANGED <<source, spec, cases, trying, result, flowVars>>

\* An item that matches no operation, or is refused by the model, makes no case.
CasesOf(item) == IF Matches(item) # {} /\ item.valid THEN <<CaseOf(item)>> ELSE << >>

Listed == /\ phase \in {"asking", "again"}
          /\ \E reply \in Replies :
                cases' = FlattenSeq([i \in DOMAIN reply |-> CasesOf(reply[i])])
          /\ phase' = "idle"
          /\ UNCHANGED <<source, spec, trying, result, flowVars>>

\* parse_postman_collection: folders are walked in place, what is no request or has no url
\* is left out.  Such cases assert nothing.
RequestOf(entry) ==
    IF entry.url = << >> THEN << >>
    ELSE <<[operation |-> 0, method |-> "GET", server |-> Head(entry.url), credential |-> "none",
            path |-> Tail(entry.url), assertions |-> << >>, score |-> 50]>>

Walk(items) == FlattenSeq([i \in DOMAIN items |-> RequestOf(items[i])])

Collect == /\ Fresh
           /\ \E c \in Collections : cases' = FlattenSeq([f \in DOMAIN c |-> Walk(c[f].items)])
           /\ UNCHANGED <<source, spec, phase, trying, result, flowVars>>
---------------------------------------------------------------------------
(***************************************************************************)
(* Execution.                                                              *)
(***************************************************************************)
\* Every assertion holds, so that a case without one passes; of all but the status the
\* answer tells whether it holds.
Passed(assertions, answer) ==
    \A i \in DOMAIN assertions : IF assertions[i].kind = "status" THEN answer.code = assertions[i].code
                                 ELSE answer.holds

\* validate_target_url refuses a url without a host.
Execute(i) == /\ phase = "idle" /\ i \in DOMAIN cases /\ result = {}
              /\ cases[i].server # ""
              /\ trying' = i
              /\ phase' = "executing"
              /\ UNCHANGED <<source, spec, cases, result, flowVars>>

\* The run is inserted with the result.
Executed == /\ phase = "executing"
            /\ \E a \in Answers :
                  result' = {[case |-> cases[trying], answer |-> a,
                              passed |-> Passed(cases[trying].assertions, a)]}
            /\ phase' = "idle"
            /\ UNCHANGED <<source, spec, cases, trying, flowVars>>

\* The target cannot be reached, or the run not be inserted: the request fails without a run.
ExecuteFails == /\ phase = "executing"
                /\ phase' = "idle"
                /\ UNCHANGED <<source, spec, cases, trying, result, flowVars>>
---------------------------------------------------------------------------
(***************************************************************************)
(* Workflows.                                                              *)
(***************************************************************************)
\* A step's own variables win over extracted ones.
MutantCarried(step, extracted) == Updated(extracted, step.own)

\* The variables a step has.
Carried(step, extracted) == Updated(step.own, extracted)

\* _substitute: an unknown variable stays where it is.
Substituted(step, carried) == [v \in step.uses |-> IF v \in DOMAIN carried THEN carried[v] ELSE "${}"]

Redacted(body) == [k \in DOMAIN body |-> IF k \in Sensitive THEN "[REDACTED]" ELSE body[k]]

\* What a step leaves: read from the result, whose body is redacted; null is not kept.
Extracted(step, body) ==
    LET found == {v \in DOMAIN step.extract : step.extract[v] \in DOMAIN body}
    IN  [v \in found |-> Redacted(body)[step.extract[v]]]

\* The client puts workflows together from operations of the specification.
Begins(w) == /\ Fresh
             /\ \A i \in DOMAIN w : Matches(w[i]) # {}
             /\ workflow' = w
             /\ sent' = <<Substituted(w[1], w[1].own)>>
             /\ phase' = "stepping"
             /\ UNCHANGED <<source, spec, cases, trying, result, variables, answered>>

\* A step that fails is the last; the others hand on what they extract.
StepAnswered ==
    LET i == Len(sent)
        next == workflow[i + 1]
    IN  /\ phase = "stepping"
        /\ \E a \in Answers :
              /\ answered' = Append(answered, a)
              /\ IF Passed(workflow[i].assertions, a)
                 THEN /\ variables' = Updated(variables, Extracted(workflow[i], a.body))
                      /\ IF i < Len(workflow)
                         THEN /\ sent' = Append(sent, Substituted(next, Carried(next, variables')))
                              /\ UNCHANGED phase
                         ELSE phase' = "idle" /\ UNCHANGED sent
                 ELSE phase' = "idle" /\ UNCHANGED <<variables, sent>>
        /\ UNCHANGED <<source, spec, cases, trying, result, workflow>>

\* A url is refused, the target does not answer, or a list is shorter than a path of
\* extract supposes: the request fails and what its steps did is not reported.
StepFails == /\ phase = "stepping"
             /\ phase' = "idle"
             /\ UNCHANGED <<source, spec, cases, trying, result, flowVars>>

SessionStep == \/ Ask \/ Refused \/ Listed \/ Collect
               \/ \E i \in DOMAIN cases : Execute(i)
               \/ Executed \/ ExecuteFails
               \/ \E w \in Workflows : Begins(w)
               \/ StepAnswered \/ StepFails
---------------------------------------------------------------------------
(***************************************************************************)
(* Properties.                                                             *)
(***************************************************************************)
\* A generated case is one of an operation of the specification: its method, and its path
\* with the parameters filled in.  Only an item that names another server than the first
\* does not reach its operation: the server stays in the path.
CasesReachOperations ==
    \A i \in DOMAIN cases :
        LET case == cases[i]
        IN  case.operation # 0 =>
                /\ spec.operations[case.operation].method = case.method
                /\ \/ Fits(spec.operations[case.operation].path, case.path)
                   \/ Head(case.path) \in {spec.servers[s] : s \in 2..Len(spec.servers)}

\* The operation an API serves a request by: of those that fit the one with the fewest
\* parameters.
Served(case) ==
    LET fits == {i \in DOMAIN spec.operations : /\ spec.operations[i].method = case.method
                                                /\ Fits(spec.operations[i].path, case.path)}
        open(i) == Cardinality({k \in DOMAIN case.path : spec.operations[i].path[k] = "{}"})
    IN  {i \in fits : \A j \in fits : open(i) <= open(j)}

\* The document wants a credential for the operation: it lists alternatives, none empty.
Demands(i) ==
    \E p \in DOMAIN source.paths : \E e \in DOMAIN source.paths[p].operations :
        LET entry == source.paths[p].operations[e]
        IN  /\ source.paths[p].path = spec.operations[i].path
            /\ entry.method = spec.operations[i].method
            /\ Security(source, entry) # {} /\ {} \notin Security(source, entry)

\* The API rejects what its document says it rejects.
Conforms(r) == \A i \in Served(r.case) :
                   Demands(i) /\ r.case.credential = "none" => r.answer.code = 401

\* A generated case for an operation with a scheme passes on another status than 401 only
\* if its item brought an Authorization header or an auth_context: a hollow one too, which
\* keeps its own assertions though no token is sent.  A case without any credential does
\* pass against an API that keeps its document, unless a more literal path serves the
\* request, another server was named or the document makes the scheme optional.
RejectionsAreJudged ==
    \A r \in result :
        r.case.operation # 0 /\ spec.operations[r.case.operation].auth # {}
        => /\ r.passed /\ r.answer.code # 401 => r.case.credential \notin {"none", "key"}
           /\ /\ r.case.credential = "none" /\ Served(r.case) = {r.case.operation}
              /\ Demands(r.case.operation) /\ Conforms(r)
              => r.passed

\* The steps before step i that were answered a value for variable v, and the last of them.
Givers(i, v) == {j \in 1..(i - 1) : /\ v \in DOMAIN workflow[j].extract
                                    /\ workflow[j].extract[v] \in DOMAIN answered[j].body}
LastGiver(i, v) == CHOOSE j \in Givers(i, v) : \A k \in Givers(i, v) : k <= j

\* The key it was found under, and the value the API gave there.
KeyOf(i, v) == workflow[LastGiver(i, v)].extract[v]
ValueOf(i, v) == answered[LastGiver(i, v)].body[KeyOf(i, v)]

\* A step is sent only when every step before it has passed.  What it is sent for a
\* variable is the value the API gave the last step that found one, not what an earlier
\* step or the step itself has for it, unless the key is a sensitive one; and where no
\* step found one, its own value.
ValuesAreCarried ==
    \A i \in DOMAIN sent :
        /\ \A j \in 1..(i - 1) : Passed(workflow[j].assertions, answered[j])
        /\ \A v \in DOMAIN sent[i] :
              /\ Givers(i, v) # {} /\ KeyOf(i, v) \notin Sensitive => sent[i][v] = ValueOf(i, v)
              /\ Givers(i, v) = {} =>
                    sent[i][v] = IF v \in DOMAIN workflow[i].own THEN workflow[i].own[v] ELSE "${}"

\* The names in a value of a document, and those each name leads to.
NamesIn(v) == ({v.ref} \cup {v.fields[k].ref : k \in DOMAIN v.fields}) \cap Names

LeadsTo(schemas) ==
    LET step == {e \in Names \X Names : e[1] \in DOMAIN schemas /\ e[2] \in NamesIn(schemas[e[1]])}
        within[n \in 1..Cardinality(Names)] ==
            IF n = 1 THEN step
            ELSE within[n - 1] \cup {e \in Names \X Names : \E m \in Names :
                                        <<e[1], m>> \in within[n - 1] /\ <<m, e[2]>> \in step}
    IN  within[Cardinality(Names)]

\* The references left in a resolved value, those below a dangling one excepted.
Left(value, defined) ==
    LET whole(t) == t.ref \notin Names \ defined
        level[n \in 0..Cardinality(Names) + 2] ==
            IF n = 0 THEN {value}
            ELSE UNION {{t.fields[k] : k \in DOMAIN t.fields} : t \in {u \in level[n - 1] : whole(u)}}
    IN  {t.ref : t \in UNION {level[n] : n \in DOMAIN level}}

\* A reference is left in a specification only if it is remote, dangling, below a dangling
\* one or part of a cycle: a name that two places share is resolved in both.
ReferencesAreResolved ==
    source # NoDocument =>
        LET defined == DOMAIN source.schemas
        IN  \A i \in DOMAIN spec.operations : \A t \in spec.operations[i].schemas :
                \A n \in Left(t, defined) \cap defined : <<n, n>> \in LeadsTo(source.schemas)
---------------------------------------------------------------------------
(***************************************************************************)
(* What the documentation says, and the code does not do.                  *)
(***************************************************************************)
\* tasks.md:45: "Add setup/teardown and dependent-request support for authenticated
\* workflows"; the page (ApiTestingPage.jsx:225) offers access_token, found at $.token.
\* A step that depends on a token is sent the token an earlier step was answered.
TokensAreCarried ==
    \A i \in DOMAIN sent : \A v \in DOMAIN sent[i] :
        Givers(i, v) # {} => sent[i][v] = ValueOf(i, v)
===========================================================================

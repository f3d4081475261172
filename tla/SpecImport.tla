---------------------------- MODULE SpecImport ----------------------------
(***************************************************************************)
(* The specifications of one owner's project (app/api/v1/api_specs.py      *)
(* parse and import, openapi_import.py, api_spec_repo.py).  Requests parse *)
(* a document, inline or fetched, and an import then counts the stored     *)
(* specifications and inserts its own, in two calls of the database.       *)
(***************************************************************************)
EXTENDS OpenApi

CONSTANTS Importers,     \* requests to /parse and /import
          Assignments    \* what each request carries: a document, in it or behind its source_url,
                         \* or neither

ASSUME ImportAssumption ==
    \A carried \in Assignments : \A r \in Importers :
        LET d == carried[r]
        IN  d # NoDocument /\ Accepted(d) =>
                /\ d.servers \in Seq(STRING)
                /\ d.paths \in Seq(PathItem)
                /\ DOMAIN d.schemas \subseteq Names
                /\ \A n \in DOMAIN d.schemas : d.schemas[n] \in Value

VARIABLES
    document,    \* document[r]: what r was given or is to fetch
    at,          \* at[r]: what r awaits next
    revision,    \* revision[r]: that of the record r has built
    stored,      \* the requests whose records are in api_specs
    counted      \* history: counted[r], those stored when r counted

importVars == <<document, at, revision, stored, counted>>

ImportTypeOK ==
    /\ document \in Assignments
    /\ at \in [Importers -> {"start", "fetching", "counting", "inserting", "answered", "failed"}]
    /\ revision \in [Importers -> Nat]
    /\ stored \subseteq Importers
    /\ counted \in [Importers -> SUBSET Importers]

ImportInit ==
    /\ document \in Assignments
    /\ at = [r \in Importers |-> "start"]
    /\ revision = [r \in Importers |-> 1]
    /\ stored = {}
    /\ counted = [r \in Importers |-> {}]

Moves(r, where) == /\ at' = [at EXCEPT ![r] = where]
                   /\ UNCHANGED <<document, revision, stored, counted>>

\* What becomes of r once its document is there: /parse answers with the specification,
\* /import goes on to count.
Read(r) == IF Accepted(document[r]) THEN Moves(r, "answered") \/ Moves(r, "counting")
                                    ELSE Moves(r, "failed")

Begin(r) == /\ at[r] = "start"
            /\ IF document[r] = NoDocument THEN Moves(r, "failed")
                                           ELSE Read(r) \/ Moves(r, "fetching")

\* The source answers, perhaps after one redirect; or it does not, with an error, in time,
\* or with at most 2 MiB.
Fetched(r) == /\ at[r] = "fetching"
              /\ Read(r) \/ Moves(r, "failed")

\* Counts the projects of the owner, not the specifications.
MutantNextVersion(r) == /\ at[r] = "counting"
                        /\ counted' = [counted EXCEPT ![r] = stored]
                        /\ revision' = [revision EXCEPT ![r] = IF stored = {} THEN 1 ELSE 2]
                        /\ at' = [at EXCEPT ![r] = "inserting"]
                        /\ UNCHANGED <<document, stored>>

NextVersion(r) == /\ at[r] = "counting"
                  /\ counted' = [counted EXCEPT ![r] = stored]
                  /\ revision' = [revision EXCEPT ![r] = Cardinality(stored) + 1]
                  /\ at' = [at EXCEPT ![r] = "inserting"]
                  /\ UNCHANGED <<document, stored>>

\* The index on (owner_id, project_name, checksum) refuses a text that is stored.
Create(r) == /\ at[r] = "inserting"
             /\ IF \E s \in stored : document[s].text = document[r].text
                THEN Moves(r, "failed")
                ELSE /\ stored' = stored \cup {r}
                     /\ at' = [at EXCEPT ![r] = "answered"]
                     /\ UNCHANGED <<document, revision, counted>>

\* A call of the database raises, or the process stops.
ImportStops(r) == /\ at[r] \notin {"answered", "failed"}
                  /\ Moves(r, "failed")

ImportStep(r) == Begin(r) \/ Fetched(r) \/ NextVersion(r) \/ Create(r) \/ ImportStops(r)
---------------------------------------------------------------------------
\* An import that counts after another one was stored gets a higher revision, refused
\* duplicates and lost requests notwithstanding, and no revision exceeds the number of
\* specifications: so two share a revision only if both counted before either was stored.
RevisionsFollowAnswers ==
    \A r, s \in stored : /\ s \in counted[r] => revision[s] < revision[r]
                         /\ revision[r] <= Cardinality(stored)

===========================================================================

------------------------------ MODULE OpenApi ------------------------------
(***************************************************************************)
(* How an OpenAPI document becomes a specification of operations           *)
(* (app/services/openapi_parser.py).  Operators only.                      *)
(*                                                                         *)
(* A schema value is a dict: ref is what its $ref names, "none" without    *)
(* one, "remote" for anything that does not begin with #/; fields are the  *)
(* values under its other keys.  Lists nest like dicts.                    *)
(***************************************************************************)
EXTENDS Naturals, FiniteSets, SequencesExt

CONSTANTS Names,     \* what a local reference may name, defined in a document or not
          Keys,      \* keys of a schema
          Schemes,   \* security schemes
          NoDocument

ASSUME NamesAssumption == IsFiniteSet(Names)

\* bound: the document's own values nest two deep; resolved ones may be deeper.
Plain == [ref : Names \cup {"none", "remote"}, fields : {<< >>}]
Value == [ref : Names \cup {"none", "remote"},
          fields : UNION {[K -> Plain] : K \in SUBSET Keys}]

\* Where an OpenAPI document says something, in order of path and method.  A response
\* without a schema has an empty set of them; security of an operation that does not say
\* is inherited.
Response == [code : Nat, schema : SUBSET Value]
OperationEntry == [method : {"GET", "POST"}, body : SUBSET Value, inherits : BOOLEAN,
                   security : SUBSET SUBSET Schemes, responses : Seq(Response)]
PathItem == [path : Seq(STRING), parameters : SUBSET Value, operations : Seq(OperationEntry)]
---------------------------------------------------------------------------
(***************************************************************************)
(* References.  A path of the document never follows one name twice.       *)
(***************************************************************************)
\* Marks the names where they are met, not where they are followed.
MutantBelow(v, seen) == seen \cup {v.fields[k].ref : k \in DOMAIN v.fields}

\* The names not to be followed below the keys of v.
Below(v, seen) == seen

\* {**below, **above}: a dict updated with another.
Updated(below, above) ==
    [k \in DOMAIN below \cup DOMAIN above |-> IF k \in DOMAIN above THEN above[k] ELSE below[k]]

\* A reference replaced by its target; keys next to it win.
Merged(target, own) == [target EXCEPT !.fields = Updated(target.fields, own)]

\* _resolve_local_refs: a dangling reference is returned as it is, keys and all.
Resolved(schemas, value) ==
    LET resolve[call \in Value \X SUBSET Names] ==
            LET v == call[1]
                seen == call[2]
                own == [k \in DOMAIN v.fields |-> resolve[<<v.fields[k], Below(v, seen)>>]]
            IN  IF v.ref \notin Names \ seen THEN [v EXCEPT !.fields = own]
                ELSE IF v.ref \notin DOMAIN schemas THEN v
                ELSE Merged(resolve[<<schemas[v.ref], seen \cup {v.ref}>>], own)
    IN  resolve[<<value, {}>>]
---------------------------------------------------------------------------
(***************************************************************************)
(* Operations.                                                             *)
(***************************************************************************)
Security(document, entry) == IF entry.inherits THEN document.security ELSE entry.security

\* The first response that has a schema.
ResponseSchema(entry) ==
    LET some == {i \in DOMAIN entry.responses : entry.responses[i].schema # {}}
        first == CHOOSE i \in some : \A j \in some : i <= j
    IN  IF some = {} THEN {} ELSE entry.responses[first].schema

\* Every scheme a requirement names counts, alternatives and optional ones included, if
\* the document defines it.
Operation(document, item, entry) ==
    [method |-> entry.method,
     path |-> item.path,
     auth |-> UNION Security(document, entry) \cap document.schemes,
     public |-> ~entry.inherits /\ entry.security = {},
     codes |-> {entry.responses[i].code : i \in DOMAIN entry.responses},
     schemas |-> {Resolved(document.schemas, v) :
                     v \in item.parameters \cup entry.body \cup ResponseSchema(entry)}]

\* parse_openapi_document.
Specification(document) ==
    LET operations(item) ==
            [i \in DOMAIN item.operations |-> Operation(document, item, item.operations[i])]
    IN  [servers |-> document.servers,
         operations |-> FlattenSeq([p \in DOMAIN document.paths |-> operations(document.paths[p])])]

\* Too large, unreadable, no object, not OpenAPI 3, or without a title or version.
Accepted(document) == document.fault = "none"
===========================================================================

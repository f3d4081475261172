---------------------------- MODULE ApiFindings ----------------------------
(***************************************************************************)
(* The API security findings of one owner and project: what the passive    *)
(* scans of app/api/v1/api_specs.py save through ApiFindingRepository, and *)
(* the remediation states users set on them.                               *)
(*                                                                         *)
(* A scan observes a set of findings and upserts them one by one, keyed by *)
(* fingerprint.  A scan of the asynchronous endpoint is retried from the   *)
(* start when an attempt fails or times out, which may leave one upsert of *)
(* the attempt in the driver's thread.  The operation ids of a             *)
(* specification are taken to be distinct, as OpenAPI demands, so that a   *)
(* scan observes no fingerprint twice.                                     *)
(***************************************************************************)
EXTENDS Naturals, FiniteSets, FiniteSetsExt

CONSTANTS Findings,    \* fingerprints
          Scans,       \* scan requests
          MaxRetries,  \* bound: largest max_retries of a scan
          MaxPatches,  \* bound: PATCH requests considered
          NoScan       \* "seen by no scan"

Remediation == {"open", "accepted", "fixed"}

ASSUME FindingsAssumption == /\ IsFiniteSet(Scans)
                             /\ MaxRetries \in Nat
                             /\ MaxPatches \in Nat
                             /\ NoScan \notin Scans

VARIABLES
    doc,        \* doc[f]: the stored finding with fingerprint f
    phase,      \* phase[s]: where scan s is
    retries,    \* retries[s]: attempts scan s has left after the current one
    todo,       \* todo[s]: findings the attempt has observed and not saved yet
    late,       \* <<s, f, a>>: upserts left in flight by the attempt of s that had a left
    patches,    \* PATCH requests so far
    \* History variables.
    reported,   \* reported[s]: findings of the attempt of s that completed
    sent        \* sent[s][f]: upserts of f issued by scan s

vars == <<doc, phase, retries, todo, late, patches, reported, sent>>
scanVars == <<phase, retries, todo, reported>>

Attempts == 0..MaxRetries

Doc == [occurrences: Nat, first: Scans \cup {NoScan}, last: Scans \cup {NoScan},
        remediation: Remediation]

Stored(f) == doc[f].occurrences > 0

TypeOK == /\ doc \in [Findings -> Doc]
          /\ phase \in [Scans -> {"new", "scanning", "saving", "done", "failed"}]
          /\ retries \in [Scans -> Attempts]
          /\ todo \in [Scans -> SUBSET Findings]
          /\ late \subseteq Scans \X Findings \X Attempts
          /\ patches \in 0..MaxPatches
          /\ reported \in [Scans -> SUBSET Findings]
          /\ sent \in [Scans -> [Findings -> Nat]]

Init == /\ doc = [f \in Findings |-> [occurrences |-> 0, first |-> NoScan, last |-> NoScan,
                                      remediation |-> "open"]]
        /\ phase = [s \in Scans |-> "new"]
        /\ retries = [s \in Scans |-> 0]
        /\ todo = [s \in Scans |-> {}]
        /\ late = {}
        /\ patches = 0
        /\ reported = [s \in Scans |-> {}]
        /\ sent = [s \in Scans |-> [f \in Findings |-> 0]]
---------------------------------------------------------------------------
(***************************************************************************)
(* The store.                                                              *)
(***************************************************************************)
\* The occurrence count starts over with each scan.
MutantUpserted(d, s) ==
    [d EXCEPT !.occurrences = 1, !.last = s, !.remediation = "open",
              !.first = IF d.occurrences = 0 THEN s ELSE d.first]

\* Everything is in $set: the first sighting is overwritten.
MutantUpsertedFirst(d, s) ==
    [d EXCEPT !.occurrences = @ + 1, !.last = s, !.remediation = "open", !.first = s]

\* One update_one(upsert=True): $set of every model field but three, the default
\* remediation_status "open" included, $setOnInsert first_seen_at, $inc occurrences.
Upserted(d, s) ==
    [d EXCEPT !.occurrences = @ + 1, !.last = s, !.remediation = "open",
              !.first = IF d.occurrences = 0 THEN s ELSE d.first]

\* update_remediation of a stored finding.
Patch(f, state) ==
    /\ patches < MaxPatches
    /\ Stored(f)
    /\ doc' = [doc EXCEPT ![f].remediation = state]
    /\ patches' = patches + 1
    /\ UNCHANGED <<scanVars, late, sent>>
---------------------------------------------------------------------------
(***************************************************************************)
(* The scans.                                                              *)
(***************************************************************************)
StartScan(s, allowed) ==
    /\ phase[s] = "new"
    /\ phase' = [phase EXCEPT ![s] = "scanning"]
    /\ retries' = [retries EXCEPT ![s] = allowed]
    /\ UNCHANGED <<doc, todo, late, patches, reported, sent>>

Observe(s, found) ==
    /\ phase[s] = "scanning"
    /\ phase' = [phase EXCEPT ![s] = "saving"]
    /\ todo' = [todo EXCEPT ![s] = found]
    /\ reported' = [reported EXCEPT ![s] = found]
    /\ UNCHANGED <<doc, retries, late, patches, sent>>

Save(s, f) ==
    /\ phase[s] = "saving"
    /\ f \in todo[s]
    /\ doc' = [doc EXCEPT ![f] = Upserted(@, s)]
    /\ todo' = [todo EXCEPT ![s] = @ \ {f}]
    /\ sent' = [sent EXCEPT ![s][f] = @ + 1]
    /\ UNCHANGED <<phase, retries, late, patches, reported>>

Finish(s) ==
    /\ phase[s] = "saving"
    /\ todo[s] = {}
    /\ phase' = [phase EXCEPT ![s] = "done"]
    /\ UNCHANGED <<doc, retries, todo, late, patches, reported, sent>>

\* The retry loop does not count.
MutantAgain(s) ==
    /\ todo' = [todo EXCEPT ![s] = {}]
    /\ \/ /\ retries[s] > 0
          /\ phase' = [phase EXCEPT ![s] = "scanning"]
          /\ UNCHANGED retries
       \/ /\ phase' = [phase EXCEPT ![s] = "failed"]
          /\ UNCHANGED retries

\* The attempt raises, times out or is cancelled: scan again, or give up.
Again(s) ==
    /\ todo' = [todo EXCEPT ![s] = {}]
    /\ \/ /\ retries[s] > 0
          /\ phase' = [phase EXCEPT ![s] = "scanning"]
          /\ retries' = [retries EXCEPT ![s] = @ - 1]
       \/ /\ phase' = [phase EXCEPT ![s] = "failed"]
          /\ UNCHANGED retries

\* Between two upserts, or when a call raises without having been applied.
AttemptFails(s) ==
    /\ phase[s] \in {"scanning", "saving"}
    /\ Again(s)
    /\ UNCHANGED <<doc, late, patches, reported, sent>>

\* While the upsert of f is in flight.
AttemptAbandons(s, f) ==
    /\ phase[s] = "saving"
    /\ f \in todo[s]
    /\ Again(s)
    /\ late' = late \cup {<<s, f, retries[s]>>}
    /\ sent' = [sent EXCEPT ![s][f] = @ + 1]
    /\ UNCHANGED <<doc, patches, reported>>

LandLate(s, f, a) ==
    /\ <<s, f, a>> \in late
    /\ doc' = [doc EXCEPT ![f] = Upserted(@, s)]
    /\ late' = late \ {<<s, f, a>>}
    /\ UNCHANGED <<scanVars, patches, sent>>

DropLate(s, f, a) ==
    /\ <<s, f, a>> \in late
    /\ late' = late \ {<<s, f, a>>}
    /\ UNCHANGED <<doc, scanVars, patches, sent>>
---------------------------------------------------------------------------
ScanStep(s) == \/ \E found \in SUBSET Findings : Observe(s, found)
               \/ \E f \in Findings : Save(s, f)
               \/ Finish(s)

Next == \/ \E s \in Scans : \/ \E allowed \in Attempts : StartScan(s, allowed)
                            \/ ScanStep(s)
                            \/ AttemptFails(s)
                            \/ \E f \in Findings :
                                  \/ AttemptAbandons(s, f)
                                  \/ \E a \in Attempts : LandLate(s, f, a) \/ DropLate(s, f, a)
        \/ \E f \in Findings, state \in Remediation : Patch(f, state)

Spec == Init /\ [][Next]_vars
---------------------------------------------------------------------------
(***************************************************************************)
(* Properties.                                                             *)
(***************************************************************************)
Counted(f) == {s \in Scans : phase[s] = "done" /\ f \in reported[s]}

\* A scan that completed has counted each of its findings, however many scans and
\* retries were saving the same findings at the same time.
NoScanLost == \A f \in Findings : doc[f].occurrences >= Cardinality(Counted(f))

\* A finding's count is never more than the upserts issued for it, landed or in flight,
\* at most one for each attempt of each scan; it names only scans that sent it.
CountsAreEarned ==
    \A f \in Findings :
        /\ doc[f].occurrences + Cardinality({x \in Scans \X Attempts : <<x[1], f, x[2]>> \in late})
              <= MapThenSumSet(LAMBDA s : sent[s][f], Scans)
        /\ \A s \in Scans : sent[s][f] <= MaxRetries + 1
        /\ Stored(f) => /\ doc[f].first # NoScan /\ sent[doc[f].first][f] > 0
                        /\ doc[f].last # NoScan /\ sent[doc[f].last][f] > 0

\* CHECKPOINT.md:107 "Finding records retain first/last-seen history": a stored finding
\* stays stored, with its first sighting, and its count never falls.
HistoryKept ==
    [][\A f \in Findings : Stored(f) => /\ doc'[f].first = doc[f].first
                                        /\ doc'[f].occurrences >= doc[f].occurrences]_vars
---------------------------------------------------------------------------
(***************************************************************************)
(* What CHECKPOINT.md:107 also says of findings, and the code does not do. *)
(***************************************************************************)
\* "Finding records retain first/last-seen history and remediation state": a scan that
\* sees a finding again leaves its remediation state as the user set it.
RemediationRetained ==
    [][\A f \in Findings :
          Stored(f) /\ doc'[f].occurrences > doc[f].occurrences
              => doc'[f].remediation = doc[f].remediation]_vars
===========================================================================

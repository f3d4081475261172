------------------------ MODULE ApiFindingsProofs -------------------------
(***************************************************************************)
(* Proofs about ApiFindings, for any fingerprints, any finite set of scans *)
(* and any number of retries and patches: no finding of a scan that        *)
(* completed goes uncounted, none is counted that was not sent, and no     *)
(* stored finding loses its history.                                       *)
(***************************************************************************)
EXTENDS ApiFindings, FiniteSetTheorems, NaturalsInduction, WellFoundedInduction, TLAPS

LEMMA TypeInit == Init => TypeOK
BY FindingsAssumption DEF Init, TypeOK, Doc, Attempts, Remediation

\* An upsert keeps a document a document, counts one more and keeps the first sighting.
LEMMA UpsertedIsDoc ==
    ASSUME NEW d \in Doc, NEW s \in Scans
    PROVE  /\ Upserted(d, s) \in Doc
           /\ Upserted(d, s).occurrences = d.occurrences + 1
           /\ d.occurrences > 0 => Upserted(d, s).first = d.first
<1> DEFINE counted == [d EXCEPT !.occurrences = @ + 1]
           seen == [counted EXCEPT !.last = s, !.remediation = "open"]
           first == IF d.occurrences = 0 THEN s ELSE d.first
<1>1. counted \in Doc /\ counted.occurrences = d.occurrences + 1 /\ counted.first = d.first
  BY DEF Doc
<1>2. seen \in Doc /\ seen.occurrences = d.occurrences + 1 /\ seen.first = d.first
  BY <1>1 DEF Doc, Remediation
<1>3. first \in Scans \cup {NoScan} /\ (d.occurrences > 0 => first = d.first)
  BY DEF Doc
<1>4. Upserted(d, s) = [seen EXCEPT !.first = first]
  BY DEF Upserted
<1>. QED
  BY <1>2, <1>3, <1>4 DEF Doc

LEMMA TypeStep == TypeOK /\ [Next]_vars => TypeOK'
<1> SUFFICES ASSUME TypeOK, [Next]_vars PROVE TypeOK'
  OBVIOUS
<1> USE FindingsAssumption DEF TypeOK, Attempts, scanVars
<1>1. CASE UNCHANGED vars
  BY <1>1 DEF vars
<1>2. ASSUME NEW s \in Scans, NEW allowed \in Attempts, StartScan(s, allowed)
      PROVE  TypeOK'
  BY <1>2 DEF StartScan
<1>3. ASSUME NEW s \in Scans, NEW found \in SUBSET Findings, Observe(s, found)
      PROVE  TypeOK'
  BY <1>3 DEF Observe
<1>4. ASSUME NEW s \in Scans, NEW f \in Findings, Save(s, f) PROVE TypeOK'
  <2>1. doc' \in [Findings -> Doc]
    BY <1>4, UpsertedIsDoc DEF Save
  <2>2. sent' \in [Scans -> [Findings -> Nat]]
    BY <1>4 DEF Save
  <2>. QED
    BY <1>4, <2>1, <2>2 DEF Save
<1>5. ASSUME NEW s \in Scans, Finish(s) PROVE TypeOK'
  BY <1>5 DEF Finish
<1>6. ASSUME NEW s \in Scans, AttemptFails(s) PROVE TypeOK'
  <2>1. retries' \in [Scans -> 0..MaxRetries]
    <3>1. retries \in [Scans -> 0..MaxRetries] /\ retries[s] \in 0..MaxRetries
      OBVIOUS
    <3>2. \/ retries[s] > 0 /\ retries' = [retries EXCEPT ![s] = @ - 1]
          \/ retries' = retries
      BY <1>6 DEF AttemptFails, Again
    <3>. QED
      BY <3>1, <3>2
  <2>. QED
    BY <1>6, <2>1 DEF AttemptFails, Again
<1>7. ASSUME NEW s \in Scans, NEW f \in Findings, AttemptAbandons(s, f) PROVE TypeOK'
  <2>1. sent' \in [Scans -> [Findings -> Nat]]
    BY <1>7 DEF AttemptAbandons
  <2>2. retries' \in [Scans -> 0..MaxRetries]
    BY <1>7 DEF AttemptAbandons, Again
  <2>. QED
    BY <1>7, <2>1, <2>2 DEF AttemptAbandons, Again
<1>8. ASSUME NEW s \in Scans, NEW f \in Findings, NEW a \in Attempts, LandLate(s, f, a)
      PROVE  TypeOK'
  BY <1>8, UpsertedIsDoc DEF LandLate
<1>9. ASSUME NEW s \in Scans, NEW f \in Findings, NEW a \in Attempts, DropLate(s, f, a)
      PROVE  TypeOK'
  BY <1>9 DEF DropLate
<1>10. ASSUME NEW f \in Findings, NEW state \in Remediation, Patch(f, state) PROVE TypeOK'
  <2>1. doc' \in [Findings -> Doc]
    BY <1>10 DEF Patch, Doc
  <2>. QED
    BY <1>10, <2>1 DEF Patch
<1>. QED
  BY <1>1, <1>2, <1>3, <1>4, <1>5, <1>6, <1>7, <1>8, <1>9, <1>10 DEF Next, ScanStep

\* Documents, phases, attempts left and upserts in flight keep their types.
THEOREM TypeCorrect == Spec => []TypeOK
BY TypeInit, TypeStep, PTL DEF Spec

(***************************************************************************)
(* History.  Only upserts and patches write a document.                    *)
(***************************************************************************)
\* What one document keeps in a step.
Grows(f) == /\ doc'[f].occurrences >= doc[f].occurrences
            /\ Stored(f) => doc'[f].first = doc[f].first

\* A document that is upserted, patched or left alone grows, and its count by at most one.
LEMMA WriteGrows ==
    ASSUME TypeOK, NEW f \in Findings,
           \/ doc'[f] = doc[f]
           \/ \E s \in Scans : doc'[f] = Upserted(doc[f], s)
           \/ \E state \in Remediation : doc'[f] = [doc[f] EXCEPT !.remediation = state]
    PROVE  Grows(f)
<1>1. doc[f] \in Doc /\ doc[f].occurrences \in Nat
  BY DEF TypeOK, Doc
<1>2. CASE doc'[f] = doc[f]
  BY <1>1, <1>2 DEF Grows
<1>3. CASE \E s \in Scans : doc'[f] = Upserted(doc[f], s)
  BY <1>1, <1>3, UpsertedIsDoc DEF Grows, Stored
<1>4. CASE \E state \in Remediation : doc'[f] = [doc[f] EXCEPT !.remediation = state]
  BY <1>1, <1>4 DEF Grows, Doc
<1>. QED
  BY <1>2, <1>3, <1>4

LEMMA StepGrows == TypeOK /\ [Next]_vars => \A f \in Findings : Grows(f)
<1> SUFFICES ASSUME TypeOK, [Next]_vars, NEW f \in Findings PROVE Grows(f)
  OBVIOUS
<1>1. CASE UNCHANGED doc
  BY <1>1, WriteGrows
<1>2. ASSUME NEW s \in Scans, NEW g \in Findings,
             Save(s, g) \/ \E a \in Attempts : LandLate(s, g, a)
      PROVE  Grows(f)
  <2>1. doc' = [doc EXCEPT ![g] = Upserted(@, s)]
    BY <1>2 DEF Save, LandLate
  <2>2. doc'[f] = doc[f] \/ doc'[f] = Upserted(doc[f], s)
    BY <2>1 DEF TypeOK
  <2>. QED
    BY <2>2, WriteGrows
<1>3. ASSUME NEW g \in Findings, NEW state \in Remediation, Patch(g, state)
      PROVE  Grows(f)
  <2>1. \/ doc'[f] = doc[f]
        \/ doc'[f] = [doc[f] EXCEPT !.remediation = state]
    BY <1>3 DEF Patch, TypeOK
  <2>. QED
    BY <2>1, WriteGrows
<1>. QED
  BY <1>1, <1>2, <1>3 DEF Next, ScanStep, vars, StartScan, Observe, Finish, AttemptFails,
     AttemptAbandons, DropLate

\* Whatever scans, retries, late upserts and patches do, in any order, a stored finding stays
\* stored, keeps its first sighting, and its count never falls.
THEOREM HistoryIsKept == Spec => HistoryKept
<1>1. TypeOK /\ [Next]_vars
      => [\A f \in Findings : Stored(f) => /\ doc'[f].first = doc[f].first
                                           /\ doc'[f].occurrences >= doc[f].occurrences]_vars
  BY StepGrows DEF Grows
<1>. QED
  BY <1>1, TypeInit, TypeStep, PTL DEF Spec, HistoryKept

(***************************************************************************)
(* No scan is lost.  NoScanLost speaks of the scans that completed; it is  *)
(* inductive once the scans still saving are counted too, each from the    *)
(* upsert that took the finding off its list.                              *)
(***************************************************************************)
Saved(f) == {s \in Scans : /\ phase[s] \in {"saving", "done"}
                           /\ f \in reported[s]
                           /\ f \notin todo[s]}

SavedAreCounted == /\ \A s \in Scans : phase[s] = "done" => todo[s] = {}
                   /\ \A f \in Findings : Cardinality(Saved(f)) <= doc[f].occurrences

LEMMA SavedInit == Init => SavedAreCounted
<1> SUFFICES ASSUME Init, NEW f \in Findings PROVE Cardinality(Saved(f)) <= doc[f].occurrences
  BY DEF Init, SavedAreCounted
<1>1. Saved(f) = {}
  BY DEF Init, Saved
<1>. QED
  BY <1>1, FS_EmptySet DEF Init

\* A document whose count does not fall covers scans that are no more than before.
LEMMA SavedShrinks ==
    ASSUME TypeOK, SavedAreCounted, NEW f \in Findings, Grows(f), TypeOK',
           Saved(f)' \subseteq Saved(f)
    PROVE  (Cardinality(Saved(f)) <= doc[f].occurrences)'
<1>1. IsFiniteSet(Saved(f))
  BY FindingsAssumption, FS_Subset DEF Saved
<1>2. Cardinality(Saved(f)') <= Cardinality(Saved(f))
  BY <1>1, FS_Subset
<1>3. /\ Cardinality(Saved(f)') \in Nat /\ Cardinality(Saved(f)) \in Nat
      /\ doc[f].occurrences \in Nat /\ doc'[f].occurrences \in Nat
  BY <1>1, FS_Subset, FS_CardinalityType DEF TypeOK, Doc
<1>. QED
  BY <1>2, <1>3 DEF SavedAreCounted, Grows

LEMMA SavedStep == TypeOK /\ SavedAreCounted /\ [Next]_vars => SavedAreCounted'
<1> SUFFICES ASSUME TypeOK, SavedAreCounted, [Next]_vars PROVE SavedAreCounted'
  OBVIOUS
<1>1. TypeOK' /\ \A f \in Findings : Grows(f)
  BY TypeStep, StepGrows
<1>2. \A s \in Scans : phase'[s] = "done" => todo'[s] = {}
  BY DEF TypeOK, SavedAreCounted, Next, ScanStep, vars, scanVars, StartScan, Observe, Save,
     Finish, AttemptFails, AttemptAbandons, Again, LandLate, DropLate, Patch
<1>3. ASSUME NEW f \in Findings PROVE (Cardinality(Saved(f)) <= doc[f].occurrences)'
  <2>1. ASSUME NEW s \in Scans, Save(s, f)
        PROVE  (Cardinality(Saved(f)) <= doc[f].occurrences)'
    <3>1. Saved(f)' \subseteq Saved(f) \cup {s}
      BY <2>1 DEF Saved, Save, TypeOK
    <3>2. s \notin Saved(f) /\ IsFiniteSet(Saved(f))
      BY <2>1, FindingsAssumption, FS_Subset DEF Saved, Save
    <3>3. /\ IsFiniteSet(Saved(f) \cup {s})
          /\ Cardinality(Saved(f) \cup {s}) = Cardinality(Saved(f)) + 1
      BY <3>2, FS_AddElement
    <3>4. doc'[f].occurrences = doc[f].occurrences + 1
      BY <2>1, UpsertedIsDoc DEF Save, TypeOK
    <3>5. /\ Cardinality(Saved(f)') <= Cardinality(Saved(f)) + 1
          /\ Cardinality(Saved(f)') \in Nat
      BY <3>1, <3>3, FS_Subset, FS_CardinalityType
    <3>6. Cardinality(Saved(f)) \in Nat /\ doc[f].occurrences \in Nat
      BY <3>2, FS_CardinalityType DEF TypeOK, Doc
    <3>. QED
      BY <3>4, <3>5, <3>6 DEF SavedAreCounted
  <2>2. CASE \A s \in Scans : ~Save(s, f)
    <3> DEFINE Kept == Saved(f)' \subseteq Saved(f)
    <3>1. Kept
      <4>1. CASE UNCHANGED scanVars
        BY <4>1 DEF Saved, scanVars
      <4>2. ASSUME NEW s \in Scans, NEW allowed \in Attempts, StartScan(s, allowed)
            PROVE  Kept
        BY <4>2 DEF StartScan, Saved, TypeOK
      <4>3. ASSUME NEW s \in Scans, NEW found \in SUBSET Findings, Observe(s, found)
            PROVE  Kept
        BY <4>3 DEF Observe, Saved, TypeOK
      <4>4. ASSUME NEW s \in Scans, NEW g \in Findings, Save(s, g) PROVE Kept
        BY <2>2, <4>4 DEF Save, Saved, TypeOK
      <4>5. ASSUME NEW s \in Scans, Finish(s) PROVE Kept
        BY <4>5 DEF Finish, Saved, TypeOK
      <4>6. ASSUME NEW s \in Scans, Again(s), UNCHANGED reported PROVE Kept
        BY <4>6 DEF Again, Saved, TypeOK
      <4>. QED
        BY <4>1, <4>2, <4>3, <4>4, <4>5, <4>6 DEF Next, ScanStep, vars, scanVars,
           AttemptFails, AttemptAbandons, LandLate, DropLate, Patch
    <3>. QED
      BY <1>1, <3>1, SavedShrinks
  <2>. QED
    BY <2>1, <2>2
<1>. QED
  BY <1>2, <1>3 DEF SavedAreCounted

LEMMA SavedImplyCounted == TypeOK /\ SavedAreCounted => NoScanLost
<1> SUFFICES ASSUME TypeOK, SavedAreCounted, NEW f \in Findings
             PROVE  doc[f].occurrences >= Cardinality(Counted(f))
  BY DEF NoScanLost
<1>1. Counted(f) \subseteq Saved(f)
  BY DEF Counted, Saved, SavedAreCounted
<1>2. IsFiniteSet(Saved(f))
  BY FindingsAssumption, FS_Subset DEF Saved
<1>3. /\ Cardinality(Counted(f)) <= Cardinality(Saved(f))
      /\ Cardinality(Counted(f)) \in Nat /\ Cardinality(Saved(f)) \in Nat
  BY <1>1, <1>2, FS_Subset, FS_CardinalityType
<1>. QED
  BY <1>3 DEF SavedAreCounted, TypeOK, Doc

\* However many scans and retries save the same findings at the same time, a finding's count
\* is at least the number of completed scans that reported it.
THEOREM NoScanIsLost == Spec => []NoScanLost
BY TypeInit, TypeStep, SavedInit, SavedStep, SavedImplyCounted, PTL DEF Spec

(***************************************************************************)
(* The sum of the upserts issued.  MapThenSumSet is a recursive function   *)
(* over the subsets of Scans; what it computes is proved by induction on   *)
(* their size, with the least counterexample in place of an induction      *)
(* rule.                                                                   *)
(***************************************************************************)
Any(S) == CHOOSE s \in S : TRUE

\* sums[S] adds up the upserts of f issued by the scans of S.
AddsUp(sums, table, f) ==
    sums = [S \in SUBSET Scans |-> IF S = {} THEN 0 ELSE table[Any(S)][f] + sums[S \ {Any(S)}]]

Sums(table, f) == CHOOSE sums : AddsUp(sums, table, f)

LEMMA SumIsRecursive ==
    ASSUME NEW table, NEW f
    PROVE  MapThenSumSet(LAMBDA s : table[s][f], Scans) = Sums(table, f)[Scans]
BY Zenon DEF MapThenSumSet, MapThenFoldSet, Sums, AddsUp, Any

\* A set of naturals with 0 that is closed under successor holds every natural.
LEMMA AllNaturals ==
    ASSUME NEW N, 0 \in N, \A n \in Nat : n \in N => n + 1 \in N
    PROVE  Nat \subseteq N
<1> DEFINE others == Nat \ N
           less == {p \in Nat \X Nat : p[1] < p[2]}
<1>1. IsWellFoundedOn(less, Nat)
  BY NatLessThanWellFounded DEF OpToRel
<1>2. ASSUME others # {} PROVE FALSE
  <2>1. others \subseteq Nat
    OBVIOUS
  <2>2. PICK n \in others : \A m \in others : <<m, n>> \notin less
    <3> HIDE DEF others, less
    <3>. QED
      BY <1>1, <1>2, <2>1, WFMin
  <2>3. n \in Nat /\ n # 0 /\ n \notin N
    OBVIOUS
  <2>4. n - 1 \in Nat /\ n - 1 < n /\ (n - 1) + 1 = n
    BY <2>3
  <2>5. n - 1 \in N
    BY <2>2, <2>3, <2>4
  <2>. QED
    BY <2>3, <2>4, <2>5
<1>. QED
  BY <1>2

\* What holds of the empty set of scans, and of a set whenever it holds without its chosen
\* member, holds of all.
LEMMA AllSubsets ==
    ASSUME NEW P, {} \in P,
           \A S \in SUBSET Scans : S # {} /\ S \ {Any(S)} \in P => S \in P
    PROVE  SUBSET Scans \subseteq P
<1> DEFINE N == {n \in Nat : \A S \in SUBSET Scans : Cardinality(S) = n => S \in P}
<1>1. \A S \in SUBSET Scans : IsFiniteSet(S) /\ Cardinality(S) \in Nat
  BY FindingsAssumption, FS_Subset, FS_CardinalityType
<1>2. 0 \in N
  BY <1>1, FS_EmptySet
<1>3. ASSUME NEW n \in N PROVE n + 1 \in N
  <2>1. ASSUME NEW S \in SUBSET Scans, Cardinality(S) = n + 1 PROVE S \in P
    <3>1. S # {} /\ n \in Nat
      BY <2>1, FS_EmptySet
    <3>2. Any(S) \in S
      BY <3>1 DEF Any
    <3>3. S \ {Any(S)} \in SUBSET Scans /\ Cardinality(S \ {Any(S)}) = n
      <4>1. Cardinality(S \ {Any(S)}) = Cardinality(S) - 1
        BY <1>1, <3>2, FS_RemoveElement
      <4>. QED
        BY <2>1, <3>1, <4>1
    <3>. QED
      BY <3>1, <3>3
  <2>. QED
    BY <2>1
<1>4. Nat \subseteq N
  <2> HIDE DEF N
  <2>. QED
    BY <1>2, <1>3, AllNaturals
<1>. QED
  BY <1>1, <1>4

\* The recursion has a solution: those for the sets of up to n scans extend each other.
LEMMA SumsExist == ASSUME NEW table, NEW f PROVE AddsUp(Sums(table, f), table, f)
<1> DEFINE Upto(n) == {S \in SUBSET Scans : Cardinality(S) <= n}
           Turn(S, sums) == IF S = {} THEN 0 ELSE table[Any(S)][f] + sums[S \ {Any(S)}]
           Solves(sums, n) == \A S \in Upto(n) : sums[S] = Turn(S, sums)
           N == {n \in Nat : \E sums : Solves(sums, n)}
<1>1. \A S \in SUBSET Scans : IsFiniteSet(S) /\ Cardinality(S) \in Nat
  BY FindingsAssumption, FS_Subset, FS_CardinalityType
<1>2. ASSUME NEW S \in SUBSET Scans, S # {}
      PROVE  /\ S \ {Any(S)} \in SUBSET Scans
             /\ Cardinality(S \ {Any(S)}) = Cardinality(S) - 1
  <2>1. Any(S) \in S
    BY <1>2 DEF Any
  <2>. QED
    BY <1>1, <1>2, <2>1, FS_RemoveElement
<1>3. 0 \in N
  <2>1. \A S \in Upto(0) : S = {}
    BY <1>1, FS_EmptySet
  <2>2. Solves([S \in {{}} |-> 0], 0)
    BY <2>1
  <2>. QED
    BY <2>2
<1>4. ASSUME NEW n \in N PROVE n + 1 \in N
  <2>1. PICK sums : Solves(sums, n)
    BY <1>4
  <2> DEFINE longer == [S \in Upto(n + 1) |-> Turn(S, sums)]
  <2>2. n \in Nat /\ Upto(n) \subseteq Upto(n + 1)
    BY <1>1
  <2>3. ASSUME NEW S \in Upto(n + 1) PROVE longer[S] = Turn(S, longer)
    <3>1. CASE S = {}
      BY <3>1
    <3>2. CASE S # {}
      <4>1. S \ {Any(S)} \in Upto(n)
        BY <1>1, <1>2, <2>2, <3>2
      <4>2. longer[S \ {Any(S)}] = sums[S \ {Any(S)}]
        BY <2>1, <2>2, <4>1
      <4>. QED
        BY <3>2, <4>2
    <3>. QED
      BY <3>1, <3>2
  <2>4. \E longerSums : Solves(longerSums, n + 1)
    BY <2>3
  <2>. QED
    <3> HIDE DEF Solves, longer
    <3>. QED
      BY <2>2, <2>4
<1>5. Cardinality(Scans) \in N
  <2>1. Nat \subseteq N
    <3> HIDE DEF N
    <3>. QED
      BY <1>3, <1>4, AllNaturals
  <2>. QED
    BY <1>1, <2>1
<1>6. PICK sums : Solves(sums, Cardinality(Scans))
  BY <1>5
<1>7. Upto(Cardinality(Scans)) = SUBSET Scans
  BY <1>1, FindingsAssumption, FS_Subset
<1> DEFINE whole == [S \in SUBSET Scans |-> sums[S]]
<1>8. AddsUp(whole, table, f)
  BY <1>2, <1>6, <1>7 DEF AddsUp
<1>. QED
  BY <1>8 DEF Sums

\* What the recursion says of the empty set, and of any other.
LEMMA SumsOfNone == ASSUME NEW table, NEW f PROVE Sums(table, f)[{}] = 0
<1> DEFINE sums == Sums(table, f)
<1>1. AddsUp(sums, table, f)
  BY SumsExist
<1> HIDE DEF sums
<1>2. sums[{}] = 0
  BY <1>1 DEF AddsUp
<1>. QED
  BY <1>2 DEF sums

LEMMA SumsOf ==
    ASSUME NEW table, NEW f, NEW S \in SUBSET Scans, S # {}
    PROVE  /\ Any(S) \in S
           /\ Sums(table, f)[S] = table[Any(S)][f] + Sums(table, f)[S \ {Any(S)}]
<1> DEFINE sums == Sums(table, f)
<1>1. AddsUp(sums, table, f)
  BY SumsExist
<1>2. Any(S) \in S
  BY DEF Any
<1>. QED
  BY <1>1, <1>2 DEF AddsUp

\* One entry that grows makes the sum grow as much.
LEMMA SumsGrow ==
    ASSUME NEW old, NEW new, NEW f, NEW scan \in Scans, NEW more \in Nat,
           \A s \in Scans : old[s][f] \in Nat,
           \A s \in Scans : new[s][f] = old[s][f] + (IF s = scan THEN more ELSE 0)
    PROVE  /\ Sums(old, f)[Scans] \in Nat
           /\ Sums(new, f)[Scans] = Sums(old, f)[Scans] + more
<1> DEFINE before == Sums(old, f)
           after == Sums(new, f)
           Right(S) == /\ before[S] \in Nat
                       /\ after[S] = before[S] + (IF scan \in S THEN more ELSE 0)
           P == {S \in SUBSET Scans : Right(S)}
<1>1. Right({})
  <2>1. before[{}] = 0 /\ after[{}] = 0
    BY SumsOfNone
  <2> HIDE DEF before, after
  <2>. QED
    BY <2>1
<1>2. ASSUME NEW S \in SUBSET Scans, S # {}, Right(S \ {Any(S)}) PROVE Right(S)
  <2> DEFINE s == Any(S)
             rest == S \ {s}
  <2>1. /\ s \in S
        /\ before[S] = old[s][f] + before[rest]
        /\ after[S] = new[s][f] + after[rest]
    BY <1>2, SumsOf
  <2>2. /\ before[rest] \in Nat
        /\ after[rest] = before[rest] + (IF scan \in rest THEN more ELSE 0)
    BY <1>2
  <2>3. old[s][f] \in Nat /\ new[s][f] = old[s][f] + (IF s = scan THEN more ELSE 0)
    BY <2>1
  <2>4. scan \in rest <=> scan \in S /\ s # scan
    OBVIOUS
  <2> HIDE DEF before, after, s, rest
  <2>5. CASE s = scan
    BY <2>1, <2>2, <2>3, <2>4, <2>5
  <2>6. CASE s # scan
    BY <2>1, <2>2, <2>3, <2>4, <2>6
  <2>. QED
    BY <2>5, <2>6
<1>3. SUBSET Scans \subseteq P
  <2>1. {} \in P
    BY <1>1
  <2>2. \A S \in SUBSET Scans : S # {} /\ S \ {Any(S)} \in P => S \in P
    BY <1>2
  <2> HIDE DEF P
  <2>. QED
    BY <2>1, <2>2, AllSubsets
<1>. QED
  BY <1>3

LEMMA SumsOfNothing ==
    ASSUME NEW table, NEW f, \A s \in Scans : table[s][f] = 0
    PROVE  Sums(table, f)[Scans] = 0
<1> DEFINE P == {S \in SUBSET Scans : Sums(table, f)[S] = 0}
<1>1. {} \in P
  BY SumsOfNone
<1>2. ASSUME NEW S \in SUBSET Scans, S # {}, S \ {Any(S)} \in P PROVE S \in P
  <2>1. /\ Any(S) \in S
        /\ Sums(table, f)[S] = table[Any(S)][f] + Sums(table, f)[S \ {Any(S)}]
    BY <1>2, SumsOf
  <2>2. table[Any(S)][f] = 0 /\ Sums(table, f)[S \ {Any(S)}] = 0
    BY <1>2, <2>1
  <2>. QED
    BY <2>1, <2>2
<1>3. SUBSET Scans \subseteq P
  <2> HIDE DEF P
  <2>. QED
    BY <1>1, <1>2, AllSubsets
<1>. QED
  BY <1>3

(***************************************************************************)
(* Counts are earned.  An attempt that may still send an upsert of f has   *)
(* one to spare: that bounds what a scan sends by its attempts.            *)
(***************************************************************************)
InFlight(f) == {x \in Scans \X Attempts : <<x[1], f, x[2]>> \in late}

SentInBounds(s, f) ==
    /\ phase[s] = "new" => sent[s][f] = 0 /\ f \notin todo[s]
    /\ sent[s][f] + retries[s] <= MaxRetries + 1
    /\ phase[s] = "scanning" \/ f \in todo[s] => sent[s][f] + retries[s] <= MaxRetries

Known(f) ==
    /\ \A x \in InFlight(f) : sent[x[1]][f] > 0
    /\ Stored(f) => /\ doc[f].first # NoScan /\ sent[doc[f].first][f] > 0
                    /\ doc[f].last # NoScan /\ sent[doc[f].last][f] > 0

Covered(f) == doc[f].occurrences + Cardinality(InFlight(f)) <= Sums(sent, f)[Scans]

\* The inductive invariant, beside TypeOK.
Earned == \A f \in Findings : /\ \A s \in Scans : SentInBounds(s, f)
                              /\ Known(f)
                              /\ Covered(f)

LEMMA EarnedInit == Init => Earned
<1> SUFFICES ASSUME Init, NEW f \in Findings
             PROVE  (\A s \in Scans : SentInBounds(s, f)) /\ Known(f) /\ Covered(f)
  BY DEF Earned
<1>1. /\ \A s \in Scans : phase[s] = "new" /\ sent[s][f] = 0 /\ retries[s] = 0 /\ todo[s] = {}
      /\ doc[f].occurrences = 0
      /\ InFlight(f) = {}
  BY DEF Init, InFlight
<1>2. Sums(sent, f)[Scans] = 0
  BY <1>1, SumsOfNothing
<1>. QED
  BY <1>1, <1>2, FindingsAssumption, FS_EmptySet DEF SentInBounds, Known, Covered, Stored

\* Issued(s, f) and Unsent(f): what a step does to the upserts of f.
Issued(s, f) == /\ sent'[s][f] = sent[s][f] + 1
                /\ \A q \in Scans : q # s => sent'[q][f] = sent[q][f]

Unsent(f) == \A s \in Scans : sent'[s][f] = sent[s][f]

LEMMA SumsStep ==
    ASSUME TypeOK, NEW f \in Findings
    PROVE  /\ Sums(sent, f)[Scans] \in Nat
           /\ Unsent(f) => Sums(sent', f)[Scans] = Sums(sent, f)[Scans]
           /\ \A s \in Scans : Issued(s, f) => Sums(sent', f)[Scans] = Sums(sent, f)[Scans] + 1
<1>1. sent \in [Scans -> [Findings -> Nat]]
  BY DEF TypeOK
<1>2. CASE Scans = {}
  <2>1. Sums(sent, f)[Scans] = 0 /\ Sums(sent', f)[Scans] = 0
    BY <1>2, SumsOfNothing
  <2>. QED
    BY <1>2, <2>1
<1>3. ASSUME NEW s \in Scans
      PROVE  /\ Sums(sent, f)[Scans] \in Nat
             /\ Unsent(f) => Sums(sent', f)[Scans] = Sums(sent, f)[Scans]
             /\ Issued(s, f) => Sums(sent', f)[Scans] = Sums(sent, f)[Scans] + 1
  <2>1. \A q \in Scans : sent[q][f] \in Nat
    BY <1>1
  <2>2. Sums(sent, f)[Scans] \in Nat
    <3>1. \A q \in Scans : sent[q][f] = sent[q][f] + (IF q = s THEN 0 ELSE 0)
      BY <2>1
    <3>. QED
      BY <2>1, <3>1, SumsGrow
  <2>3. ASSUME Unsent(f) PROVE Sums(sent', f)[Scans] = Sums(sent, f)[Scans] + 0
    <3>1. \A q \in Scans : sent'[q][f] = sent[q][f] + (IF q = s THEN 0 ELSE 0)
      BY <2>1, <2>3 DEF Unsent
    <3>. QED
      BY <2>1, <3>1, SumsGrow
  <2>4. ASSUME Issued(s, f) PROVE Sums(sent', f)[Scans] = Sums(sent, f)[Scans] + 1
    <3>1. \A q \in Scans : sent'[q][f] = sent[q][f] + (IF q = s THEN 1 ELSE 0)
      BY <2>1, <2>4 DEF Issued
    <3>. QED
      BY <2>1, <3>1, SumsGrow
  <2>. QED
    BY <2>2, <2>3, <2>4
<1>. QED
  BY <1>2, <1>3

\* How a step changes the upserts in flight.
LEMMA FlightStep ==
    ASSUME NEW f
    PROVE  /\ IsFiniteSet(InFlight(f)) /\ Cardinality(InFlight(f)) \in Nat
           /\ \A s \in Scans, a \in Attempts : late' = late \cup {<<s, f, a>>}
                  => /\ InFlight(f)' = InFlight(f) \cup {<<s, a>>}
                     /\ Cardinality(InFlight(f)') \in Nat
                     /\ Cardinality(InFlight(f)') <= Cardinality(InFlight(f)) + 1
           /\ \A s \in Scans, a \in Attempts : <<s, f, a>> \in late /\ late' = late \ {<<s, f, a>>}
                  => /\ InFlight(f)' = InFlight(f) \ {<<s, a>>}
                     /\ Cardinality(InFlight(f)') \in Nat
                     /\ Cardinality(InFlight(f)') = Cardinality(InFlight(f)) - 1
<1>1. IsFiniteSet(InFlight(f)) /\ Cardinality(InFlight(f)) \in Nat
  <2>1. IsFiniteSet(Scans \X Attempts)
    <3>1. IsFiniteSet(Attempts)
      BY FindingsAssumption, FS_Interval DEF Attempts
    <3>. QED
      BY <3>1, FindingsAssumption, FS_Product
  <2>. QED
    BY <2>1, FS_Subset, FS_CardinalityType DEF InFlight
<1>2. ASSUME NEW s \in Scans, NEW a \in Attempts, late' = late \cup {<<s, f, a>>}
      PROVE  /\ InFlight(f)' = InFlight(f) \cup {<<s, a>>}
             /\ Cardinality(InFlight(f)') \in Nat
             /\ Cardinality(InFlight(f)') <= Cardinality(InFlight(f)) + 1
  <2>1. InFlight(f)' = InFlight(f) \cup {<<s, a>>}
    BY <1>2 DEF InFlight
  <2>2. CASE <<s, a>> \in InFlight(f)
    <3>1. InFlight(f)' = InFlight(f)
      BY <2>1, <2>2
    <3>. QED
      BY <1>1, <2>1, <3>1
  <2>3. CASE <<s, a>> \notin InFlight(f)
    <3>1. Cardinality(InFlight(f) \cup {<<s, a>>}) = Cardinality(InFlight(f)) + 1
      BY <1>1, <2>3, FS_AddElement
    <3>. QED
      BY <1>1, <2>1, <3>1
  <2>. QED
    BY <2>2, <2>3
<1>3. ASSUME NEW s \in Scans, NEW a \in Attempts, <<s, f, a>> \in late, late' = late \ {<<s, f, a>>}
      PROVE  /\ InFlight(f)' = InFlight(f) \ {<<s, a>>}
             /\ Cardinality(InFlight(f)') \in Nat
             /\ Cardinality(InFlight(f)') = Cardinality(InFlight(f)) - 1
  <2>1. InFlight(f)' = InFlight(f) \ {<<s, a>>} /\ <<s, a>> \in InFlight(f)
    BY <1>3 DEF InFlight
  <2>2. /\ IsFiniteSet(InFlight(f) \ {<<s, a>>})
        /\ Cardinality(InFlight(f) \ {<<s, a>>}) = Cardinality(InFlight(f)) - 1
    BY <1>1, <2>1, FS_RemoveElement
  <2>3. Cardinality(InFlight(f) \ {<<s, a>>}) \in Nat
    BY <2>2, FS_CardinalityType
  <2>. QED
    BY <2>1, <2>2, <2>3
<1>. QED
  BY <1>1, <1>2, <1>3

\* The four ways a step treats the upserts of f: a scan issues one and the database applies
\* it; a scan issues one and leaves it in flight; one in flight lands; one is dropped or
\* nothing happens to f.
Applied(s, f) == /\ Issued(s, f)
                 /\ doc'[f] = Upserted(doc[f], s)
                 /\ InFlight(f)' = InFlight(f)
Abandoned(s, f) == /\ Issued(s, f)
                   /\ doc'[f] = doc[f]
                   /\ \E a \in Attempts : late' = late \cup {<<s, f, a>>}
Lands(s, f) == \E a \in Attempts : <<s, f, a>> \in late /\ late' = late \ {<<s, f, a>>}
Landed(s, f) == /\ Unsent(f)
                /\ doc'[f] = Upserted(doc[f], s)
                /\ Lands(s, f)
Dropped(s, f) == /\ Unsent(f)
                 /\ doc'[f] = doc[f]
                 /\ Lands(s, f)
Untouched(f) == /\ Unsent(f)
                /\ InFlight(f)' = InFlight(f)
                /\ \/ doc'[f] = doc[f]
                   \/ \E state \in Remediation : doc'[f] = [doc[f] EXCEPT !.remediation = state]

LEMMA Treatments ==
    ASSUME TypeOK, [Next]_vars, NEW f \in Findings
    PROVE  \/ Untouched(f)
           \/ \E s \in Scans : \/ Applied(s, f) \/ Abandoned(s, f)
                               \/ Landed(s, f) \/ Dropped(s, f)
<1>0. /\ doc \in [Findings -> Doc]
      /\ sent \in [Scans -> [Findings -> Nat]]
      /\ late \subseteq Scans \X Findings \X Attempts /\ retries \in [Scans -> Attempts]
  BY DEF TypeOK
<1>1. CASE UNCHANGED <<doc, late, sent>>
  BY <1>1 DEF Untouched, Unsent, InFlight
<1>2. ASSUME NEW s \in Scans, NEW g \in Findings, Save(s, g)
      PROVE  Untouched(f) \/ Applied(s, f)
  <2>1. /\ doc' = [doc EXCEPT ![g] = Upserted(@, s)]
        /\ sent' = [sent EXCEPT ![s][g] = @ + 1]
        /\ late' = late
    BY <1>2 DEF Save
  <2>2. CASE f = g
    BY <1>0, <2>1, <2>2 DEF Applied, Issued, InFlight
  <2>3. CASE f # g
    BY <1>0, <2>1, <2>3 DEF Untouched, Unsent, InFlight
  <2>. QED
    BY <2>2, <2>3
<1>3. ASSUME NEW s \in Scans, NEW g \in Findings, AttemptAbandons(s, g)
      PROVE  Untouched(f) \/ Abandoned(s, f)
  <2>1. /\ doc' = doc
        /\ sent' = [sent EXCEPT ![s][g] = @ + 1]
        /\ late' = late \cup {<<s, g, retries[s]>>}
    BY <1>3 DEF AttemptAbandons
  <2>2. CASE f = g
    BY <1>0, <2>1, <2>2 DEF Abandoned, Issued
  <2>3. CASE f # g
    BY <1>0, <2>1, <2>3 DEF Untouched, Unsent, InFlight
  <2>. QED
    BY <2>2, <2>3
<1>4. ASSUME NEW s \in Scans, NEW g \in Findings, NEW a \in Attempts, LandLate(s, g, a)
      PROVE  Untouched(f) \/ Landed(s, f)
  <2>1. /\ doc' = [doc EXCEPT ![g] = Upserted(@, s)]
        /\ sent' = sent
        /\ <<s, g, a>> \in late /\ late' = late \ {<<s, g, a>>}
    BY <1>4 DEF LandLate
  <2>2. CASE f = g
    BY <1>0, <2>1, <2>2 DEF Landed, Lands, Unsent
  <2>3. CASE f # g
    BY <1>0, <2>1, <2>3 DEF Untouched, Unsent, InFlight
  <2>. QED
    BY <2>2, <2>3
<1>5. ASSUME NEW s \in Scans, NEW g \in Findings, NEW a \in Attempts, DropLate(s, g, a)
      PROVE  Untouched(f) \/ Dropped(s, f)
  <2>1. doc' = doc /\ sent' = sent /\ <<s, g, a>> \in late /\ late' = late \ {<<s, g, a>>}
    BY <1>5 DEF DropLate
  <2>2. CASE f = g
    BY <2>1, <2>2 DEF Dropped, Lands, Unsent
  <2>3. CASE f # g
    BY <2>1, <2>3 DEF Untouched, Unsent, InFlight
  <2>. QED
    BY <2>2, <2>3
<1>6. ASSUME NEW g \in Findings, NEW state \in Remediation, Patch(g, state)
      PROVE  Untouched(f)
  <2>1. /\ doc' = [doc EXCEPT ![g].remediation = state]
        /\ sent' = sent /\ late' = late
    BY <1>6 DEF Patch
  <2>2. doc'[f] = doc[f] \/ doc'[f] = [doc[f] EXCEPT !.remediation = state]
    BY <1>0, <2>1
  <2>. QED
    BY <2>1, <2>2 DEF Untouched, Unsent, InFlight
<1>. QED
  BY <1>1, <1>2, <1>3, <1>4, <1>5, <1>6 DEF Next, ScanStep, vars, StartScan, Observe, Finish,
     AttemptFails

\* A count and the upserts in flight rise only with what is issued.
LEMMA CoveredStep ==
    ASSUME TypeOK, [Next]_vars, NEW f \in Findings, Covered(f)
    PROVE  doc'[f].occurrences + Cardinality(InFlight(f)') <= Sums(sent', f)[Scans]
<1> DEFINE n == doc[f].occurrences
           k == Cardinality(InFlight(f))
           sum == Sums(sent, f)[Scans]
<1>1. n \in Nat /\ k \in Nat /\ sum \in Nat /\ n + k <= sum /\ doc[f] \in Doc
  BY FlightStep, SumsStep DEF TypeOK, Doc, Covered
<1>2. ASSUME NEW s \in Scans, Applied(s, f)
      PROVE  doc'[f].occurrences + Cardinality(InFlight(f)') <= Sums(sent', f)[Scans]
  <2>1. /\ doc'[f].occurrences = n + 1
        /\ Cardinality(InFlight(f)') = k
        /\ Sums(sent', f)[Scans] = sum + 1
    BY <1>1, <1>2, UpsertedIsDoc, SumsStep DEF Applied
  <2> HIDE DEF n, k, sum
  <2>. QED
    BY <1>1, <2>1
<1>3. ASSUME NEW s \in Scans, Abandoned(s, f)
      PROVE  doc'[f].occurrences + Cardinality(InFlight(f)') <= Sums(sent', f)[Scans]
  <2>1. /\ doc'[f].occurrences = n
        /\ Cardinality(InFlight(f)') \in Nat /\ Cardinality(InFlight(f)') <= k + 1
        /\ Sums(sent', f)[Scans] = sum + 1
    BY <1>1, <1>3, FlightStep, SumsStep DEF Abandoned
  <2> HIDE DEF n, k, sum
  <2>. QED
    BY <1>1, <2>1
<1>4. ASSUME NEW s \in Scans, Landed(s, f)
      PROVE  doc'[f].occurrences + Cardinality(InFlight(f)') <= Sums(sent', f)[Scans]
  <2>1. /\ doc'[f].occurrences = n + 1
        /\ Cardinality(InFlight(f)') = k - 1
        /\ Sums(sent', f)[Scans] = sum
    BY <1>1, <1>4, UpsertedIsDoc, FlightStep, SumsStep DEF Landed, Lands
  <2> HIDE DEF n, k, sum
  <2>. QED
    BY <1>1, <2>1
<1>5. ASSUME NEW s \in Scans, Dropped(s, f)
      PROVE  doc'[f].occurrences + Cardinality(InFlight(f)') <= Sums(sent', f)[Scans]
  <2>1. /\ doc'[f].occurrences = n
        /\ Cardinality(InFlight(f)') = k - 1
        /\ Sums(sent', f)[Scans] = sum
    BY <1>1, <1>5, FlightStep, SumsStep DEF Dropped, Lands
  <2> HIDE DEF n, k, sum
  <2>. QED
    BY <1>1, <2>1
<1>6. CASE Untouched(f)
  <2>1. /\ doc'[f].occurrences = n
        /\ Cardinality(InFlight(f)') = k
        /\ Sums(sent', f)[Scans] = sum
    BY <1>1, <1>6, SumsStep DEF Untouched, Doc
  <2>. QED
    BY <1>1, <2>1
<1>. QED
  BY <1>2, <1>3, <1>4, <1>5, <1>6, Treatments

\* Only a scan that sent an upsert is named by a document.
LEMMA KnownStep ==
    ASSUME TypeOK, [Next]_vars, NEW f \in Findings, Known(f)
    PROVE  Known(f)'
<1>1. /\ doc[f] \in Doc
      /\ \A s \in Scans : sent[s][f] \in Nat
      /\ NoScan \notin Scans
  BY FindingsAssumption DEF TypeOK
<1>2. \A s \in Scans : sent'[s][f] \in Nat /\ sent'[s][f] >= sent[s][f]
  <2>1. CASE Unsent(f)
    BY <1>1, <2>1 DEF Unsent
  <2>2. CASE \E s \in Scans : Issued(s, f)
    BY <1>1, <2>2 DEF Issued
  <2>. QED
    BY <2>1, <2>2, Treatments DEF Untouched, Applied, Abandoned, Landed, Dropped
<1>3. ASSUME NEW s \in Scans, sent'[s][f] > 0, doc'[f] = Upserted(doc[f], s)
      PROVE  /\ doc'[f].first # NoScan /\ sent'[doc'[f].first][f] > 0
             /\ doc'[f].last # NoScan /\ sent'[doc'[f].last][f] > 0
  <2>1. /\ doc'[f].first = (IF doc[f].occurrences = 0 THEN s ELSE doc[f].first)
        /\ doc'[f].last = s
    BY <1>1, <1>3 DEF Upserted, Doc
  <2>2. CASE Stored(f)
    BY <1>1, <1>2, <1>3, <2>1, <2>2 DEF Known, Stored, Doc
  <2>3. CASE ~Stored(f)
    <3>1. doc[f].occurrences = 0
      BY <1>1, <2>3 DEF Stored, Doc
    <3>. QED
      BY <1>1, <1>3, <2>1, <3>1
  <2>. QED
    BY <2>2, <2>3
<1>4. ASSUME doc'[f].occurrences = doc[f].occurrences, doc'[f].first = doc[f].first,
             doc'[f].last = doc[f].last, Stored(f)'
      PROVE  /\ doc'[f].first # NoScan /\ sent'[doc'[f].first][f] > 0
             /\ doc'[f].last # NoScan /\ sent'[doc'[f].last][f] > 0
  BY <1>1, <1>2, <1>4 DEF Known, Stored, Doc
<1>5. ASSUME NEW s \in Scans, Applied(s, f) PROVE Known(f)'
  <2>1. sent'[s][f] > 0
    BY <1>1, <1>5 DEF Applied, Issued
  <2>2. \A x \in InFlight(f)' : sent'[x[1]][f] > 0
    BY <1>1, <1>2, <1>5 DEF Applied, Known, InFlight
  <2>. QED
    BY <1>3, <1>5, <2>1, <2>2 DEF Known, Applied
<1>6. ASSUME NEW s \in Scans, Abandoned(s, f) PROVE Known(f)'
  <2>1. sent'[s][f] > 0
    BY <1>1, <1>6 DEF Abandoned, Issued
  <2>2. \A x \in InFlight(f)' : sent'[x[1]][f] > 0
    BY <1>1, <1>2, <1>6, <2>1 DEF Abandoned, Known, InFlight
  <2>. QED
    BY <1>4, <1>6, <2>2 DEF Known, Abandoned
<1>7. ASSUME NEW s \in Scans, Landed(s, f) PROVE Known(f)'
  <2>1. sent'[s][f] > 0
    <3>1. PICK a \in Attempts : <<s, f, a>> \in late
      BY <1>7 DEF Landed, Lands
    <3>2. <<s, a>> \in InFlight(f)
      BY <3>1 DEF InFlight
    <3>3. sent[s][f] > 0
      BY <3>2 DEF Known
    <3>. QED
      BY <1>1, <1>2, <3>3
  <2>2. \A x \in InFlight(f)' : sent'[x[1]][f] > 0
    BY <1>1, <1>2, <1>7 DEF Landed, Lands, Known, InFlight
  <2>. QED
    BY <1>3, <1>7, <2>1, <2>2 DEF Known, Landed
<1>8. ASSUME NEW s \in Scans, Dropped(s, f) PROVE Known(f)'
  <2>1. \A x \in InFlight(f)' : sent'[x[1]][f] > 0
    BY <1>1, <1>2, <1>8 DEF Dropped, Lands, Known, InFlight
  <2>. QED
    BY <1>4, <1>8, <2>1 DEF Known, Dropped
<1>9. CASE Untouched(f)
  <2>1. \A x \in InFlight(f)' : sent'[x[1]][f] > 0
    BY <1>1, <1>2, <1>9 DEF Untouched, Known, InFlight
  <2>2. /\ doc'[f].occurrences = doc[f].occurrences
        /\ doc'[f].first = doc[f].first /\ doc'[f].last = doc[f].last
    BY <1>1, <1>9 DEF Untouched, Doc
  <2>. QED
    BY <1>4, <2>1, <2>2 DEF Known
<1>. QED
  BY <1>5, <1>6, <1>7, <1>8, <1>9, Treatments

\* An upsert takes the attempt's turn for its finding, and a new attempt takes a retry.
LEMMA SentStep ==
    ASSUME TypeOK, [Next]_vars, NEW s \in Scans, NEW f \in Findings, SentInBounds(s, f)
    PROVE  SentInBounds(s, f)'
<1>0. /\ sent \in [Scans -> [Findings -> Nat]] /\ retries \in [Scans -> 0..MaxRetries]
      /\ todo \in [Scans -> SUBSET Findings]
      /\ phase \in [Scans -> {"new", "scanning", "saving", "done", "failed"}]
      /\ MaxRetries \in Nat /\ sent[s][f] \in Nat /\ retries[s] \in Nat
  BY FindingsAssumption DEF TypeOK, Attempts
<1>1. CASE /\ phase'[s] = phase[s] /\ retries'[s] = retries[s] /\ todo'[s] = todo[s]
           /\ sent'[s][f] = sent[s][f]
  BY <1>1 DEF SentInBounds
<1>2. ASSUME NEW q \in Scans, NEW allowed \in Attempts, StartScan(q, allowed)
      PROVE  SentInBounds(s, f)'
  <2>1. CASE q = s
    BY <1>0, <1>2, <2>1 DEF StartScan, Attempts, SentInBounds
  <2>2. CASE q # s
    BY <1>0, <1>1, <1>2, <2>2 DEF StartScan
  <2>. QED
    BY <2>1, <2>2
<1>3. ASSUME NEW q \in Scans, NEW found \in SUBSET Findings, Observe(q, found)
      PROVE  SentInBounds(s, f)'
  <2>1. CASE q = s
    BY <1>0, <1>3, <2>1 DEF Observe, SentInBounds
  <2>2. CASE q # s
    BY <1>0, <1>1, <1>3, <2>2 DEF Observe
  <2>. QED
    BY <2>1, <2>2
<1>4. ASSUME NEW q \in Scans, NEW g \in Findings, Save(q, g) PROVE SentInBounds(s, f)'
  <2>1. CASE q = s /\ g = f
    <3>1. /\ phase[s] = "saving" /\ phase'[s] = "saving" /\ retries'[s] = retries[s]
          /\ f \in todo[s] /\ f \notin todo'[s] /\ sent'[s][f] = sent[s][f] + 1
      BY <1>0, <1>4, <2>1 DEF Save
    <3>. QED
      BY <1>0, <3>1 DEF SentInBounds
  <2>2. CASE q = s /\ g # f
    <3>1. /\ phase[s] = "saving" /\ phase'[s] = "saving" /\ retries'[s] = retries[s]
          /\ f \in todo'[s] <=> f \in todo[s]
          /\ sent'[s][f] = sent[s][f]
      BY <1>0, <1>4, <2>2 DEF Save
    <3>. QED
      BY <1>0, <3>1 DEF SentInBounds
  <2>3. CASE q # s
    BY <1>0, <1>1, <1>4, <2>3 DEF Save
  <2>. QED
    BY <2>1, <2>2, <2>3
<1>5. ASSUME NEW q \in Scans, Finish(q) PROVE SentInBounds(s, f)'
  <2>1. CASE q = s
    BY <1>0, <1>5, <2>1 DEF Finish, SentInBounds
  <2>2. CASE q # s
    BY <1>0, <1>1, <1>5, <2>2 DEF Finish
  <2>. QED
    BY <2>1, <2>2
<1>6. ASSUME NEW q \in Scans, Again(q), q = s => sent'[s][f] + retries[s] <= MaxRetries + 1,
             sent'[s][f] \in Nat, q # s => sent'[s][f] = sent[s][f]
      PROVE  SentInBounds(s, f)'
  <2>1. CASE q = s
    <3>1. /\ f \notin todo'[s]
          /\ \/ retries[s] > 0 /\ phase'[s] = "scanning" /\ retries'[s] = retries[s] - 1
             \/ phase'[s] = "failed" /\ retries'[s] = retries[s]
      BY <1>0, <1>6, <2>1 DEF Again
    <3>. QED
      BY <1>0, <1>6, <2>1, <3>1 DEF SentInBounds
  <2>2. CASE q # s
    BY <1>0, <1>1, <1>6, <2>2 DEF Again
  <2>. QED
    BY <2>1, <2>2
<1>7. ASSUME NEW q \in Scans, AttemptFails(q) PROVE SentInBounds(s, f)'
  BY <1>0, <1>6, <1>7 DEF AttemptFails, SentInBounds
<1>8. ASSUME NEW q \in Scans, NEW g \in Findings, AttemptAbandons(q, g)
      PROVE  SentInBounds(s, f)'
  <2>1. Again(q) /\ g \in todo[q] /\ sent' = [sent EXCEPT ![q][g] = @ + 1]
    BY <1>8 DEF AttemptAbandons
  <2>2. /\ sent'[s][f] = (IF q = s /\ g = f THEN sent[s][f] + 1 ELSE sent[s][f])
        /\ sent'[s][f] \in Nat
    BY <1>0, <2>1
  <2>3. q = s => sent'[s][f] + retries[s] <= MaxRetries + 1
    BY <1>0, <2>1, <2>2 DEF SentInBounds
  <2>. QED
    BY <1>6, <2>1, <2>2, <2>3
<1>9. CASE UNCHANGED <<phase, retries, todo, sent>>
  BY <1>1, <1>9
<1>. QED
  BY <1>2, <1>3, <1>4, <1>5, <1>7, <1>8, <1>9 DEF Next, ScanStep, vars, scanVars, LandLate,
     DropLate, Patch

LEMMA EarnedStep == TypeOK /\ Earned /\ [Next]_vars => Earned'
BY SentStep, KnownStep, CoveredStep DEF Earned, Covered

LEMMA EarnedImpliesCounts == TypeOK /\ Earned => CountsAreEarned
<1> SUFFICES ASSUME TypeOK, Earned, NEW f \in Findings
             PROVE  /\ doc[f].occurrences + Cardinality({x \in Scans \X Attempts : <<x[1], f, x[2]>> \in late})
                           <= MapThenSumSet(LAMBDA s : sent[s][f], Scans)
                    /\ \A s \in Scans : sent[s][f] <= MaxRetries + 1
                    /\ Stored(f) => /\ doc[f].first # NoScan /\ sent[doc[f].first][f] > 0
                                    /\ doc[f].last # NoScan /\ sent[doc[f].last][f] > 0
  BY Zenon DEF CountsAreEarned
<1>1. MapThenSumSet(LAMBDA s : sent[s][f], Scans) = Sums(sent, f)[Scans]
  BY SumIsRecursive
<1>2. \A s \in Scans : sent[s][f] <= MaxRetries + 1
  BY FindingsAssumption DEF TypeOK, Attempts, Earned, SentInBounds
<1>. QED
  BY <1>1, <1>2 DEF Earned, Known, Covered, InFlight

\* No finding's count exceeds the upserts issued for it, of which each scan issues at most one
\* an attempt, retried and abandoned attempts included; it names only scans that sent it.
THEOREM CountsEarned == Spec => []CountsAreEarned
BY TypeInit, TypeStep, EarnedInit, EarnedStep, EarnedImpliesCounts, PTL DEF Spec
===========================================================================

--------------------------- MODULE ApiPageProofs ---------------------------
(***************************************************************************)
(* Proofs about the two components of the client's API page.  ApiWorkspace:*)
(* for any documents, replies, collections, workflows and answers, the     *)
(* revisions, cases, rejections, carried values and references are what    *)
(* they should be.  JobPolling: for any jobs and any number of polls, what *)
(* the user is told of a job is true of a server that keeps JobService,    *)
(* and the loops leave no ended job on the screen.                         *)
(***************************************************************************)
EXTENDS JobPolling, ApiWorkspace, FiniteSetTheorems, NaturalsInduction, WellFoundedInduction, TLAPS

(***************************************************************************)
(* Imports.  RevisionsFollowAnswers compares the records that are stored;  *)
(* it is inductive once a record about to be inserted obeys it too, and    *)
(* once what a request counted is known to include what each of those had  *)
(* counted before.                                                         *)
(***************************************************************************)
\* What holds of a request that has counted and not failed since.
CountedOK(r) ==
    /\ revision[r] = Cardinality(counted[r]) + 1
    /\ counted[r] \subseteq stored
    /\ \A s \in counted[r] : counted[s] \subseteq counted[r] \ {s}

ImportInv ==
    /\ ImportTypeOK
    /\ IsFiniteSet(stored)
    /\ \A r \in stored : at[r] = "answered" /\ r \notin counted[r]
    /\ \A r \in Importers : at[r] = "inserting" \/ r \in stored => CountedOK(r)

LEMMA ImportInvInit == ImportInit => ImportInv
BY FS_EmptySet DEF ImportInit, ImportInv, ImportTypeOK

\* A request counts before it inserts, so that what it counted stays stored without it, and
\* whoever it counted has counted fewer.
LEMMA ImportInvStep ==
    ASSUME ImportInv, NEW r \in Importers, ImportStep(r)
    PROVE  ImportInv'
<1>1. ImportTypeOK /\ IsFiniteSet(stored) /\ Cardinality(stored) \in Nat
  BY FS_CardinalityType DEF ImportInv
<1>2. ASSUME NEW where \in {"fetching", "counting", "answered", "failed"}, Moves(r, where),
             r \notin stored
      PROVE  ImportInv'
  <2>1. ImportTypeOK'
    BY <1>1, <1>2 DEF ImportTypeOK, Moves
  <2>2. \A q \in Importers : at'[q] = "inserting" \/ q \in stored' => at[q] = "inserting" \/ q \in stored
    BY <1>1, <1>2 DEF ImportTypeOK, Moves
  <2>3. \A q \in stored' : at'[q] = "answered" /\ q \notin counted'[q]
    BY <1>1, <1>2 DEF ImportTypeOK, ImportInv, Moves
  <2>. QED
    BY <1>1, <1>2, <2>1, <2>2, <2>3 DEF ImportInv, CountedOK, Moves
<1>3. at[r] # "answered" => r \notin stored
  BY DEF ImportInv
<1>4. CASE Begin(r)
  BY <1>2, <1>3, <1>4 DEF Begin, Read
<1>5. CASE Fetched(r)
  BY <1>2, <1>3, <1>5 DEF Fetched, Read
<1>6. CASE ImportStops(r)
  BY <1>2, <1>3, <1>6 DEF ImportStops
<1>7. CASE NextVersion(r)
  <2>1. r \notin stored
    BY <1>3, <1>7 DEF NextVersion
  <2>2. ImportTypeOK'
    BY <1>1, <1>7 DEF ImportTypeOK, NextVersion
  <2>3. CountedOK(r)'
    BY <1>1, <1>7, <2>1 DEF ImportTypeOK, NextVersion, ImportInv, CountedOK
  <2>4. ASSUME NEW q \in Importers, q # r, at'[q] = "inserting" \/ q \in stored'
        PROVE  CountedOK(q)'
    <3>1. CountedOK(q)
      BY <1>1, <1>7, <2>4 DEF ImportTypeOK, NextVersion, ImportInv
    <3>2. r \notin counted[q] /\ counted'[q] = counted[q] /\ revision'[q] = revision[q]
      BY <1>1, <1>7, <2>1, <2>4, <3>1 DEF ImportTypeOK, NextVersion, CountedOK
    <3>3. \A s \in counted[q] : counted'[s] = counted[s]
      BY <1>1, <1>7, <3>2 DEF ImportTypeOK, NextVersion
    <3>. QED
      BY <1>7, <3>1, <3>2, <3>3 DEF NextVersion, CountedOK
  <2>5. \A q \in stored' : at'[q] = "answered" /\ q \notin counted'[q]
    BY <1>1, <1>7, <2>1 DEF ImportTypeOK, ImportInv, NextVersion
  <2>. QED
    BY <1>1, <1>7, <2>2, <2>3, <2>4, <2>5 DEF ImportInv, NextVersion
<1>8. CASE Create(r)
  <2>1. r \notin stored
    BY <1>3, <1>8 DEF Create
  <2>2. CASE Moves(r, "failed")
    BY <1>2, <2>1, <2>2
  <2>3. CASE /\ stored' = stored \cup {r}
             /\ at' = [at EXCEPT ![r] = "answered"]
             /\ UNCHANGED <<document, revision, counted>>
    <3>1. ImportTypeOK'
      BY <1>1, <2>3 DEF ImportTypeOK
    <3>2. IsFiniteSet(stored')
      BY <1>1, <2>3, FS_AddElement
    <3>3. CountedOK(r) /\ r \notin counted[r]
      BY <1>8, <2>1 DEF Create, ImportInv, CountedOK
    <3>4. \A q \in stored' : at'[q] = "answered" /\ q \notin counted'[q]
      BY <1>1, <2>3, <3>3 DEF ImportTypeOK, ImportInv
    <3>5. ASSUME NEW q \in Importers, at'[q] = "inserting" \/ q \in stored' PROVE CountedOK(q)'
      <4>1. CountedOK(q)
        BY <1>1, <2>3, <3>3, <3>5 DEF ImportTypeOK, ImportInv
      <4>. QED
        BY <2>3, <4>1 DEF CountedOK
    <3>. QED
      BY <3>1, <3>2, <3>4, <3>5 DEF ImportInv
  <2>. QED
    BY <1>8, <2>2, <2>3 DEF Create
<1>. QED
  BY <1>4, <1>5, <1>6, <1>7, <1>8 DEF ImportStep

LEMMA ImportInvKept == ImportInv /\ UNCHANGED importVars => ImportInv'
BY DEF ImportInv, ImportTypeOK, importVars, CountedOK

\* A revision is one more than what its request counted, a set its own request is not in.
LEMMA CountsOrderRevisions == ImportInv => RevisionsFollowAnswers
<1> SUFFICES ASSUME ImportInv, NEW r \in stored, NEW s \in stored
             PROVE  /\ s \in counted[r] => revision[s] < revision[r]
                    /\ revision[r] <= Cardinality(stored)
  BY DEF RevisionsFollowAnswers
<1>1. CountedOK(r) /\ CountedOK(s) /\ r \notin counted[r]
  BY DEF ImportInv, ImportTypeOK
<1>2. \A C \in SUBSET stored : IsFiniteSet(C) /\ Cardinality(C) \in Nat
  BY FS_Subset, FS_CardinalityType DEF ImportInv
<1>3. ASSUME NEW C \in SUBSET stored, NEW t \in C, NEW B \in SUBSET (C \ {t})
      PROVE  Cardinality(B) + 1 <= Cardinality(C)
  <2>1. IsFiniteSet(C \ {t}) /\ Cardinality(C \ {t}) = Cardinality(C) - 1
    BY <1>2, FS_RemoveElement
  <2>2. Cardinality(B) <= Cardinality(C \ {t})
    BY <2>1, FS_Subset
  <2>3. Cardinality(B) \in Nat /\ Cardinality(C) \in Nat
    BY <1>2
  <2>. QED
    BY <2>1, <2>2, <2>3
<1>4. ASSUME s \in counted[r] PROVE revision[s] < revision[r]
  <2>1. Cardinality(counted[s]) + 1 <= Cardinality(counted[r])
    BY <1>1, <1>3, <1>4 DEF CountedOK
  <2>2. Cardinality(counted[s]) \in Nat /\ Cardinality(counted[r]) \in Nat
    BY <1>1, <1>2 DEF CountedOK
  <2>. QED
    BY <1>1, <2>1, <2>2 DEF CountedOK
<1>5. revision[r] <= Cardinality(stored)
  <2>1. counted[r] \in SUBSET (stored \ {r}) /\ stored \in SUBSET stored
    BY <1>1 DEF CountedOK
  <2>. QED
    BY <1>1, <1>3, <2>1 DEF CountedOK
<1>. QED
  BY <1>4, <1>5

(***************************************************************************)
(* FlattenSeq.  The operations of a document, the cases of a reply and     *)
(* the assertions of a case are all joined from pieces; what the recursive *)
(* function of FlattenSeq computes is proved by induction, with the least  *)
(* counterexample in place of an induction rule.                           *)
(***************************************************************************)
\* A set of naturals with 0 that is closed under successor holds every natural.
LEMMA AllNaturals ==
    ASSUME NEW N, 0 \in N, \A n \in Nat : n \in N => n + 1 \in N
    PROVE  Nat \subseteq N
<1> DEFINE others == Nat \ N
           less == {p \in Nat \X Nat : p[1] < p[2]}
<1>1. IsWellFoundedOn(less, Nat)
  BY NatLessThanWellFounded DEF OpToRel
<1>2. ASSUME others # {} PROVE FALSE
  <2>1. others \subseteq Nat
    OBVIOUS
  <2>2. PICK n \in others : \A m \in others : <<m, n>> \notin less
    <3> HIDE DEF others, less
    <3>. QED
      BY <1>1, <1>2, <2>1, WFMin
  <2>3. n \in Nat /\ n # 0 /\ n \notin N
    OBVIOUS
  <2>4. n - 1 \in Nat /\ n - 1 < n /\ (n - 1) + 1 = n
    BY <2>3
  <2>5. n - 1 \in N
    BY <2>2, <2>3, <2>4
  <2>. QED
    BY <2>3, <2>4, <2>5
<1>. QED
  BY <1>2

\* joins[n] joins the first n pieces.
Turn(joins, pieces, n) == IF n = 1 THEN pieces[n] ELSE joins[n - 1] \o pieces[n]

Joined(joins, pieces) == joins = [n \in 1..Len(pieces) |-> Turn(joins, pieces, n)]

Joins(pieces) == CHOOSE joins : Joined(joins, pieces)

\* FlattenSeq is the last value of a recursive function, which JoinsExist shows to exist.
LEMMA FlattenIsRecursive ==
    ASSUME NEW pieces, Len(pieces) # 0
    PROVE  FlattenSeq(pieces) = Joins(pieces)[Len(pieces)]
BY Zenon DEF FlattenSeq, Joined, Joins, Turn

\* The recursion has a solution: those for the first n pieces extend each other.
LEMMA JoinsExist ==
    ASSUME NEW pieces, Len(pieces) \in Nat
    PROVE  Joined(Joins(pieces), pieces)
<1> DEFINE Solves(joins, k) == \A n \in 1..k : joins[n] = Turn(joins, pieces, n)
           N == {k \in Nat : \E joins : Solves(joins, k)}
<1>1. 0 \in N
  OBVIOUS
<1>2. ASSUME NEW k \in N PROVE k + 1 \in N
  <2>1. k \in Nat
    OBVIOUS
  <2>2. PICK joins : Solves(joins, k)
    BY <1>2
  <2> DEFINE longer == [n \in 1..(k + 1) |-> Turn(joins, pieces, n)]
  <2>3. ASSUME NEW n \in 1..(k + 1) PROVE longer[n] = Turn(longer, pieces, n)
    <3>1. longer[n] = Turn(joins, pieces, n)
      OBVIOUS
    <3>2. n # 1 => n - 1 \in 1..k
      BY <2>1
    <3>3. n # 1 => longer[n - 1] = joins[n - 1]
      BY <2>1, <2>2, <3>2
    <3> HIDE DEF longer
    <3>. QED
      BY <3>1, <3>3 DEF Turn
  <2>4. \E longerJoins : Solves(longerJoins, k + 1)
    BY <2>3
  <2>. QED
    <3> HIDE DEF Solves, longer
    <3>. QED
      BY <2>1, <2>4
<1>3. Len(pieces) \in N
  <2>1. Nat \subseteq N
    <3> HIDE DEF N
    <3>. QED
      BY <1>1, <1>2, AllNaturals
  <2>. QED
    BY <2>1
<1>4. PICK joins : Solves(joins, Len(pieces))
  BY <1>3
<1> DEFINE whole == [n \in 1..Len(pieces) |-> joins[n]]
<1>5. ASSUME NEW n \in 1..Len(pieces) PROVE whole[n] = Turn(whole, pieces, n)
  <2>1. n # 1 => n - 1 \in 1..Len(pieces)
    OBVIOUS
  <2>2. n # 1 => whole[n - 1] = joins[n - 1]
    BY <2>1
  <2>3. whole[n] = Turn(joins, pieces, n)
    BY <1>4
  <2> HIDE DEF whole
  <2>. QED
    BY <2>2, <2>3 DEF Turn
<1>6. Joined(whole, pieces)
  BY <1>5 DEF Joined
<1> HIDE DEF whole
<1>. QED
  BY <1>6 DEF Joins

\* Pieces that are sequences over V join to a sequence over V.
LEMMA FlattenType ==
    ASSUME NEW V, NEW pieces \in Seq(Seq(V))
    PROVE  FlattenSeq(pieces) \in Seq(V)
<1> DEFINE joins == Joins(pieces)
           N == {k \in Nat : k + 1 \in 1..Len(pieces) => joins[k + 1] \in Seq(V)}
<1>1. Len(pieces) \in Nat /\ \A n \in 1..Len(pieces) : pieces[n] \in Seq(V)
  OBVIOUS
<1>2. Joined(joins, pieces)
  BY <1>1, JoinsExist
<1>3. \A n \in 1..Len(pieces) : joins[n] = Turn(joins, pieces, n)
  <2> HIDE DEF joins
  <2>. QED
    BY <1>2 DEF Joined
<1> HIDE DEF joins
<1>4. 0 \in N
  BY <1>1, <1>3 DEF Turn
<1>5. ASSUME NEW k \in N PROVE k + 1 \in N
  <2>1. k \in Nat
    OBVIOUS
  <2>2. ASSUME (k + 1) + 1 \in 1..Len(pieces) PROVE joins[(k + 1) + 1] \in Seq(V)
    <3>1. k + 1 \in 1..Len(pieces) /\ (k + 1) + 1 # 1 /\ ((k + 1) + 1) - 1 = k + 1
      BY <1>1, <2>1, <2>2
    <3>2. joins[(k + 1) + 1] = joins[k + 1] \o pieces[(k + 1) + 1]
      BY <1>3, <2>2, <3>1 DEF Turn
    <3>3. joins[k + 1] \in Seq(V) /\ pieces[(k + 1) + 1] \in Seq(V)
      BY <1>1, <2>2, <3>1
    <3>. QED
      BY <3>2, <3>3
  <2>. QED
    BY <2>1, <2>2
<1>6. CASE Len(pieces) = 0
  <2>1. FlattenSeq(pieces) = pieces /\ pieces = << >>
    BY <1>6 DEF FlattenSeq
  <2>. QED
    BY <2>1
<1>7. CASE Len(pieces) # 0
  <2>1. Nat \subseteq N
    <3> HIDE DEF N
    <3>. QED
      BY <1>4, <1>5, AllNaturals
  <2>2. PICK k \in Nat : k + 1 = Len(pieces)
    <3>1. Len(pieces) - 1 \in Nat /\ (Len(pieces) - 1) + 1 = Len(pieces)
      BY <1>1, <1>7
    <3>. QED
      BY <3>1
  <2>3. k \in N /\ k + 1 \in 1..Len(pieces)
    BY <1>1, <2>1, <2>2
  <2>4. joins[Len(pieces)] \in Seq(V)
    BY <2>2, <2>3
  <2>. QED
    BY <1>7, <2>4, FlattenIsRecursive DEF joins
<1>. QED
  BY <1>6, <1>7

\* One element for each of a sequence.
LEMMA MappedType ==
    ASSUME NEW V, NEW W, NEW s \in Seq(V), NEW f, f = [i \in DOMAIN s |-> f[i]],
           \A i \in DOMAIN s : f[i] \in W
    PROVE  f \in Seq(W)
<1>1. Len(s) \in Nat /\ DOMAIN s = 1..Len(s)
  OBVIOUS
<1>2. f \in [1..Len(s) -> W]
  BY <1>1
<1>. QED
  BY <1>1, <1>2

\* What the prover needs to be told of sequences, with no more than membership in hand.
LEMMA ElementType ==
    ASSUME NEW V, NEW s \in Seq(V), NEW i \in DOMAIN s
    PROVE  s[i] \in V
OBVIOUS

(***************************************************************************)
(* Cases.  Every case of the session is one CaseOf made, or a collected    *)
(* one, of the specification the session still works with.                 *)
(***************************************************************************)
LEMMA LeastOfNaturals ==
    ASSUME NEW numbers \in SUBSET Nat, numbers # {}
    PROVE  \E n \in numbers : \A m \in numbers : n <= m
<1> DEFINE less == {p \in Nat \X Nat : p[1] < p[2]}
<1>1. IsWellFoundedOn(less, Nat)
  BY NatLessThanWellFounded DEF OpToRel
<1>2. PICK n \in numbers : \A m \in numbers : <<m, n>> \notin less
  <2> HIDE DEF less
  <2>. QED
    BY <1>1, WFMin
<1>3. ASSUME NEW m \in numbers, ~(n <= m) PROVE FALSE
  <2>1. m \in Nat /\ n \in Nat
    OBVIOUS
  <2>2. <<m, n>> \in less
    BY <1>3, <2>1
  <2>. QED
    BY <1>2, <2>2
<1>. QED
  BY <1>3

\* What is needed of the specification: servers and operations are lists.
IsList(s) == Len(s) \in Nat /\ DOMAIN s = 1..Len(s)
SpecOK == spec.servers \in Seq(STRING) /\ IsList(spec.operations)

\* The operations of a specification are those of the entries of its document.
OperationsOf(d) == {Operation(d, d.paths[e[1]], e[2]) : e \in (DOMAIN d.paths) \X OperationEntry}

\* Every operation of a specification is that of an entry under a path.
LEMMA SpecificationType ==
    ASSUME NEW d, d.paths \in Seq(PathItem)
    PROVE  Specification(d).servers = d.servers /\ Specification(d).operations \in Seq(OperationsOf(d))
<1> DEFINE operations(item) == [i \in DOMAIN item.operations |-> Operation(d, item, item.operations[i])]
           pieces == [p \in DOMAIN d.paths |-> operations(d.paths[p])]
<1>1. Specification(d).servers = d.servers /\ Specification(d).operations = FlattenSeq(pieces)
  BY DEF Specification
<1>2. ASSUME NEW p \in DOMAIN d.paths PROVE operations(d.paths[p]) \in Seq(OperationsOf(d))
  <2> DEFINE f == operations(d.paths[p])
             s == d.paths[p].operations
  <2>1. d.paths[p] \in PathItem
    BY <1>2, ElementType
  <2>2. s \in Seq(OperationEntry)
    BY <2>1 DEF PathItem
  <2>3. ASSUME NEW i \in DOMAIN s PROVE f[i] \in OperationsOf(d)
    <3>1. s[i] \in OperationEntry
      BY <2>2, ElementType
    <3>2. f[i] = Operation(d, d.paths[p], s[i])
      OBVIOUS
    <3>3. <<p, s[i]>> \in (DOMAIN d.paths) \X OperationEntry
      BY <3>1
    <3> HIDE DEF f, s
    <3>. QED
      BY <3>2, <3>3 DEF OperationsOf
  <2>4. f = [i \in DOMAIN s |-> f[i]]
    OBVIOUS
  <2> HIDE DEF f, s
  <2>5. f \in Seq(OperationsOf(d))
    BY <2>2, <2>3, <2>4, MappedType
  <2>. QED
    BY <2>5 DEF f
<1>3. pieces \in Seq(Seq(OperationsOf(d)))
  <2> HIDE DEF operations
  <2>1. \A p \in DOMAIN d.paths : pieces[p] \in Seq(OperationsOf(d))
    BY <1>2
  <2>2. pieces = [p \in DOMAIN d.paths |-> pieces[p]]
    OBVIOUS
  <2> HIDE DEF pieces
  <2>. QED
    BY <2>1, <2>2, MappedType
<1> HIDE DEF pieces
<1>4. FlattenSeq(pieces) \in Seq(OperationsOf(d))
  BY <1>3, FlattenType
<1>. QED
  BY <1>1, <1>4

\* The least index among the matches, which CaseOf chooses, exists.
LEMMA LeastMatch ==
    ASSUME SpecOK, NEW item, Matches(item) # {},
           NEW least, least = CHOOSE i \in Matches(item) : \A j \in Matches(item) : i <= j
    PROVE  least \in Matches(item)
<1>1. Matches(item) \in SUBSET Nat
  <2>1. DOMAIN spec.operations \subseteq Nat
    BY DEF SpecOK, IsList
  <2>. QED
    BY <2>1 DEF Matches
<1>2. \E i \in Matches(item) : \A j \in Matches(item) : i <= j
  BY <1>1, LeastOfNaturals
<1>. QED
  BY <1>2

Assertion == [kind : AssertionKinds, code : Nat]

\* Only known kinds of assertions survive.
LEMMA NormalizedType ==
    ASSUME NEW raws \in Seq(RawAssertion)
    PROVE  AllNormalized(raws) \in Seq(Assertion)
<1> DEFINE pieces == [i \in DOMAIN raws |-> Normalized(raws[i])]
<1>1. ASSUME NEW i \in DOMAIN raws PROVE Normalized(raws[i]) \in Seq(Assertion)
  <2>1. raws[i].code \in Nat /\ "status" \in AssertionKinds
    <3>1. raws[i] \in RawAssertion
      BY <1>1, ElementType
    <3>. QED
      BY <3>1 DEF RawAssertion, AssertionKinds
  <2>2. CASE raws[i].form = "text" /\ raws[i].code # 0
    <3>1. Normalized(raws[i]) = <<[kind |-> "status", code |-> raws[i].code]>>
      BY Zenon, <2>2 DEF Normalized
    <3>. QED
      BY <2>1, <3>1 DEF Assertion
  <2>3. CASE /\ ~(raws[i].form = "text" /\ raws[i].code # 0)
             /\ raws[i].form = "object" /\ Alias(raws[i].kind) \in AssertionKinds
             /\ Alias(raws[i].kind) = "status" => raws[i].code # 0
    <3>1. Normalized(raws[i]) = <<[kind |-> Alias(raws[i].kind), code |-> raws[i].code]>>
      BY Zenon, <2>3 DEF Normalized
    <3>. QED
      BY <2>1, <2>3, <3>1 DEF Assertion
  <2>4. CASE /\ ~(raws[i].form = "text" /\ raws[i].code # 0)
             /\ ~ /\ raws[i].form = "object" /\ Alias(raws[i].kind) \in AssertionKinds
                  /\ Alias(raws[i].kind) = "status" => raws[i].code # 0
    <3>1. Normalized(raws[i]) = << >>
      BY Zenon, <2>4 DEF Normalized
    <3>. QED
      BY <3>1
  <2>. QED
    BY <2>2, <2>3, <2>4
<1>2. pieces \in Seq(Seq(Assertion))
  <2>1. \A i \in DOMAIN raws : pieces[i] \in Seq(Assertion)
    BY <1>1
  <2>2. pieces = [i \in DOMAIN raws |-> pieces[i]]
    OBVIOUS
  <2> HIDE DEF pieces
  <2>. QED
    BY <2>1, <2>2, MappedType
<1>. QED
  <2> HIDE DEF pieces
  <2>1. AllNormalized(raws) = FlattenSeq(pieces)
    BY DEF AllNormalized, pieces
  <2>. QED
    BY <1>2, <2>1, FlattenType

\* decision_score keeps its declared range for any number of assertions.
LEMMA ScoreInRange ==
    ASSUME NEW priority, NEW category, NEW steps \in Nat
    PROVE  Score(priority, category, steps) \in 0..100
<1> DEFINE points == CASE priority = "high" -> 30 [] priority = "medium" -> 20
                       [] priority = "low" -> 10 [] OTHER -> 15
           risk == CASE category = "negative_test" -> 25 [] category = "edge_case" -> 15 [] OTHER -> 5
           cost == IF steps <= 3 THEN 10 ELSE IF steps >= 13 THEN -10 ELSE 10 - 2 * (steps - 3)
           total == points + risk + 15 + cost
<1>1. points \in {10, 15, 20, 30}
  BY Zenon
<1>2. risk \in {5, 15, 25}
  BY Zenon
<1>3. cost \in Int
  OBVIOUS
<1>4. total \in Int
  <2> HIDE DEF points, risk, cost
  <2>. QED
    BY <1>1, <1>2, <1>3
<1>5. Score(priority, category, steps) = IF total < 0 THEN 0 ELSE IF total > 100 THEN 100 ELSE total
  BY DEF Score
<1> HIDE DEF total
<1>. QED
  BY <1>4, <1>5

\* A case is that of an operation it reaches, or was collected; it can be scored and
\* checked, and without a token it expects to be rejected.
CaseOK(case) ==
    /\ case.score \in 0..100
    /\ \A j \in DOMAIN case.assertions : case.assertions[j].kind \in AssertionKinds
    /\ case.operation # 0 =>
           /\ spec.operations[case.operation].method = case.method
           /\ \/ Fits(spec.operations[case.operation].path, case.path)
              \/ Head(case.path) \in {spec.servers[s] : s \in 2..Len(spec.servers)}
           /\ /\ spec.operations[case.operation].auth # {}
              /\ case.credential \in {"none", "key"}
              => case.assertions = <<[kind |-> "status", code |-> 401]>>

\* A case made of an item that matches, whatever server, credential and assertions it names.
LEMMA CaseOfIsOK ==
    ASSUME SpecOK, NEW item \in ReplyItem, Matches(item) # {}
    PROVE  CaseOK(CaseOf(item))
<1> DEFINE least == CHOOSE i \in Matches(item) : \A j \in Matches(item) : i <= j
<1>1. PICK i : i = least
  OBVIOUS
<1> HIDE DEF least
<1> DEFINE asserted == IF Tokenless(spec.operations[i], item) THEN <<[kind |-> "status", code |-> 401]>>
                       ELSE AllNormalized(item.assertions)
           priority == IF item.priority # "" THEN item.priority
                       ELSE IF item.method = "GET" THEN "medium" ELSE "high"
           prefix == IF item.server \in {"", Base} THEN << >> ELSE <<item.server>>
           steps == IF asserted = << >> THEN 1 ELSE Len(asserted)
<1>2. i \in Matches(item)
  BY <1>1, LeastMatch DEF least
<1>3. asserted \in Seq(Assertion)
  <2>1. <<[kind |-> "status", code |-> 401]>> \in Seq(Assertion)
    BY DEF Assertion, AssertionKinds
  <2>2. AllNormalized(item.assertions) \in Seq(Assertion)
    BY NormalizedType DEF ReplyItem
  <2>. QED
    BY <2>1, <2>2
<1>4. CaseOf(item) = [operation |-> i, method |-> item.method, server |-> Base,
                      credential |-> item.credential, path |-> prefix \o item.path,
                      assertions |-> asserted, score |-> Score(priority, item.category, steps)]
  BY <1>1 DEF CaseOf, least
<1>5. Score(priority, item.category, steps) \in 0..100
  <2>1. steps \in Nat
    BY <1>3
  <2>. QED
    BY <2>1, ScoreInRange
<1>6. spec.operations[i].method = item.method /\ Fits(spec.operations[i].path, item.path)
  BY <1>2 DEF Matches
<1>7. \/ Fits(spec.operations[i].path, prefix \o item.path)
      \/ Head(prefix \o item.path) \in {spec.servers[s] : s \in 2..Len(spec.servers)}
  <2>1. item.path \in Seq(STRING) /\ item.server \in STRING
    BY DEF ReplyItem
  <2>2. /\ item.server \in {"", Base} => prefix = << >>
        /\ item.server \notin {"", Base} => prefix = <<item.server>>
    OBVIOUS
  <2> HIDE DEF prefix
  <2>3. CASE item.server \in {"", Base}
    <3>1. \A s \in Seq(STRING) : << >> \o s = s
      OBVIOUS
    <3>2. prefix = << >>
      BY <2>3, <2>2
    <3>3. << >> \o item.path = item.path
      BY <2>1, <3>1
    <3>. QED
      BY <1>6, <3>2, <3>3
  <2>4. CASE item.server \notin {"", Base}
    <3>1. \A s \in Seq(STRING) : \A x \in STRING : Head(<<x>> \o s) = x
      OBVIOUS
    <3>2. Head(prefix \o item.path) = item.server
      BY <2>1, <2>4, <2>2, <3>1
    <3>3. PICK s \in DOMAIN spec.servers : item.server = spec.servers[s]
      BY <1>2, <2>4 DEF Matches
    <3>4. spec.servers \in Seq(STRING)
      BY DEF SpecOK
    <3>5. DOMAIN spec.servers = 1..Len(spec.servers) /\ Len(spec.servers) \in Nat
      BY <3>4
    <3>6. spec.servers # << >>
      BY <3>3, <3>5
    <3>7. s # 1
      BY <2>4, <3>3, <3>6 DEF Base
    <3>8. s \in 2..Len(spec.servers)
      BY <3>3, <3>5, <3>7
    <3>. QED
      BY <3>2, <3>3, <3>8
  <2>. QED
    BY <2>3, <2>4
<1>8. /\ spec.operations[i].auth # {} /\ item.credential \in {"none", "key"}
      => asserted = <<[kind |-> "status", code |-> 401]>>
  BY DEF Tokenless
<1> HIDE DEF asserted, priority, prefix, steps
<1>9. \A j \in DOMAIN asserted : asserted[j].kind \in AssertionKinds
  <2>1. \A j \in DOMAIN asserted : asserted[j] \in Assertion
    BY <1>3, ElementType
  <2>. QED
    BY <2>1 DEF Assertion
<1>. QED
  <2> DEFINE case == CaseOf(item)
  <2>1. /\ case.operation = i /\ case.method = item.method /\ case.credential = item.credential
        /\ case.path = prefix \o item.path /\ case.assertions = asserted
        /\ case.score = Score(priority, item.category, steps)
    BY <1>4
  <2> HIDE DEF case
  <2>2. CaseOK(case)
    BY <1>5, <1>6, <1>7, <1>8, <1>9, <2>1 DEF CaseOK
  <2>. QED
    BY <2>2 DEF case

(***************************************************************************)
(* References.  resolve calls itself for the keys of a value, which nest   *)
(* no further, and for the target of a reference, with one name more that  *)
(* is not to be followed: by induction on the names that still are.        *)
(***************************************************************************)
\* A sequence of c steps from a base.
Iterated(f, S, base, step, c) ==
    f[0] = base /\ \A n \in 0..c : f[n] \in S /\ (n > 0 => f[n] = step[f[n - 1]])

\* A step that stays in a set can be repeated.
LEMMA Iterates ==
    ASSUME NEW S, NEW base \in S, NEW step, \A x \in S : step[x] \in S, NEW c \in Nat
    PROVE  \E f : Iterated(f, S, base, step, c)
<1> DEFINE Goes(f, k) == f[0] = base /\ \A n \in 0..k : f[n] \in S /\ (n > 0 => f[n] = step[f[n - 1]])
           N == {k \in Nat : \E f : Goes(f, k)}
<1>1. 0 \in N
  <2> DEFINE f == [n \in {0} |-> base]
  <2>1. Goes(f, 0)
    OBVIOUS
  <2> HIDE DEF f
  <2>. QED
    BY <2>1
<1>2. ASSUME NEW k \in N PROVE k + 1 \in N
  <2>1. k \in Nat
    OBVIOUS
  <2>2. PICK f : Goes(f, k)
    BY <1>2
  <2> DEFINE longer == [n \in 0..(k + 1) |-> IF n = k + 1 THEN step[f[k]] ELSE f[n]]
  <2>3. /\ longer[k + 1] = step[f[k]] /\ f[k] \in S
        /\ \A n \in 0..k : longer[n] = f[n]
    BY <2>1, <2>2
  <2> HIDE DEF longer
  <2>4. longer[0] = base
    BY <2>1, <2>2, <2>3
  <2>5. ASSUME NEW n \in 0..(k + 1) PROVE longer[n] \in S /\ (n > 0 => longer[n] = step[longer[n - 1]])
    <3>1. CASE n = k + 1
      BY <2>1, <2>3, <3>1
    <3>2. CASE n # k + 1
      <4>1. n \in 0..k /\ (n > 0 => n - 1 \in 0..k)
        BY <2>1, <3>2
      <4>. QED
        BY <2>2, <2>3, <4>1
    <3>. QED
      BY <3>1, <3>2
  <2>6. Goes(longer, k + 1)
    BY <2>4, <2>5
  <2> HIDE DEF Goes
  <2>. QED
    BY <2>1, <2>6
<1> HIDE DEF N
<1>3. c \in N
  BY <1>1, <1>2, AllNaturals
<1>. QED
  BY <1>3 DEF N, Iterated

\* The names a name leads to in one step, and in at most n.
StepOf(schemas) ==
    {e \in Names \X Names : e[1] \in DOMAIN schemas /\ e[2] \in NamesIn(schemas[e[1]])}

Further(schemas, pairs) ==
    pairs \cup {e \in Names \X Names : \E m \in Names : <<e[1], m>> \in pairs /\ <<m, e[2]>> \in StepOf(schemas)}

Stepping(schemas, within, n) == IF n = 1 THEN StepOf(schemas) ELSE Further(schemas, within[n - 1])

Within(schemas) ==
    CHOOSE within : within = [n \in 1..Cardinality(Names) |-> Stepping(schemas, within, n)]

LEMMA LeadsIsRecursive ==
    ASSUME NEW schemas
    PROVE  LeadsTo(schemas) = Within(schemas)[Cardinality(Names)]
BY Zenon DEF LeadsTo, Within, Stepping, Further, StepOf

LEMMA NamesCount ==
    /\ Cardinality(Names) \in Nat
    /\ \A seen \in SUBSET Names : /\ IsFiniteSet(seen) /\ IsFiniteSet(Names \ seen)
                                  /\ Cardinality(seen) \in Nat /\ Cardinality(Names \ seen) \in Nat
                                  /\ Cardinality(seen) <= Cardinality(Names)
                                  /\ Cardinality(seen) = 0 <=> seen = {}
                                  /\ Cardinality(Names \ seen) = 0 <=> Names \ seen = {}
<1>1. IsFiniteSet(Names) /\ Cardinality(Names) \in Nat
  BY NamesAssumption, FS_CardinalityType
<1>2. ASSUME NEW seen \in SUBSET Names
      PROVE  /\ IsFiniteSet(seen) /\ Cardinality(seen) \in Nat
             /\ Cardinality(seen) <= Cardinality(Names)
             /\ Cardinality(seen) = 0 <=> seen = {}
  BY <1>1, FS_Subset, FS_CardinalityType, FS_EmptySet
<1>. QED
  BY <1>1, <1>2

LEMMA WithinSteps ==
    ASSUME NEW schemas
    PROVE  \A n \in 1..Cardinality(Names) : Within(schemas)[n] = Stepping(schemas, Within(schemas), n)
<1> DEFINE S == SUBSET (Names \X Names)
           step == [pairs \in S |-> Further(schemas, pairs)]
           c == Cardinality(Names)
<1>1. c \in Nat
  BY NamesCount
<1>2. StepOf(schemas) \in S /\ \A pairs \in S : step[pairs] \in S
  BY DEF StepOf, Further
<1>3. PICK f : Iterated(f, S, StepOf(schemas), step, c)
  <2> HIDE DEF S, step, c
  <2>. QED
    BY <1>1, <1>2, Iterates
<1> DEFINE within == [n \in 1..c |-> f[n - 1]]
<1>4. ASSUME NEW n \in 1..c PROVE within[n] = Stepping(schemas, within, n)
  <2>1. n - 1 \in 0..c /\ (n # 1 => n - 1 > 0 /\ n - 1 \in 1..c)
    BY <1>1
  <2>2. n # 1 => within[n - 1] \in S /\ within[n] = step[within[n - 1]]
    <3>1. n # 1 => n - 2 \in 0..c /\ (n - 1) - 1 = n - 2
      BY <1>1
    <3>. QED
      BY <1>3, <2>1, <3>1 DEF Iterated
  <2>3. n = 1 => within[n] = StepOf(schemas)
    BY <1>3 DEF Iterated
  <2> HIDE DEF within
  <2>. QED
    BY <2>2, <2>3 DEF Stepping
<1>5. within = [n \in 1..c |-> Stepping(schemas, within, n)]
  <2>1. within = [n \in 1..c |-> within[n]]
    OBVIOUS
  <2> HIDE DEF within, c
  <2>. QED
    BY <1>4, <2>1
<1>6. \E w : w = [n \in 1..c |-> Stepping(schemas, w, n)]
  <2> HIDE DEF within, c
  <2>. QED
    BY <1>5
<1>7. Within(schemas) = [n \in 1..c |-> Stepping(schemas, Within(schemas), n)]
  BY <1>6 DEF Within
<1> DEFINE W == Within(schemas)
<1>8. W = [n \in 1..c |-> Stepping(schemas, W, n)]
  BY <1>7
<1> HIDE DEF W, c
<1>9. \A n \in 1..c : W[n] = Stepping(schemas, W, n)
  BY <1>8
<1>. QED
  BY <1>9 DEF W, c

\* Longer paths of references are paths of further steps.
LEMMA WithinGrows ==
    ASSUME NEW schemas
    PROVE  /\ \A n \in 1..Cardinality(Names) : StepOf(schemas) \subseteq Within(schemas)[n]
           /\ \A n \in 1..Cardinality(Names) : Within(schemas)[n] \subseteq LeadsTo(schemas)
           /\ \A n \in 1..Cardinality(Names) : \A a, m, b \in Names :
                  /\ n + 1 <= Cardinality(Names)
                  /\ <<a, m>> \in Within(schemas)[n] /\ <<m, b>> \in StepOf(schemas)
                  => <<a, b>> \in Within(schemas)[n + 1]
<1> DEFINE W == Within(schemas)
           c == Cardinality(Names)
<1>1. c \in Nat
  BY NamesCount
<1>2. \A n \in 1..c : W[n] = Stepping(schemas, W, n)
  BY WithinSteps
<1>3. LeadsTo(schemas) = W[c]
  BY LeadsIsRecursive
<1> HIDE DEF W, c
<1>4. ASSUME NEW n \in 1..c, n + 1 <= c PROVE W[n + 1] = Further(schemas, W[n])
  <2>1. n + 1 \in 1..c /\ n + 1 # 1 /\ (n + 1) - 1 = n
    BY <1>1, <1>4
  <2>. QED
    BY <1>2, <2>1 DEF Stepping
<1> DEFINE N == {d \in Nat : \A n \in 1..c : n + d <= c => W[n] \subseteq W[n + d]}
<1>5. 0 \in N
  BY <1>1
<1>6. ASSUME NEW d \in N PROVE d + 1 \in N
  <2>1. d \in Nat
    OBVIOUS
  <2>2. ASSUME NEW n \in 1..c, n + (d + 1) <= c PROVE W[n] \subseteq W[n + (d + 1)]
    <3>1. n + d \in 1..c /\ (n + d) + 1 <= c /\ n + (d + 1) = (n + d) + 1
      BY <1>1, <2>1, <2>2
    <3>2. W[n] \subseteq W[n + d]
      BY <1>6, <1>1, <2>1, <3>1
    <3>3. W[n + d] \subseteq W[(n + d) + 1]
      BY <1>4, <3>1 DEF Further
    <3>. QED
      BY <3>1, <3>2, <3>3
  <2>. QED
    BY <2>1, <2>2
<1>7. ASSUME NEW n \in 1..c, NEW m \in 1..c, n <= m PROVE W[n] \subseteq W[m]
  <2>1. m - n \in Nat /\ n + (m - n) = m
    BY <1>1, <1>7
  <2>2. m - n \in N
    <3> HIDE DEF N
    <3>. QED
      BY <1>5, <1>6, <2>1, AllNaturals
  <2>. QED
    BY <1>1, <2>1, <2>2
<1>8. ASSUME NEW n \in 1..c PROVE StepOf(schemas) \subseteq W[n] /\ W[n] \subseteq W[c]
  <2>1. 1 \in 1..c /\ c \in 1..c /\ 1 <= n /\ n <= c
    BY <1>1
  <2>2. W[1] = StepOf(schemas)
    BY <1>2, <2>1 DEF Stepping
  <2>. QED
    BY <1>7, <2>1, <2>2
<1>9. ASSUME NEW n \in 1..c, NEW a \in Names, NEW m \in Names, NEW b \in Names, n + 1 <= c,
             <<a, m>> \in W[n], <<m, b>> \in StepOf(schemas)
      PROVE  <<a, b>> \in W[n + 1]
  BY <1>4, <1>9 DEF Further
<1>. QED
  BY <1>3, <1>8, <1>9 DEF W, c

(***************************************************************************)
(* What resolve returns.                                                   *)
(***************************************************************************)
Calls == Value \X SUBSET Names

Resolving(schemas, resolve, call) ==
    LET v == call[1]
        seen == call[2]
        own == [k \in DOMAIN v.fields |-> resolve[<<v.fields[k], Below(v, seen)>>]]
    IN  IF v.ref \notin Names \ seen THEN [v EXCEPT !.fields = own]
        ELSE IF v.ref \notin DOMAIN schemas THEN v
        ELSE Merged(resolve[<<schemas[v.ref], seen \cup {v.ref}>>], own)

Resolver(schemas) ==
    CHOOSE resolve : resolve = [call \in Value \X SUBSET Names |-> Resolving(schemas, resolve, call)]

LEMMA ResolvedIsRecursive ==
    ASSUME NEW schemas, NEW value
    PROVE  Resolved(schemas, value) = Resolver(schemas)[<<value, {}>>]
BY Zenon DEF Resolved, Resolver, Resolving

\* A value nests its keys, which nest no further.
LEMMA ValueType ==
    ASSUME NEW v \in Value
    PROVE  /\ v.ref \in Names \cup {"none", "remote"}
           /\ v = [ref |-> v.ref, fields |-> v.fields]
           /\ \A k \in DOMAIN v.fields : v.fields[k] \in Value /\ DOMAIN v.fields[k].fields = {}
<1>1. v.ref \in Names \cup {"none", "remote"} /\ v = [ref |-> v.ref, fields |-> v.fields]
  BY DEF Value
<1>2. PICK K \in SUBSET Keys : v.fields \in [K -> Plain]
  BY DEF Value
<1>3. << >> \in [{} -> Plain]
  OBVIOUS
<1>4. ASSUME NEW p \in Plain PROVE p \in Value /\ DOMAIN p.fields = {}
  <2>1. p.fields = << >> /\ p.ref \in Names \cup {"none", "remote"} /\ p = [ref |-> p.ref, fields |-> p.fields]
    BY DEF Plain
  <2>2. << >> \in UNION {[D -> Plain] : D \in SUBSET Keys}
    BY <1>3
  <2>3. [ref |-> p.ref, fields |-> << >>] \in Value
    BY <2>1, <2>2 DEF Value
  <2>4. p \in Value
    BY <2>1, <2>3
  <2>5. DOMAIN p.fields = {}
    BY <2>1
  <2>. QED
    BY <2>4, <2>5
<1>. QED
  BY <1>1, <1>2, <1>4

IsSchemas(schemas) == /\ DOMAIN schemas \subseteq Names
                      /\ \A n \in DOMAIN schemas : schemas[n] \in Value

\* The call for the target of a reference leaves one name less to follow.
LEMMA OneLess ==
    ASSUME NEW seen \in SUBSET Names, NEW x \in Names \ seen
    PROVE  /\ seen \cup {x} \in SUBSET Names
           /\ Cardinality(Names \ (seen \cup {x})) = Cardinality(Names \ seen) - 1
           /\ Cardinality(seen \cup {x}) = Cardinality(seen) + 1
<1>1. IsFiniteSet(Names \ seen) /\ IsFiniteSet(seen)
  BY NamesCount
<1>2. Names \ (seen \cup {x}) = (Names \ seen) \ {x}
  OBVIOUS
<1>3. Cardinality((Names \ seen) \ {x}) = Cardinality(Names \ seen) - 1
  BY <1>1, FS_RemoveElement
<1>4. Cardinality(seen \cup {x}) = Cardinality(seen) + 1
  BY <1>1, FS_AddElement
<1>. QED
  BY <1>2, <1>3, <1>4

\* A call asks for the values of these calls, and no others.
KeysAgree(f, g, v, seen) ==
    \A k \in DOMAIN v.fields : f[<<v.fields[k], seen>>] = g[<<v.fields[k], seen>>]

LowerAgree(f, g, seen) ==
    \A w \in Value : \A s \in SUBSET Names :
        Cardinality(Names \ s) < Cardinality(Names \ seen) => f[<<w, s>>] = g[<<w, s>>]

\* A call of the resolver depends only on calls that follow more names, and on those of its
\* keys.
LEMMA ResolvingAgrees ==
    ASSUME NEW schemas, IsSchemas(schemas), NEW f, NEW g, NEW v \in Value, NEW seen \in SUBSET Names,
           KeysAgree(f, g, v, seen), LowerAgree(f, g, seen)
    PROVE  Resolving(schemas, f, <<v, seen>>) = Resolving(schemas, g, <<v, seen>>)
<1>1. ASSUME v.ref \in (Names \ seen) \cap DOMAIN schemas
      PROVE  f[<<schemas[v.ref], seen \cup {v.ref}>>] = g[<<schemas[v.ref], seen \cup {v.ref}>>]
  <2>1. schemas[v.ref] \in Value
    BY <1>1 DEF IsSchemas
  <2>2. /\ seen \cup {v.ref} \in SUBSET Names
        /\ Cardinality(Names \ (seen \cup {v.ref})) < Cardinality(Names \ seen)
    <3>1. v.ref \in Names \ seen
      BY <1>1
    <3>2. /\ seen \cup {v.ref} \in SUBSET Names
          /\ Cardinality(Names \ (seen \cup {v.ref})) = Cardinality(Names \ seen) - 1
      BY <3>1, OneLess
    <3>3. Cardinality(Names \ seen) \in Nat
      BY NamesCount
    <3>. QED
      BY <3>2, <3>3
  <2>. QED
    BY <2>1, <2>2 DEF LowerAgree
<1>2. [k \in DOMAIN v.fields |-> f[<<v.fields[k], seen>>]] = [k \in DOMAIN v.fields |-> g[<<v.fields[k], seen>>]]
  BY DEF KeysAgree
<1>3. CASE v.ref \in (Names \ seen) \cap DOMAIN schemas
  BY <1>1, <1>2, <1>3 DEF Resolving, Below
<1>4. CASE v.ref \notin (Names \ seen) \cap DOMAIN schemas
  BY <1>2, <1>4 DEF Resolving, Below
<1>. QED
  BY <1>3, <1>4

\* The resolver exists: names not yet followed decrease, and values nest two deep.
LEMMA ResolverExists ==
    ASSUME NEW schemas, IsSchemas(schemas)
    PROVE  \A v \in Value : \A seen \in SUBSET Names :
               Resolver(schemas)[<<v, seen>>] = Resolving(schemas, Resolver(schemas), <<v, seen>>)
<1> DEFINE T(f, v, seen) == Resolving(schemas, f, <<v, seen>>)
           unseen(seen) == Cardinality(Names \ seen)
           Solves(f, n) == \A v \in Value : \A seen \in SUBSET Names :
                               unseen(seen) < n => f[<<v, seen>>] = T(f, v, seen)
           N == {n \in Nat : \E f : Solves(f, n)}
<1>1. \A seen \in SUBSET Names : unseen(seen) \in Nat /\ unseen(seen) <= Cardinality(Names)
  BY NamesCount
<1>2. ASSUME NEW f, NEW g, NEW v \in Value, NEW seen \in SUBSET Names,
             KeysAgree(f, g, v, seen), LowerAgree(f, g, seen)
      PROVE  T(f, v, seen) = T(g, v, seen)
  BY <1>2, ResolvingAgrees
<1>3. 0 \in N
  <2>1. Solves([x \in {} |-> x], 0)
    <3> HIDE DEF unseen
    <3>. QED
      BY <1>1
  <2>. QED
    BY <2>1
<1>4. ASSUME NEW n \in N PROVE n + 1 \in N
  <2>1. n \in Nat
    OBVIOUS
  <2>2. PICK f : Solves(f, n)
    BY <1>4
  <2> DEFINE h == [c \in Calls |-> IF unseen(c[2]) < n THEN f[c] ELSE T(f, c[1], c[2])]
             g == [c \in Calls |-> T(h, c[1], c[2])]
  <2>3. /\ \A v \in Value : \A seen \in SUBSET Names : unseen(seen) < n => h[<<v, seen>>] = f[<<v, seen>>]
        /\ \A v \in Value : \A seen \in SUBSET Names : h[<<v, seen>>] = T(f, v, seen)
        /\ \A v \in Value : \A seen \in SUBSET Names : g[<<v, seen>>] = T(h, v, seen)
    <3>1. \A v \in Value : \A seen \in SUBSET Names : <<v, seen>> \in Calls
      BY DEF Calls
    <3> HIDE DEF unseen, T
    <3>. QED
      BY <2>2, <3>1
  <2> HIDE DEF g, h, T
  <2>4. ASSUME NEW v \in Value, NEW seen \in SUBSET Names, unseen(seen) < n
        PROVE  g[<<v, seen>>] = f[<<v, seen>>]
    <3>1. \A k \in DOMAIN v.fields : v.fields[k] \in Value
      BY ValueType
    <3>2. LowerAgree(h, f, seen)
      BY <1>1, <2>1, <2>3, <2>4 DEF LowerAgree
    <3>3. KeysAgree(h, f, v, seen)
      BY <2>3, <2>4, <3>1 DEF KeysAgree
    <3>4. T(h, v, seen) = T(f, v, seen)
      BY <1>2, <3>2, <3>3
    <3>. QED
      BY <2>3, <2>4, <3>4
  <2>5. ASSUME NEW p \in Value, DOMAIN p.fields = {}, NEW seen \in SUBSET Names, unseen(seen) <= n
        PROVE  h[<<p, seen>>] = g[<<p, seen>>]
    <3>1. KeysAgree(h, f, p, seen)
      BY <2>5 DEF KeysAgree
    <3>2. LowerAgree(h, f, seen)
      BY <1>1, <2>1, <2>3, <2>5 DEF LowerAgree
    <3>3. T(h, p, seen) = T(f, p, seen)
      BY <1>2, <3>1, <3>2
    <3>. QED
      BY <2>3, <3>3
  <2>6. ASSUME NEW v \in Value, NEW seen \in SUBSET Names, unseen(seen) < n + 1
        PROVE  g[<<v, seen>>] = T(g, v, seen)
    <3>1. unseen(seen) <= n
      <4> HIDE DEF unseen
      <4>. QED
        BY <1>1, <2>1, <2>6
    <3>2. KeysAgree(h, g, v, seen)
      BY <2>5, <3>1, ValueType DEF KeysAgree
    <3>3. LowerAgree(h, g, seen)
      BY <1>1, <2>1, <2>3, <2>4, <3>1 DEF LowerAgree
    <3>4. T(h, v, seen) = T(g, v, seen)
      BY <1>2, <3>2, <3>3
    <3>. QED
      BY <2>3, <3>4
  <2>7. Solves(g, n + 1)
    BY <2>6
  <2> HIDE DEF Solves
  <2>. QED
    BY <2>1, <2>7
<1>5. PICK f : \A v \in Value : \A seen \in SUBSET Names : f[<<v, seen>>] = T(f, v, seen)
  <2>1. Cardinality(Names) + 1 \in Nat
    BY NamesCount
  <2>2. Cardinality(Names) + 1 \in N
    <3> HIDE DEF N
    <3>. QED
      BY <1>3, <1>4, <2>1, AllNaturals
  <2>3. PICK f : Solves(f, Cardinality(Names) + 1)
    BY <2>2
  <2> HIDE DEF unseen, T
  <2>. QED
    BY <1>1, <2>3, NamesCount
<1> DEFINE whole == [c \in Calls |-> f[c]]
<1>6. \A v \in Value : \A seen \in SUBSET Names : <<v, seen>> \in Calls /\ whole[<<v, seen>>] = f[<<v, seen>>]
  BY DEF Calls
<1> HIDE DEF T
<1>7. ASSUME NEW v \in Value, NEW seen \in SUBSET Names PROVE whole[<<v, seen>>] = T(whole, v, seen)
  <2> HIDE DEF whole
  <2>1. T(f, v, seen) = T(whole, v, seen)
    <3>1. KeysAgree(f, whole, v, seen)
      BY <1>6, ValueType DEF KeysAgree
    <3>2. LowerAgree(f, whole, seen)
      BY <1>6 DEF LowerAgree
    <3>. QED
      BY <1>2, <3>1, <3>2
  <2>. QED
    BY <1>5, <1>6, <2>1
<1>8. whole = [c \in Calls |-> Resolving(schemas, whole, c)]
  <2>1. ASSUME NEW c \in Calls PROVE whole[c] = Resolving(schemas, whole, c)
    <3>1. c[1] \in Value /\ c[2] \in SUBSET Names /\ c = <<c[1], c[2]>>
      BY DEF Calls
    <3>2. whole[<<c[1], c[2]>>] = T(whole, c[1], c[2])
      BY <1>7, <3>1
    <3>. QED
      BY <3>1, <3>2 DEF T
  <2>2. whole = [c \in Calls |-> whole[c]]
    OBVIOUS
  <2> HIDE DEF whole
  <2>. QED
    BY <2>1, <2>2
<1> HIDE DEF whole
<1> DEFINE R == Resolver(schemas)
<1>9. R = [c \in Calls |-> Resolving(schemas, R, c)]
  BY <1>8 DEF Resolver, Calls
<1> HIDE DEF R
<1>10. ASSUME NEW v \in Value, NEW seen \in SUBSET Names PROVE R[<<v, seen>>] = Resolving(schemas, R, <<v, seen>>)
  BY <1>9 DEF Calls
<1>. QED
  BY <1>10 DEF R

(***************************************************************************)
(* What is left in it.                                                     *)
(***************************************************************************)
\* The names a call does not follow lead to those of its value, in as many steps.
Chained(schemas, v, seen) ==
    \A s \in seen : \A x \in NamesIn(v) : <<s, x>> \in Within(schemas)[Cardinality(seen)]

ChainedCalls(schemas) == {c \in Calls : Chained(schemas, c[1], c[2])}

\* What such calls return.
Outcomes(schemas) == {Resolver(schemas)[c] : c \in ChainedCalls(schemas)}

Intact(t, schemas) == t.ref \notin Names \ DOMAIN schemas

\* A reference left in it is one of a cycle; its keys are outcomes too.
Fine(schemas, t) ==
    /\ t = [ref |-> t.ref, fields |-> t.fields]
    /\ t.ref \in DOMAIN schemas => <<t.ref, t.ref>> \in LeadsTo(schemas)
    /\ Intact(t, schemas) => \A k \in DOMAIN t.fields : t.fields[k] \in Outcomes(schemas)

\* What a resolver's call passes on is chained again, and a name met twice is on a cycle.
LEMMA ChainsGrow ==
    ASSUME NEW schemas, IsSchemas(schemas), NEW v \in Value, NEW seen \in SUBSET Names,
           Chained(schemas, v, seen)
    PROVE  /\ \A k \in DOMAIN v.fields : Chained(schemas, v.fields[k], seen)
           /\ v.ref \in seen => <<v.ref, v.ref>> \in LeadsTo(schemas)
           /\ v.ref \in (Names \ seen) \cap DOMAIN schemas =>
                  Chained(schemas, schemas[v.ref], seen \cup {v.ref})
<1>1. ASSUME NEW k \in DOMAIN v.fields PROVE NamesIn(v.fields[k]) \subseteq NamesIn(v)
  <2>1. DOMAIN v.fields[k].fields = {}
    BY ValueType
  <2>. QED
    BY <2>1 DEF NamesIn
<1>2. ASSUME v.ref \in seen PROVE <<v.ref, v.ref>> \in LeadsTo(schemas)
  <2>1. v.ref \in NamesIn(v)
    BY <1>2 DEF NamesIn
  <2>2. Cardinality(seen) \in 1..Cardinality(Names)
    <3>1. /\ Cardinality(seen) \in Nat /\ Cardinality(Names) \in Nat
          /\ Cardinality(seen) <= Cardinality(Names) /\ Cardinality(seen) # 0
      BY <1>2, NamesCount
    <3>. QED
      BY <3>1
  <2>. QED
    BY <1>2, <2>1, <2>2, WithinGrows DEF Chained
<1>3. ASSUME v.ref \in (Names \ seen) \cap DOMAIN schemas
      PROVE  Chained(schemas, schemas[v.ref], seen \cup {v.ref})
  <2> DEFINE x == v.ref
             n == Cardinality(seen)
             W == Within(schemas)
  <2>1. n \in Nat /\ Cardinality(seen \cup {x}) = n + 1 /\ n + 1 \in 1..Cardinality(Names)
    <3>1. x \in Names \ seen
      BY <1>3
    <3>2. Cardinality(seen \cup {x}) = n + 1 /\ seen \cup {x} \in SUBSET Names
      BY <3>1, OneLess
    <3>3. n \in Nat /\ Cardinality(seen \cup {x}) <= Cardinality(Names) /\ Cardinality(Names) \in Nat
      BY <3>2, NamesCount
    <3>. QED
      BY <3>2, <3>3
  <2>2. x \in NamesIn(v) /\ x \in Names /\ x \in DOMAIN schemas
    BY <1>3 DEF NamesIn
  <2>3. ASSUME NEW y \in NamesIn(schemas[x]) PROVE y \in Names /\ <<x, y>> \in StepOf(schemas)
    BY <2>2 DEF NamesIn, StepOf
  <2>4. ASSUME NEW y \in NamesIn(schemas[x]), NEW s \in seen PROVE <<s, y>> \in W[n + 1]
    <3>1. n # 0 /\ Cardinality(Names) \in Nat
      BY NamesCount
    <3>2. n \in 1..Cardinality(Names) /\ n + 1 <= Cardinality(Names)
      <4> HIDE DEF n
      <4>. QED
        BY <2>1, <3>1
    <3>3. <<s, x>> \in W[n] /\ s \in Names
      BY <2>2 DEF Chained
    <3>. QED
      BY <2>2, <2>3, <3>2, <3>3, WithinGrows
  <2>5. ASSUME NEW y \in NamesIn(schemas[x]) PROVE <<x, y>> \in W[n + 1]
    BY <2>1, <2>3, WithinGrows
  <2> HIDE DEF x, n, W
  <2>6. ASSUME NEW s \in seen \cup {x}, NEW y \in NamesIn(schemas[x])
        PROVE  <<s, y>> \in W[Cardinality(seen \cup {x})]
    BY <2>1, <2>4, <2>5
  <2>. QED
    BY <2>6 DEF Chained, x, W
<1>. QED
  BY <1>1, <1>2, <1>3 DEF Chained

\* An outcome is fine if the one it merges is.
LEMMA OutcomeStep ==
    ASSUME NEW schemas, IsSchemas(schemas), NEW v \in Value, NEW seen \in SUBSET Names,
           Chained(schemas, v, seen),
           v.ref \in (Names \ seen) \cap DOMAIN schemas =>
               Fine(schemas, Resolver(schemas)[<<schemas[v.ref], seen \cup {v.ref}>>])
    PROVE  Fine(schemas, Resolver(schemas)[<<v, seen>>])
<1> DEFINE R == Resolver(schemas)
           own == [k \in DOMAIN v.fields |-> R[<<v.fields[k], seen>>]]
           t == R[<<v, seen>>]
<1>1. t = Resolving(schemas, R, <<v, seen>>)
  BY ResolverExists
<1>2. ASSUME NEW k \in DOMAIN own PROVE own[k] \in Outcomes(schemas)
  <2>1. <<v.fields[k], seen>> \in ChainedCalls(schemas)
    BY ChainsGrow, ValueType DEF ChainedCalls, Calls
  <2>. QED
    BY <2>1 DEF Outcomes
<1>3. v = [ref |-> v.ref, fields |-> v.fields] /\ v.ref \in Names \cup {"none", "remote"}
  BY ValueType
<1>4. DOMAIN schemas \subseteq Names
  BY DEF IsSchemas
<1> HIDE DEF R
<1>5. CASE v.ref \notin Names \ seen
  <2>1. t = [v EXCEPT !.fields = own]
    BY <1>1, <1>5 DEF Resolving, Below
  <2>2. t.ref = v.ref /\ t.fields = own /\ t = [ref |-> t.ref, fields |-> t.fields]
    <3> HIDE DEF own, t
    <3>. QED
      BY <1>3, <2>1
  <2>3. v.ref \in DOMAIN schemas => <<v.ref, v.ref>> \in LeadsTo(schemas)
    BY <1>4, <1>5, ChainsGrow
  <2> HIDE DEF own, t
  <2>4. Fine(schemas, t)
    BY <1>2, <2>2, <2>3 DEF Fine
  <2>. QED
    BY <2>4 DEF t, R
<1>6. CASE v.ref \in Names \ seen /\ v.ref \notin DOMAIN schemas
  <2>1. t = v
    BY <1>1, <1>6 DEF Resolving, Below
  <2> HIDE DEF t
  <2>2. Fine(schemas, t)
    BY <1>3, <1>6, <2>1 DEF Fine, Intact
  <2>. QED
    BY <2>2 DEF t, R
<1>7. CASE v.ref \in (Names \ seen) \cap DOMAIN schemas
  <2> DEFINE target == R[<<schemas[v.ref], seen \cup {v.ref}>>]
  <2>1. t = Merged(target, own)
    BY <1>1, <1>7 DEF Resolving, Below
  <2>2. Fine(schemas, target)
    BY <1>7 DEF R
  <2> HIDE DEF own, t, target
  <2>3. target = [ref |-> target.ref, fields |-> target.fields]
    BY <2>2 DEF Fine
  <2>4. /\ t.ref = target.ref /\ t.fields = Updated(target.fields, own)
        /\ t = [ref |-> t.ref, fields |-> t.fields]
    BY <2>1, <2>3 DEF Merged
  <2>5. ASSUME Intact(t, schemas), NEW k \in DOMAIN t.fields PROVE t.fields[k] \in Outcomes(schemas)
    <3>1. \A f \in DOMAIN target.fields : target.fields[f] \in Outcomes(schemas)
      BY <2>2, <2>4, <2>5 DEF Fine, Intact
    <3>. QED
      BY <1>2, <2>4, <2>5, <3>1 DEF Updated
  <2>6. Fine(schemas, t)
    BY <2>2, <2>4, <2>5 DEF Fine
  <2>. QED
    BY <2>6 DEF t, R
<1>. QED
  BY <1>5, <1>6, <1>7

\* Every outcome is fine, by the number of names that can still be followed.
LEMMA OutcomesAreFine ==
    ASSUME NEW schemas, IsSchemas(schemas), NEW t \in Outcomes(schemas)
    PROVE  Fine(schemas, t)
<1> DEFINE unseen(seen) == Cardinality(Names \ seen)
           N == {n \in Nat : \A v \in Value : \A seen \in SUBSET Names :
                    unseen(seen) = n /\ Chained(schemas, v, seen) => Fine(schemas, Resolver(schemas)[<<v, seen>>])}
<1>1. 0 \in N
  <2>1. ASSUME NEW v \in Value, NEW seen \in SUBSET Names, unseen(seen) = 0, Chained(schemas, v, seen)
        PROVE  Fine(schemas, Resolver(schemas)[<<v, seen>>])
    <3>1. Names \ seen = {}
      BY <2>1, NamesCount
    <3>. QED
      BY <2>1, <3>1, OutcomeStep
  <2>. QED
    BY <2>1
<1>2. ASSUME NEW n \in N PROVE n + 1 \in N
  <2>1. n \in Nat
    OBVIOUS
  <2>2. ASSUME NEW v \in Value, NEW seen \in SUBSET Names, unseen(seen) = n + 1, Chained(schemas, v, seen)
        PROVE  Fine(schemas, Resolver(schemas)[<<v, seen>>])
    <3>1. ASSUME v.ref \in (Names \ seen) \cap DOMAIN schemas
          PROVE  Fine(schemas, Resolver(schemas)[<<schemas[v.ref], seen \cup {v.ref}>>])
      <4>1. schemas[v.ref] \in Value /\ v.ref \in Names \ seen
        BY <3>1 DEF IsSchemas
      <4>2. seen \cup {v.ref} \in SUBSET Names /\ unseen(seen \cup {v.ref}) = unseen(seen) - 1
        BY <4>1, OneLess
      <4>3. Chained(schemas, schemas[v.ref], seen \cup {v.ref})
        BY <2>2, <3>1, ChainsGrow
      <4>4. unseen(seen \cup {v.ref}) = n
        BY <2>1, <2>2, <4>2
      <4> HIDE DEF unseen
      <4>. QED
        BY <1>2, <4>1, <4>2, <4>3, <4>4
    <3>. QED
      BY <2>2, <3>1, OutcomeStep
  <2>. QED
    BY <2>1, <2>2
<1>3. Nat \subseteq N
  <2> HIDE DEF N
  <2>. QED
    BY <1>1, <1>2, AllNaturals
<1>4. PICK c \in ChainedCalls(schemas) : t = Resolver(schemas)[c]
  BY DEF Outcomes
<1>5. /\ c[1] \in Value /\ c[2] \in SUBSET Names /\ c = <<c[1], c[2]>>
      /\ Chained(schemas, c[1], c[2])
  BY DEF ChainedCalls, Calls
<1>6. unseen(c[2]) \in N
  BY <1>3, <1>5, NamesCount
<1>. QED
  BY <1>4, <1>5, <1>6

\* The values at each depth of a value, below what was resolved.
Beneath(values, defined) ==
    UNION {{t.fields[k] : k \in DOMAIN t.fields} : t \in {u \in values : u.ref \notin Names \ defined}}

Descending(value, defined, level, n) == IF n = 0 THEN {value} ELSE Beneath(level[n - 1], defined)

Levels(value, defined) ==
    CHOOSE level : level = [n \in 0..Cardinality(Names) + 2 |-> Descending(value, defined, level, n)]

\* Left collects level by level what is beneath a value.
LEMMA LeftIsRecursive ==
    ASSUME NEW value, NEW defined
    PROVE  Left(value, defined) =
               {t.ref : t \in UNION {Levels(value, defined)[n] : n \in DOMAIN Levels(value, defined)}}
BY Zenon DEF Left, Levels, Descending, Beneath

\* Every value at some depth of an outcome is an outcome.
LEMMA LevelsAreOutcomes ==
    ASSUME NEW schemas, IsSchemas(schemas), NEW value \in Outcomes(schemas)
    PROVE  \A t \in UNION {Levels(value, DOMAIN schemas)[n] : n \in DOMAIN Levels(value, DOMAIN schemas)} :
               t \in Outcomes(schemas)
<1> DEFINE d == DOMAIN schemas
           G == Outcomes(schemas)
           c == Cardinality(Names) + 2
           S == SUBSET G
           step == [values \in S |-> Beneath(values, d)]
           L == Levels(value, d)
<1>1. c \in Nat
  BY NamesCount
<1>2. ASSUME NEW values \in S PROVE Beneath(values, d) \in S
  <2>1. ASSUME NEW t \in values, t.ref \notin Names \ d, NEW k \in DOMAIN t.fields PROVE t.fields[k] \in G
    <3>1. Fine(schemas, t)
      BY OutcomesAreFine
    <3>. QED
      BY <2>1, <3>1 DEF Fine, Intact
  <2> HIDE DEF G
  <2>. QED
    BY <2>1 DEF Beneath
<1>3. {value} \in S /\ \A values \in S : step[values] \in S
  BY <1>2
<1>4. PICK f : Iterated(f, S, {value}, step, c)
  <2> HIDE DEF S, step, c
  <2>. QED
    BY <1>1, <1>3, Iterates
<1> DEFINE level == [n \in 0..c |-> f[n]]
<1>5. ASSUME NEW n \in 0..c PROVE level[n] = Descending(value, d, level, n)
  <2>1. n # 0 => n - 1 \in 0..c /\ n > 0
    BY <1>1
  <2>2. n # 0 => f[n - 1] \in S /\ f[n] = step[f[n - 1]]
    BY <1>4, <2>1 DEF Iterated
  <2>3. n # 0 => f[n] = Beneath(f[n - 1], d)
    <3> HIDE DEF S
    <3>. QED
      BY <2>2
  <2>4. level[n] = f[n] /\ (n # 0 => level[n - 1] = f[n - 1])
    BY <2>1
  <2>5. n = 0 => level[n] = {value}
    BY <1>4 DEF Iterated
  <2> HIDE DEF level
  <2>. QED
    BY <2>3, <2>4, <2>5 DEF Descending
<1>6. level = [n \in 0..c |-> Descending(value, d, level, n)]
  <2>1. level = [n \in 0..c |-> level[n]]
    OBVIOUS
  <2> HIDE DEF level, c
  <2>. QED
    BY <1>5, <2>1
<1>7. L = [n \in 0..c |-> Descending(value, d, L, n)]
  <2>1. \E l : l = [n \in 0..c |-> Descending(value, d, l, n)]
    <3> HIDE DEF level, c
    <3>. QED
      BY <1>6
  <2>. QED
    BY <2>1 DEF Levels
<1> HIDE DEF L, c
<1>8. DOMAIN L = 0..c /\ \A n \in 0..c : L[n] = Descending(value, d, L, n)
  BY <1>7
<1> DEFINE N == {n \in Nat : n \in 0..c => L[n] \in S}
<1>9. 0 \in N
  BY <1>3, <1>8 DEF Descending
<1>10. ASSUME NEW n \in N PROVE n + 1 \in N
  <2>1. n \in Nat
    OBVIOUS
  <2>2. ASSUME n + 1 \in 0..c PROVE L[n + 1] \in S
    <3>1. n \in 0..c /\ n + 1 # 0 /\ (n + 1) - 1 = n
      BY <1>1, <2>1, <2>2
    <3>2. L[n + 1] = Beneath(L[n], d) /\ L[n] \in S
      BY <1>8, <2>2, <3>1 DEF Descending
    <3> HIDE DEF S
    <3>. QED
      BY <1>2, <3>2
  <2> HIDE DEF S
  <2>. QED
    BY <2>1, <2>2
<1>11. Nat \subseteq N
  <2> HIDE DEF N
  <2>. QED
    BY <1>9, <1>10, AllNaturals
<1>12. \A n \in DOMAIN L : L[n] \subseteq G
  <2>1. 0..c \subseteq Nat
    BY <1>1
  <2>. QED
    BY <1>8, <1>11, <2>1
<1>. QED
  BY <1>12 DEF L

\* The references left in a resolved value are those of cycles.
LEMMA LeftAreCycles ==
    ASSUME NEW schemas, IsSchemas(schemas), NEW v \in Value,
           NEW n \in Left(Resolved(schemas, v), DOMAIN schemas) \cap DOMAIN schemas
    PROVE  <<n, n>> \in LeadsTo(schemas)
<1> DEFINE value == Resolved(schemas, v)
           L == Levels(value, DOMAIN schemas)
<1>1. value \in Outcomes(schemas)
  <2>1. <<v, {}>> \in ChainedCalls(schemas)
    BY DEF ChainedCalls, Calls, Chained
  <2>. QED
    BY <2>1, ResolvedIsRecursive DEF Outcomes
<1>2. PICK t \in UNION {L[k] : k \in DOMAIN L} : n = t.ref
  BY LeftIsRecursive
<1>3. t \in Outcomes(schemas)
  BY <1>1, <1>2, LevelsAreOutcomes
<1>. QED
  BY <1>2, <1>3, OutcomesAreFine DEF Fine

(***************************************************************************)
(* Every operation of a specification has resolved schemas.                *)
(***************************************************************************)
ResolvedIn(schemas) == {Resolved(schemas, v) : v \in Value}

\* The schemas of an operation are resolved from those of the document.
LEMMA OperationSchemas ==
    ASSUME NEW d, NEW item \in PathItem, NEW entry \in OperationEntry
    PROVE  Operation(d, item, entry).schemas \subseteq ResolvedIn(d.schemas)
<1>1. ResponseSchema(entry) \subseteq Value
  <2> DEFINE some == {i \in DOMAIN entry.responses : entry.responses[i].schema # {}}
             first == CHOOSE i \in some : \A j \in some : i <= j
  <2>1. entry.responses \in Seq(Response)
    BY DEF OperationEntry
  <2>2. ASSUME some # {} PROVE first \in some
    <3>1. DOMAIN entry.responses \subseteq Nat
      BY <2>1
    <3>2. some \in SUBSET Nat
      BY <3>1
    <3> HIDE DEF some
    <3>3. \E i \in some : \A j \in some : i <= j
      BY <2>2, <3>2, LeastOfNaturals
    <3>. QED
      BY <3>3
  <2>3. some # {} => entry.responses[first] \in Response
    BY <2>1, <2>2, ElementType
  <2>4. some # {} => entry.responses[first].schema \subseteq Value
    BY <2>3 DEF Response
  <2>5. ResponseSchema(entry) = IF some = {} THEN {} ELSE entry.responses[first].schema
    BY DEF ResponseSchema
  <2> HIDE DEF some, first
  <2>. QED
    BY <2>4, <2>5
<1>2. item.parameters \subseteq Value /\ entry.body \subseteq Value
  BY DEF PathItem, OperationEntry
<1>. QED
  BY <1>1, <1>2 DEF Operation, ResolvedIn

LEMMA SpecificationSchemas ==
    ASSUME NEW d, d.paths \in Seq(PathItem), NEW o \in DOMAIN Specification(d).operations
    PROVE  Specification(d).operations[o].schemas \subseteq ResolvedIn(d.schemas)
<1>1. Specification(d).operations[o] \in OperationsOf(d)
  BY SpecificationType, ElementType
<1>2. PICK p \in DOMAIN d.paths, entry \in OperationEntry :
        Specification(d).operations[o] = Operation(d, d.paths[p], entry)
  BY <1>1 DEF OperationsOf
<1>3. d.paths[p] \in PathItem
  BY ElementType
<1>. QED
  BY <1>2, <1>3, OperationSchemas

\* The session works with resolved schemas of its document.
SchemasInv ==
    source # NoDocument =>
        /\ IsSchemas(source.schemas)
        /\ \A i \in DOMAIN spec.operations : spec.operations[i].schemas \subseteq ResolvedIn(source.schemas)

\* References are left in a resolved schema only on cycles.
LEMMA SchemasAreResolved == SchemasInv => ReferencesAreResolved
<1> SUFFICES ASSUME SchemasInv, source # NoDocument, NEW i \in DOMAIN spec.operations,
                    NEW t \in spec.operations[i].schemas,
                    NEW n \in Left(t, DOMAIN source.schemas) \cap DOMAIN source.schemas
             PROVE  <<n, n>> \in LeadsTo(source.schemas)
  BY DEF ReferencesAreResolved
<1>1. IsSchemas(source.schemas) /\ t \in ResolvedIn(source.schemas)
  BY DEF SchemasInv
<1>2. PICK v \in Value : t = Resolved(source.schemas, v)
  BY <1>1 DEF ResolvedIn
<1>. QED
  BY <1>1, <1>2, LeftAreCycles

LEMMA ListOf ==
    ASSUME NEW V, NEW s \in Seq(V)
    PROVE  IsList(s) /\ \A k \in DOMAIN s : s[k] \in V
BY ElementType DEF IsList

\* The cases of a reply, and those of a collection, are cases.
LEMMA ListedAreOK ==
    ASSUME SpecOK, NEW items \in Replies,
           NEW list, list = FlattenSeq([i \in DOMAIN items |-> CasesOf(items[i])])
    PROVE  IsList(list) /\ \A k \in DOMAIN list : CaseOK(list[k])
<1> DEFINE pieces == [i \in DOMAIN items |-> CasesOf(items[i])]
           matching == {i \in DOMAIN items : Matches(items[i]) # {}}
           V == {CaseOf(items[i]) : i \in matching}
<1>1. items \in Seq(ReplyItem) /\ \A i \in DOMAIN items : items[i] \in ReplyItem
  BY SessionAssumption, ElementType
<1>2. \A c \in V : CaseOK(c)
  BY <1>1, CaseOfIsOK
<1>3. \A i \in DOMAIN items : pieces[i] \in Seq(V)
  <2>1. ASSUME NEW i \in DOMAIN items PROVE CasesOf(items[i]) \in Seq(V)
    <3>1. Matches(items[i]) # {} => CaseOf(items[i]) \in V
      OBVIOUS
    <3> HIDE DEF V
    <3>. QED
      BY <3>1 DEF CasesOf
  <2>. QED
    BY <2>1
<1>4. pieces = [i \in DOMAIN items |-> pieces[i]] /\ list = FlattenSeq(pieces)
  OBVIOUS
<1> HIDE DEF V, pieces
<1>5. pieces \in Seq(Seq(V))
  BY <1>1, <1>3, <1>4, MappedType
<1>6. list \in Seq(V)
  BY <1>4, <1>5, FlattenType
<1>. QED
  BY <1>2, <1>6, ListOf

Collected == [operation : {0}, method : {"GET"}, server : STRING, credential : {"none"},
              path : Seq(STRING), assertions : {<< >>}, score : {50}]

Entry == [url : Seq(STRING)]
Folder == [items : Seq(Entry)]

LEMMA CollectedAreOK ==
    ASSUME NEW c \in Collections,
           NEW list, list = FlattenSeq([f \in DOMAIN c |-> Walk(c[f].items)])
    PROVE  IsList(list) /\ \A k \in DOMAIN list : CaseOK(list[k])
<1>1. c \in Seq(Folder)
  BY SessionAssumption DEF Folder, Entry
<1>2. ASSUME NEW entry \in Entry PROVE RequestOf(entry) \in Seq(Collected)
  <2>1. entry.url \in Seq(STRING)
    BY DEF Entry
  <2>2. CASE entry.url = << >>
    BY <2>2 DEF RequestOf
  <2>3. CASE entry.url # << >>
    <3>1. \A s \in Seq(STRING) : s # << >> => Head(s) \in STRING /\ Tail(s) \in Seq(STRING)
      OBVIOUS
    <3>2. Head(entry.url) \in STRING /\ Tail(entry.url) \in Seq(STRING)
      BY <2>1, <2>3, <3>1
    <3>. QED
      BY <2>3, <3>2 DEF RequestOf, Collected
  <2>. QED
    BY <2>2, <2>3
<1>3. ASSUME NEW items \in Seq(Entry) PROVE Walk(items) \in Seq(Collected)
  <2> DEFINE pieces == [i \in DOMAIN items |-> RequestOf(items[i])]
  <2>1. pieces = [i \in DOMAIN items |-> pieces[i]] /\ Walk(items) = FlattenSeq(pieces)
    BY DEF Walk
  <2>2. \A i \in DOMAIN items : pieces[i] \in Seq(Collected)
    BY <1>2, ElementType
  <2> HIDE DEF pieces
  <2>3. pieces \in Seq(Seq(Collected))
    BY <2>1, <2>2, MappedType
  <2>. QED
    BY <2>1, <2>3, FlattenType
<1> DEFINE walks == [f \in DOMAIN c |-> Walk(c[f].items)]
<1>4. walks = [f \in DOMAIN c |-> walks[f]] /\ list = FlattenSeq(walks)
  OBVIOUS
<1>5. ASSUME NEW f \in DOMAIN c PROVE walks[f] \in Seq(Collected)
  <2>1. c[f] \in Folder
    BY <1>1, ElementType
  <2>2. c[f].items \in Seq(Entry)
    BY <2>1 DEF Folder
  <2>. QED
    BY <1>3, <2>2
<1> HIDE DEF walks
<1>6. walks \in Seq(Seq(Collected))
  BY <1>1, <1>4, <1>5, MappedType
<1>7. list \in Seq(Collected)
  BY <1>4, <1>6, FlattenType
<1>8. \A r \in Collected : CaseOK(r)
  BY DEF Collected, CaseOK
<1>. QED
  BY <1>7, <1>8, ListOf

(***************************************************************************)
(* The invariant of generation and execution.                              *)
(***************************************************************************)
\* The cases there are, and the one that was executed.
CasesOK == IsList(cases) /\ \A i \in DOMAIN cases : CaseOK(cases[i])

ResultOK == /\ result = {} \/ \E r : result = {r}
            /\ \A r \in result : CaseOK(r.case) /\ r.passed = Passed(r.case.assertions, r.answer)

CasesInv ==
    /\ phase \in {"idle", "asking", "again", "executing", "stepping"}
    /\ source = NoDocument => phase = "idle" /\ cases = << >> /\ result = {}
    /\ phase \in {"asking", "again"} => cases = << >>
    /\ phase = "executing" => trying \in DOMAIN cases
    /\ trying \in 0..Len(cases)
    /\ SpecOK /\ CasesOK /\ ResultOK

LEMMA CasesInit == SessionInit => CasesInv
BY DEF SessionInit, CasesInv, SpecOK, CasesOK, ResultOK, IsList

\* What was right of the specification stays right while the session keeps it.
LEMMA OKKept ==
    /\ UNCHANGED spec => (SpecOK' <=> SpecOK) /\ \A case : CaseOK(case)' <=> CaseOK(case)
    /\ UNCHANGED <<spec, cases>> => (CasesOK' <=> CasesOK)
    /\ UNCHANGED <<spec, result>> => (ResultOK' <=> ResultOK)
<1>1. ASSUME UNCHANGED spec PROVE SpecOK' <=> SpecOK
  BY <1>1 DEF SpecOK
<1>2. ASSUME UNCHANGED spec, NEW case PROVE CaseOK(case)' <=> CaseOK(case)
  BY <1>2 DEF CaseOK
<1>3. ASSUME UNCHANGED <<spec, cases>> PROVE CasesOK' <=> CasesOK
  BY <1>2, <1>3 DEF CasesOK
<1>4. ASSUME UNCHANGED <<spec, result>> PROVE ResultOK' <=> ResultOK
  BY <1>2, <1>4 DEF ResultOK
<1>. QED
  BY <1>1, <1>2, <1>3, <1>4

\* Opening a specification finds nothing that rests on another one.
LEMMA CasesOpened ==
    ASSUME CasesInv, NEW d, d.servers \in Seq(STRING), d.paths \in Seq(PathItem), Open(d)
    PROVE  CasesInv'
<1>1. SpecOK'
  <2>1. Specification(d).servers \in Seq(STRING) /\ IsList(Specification(d).operations)
    BY SpecificationType, ListOf
  <2>. QED
    BY <2>1 DEF Open, SpecOK
<1>2. source = NoDocument /\ phase = "idle" /\ cases = << >> /\ result = {} /\ trying \in 0..Len(cases)
  BY DEF Open, CasesInv
<1>3. UNCHANGED <<phase, cases, trying, result>>
  BY DEF Open
<1>. QED
  BY <1>1, <1>2, <1>3 DEF CasesInv, CasesOK, ResultOK, IsList

\* Each step of a session, as far as cases and results go.
LEMMA CasesStep ==
    ASSUME CasesInv, SessionStep
    PROVE  CasesInv'
<1>1. ASSUME UNCHANGED <<source, spec, cases, trying, result>>,
             phase' \in {"idle", "asking", "again", "executing", "stepping"},
             phase' # "idle" => source # NoDocument,
             phase' \in {"asking", "again"} => cases = << >>,
             phase' = "executing" => trying \in DOMAIN cases
      PROVE  CasesInv'
  BY <1>1, OKKept DEF CasesInv
<1>2. ASSUME cases = << >>, source # NoDocument, phase' = "idle",
             UNCHANGED <<source, spec, trying, result>>,
             IsList(cases'), \A k \in DOMAIN cases' : CaseOK(cases'[k])
      PROVE  CasesInv'
  <2>1. CasesOK' /\ SpecOK' /\ ResultOK'
    BY <1>2, OKKept DEF CasesInv, CasesOK
  <2>2. trying' \in 0..Len(cases')
    BY <1>2 DEF CasesInv, IsList
  <2>. QED
    BY <1>2, <2>1, <2>2 DEF CasesInv
<1>3. CASE Ask
  BY <1>1, <1>3 DEF Ask, Fresh
<1>4. CASE Refused
  BY <1>1, <1>4 DEF Refused, CasesInv
<1>5. CASE Listed
  <2>1. cases = << >> /\ source # NoDocument /\ SpecOK
    BY <1>5 DEF Listed, CasesInv
  <2>2. IsList(cases') /\ \A k \in DOMAIN cases' : CaseOK(cases'[k])
    BY <1>5, <2>1, ListedAreOK DEF Listed
  <2>. QED
    BY <1>2, <1>5, <2>1, <2>2 DEF Listed
<1>6. CASE Collect
  <2>1. IsList(cases') /\ \A k \in DOMAIN cases' : CaseOK(cases'[k])
    BY <1>6, CollectedAreOK DEF Collect
  <2>. QED
    BY <1>2, <1>6, <2>1 DEF Collect, Fresh
<1>7. CASE \E i \in DOMAIN cases : Execute(i)
  <2>1. PICK i \in DOMAIN cases : Execute(i)
    BY <1>7
  <2>2. source # NoDocument /\ IsList(cases)
    BY <2>1 DEF CasesInv, CasesOK
  <2>3. trying' \in 0..Len(cases')
    <3>1. i \in 0..Len(cases)
      BY <2>2 DEF IsList
    <3>. QED
      BY <2>1, <3>1 DEF Execute
  <2>4. CasesOK' /\ SpecOK' /\ ResultOK'
    BY <2>1, OKKept DEF Execute, CasesInv
  <2>. QED
    BY <2>1, <2>2, <2>3, <2>4 DEF Execute, CasesInv
<1>8. CASE Executed
  <2>1. trying \in DOMAIN cases /\ source # NoDocument
    BY <1>8 DEF Executed, CasesInv
  <2>2. PICK a \in Answers :
          result' = {[case |-> cases[trying], answer |-> a, passed |-> Passed(cases[trying].assertions, a)]}
    BY <1>8 DEF Executed
  <2>3. CaseOK(cases[trying])
    BY <2>1 DEF CasesInv, CasesOK
  <2>4. UNCHANGED <<source, spec, cases, trying>> /\ phase' = "idle"
    BY <1>8 DEF Executed
  <2>5. \A r \in result' : CaseOK(r.case) /\ r.passed = Passed(r.case.assertions, r.answer)
    BY <2>2, <2>3
  <2>6. ResultOK'
    BY <2>2, <2>4, <2>5, OKKept DEF ResultOK
  <2>7. CasesOK' /\ SpecOK'
    BY <2>4, OKKept DEF CasesInv
  <2>. QED
    BY <2>1, <2>4, <2>6, <2>7 DEF CasesInv
<1>9. CASE ExecuteFails
  BY <1>1, <1>9 DEF ExecuteFails
<1>10. CASE \E w \in Workflows : Begins(w)
  BY <1>1, <1>10 DEF Begins, Fresh
<1>11. CASE StepAnswered
  <2>1. phase = "stepping" /\ phase' \in {"stepping", "idle"} /\ UNCHANGED <<source, spec, cases, trying, result>>
    BY <1>11 DEF StepAnswered
  <2>. QED
    BY <1>1, <2>1 DEF CasesInv
<1>12. CASE StepFails
  BY <1>1, <1>12 DEF StepFails
<1>. QED
  BY <1>3, <1>4, <1>5, <1>6, <1>7, <1>8, <1>9, <1>10, <1>11, <1>12 DEF SessionStep

LEMMA CasesKept == CasesInv /\ UNCHANGED sessionVars => CasesInv'
BY OKKept DEF CasesInv, sessionVars

\* What the invariant says of cases, read off their definition.
LEMMA CasesJudged == CasesInv => CasesReachOperations /\ RejectionsAreJudged
<1> SUFFICES ASSUME CasesInv PROVE CasesReachOperations /\ RejectionsAreJudged
  OBVIOUS
<1>1. CasesReachOperations
  BY DEF CasesInv, CasesOK, CaseOK, CasesReachOperations
<1>2. ASSUME NEW r \in result, r.case.operation # 0,
             spec.operations[r.case.operation].auth # {}, r.case.credential \in {"none", "key"}
      PROVE  /\ ~(r.passed /\ r.answer.code # 401)
             /\ /\ r.case.credential = "none" /\ Served(r.case) = {r.case.operation}
                /\ Demands(r.case.operation) /\ Conforms(r)
                => r.passed
  <2>1. r.case.assertions = <<[kind |-> "status", code |-> 401]>> /\ r.passed = Passed(r.case.assertions, r.answer)
    BY <1>2 DEF CasesInv, ResultOK, CaseOK
  <2>2. Passed(r.case.assertions, r.answer) <=> r.answer.code = 401
    BY <2>1 DEF Passed
  <2>3. ASSUME r.case.credential = "none", Served(r.case) = {r.case.operation},
               Demands(r.case.operation), Conforms(r)
        PROVE  r.answer.code = 401
    BY <2>3 DEF Conforms
  <2>. QED
    BY Zenon, <2>1, <2>2, <2>3
<1>. QED
  BY <1>1, <1>2 DEF RejectionsAreJudged

(***************************************************************************)
(* The invariant of workflows.                                             *)
(***************************************************************************)
\* Of the steps before step i that found v (Givers), the last, and what it hands on.
IsLast(i, v, j) == \A k \in Givers(i, v) : k <= j

Handed(i, v, value) ==
    \E j \in Givers(i, v) : IsLast(i, v, j) /\ value = Redacted(answered[j].body)[workflow[j].extract[v]]

Own(i, v) == IF v \in DOMAIN workflow[i].own THEN workflow[i].own[v] ELSE "${}"

\* The first n steps have passed.
AllPassed(n) == \A j \in 1..n : Passed(workflow[j].assertions, answered[j])

\* Step i was sent what was found before it, or what it has itself.
SentOK(i) == /\ AllPassed(i - 1)
             /\ \A v \in DOMAIN sent[i] : \/ Handed(i, v, sent[i][v])
                                          \/ Givers(i, v) = {} /\ sent[i][v] = Own(i, v)

\* While a step is awaited, variables are what the steps before it found, and all of it.
HeldOK == \A v \in Variables : IF v \in DOMAIN variables THEN Handed(Len(sent), v, variables[v])
                               ELSE Givers(Len(sent), v) = {}

FlowInv ==
    /\ workflow \in Workflows \cup {<< >>}
    /\ workflow = << >> => sent = << >> /\ answered = << >> /\ variables = << >> /\ phase # "stepping"
    /\ sent \in Seq(Range(sent)) /\ answered \in Seq(Range(answered))
    /\ Len(answered) <= Len(sent) /\ Len(sent) <= Len(workflow)
    /\ DOMAIN variables \subseteq Variables
    /\ phase = "stepping" => Len(sent) = Len(answered) + 1 /\ HeldOK
    /\ \A i \in DOMAIN sent : i <= Len(answered) + 1 /\ SentOK(i)

LEMMA WorkflowType ==
    ASSUME NEW w \in Workflows
    PROVE  /\ w # << >> /\ IsList(w) /\ Len(w) > 0
           /\ \A i \in DOMAIN w : DOMAIN w[i].extract \subseteq Variables /\ w[i].uses \subseteq Variables
<1>1. w # << >> /\ w \in Seq(Range(w))
  BY SessionAssumption
<1>2. IsList(w)
  BY <1>1, ListOf
<1>3. Len(w) # 0
  BY <1>1
<1>4. ASSUME NEW i \in DOMAIN w
      PROVE  DOMAIN w[i].extract \subseteq Variables /\ w[i].uses \subseteq Variables
  BY DEF Variables
<1>. QED
  BY <1>1, <1>2, <1>3, <1>4 DEF IsList

\* A history grows by one element; what it held stays where it is.
LEMMA AppendType ==
    ASSUME NEW s, s \in Seq(Range(s)), NEW e
    PROVE  /\ Append(s, e) \in Seq(Range(Append(s, e)))
           /\ Len(s) \in Nat /\ Len(Append(s, e)) = Len(s) + 1
           /\ DOMAIN s = 1..Len(s) /\ DOMAIN Append(s, e) = 1..(Len(s) + 1)
           /\ Append(s, e)[Len(s) + 1] = e
           /\ \A i \in DOMAIN s : Append(s, e)[i] = s[i]
<1> DEFINE V == Range(s) \cup {e}
           longer == Append(s, e)
<1>1. s \in Seq(V)
  <2> DEFINE R == Range(s)
  <2>1. R \subseteq V
    OBVIOUS
  <2> HIDE DEF R, V
  <2>2. s \in Seq(R)
    BY DEF R
  <2>. QED
    BY <2>1, <2>2
<1>2. e \in V
  OBVIOUS
<1> HIDE DEF V
<1>3. /\ Len(s) \in Nat /\ DOMAIN s = 1..Len(s)
      /\ longer \in Seq(V) /\ Len(longer) = Len(s) + 1
      /\ longer[Len(s) + 1] = e /\ \A i \in DOMAIN s : longer[i] = s[i]
  BY <1>1, <1>2
<1> HIDE DEF longer
<1>4. DOMAIN longer = 1..(Len(s) + 1) /\ Len(longer) \in Nat
  BY <1>3
<1>5. longer = [i \in 1..Len(longer) |-> longer[i]]
  BY <1>3, <1>4
<1>6. longer \in Seq(Range(longer))
  <2> DEFINE W == Range(longer)
  <2>1. \A i \in DOMAIN longer : longer[i] \in W
    BY DEF Range
  <2>2. longer = [i \in DOMAIN longer |-> longer[i]]
    BY <1>3
  <2> HIDE DEF W
  <2>3. longer \in Seq(W)
    BY <1>3, <2>1, <2>2, MappedType
  <2>. QED
    BY <2>3 DEF W
<1>. QED
  BY <1>3, <1>4, <1>6 DEF longer

LEMMA FlowInit == SessionInit => FlowInv
<1> SUFFICES ASSUME SessionInit PROVE FlowInv
  OBVIOUS
<1>1. << >> \in Seq(Range(<< >>)) /\ DOMAIN << >> = {} /\ Len(<< >>) = 0
  OBVIOUS
<1>. QED
  BY <1>1 DEF SessionInit, FlowInv

\* The answers a step does not add to leave the steps before it as they were.
LEMMA GiversKept ==
    ASSUME NEW i \in Nat, workflow' = workflow,
           \A j \in 1..(i - 1) : answered'[j] = answered[j]
    PROVE  /\ \A v : Givers(i, v)' = Givers(i, v)
           /\ \A v, value : Handed(i, v, value)' <=> Handed(i, v, value)
           /\ \A v : Own(i, v)' = Own(i, v)
           /\ AllPassed(i - 1)' <=> AllPassed(i - 1)
<1>1. \A v : Givers(i, v)' = Givers(i, v)
  BY DEF Givers
<1>2. \A v : \A j \in Givers(i, v) : answered'[j] = answered[j]
  BY DEF Givers
<1>3. ASSUME NEW v, NEW value PROVE Handed(i, v, value)' <=> Handed(i, v, value)
  BY <1>1, <1>2 DEF Handed, IsLast
<1>4. \A v : Own(i, v)' = Own(i, v)
  BY DEF Own
<1>5. AllPassed(i - 1)' <=> AllPassed(i - 1)
  BY DEF AllPassed, Passed
<1>. QED
  BY <1>1, <1>3, <1>4, <1>5

\* The first step has nothing but its own values.
LEMMA FlowBegins ==
    ASSUME FlowInv, NEW w \in Workflows, Begins(w)
    PROVE  FlowInv'
<1>1. workflow = << >> /\ sent = << >> /\ answered = << >> /\ variables = << >>
  BY DEF FlowInv, Begins, Fresh
<1>2. /\ workflow' = w /\ phase' = "stepping" /\ answered' = << >> /\ variables' = << >>
      /\ sent' = <<Substituted(w[1], w[1].own)>>
  BY <1>1 DEF Begins
<1>3. w # << >> /\ IsList(w) /\ Len(w) > 0
  BY WorkflowType
<1>4. sent' \in Seq(Range(sent')) /\ Len(sent') = 1 /\ DOMAIN sent' = {1} /\ sent'[1] = Substituted(w[1], w[1].own)
  BY <1>2 DEF Range
<1>5. \A v : Givers(1, v)' = {}
  BY DEF Givers
<1>6. SentOK(1)'
  <2>1. AllPassed(1 - 1)'
    BY DEF AllPassed
  <2>2. \A v \in DOMAIN sent'[1] : sent'[1][v] = Own(1, v)'
    BY <1>2, <1>4 DEF Substituted, Own
  <2>. QED
    BY <1>5, <2>1, <2>2 DEF SentOK
<1>7. HeldOK'
  BY <1>2, <1>4, <1>5 DEF HeldOK
<1>8. << >> \in Seq(Range(<< >>)) /\ DOMAIN << >> = {} /\ Len(<< >>) = 0
  OBVIOUS
<1>. QED
  BY <1>2, <1>3, <1>4, <1>6, <1>7, <1>8 DEF FlowInv, IsList

\* What the awaited step hands on is found by the next one, and is the last to be.
LEMMA HeldStep ==
    ASSUME FlowInv, phase = "stepping", NEW n, n = Len(sent), NEW a \in Answers,
           answered' = Append(answered, a), workflow' = workflow,
           variables' = Updated(variables, Extracted(workflow[n], a.body))
    PROVE  /\ DOMAIN variables' \subseteq Variables
           /\ \A v \in Variables : IF v \in DOMAIN variables' THEN Handed(n + 1, v, variables[v])'
                                   ELSE Givers(n + 1, v)' = {}
<1> DEFINE body == a.body
           extracted == Extracted(workflow[n], body)
           now(v) == v \in DOMAIN workflow[n].extract /\ workflow[n].extract[v] \in DOMAIN body
<1>1. /\ workflow \in Workflows /\ n = Len(answered) + 1 /\ n <= Len(workflow) /\ HeldOK
      /\ Len(answered) \in Nat /\ n \in Nat /\ n >= 1 /\ answered \in Seq(Range(answered))
      /\ DOMAIN variables \subseteq Variables
  BY AppendType DEF FlowInv
<1>2. n \in DOMAIN workflow /\ DOMAIN workflow[n].extract \subseteq Variables
  BY <1>1, WorkflowType DEF IsList
<1>3. answered'[n].body = body /\ \A j \in 1..(n - 1) : answered'[j] = answered[j]
  BY <1>1, AppendType
<1>4. /\ \A v : v \in DOMAIN extracted <=> now(v)
      /\ \A v : now(v) => extracted[v] = Redacted(body)[workflow[n].extract[v]]
  BY DEF Extracted
<1>5. /\ DOMAIN variables' = DOMAIN variables \cup DOMAIN extracted
      /\ \A v \in DOMAIN extracted : variables'[v] = extracted[v]
      /\ \A v \in DOMAIN variables \ DOMAIN extracted : variables'[v] = variables[v]
  BY DEF Updated
<1> HIDE DEF extracted, body
<1>6. \A v : Givers(n + 1, v)' = Givers(n, v) \cup {j \in {n} : now(v)}
  BY <1>1, <1>3 DEF Givers
<1>7. \A v : Givers(n, v) \subseteq 1..(n - 1)
  BY DEF Givers
<1>8. ASSUME NEW v, now(v) PROVE Handed(n + 1, v, variables[v])'
  <2>1. Givers(n + 1, v)' = Givers(n, v) \cup {n}
    BY <1>6, <1>8
  <2>2. IsLast(n + 1, v, n)'
    BY <1>1, <1>7, <2>1 DEF IsLast
  <2>3. variables'[v] = Redacted(answered'[n].body)[workflow[n].extract[v]]
    BY <1>3, <1>4, <1>5, <1>8
  <2>. QED
    BY <2>1, <2>2, <2>3 DEF Handed
<1>9. ASSUME NEW v \in DOMAIN variables, ~now(v) PROVE Handed(n + 1, v, variables[v])'
  <2>1. Givers(n + 1, v)' = Givers(n, v)
    BY <1>6, <1>9
  <2>2. Handed(n, v, variables[v]) /\ variables'[v] = variables[v]
    BY <1>1, <1>4, <1>5, <1>9 DEF HeldOK
  <2>3. PICK j \in Givers(n, v) : IsLast(n, v, j) /\ variables[v] = Redacted(answered[j].body)[workflow[j].extract[v]]
    BY <2>2 DEF Handed
  <2>4. answered'[j] = answered[j]
    BY <1>3, <1>7
  <2>5. IsLast(n + 1, v, j)'
    BY <2>1, <2>3 DEF IsLast
  <2>. QED
    BY <2>1, <2>2, <2>3, <2>4, <2>5 DEF Handed
<1>10. ASSUME NEW v \in Variables, v \notin DOMAIN variables' PROVE Givers(n + 1, v)' = {}
  BY <1>1, <1>4, <1>5, <1>6, <1>10 DEF HeldOK
<1>11. DOMAIN variables' \subseteq Variables
  BY <1>1, <1>2, <1>4, <1>5
<1>. QED
  BY <1>4, <1>5, <1>8, <1>9, <1>10, <1>11

\* The next step has what was held before, or what the answered step extracts.
LEMMA FlowAnswered ==
    ASSUME FlowInv, StepAnswered
    PROVE  FlowInv'
<1>1. PICK n : n = Len(sent)
  OBVIOUS
<1> DEFINE next == workflow[n + 1]
<1>2. PICK a \in Answers :
        /\ answered' = Append(answered, a)
        /\ IF Passed(workflow[n].assertions, a)
           THEN /\ variables' = Updated(variables, Extracted(workflow[n], a.body))
                /\ IF n < Len(workflow)
                   THEN /\ sent' = Append(sent, Substituted(next, Carried(next, variables')))
                        /\ UNCHANGED phase
                   ELSE phase' = "idle" /\ UNCHANGED sent
           ELSE phase' = "idle" /\ UNCHANGED <<variables, sent>>
  BY <1>1 DEF StepAnswered
<1>3. workflow' = workflow /\ phase = "stepping"
  BY DEF StepAnswered
<1>4. /\ workflow \in Workflows /\ n = Len(answered) + 1 /\ n <= Len(workflow) /\ HeldOK
      /\ sent \in Seq(Range(sent)) /\ answered \in Seq(Range(answered))
      /\ Len(answered) \in Nat /\ n \in Nat /\ DOMAIN sent = 1..n
      /\ DOMAIN variables \subseteq Variables
  BY <1>1, <1>3, AppendType DEF FlowInv
<1>5. /\ answered' \in Seq(Range(answered')) /\ Len(answered') = n /\ answered'[n] = a
      /\ \A j \in 1..(n - 1) : answered'[j] = answered[j]
  BY <1>2, <1>4, AppendType
<1>6. ASSUME NEW i \in 1..n, sent'[i] = sent[i] PROVE SentOK(i)'
  <2>1. SentOK(i)
    BY <1>4, <1>6 DEF FlowInv
  <2>2. \A j \in 1..(i - 1) : answered'[j] = answered[j]
    <3>1. 1..(i - 1) \subseteq 1..(n - 1)
      BY <1>4
    <3>. QED
      BY <1>5, <3>1
  <2>3. /\ \A v : Givers(i, v)' = Givers(i, v)
        /\ \A v, value : Handed(i, v, value)' <=> Handed(i, v, value)
        /\ \A v : Own(i, v)' = Own(i, v)
        /\ AllPassed(i - 1)' <=> AllPassed(i - 1)
    BY <1>3, <1>4, <2>2, GiversKept
  <2>. QED
    BY <1>6, <2>1, <2>3 DEF SentOK
<1>7. ASSUME phase' = "idle", UNCHANGED sent, DOMAIN variables' \subseteq Variables PROVE FlowInv'
  <2>1. Len(sent') = n
    BY <1>1, <1>7
  <2>. QED
    BY <1>3, <1>4, <1>5, <1>6, <1>7, <2>1, WorkflowType DEF FlowInv
<1>8. CASE ~Passed(workflow[n].assertions, a)
  BY <1>2, <1>4, <1>7, <1>8
<1>9. CASE Passed(workflow[n].assertions, a)
  <2>1. variables' = Updated(variables, Extracted(workflow[n], a.body))
    BY <1>2, <1>9
  <2>2. /\ DOMAIN variables' \subseteq Variables
        /\ \A v \in Variables : IF v \in DOMAIN variables' THEN Handed(n + 1, v, variables[v])'
                                ELSE Givers(n + 1, v)' = {}
    BY <1>1, <1>2, <1>3, <2>1, HeldStep
  <2>3. CASE n >= Len(workflow)
    <3>1. ~(n < Len(workflow))
      BY <1>4, <2>3, WorkflowType DEF IsList
    <3>. QED
      BY <1>2, <1>7, <1>9, <2>2, <3>1
  <2>4. CASE n < Len(workflow)
    <3> DEFINE new == Substituted(next, Carried(next, variables'))
    <3>1. sent' = Append(sent, new) /\ phase' = phase
      BY <1>2, <1>9, <2>4
    <3>2. n + 1 \in DOMAIN workflow /\ next.uses \subseteq Variables
      BY <1>4, <2>4, WorkflowType DEF IsList
    <3> HIDE DEF new
    <3>3. /\ sent' \in Seq(Range(sent')) /\ Len(sent') = n + 1 /\ DOMAIN sent' = 1..(n + 1)
          /\ sent'[n + 1] = new /\ \A i \in 1..n : sent'[i] = sent[i]
      BY <1>1, <1>4, <3>1, AppendType
    <3>4. HeldOK'
      BY <2>2, <3>3 DEF HeldOK
    <3>5. SentOK(n + 1)'
      <4>1. DOMAIN new = next.uses
        BY DEF new, Substituted
      <4>2. ASSUME NEW v \in next.uses, v \in DOMAIN variables' PROVE new[v] = variables'[v]
        BY <4>2 DEF new, Substituted, Carried, Updated
      <4>3. ASSUME NEW v \in next.uses, v \notin DOMAIN variables' PROVE new[v] = Own(n + 1, v)'
        BY <1>3, <4>3 DEF new, Substituted, Carried, Updated, Own
      <4>4. AllPassed(n)'
        <5>1. SentOK(n)
          BY <1>4 DEF FlowInv
        <5>2. \A j \in 1..(n - 1) : Passed(workflow[j].assertions, answered[j])
          BY <5>1 DEF SentOK, AllPassed
        <5>3. \A j \in 1..n : j = n \/ j \in 1..(n - 1)
          BY <1>4
        <5>4. ASSUME NEW j \in 1..n PROVE Passed(workflow[j].assertions, answered'[j])
          BY <1>5, <1>9, <5>2, <5>3
        <5>. QED
          BY <1>3, <5>4 DEF AllPassed, Passed
      <4>. QED
        BY <1>4, <2>2, <3>2, <3>3, <4>1, <4>2, <4>3, <4>4 DEF SentOK
    <3>6. n + 1 <= Len(workflow) /\ Len(workflow) \in Nat /\ workflow # << >>
      BY <1>4, <2>4, WorkflowType DEF IsList
    <3>7. \A i \in DOMAIN sent' : i <= Len(answered') + 1 /\ SentOK(i)'
      BY <1>4, <1>5, <1>6, <3>3, <3>5
    <3>. QED
      BY <1>3, <1>4, <1>5, <2>2, <3>3, <3>4, <3>6, <3>7 DEF FlowInv
  <2>. QED
    BY <1>4, <2>3, <2>4, WorkflowType DEF IsList
<1>. QED
  BY <1>8, <1>9

LEMMA FlowKept ==
    ASSUME FlowInv, UNCHANGED flowVars, phase' = "stepping" => phase = "stepping"
    PROVE  FlowInv'
<1>1. UNCHANGED <<workflow, variables, sent, answered>>
  BY DEF flowVars
<1>2. \A i, v, value : Handed(i, v, value)' <=> Handed(i, v, value)
  BY <1>1 DEF Handed, IsLast, Givers
<1>3. \A i, v : Givers(i, v)' = Givers(i, v) /\ Own(i, v)' = Own(i, v)
  BY <1>1 DEF Givers, Own
<1>4. \A i : SentOK(i)' <=> SentOK(i)
  BY <1>1, <1>2, <1>3 DEF SentOK, AllPassed, Passed
<1>5. HeldOK' <=> HeldOK
  BY <1>1, <1>2, <1>3 DEF HeldOK
<1>. QED
  BY <1>1, <1>4, <1>5 DEF FlowInv

\* Each step of a session, as far as the workflow goes.
LEMMA FlowStep ==
    ASSUME FlowInv, SessionStep
    PROVE  FlowInv'
<1>1. CASE \E w \in Workflows : Begins(w)
  BY <1>1, FlowBegins
<1>2. CASE StepAnswered
  BY <1>2, FlowAnswered
<1>3. CASE Ask \/ Refused \/ Listed \/ Collect \/ (\E i \in DOMAIN cases : Execute(i))
           \/ Executed \/ ExecuteFails \/ StepFails
  <2>1. UNCHANGED flowVars /\ (phase' = "stepping" => phase = "stepping")
    BY <1>3 DEF Ask, Refused, Listed, Collect, Execute, Executed, ExecuteFails, StepFails
  <2>. QED
    BY <2>1, FlowKept
<1>. QED
  BY <1>1, <1>2, <1>3 DEF SessionStep

LEMMA FlowCarries == FlowInv => ValuesAreCarried
<1> SUFFICES ASSUME FlowInv, NEW i \in DOMAIN sent
             PROVE  /\ \A j \in 1..(i - 1) : Passed(workflow[j].assertions, answered[j])
                    /\ \A v \in DOMAIN sent[i] :
                          /\ Givers(i, v) # {} /\ KeyOf(i, v) \notin Sensitive => sent[i][v] = ValueOf(i, v)
                          /\ Givers(i, v) = {} => sent[i][v] = Own(i, v)
  BY DEF ValuesAreCarried, Own
<1>1. SentOK(i)
  BY DEF FlowInv
<1>2. ASSUME NEW v \in DOMAIN sent[i], Givers(i, v) # {}, KeyOf(i, v) \notin Sensitive
      PROVE  sent[i][v] = ValueOf(i, v)
  <2> DEFINE last == LastGiver(i, v)
  <2>1. PICK j \in Givers(i, v) :
            IsLast(i, v, j) /\ sent[i][v] = Redacted(answered[j].body)[workflow[j].extract[v]]
    BY <1>1, <1>2 DEF SentOK, Handed
  <2>2. Givers(i, v) \subseteq Int
    BY DEF Givers
  <2>3. last \in Givers(i, v) /\ \A k \in Givers(i, v) : k <= last
    BY <2>1 DEF IsLast, LastGiver
  <2>4. last = j
    BY <2>1, <2>2, <2>3 DEF IsLast
  <2>5. workflow[j].extract[v] \in DOMAIN answered[j].body
    BY DEF Givers
  <2>6. KeyOf(i, v) = workflow[j].extract[v] /\ ValueOf(i, v) = answered[j].body[workflow[j].extract[v]]
    BY <2>4 DEF KeyOf, ValueOf
  <2>. QED
    BY <1>2, <2>1, <2>5, <2>6 DEF Redacted
<1>3. ASSUME NEW v \in DOMAIN sent[i], Givers(i, v) = {} PROVE sent[i][v] = Own(i, v)
  BY <1>1, <1>3 DEF SentOK, Handed
<1>. QED
  BY <1>1, <1>2, <1>3 DEF SentOK, AllPassed

(***************************************************************************)
(* The workspace.                                                          *)
(***************************************************************************)
\* What is answered was read from a document.
Answerable ==
    \A r \in Importers : /\ at[r] \notin {"start", "failed"} => document[r] # NoDocument
                         /\ at[r] \notin {"start", "failed", "fetching"} => Accepted(document[r])

\* A request is answered only after its document was there and accepted.
LEMMA AnswerableStep ==
    ASSUME ImportTypeOK, Answerable, NEW r \in Importers, ImportStep(r)
    PROVE  Answerable'
<1>1. document' = document
  BY DEF ImportStep, Begin, Fetched, Read, Moves, NextVersion, Create, ImportStops
<1>2. \A q \in Importers \ {r} : at'[q] = at[q]
  BY DEF ImportTypeOK, ImportStep, Begin, Fetched, Read, Moves, NextVersion, Create, ImportStops
<1>3. ASSUME NEW where, Moves(r, where) PROVE at'[r] = where
  BY <1>3 DEF ImportTypeOK, Moves
<1>4. /\ at[r] \notin {"start", "failed"} => document[r] # NoDocument
      /\ at[r] \notin {"start", "failed", "fetching"} => Accepted(document[r])
  BY DEF Answerable
<1>5. /\ at'[r] \in {"start", "failed"} \/ document[r] # NoDocument
      /\ at'[r] \in {"start", "failed", "fetching"} \/ Accepted(document[r])
  <2>1. CASE Begin(r)
    BY <1>3, <2>1 DEF Begin, Read
  <2>2. CASE Fetched(r)
    BY <1>3, <1>4, <2>2 DEF Fetched, Read
  <2>3. CASE NextVersion(r)
    BY <1>4, <2>3 DEF NextVersion
  <2>4. CASE Create(r)
    BY <1>4, <2>4 DEF Create
  <2>5. CASE ImportStops(r)
    BY <1>3, <2>5 DEF ImportStops
  <2>. QED
    BY <2>1, <2>2, <2>3, <2>4, <2>5 DEF ImportStep
<1>. QED
  BY <1>1, <1>2, <1>5 DEF Answerable

WorkspaceInv == ImportInv /\ Answerable /\ SchemasInv /\ CasesInv /\ FlowInv

LEMMA WorkspaceInvInit == WorkspaceInit => WorkspaceInv
<1> SUFFICES ASSUME WorkspaceInit PROVE WorkspaceInv
  OBVIOUS
<1>1. Answerable /\ SchemasInv
  BY DEF WorkspaceInit, ImportInit, SessionInit, Answerable, SchemasInv
<1>. QED
  BY <1>1, ImportInvInit, CasesInit, FlowInit DEF WorkspaceInit, WorkspaceInv

\* An import leaves the session alone, a session the imports; opening a specification reads
\* what an import has answered.
LEMMA WorkspaceInvStep == WorkspaceInv /\ [WorkspaceNext]_workspaceVars => WorkspaceInv'
<1> SUFFICES ASSUME WorkspaceInv, [WorkspaceNext]_workspaceVars PROVE WorkspaceInv'
  OBVIOUS
<1>1. ImportInv /\ ImportTypeOK /\ Answerable /\ SchemasInv /\ CasesInv /\ FlowInv
  BY DEF WorkspaceInv, ImportInv
<1>2. ASSUME UNCHANGED importVars PROVE ImportInv' /\ Answerable'
  BY <1>1, <1>2, ImportInvKept DEF importVars, Answerable
<1>3. ASSUME UNCHANGED sessionVars PROVE SchemasInv' /\ CasesInv' /\ FlowInv'
  <2>1. UNCHANGED flowVars /\ phase' = phase
    BY <1>3 DEF sessionVars, flowVars
  <2>2. SchemasInv'
    BY <1>1, <1>3 DEF sessionVars, SchemasInv
  <2>. QED
    BY <1>1, <1>3, <2>1, <2>2, CasesKept, FlowKept
<1>4. ASSUME NEW r \in Importers, ImportStep(r) PROVE ImportInv' /\ Answerable'
  BY <1>1, <1>4, ImportInvStep, AnswerableStep
<1>5. ASSUME NEW r \in Importers, OpenKnown(r) PROVE SchemasInv' /\ CasesInv' /\ FlowInv'
  <2>1. /\ document \in Assignments /\ document[r] # NoDocument /\ Accepted(document[r])
        /\ Open(document[r])
    <3>1. at[r] = "answered" /\ Open(document[r]) /\ document \in Assignments
      BY <1>1, <1>5 DEF OpenKnown, ImportTypeOK
    <3>2. at[r] \notin {"start", "failed", "fetching"}
      BY <3>1
    <3>. QED
      BY <1>1, <3>1, <3>2 DEF Answerable
  <2>2. /\ document[r].servers \in Seq(STRING) /\ document[r].paths \in Seq(PathItem)
        /\ IsSchemas(document[r].schemas)
    BY <2>1, ImportAssumption DEF IsSchemas
  <2>3. UNCHANGED flowVars /\ phase' = phase
    BY <2>1 DEF Open, flowVars
  <2>4. SchemasInv'
    BY <2>1, <2>2, SpecificationSchemas DEF Open, SchemasInv
  <2>. QED
    BY <1>1, <2>1, <2>2, <2>3, <2>4, CasesOpened, FlowKept
<1>6. ASSUME SessionStep PROVE SchemasInv'
  <2>1. UNCHANGED <<source, spec>>
    BY <1>6 DEF SessionStep, Ask, Refused, Listed, Collect, Execute, Executed, ExecuteFails, Begins,
                StepAnswered, StepFails
  <2>. QED
    BY <1>1, <2>1 DEF SchemasInv
<1>. QED
  BY <1>1, <1>2, <1>3, <1>4, <1>5, <1>6, CasesStep, FlowStep
     DEF WorkspaceInv, WorkspaceNext, workspaceVars, OpenKnown

LEMMA WorkspaceInvariant == WorkspaceSpec => []WorkspaceInv
BY WorkspaceInvInit, WorkspaceInvStep, PTL DEF WorkspaceSpec

\* Every variable of the page keeps its type: among them, that every selected case is in the
\* list, that the step of a running workflow exists and that at most one result is shown.
THEOREM WorkspaceTypeCorrect == WorkspaceSpec => []WorkspaceTypeOK
<1>1. WorkspaceInv => WorkspaceTypeOK
  <2> SUFFICES ASSUME WorkspaceInv PROVE SessionTypeOK
    BY DEF WorkspaceInv, ImportInv, WorkspaceTypeOK
  <2>1. Cardinality(result) \in {0, 1}
    <3>1. Cardinality({}) = 0 /\ \A r : Cardinality({r}) = 1
      BY FS_EmptySet, FS_Singleton
    <3>2. result = {} \/ \E r : result = {r}
      BY DEF WorkspaceInv, CasesInv, ResultOK
    <3>. QED
      BY <3>1, <3>2
  <2>2. Cardinality(result) <= 1
    BY <2>1
  <2>. QED
    BY <2>2 DEF WorkspaceInv, ImportInv, CasesInv, CasesOK, CaseOK, FlowInv, SessionTypeOK
<1>. QED
  BY <1>1, WorkspaceInvariant, PTL

\* Whatever a reply names, a generated case has the method and, unless the item named
\* another server than the first, a path of an operation the specification lists.
THEOREM CasesReach == WorkspaceSpec => []CasesReachOperations
BY WorkspaceInvariant, CasesJudged, PTL DEF WorkspaceInv

\* Whatever the items of a reply assert, a case generated for an operation with a scheme
\* passes on another status than 401 only if its item brought an Authorization header or
\* an auth_context, be it one no token is sent for; and without any credential it passes
\* against an API that keeps its document.
THEOREM RejectionsJudged == WorkspaceSpec => []RejectionsAreJudged
BY WorkspaceInvariant, CasesJudged, PTL DEF WorkspaceInv

\* For any workflow and any answers, no step is sent after one that failed, and for each
\* variable a step is sent what the API gave the last step before it that found one, if
\* the key it was found under is not a sensitive one (those are redacted first, and
\* TokensAreCarried does not hold), or its own value if no step found one.
THEOREM ValuesCarried == WorkspaceSpec => []ValuesAreCarried
BY WorkspaceInvariant, FlowCarries, PTL DEF WorkspaceInv

\* A reference left in a resolved schema lies on a cycle of the document's references (or
\* names nothing): no branch loses a reference because another branch met it first.
THEOREM ReferencesResolved == WorkspaceSpec => []ReferencesAreResolved
BY WorkspaceInvariant, SchemasAreResolved, PTL DEF WorkspaceInv

\* An import that counts after another one was stored gets a higher revision, whatever
\* requests fail, stop or are refused in between, and revisions never run ahead of the store.
THEOREM RevisionsHold == WorkspaceSpec => []RevisionsFollowAnswers
BY WorkspaceInvariant, CountsOrderRevisions, PTL DEF WorkspaceInv

(***************************************************************************)
(* Polling.                                                                *)
(***************************************************************************)
USE DEF Service!Ended, Service!Statuses, Polling

LEMMA TypeInit == Init => TypeOK
BY PollingAssumption DEF Init, TypeOK, Service!Init

LEMMA TypeStep == TypeOK /\ [Next]_vars => TypeOK'
<1> SUFFICES ASSUME TypeOK, [Next]_vars PROVE TypeOK'
  OBVIOUS
<1> USE PollingAssumption DEF TypeOK, serverVars, loopVars, clientVars, Goto
<1>1. CASE UNCHANGED vars
  BY <1>1 DEF vars
<1>2. ASSUME NEW j \in Jobs, Click(j) PROVE TypeOK'
  BY <1>2 DEF Click, Service!Insert
<1>3. ASSUME NEW j \in Jobs, PostAnswered(j) \/ PostFails(j) PROVE TypeOK'
  BY <1>3 DEF PostAnswered, PostFails
<1>4. ASSUME NEW j \in Jobs, Answer(j) \/ PollFails(j) PROVE TypeOK'
  BY <1>4 DEF Answer, PollFails
<1>5. ASSUME NEW j \in Jobs, Receive(j) PROVE TypeOK'
  <2>1. left' \in [Jobs -> 0..MaxPolls]
    BY <1>5 DEF Receive
  <2>2. told' \in [Jobs -> Service!Ended \cup {"nothing"}]
    BY <1>5 DEF Receive, Tell, Ends
  <2>. QED
    BY <1>5, <2>1, <2>2 DEF Receive, Tell
<1>6. ASSUME NEW j \in Jobs, ServerStep(j) PROVE TypeOK'
  BY <1>6 DEF ServerStep, Verdicts, Service!Accept, Service!Refuse, Service!Attempt,
              Service!Report, Service!End
<1>7. ASSUME NEW j \in Jobs, CancelFails(j) \/ CancelWritten(j) \/ Cleared(j) PROVE TypeOK'
  BY <1>7 DEF CancelFails, CancelWritten, Cleared, Service!CancelRun
<1>8. CASE Cancel
  BY <1>8 DEF Cancel
<1>9. CASE Restart
  BY <1>9 DEF Restart, Service!Restart
<1>. QED
  BY <1>1, <1>2, <1>3, <1>4, <1>5, <1>6, <1>7, <1>8, <1>9 DEF Next, ClientStep

\* The client's loops, counters, cancels and what it shows keep their types.
THEOREM TypeCorrect == SafeSpec => []TypeOK
BY TypeInit, TypeStep, PTL DEF SafeSpec

(***************************************************************************)
(* What the user is told.  ToldIsTrue is not inductive: an answer on its   *)
(* way must be as true as the toast it leads to, and an ended job must     *)
(* have begun its one attempt, so that its verdict is in the run.          *)
(***************************************************************************)
JobsAreTrue ==
    \A j \in Jobs :
        /\ status[j] # "none" => durable[j] # "none"
        /\ status[j] \in Service!Ended \cup {"running"} => attempts[j] = 1
        /\ status[j] \in {"passed", "warning"} => durable[j] \in {status[j], "cancelled"}

AnswersAreTrue ==
    \A j \in Jobs : reply[j] \in Service!Ended /\ status[j] # "lost" => status[j] = reply[j]

TellsAreTrue ==
    \A j \in Jobs : told[j] # "nothing" /\ status[j] # "lost" => status[j] = told[j]

TrueInv == TypeOK /\ JobsAreTrue /\ AnswersAreTrue /\ TellsAreTrue

\* The server does not take back the end of a job, but for a restart, which loses it.
LEMMA ServerKeeps ==
    ASSUME TypeOK, JobsAreTrue,
           \/ \E j \in Jobs : \/ ServerStep(j)
                              \/ Service!Insert(j)
                              \/ Service!CancelRun(j)
           \/ Service!Restart
    PROVE  /\ JobsAreTrue'
           /\ \A j \in Jobs : \/ status'[j] = status[j]
                              \/ status'[j] = "lost"
                              \/ status[j] \notin Service!Ended \cup {"lost"}
<1> USE DEF TypeOK, JobsAreTrue
<1>1. ASSUME NEW j \in Jobs, ServerStep(j)
      PROVE  /\ JobsAreTrue'
             /\ \A k \in Jobs : \/ status'[k] = status[k]
                                \/ status'[k] = "lost"
                                \/ status[k] \notin Service!Ended \cup {"lost"}
  <2>1. CASE Service!Accept(j) \/ Service!Refuse(j)
    BY <2>1 DEF Service!Accept, Service!Refuse
  <2>2. CASE attempts[j] = 0 /\ Service!Attempt(j)
    BY <2>2 DEF Service!Attempt
  <2>3. ASSUME NEW s \in Verdicts(j) \cup {"running"}, Service!Report(j, s)
        PROVE  /\ JobsAreTrue'
               /\ \A k \in Jobs : status'[k] = status[k]
    BY <2>3 DEF Service!Report, Service!Firm, Verdicts
  <2>4. ASSUME NEW s \in Service!Ended, Service!End(j, s)
        PROVE  /\ JobsAreTrue'
               /\ \A k \in Jobs : \/ status'[k] = status[k]
                                  \/ status[k] \notin Service!Ended \cup {"lost"}
    BY <2>4 DEF Service!End
  <2>5. CASE cancel[j] = "out" /\ Service!End(j, "cancelled")
    BY <2>4, <2>5
  <2>6. CASE \E s \in Verdicts(j) : Service!End(j, s)
    BY <2>4, <2>6 DEF Verdicts
  <2>7. CASE \E s \in Verdicts(j) \cup {"running"} : Service!Report(j, s)
    BY <2>3, <2>7
  <2>. QED
    BY <1>1, <2>1, <2>2, <2>5, <2>6, <2>7 DEF ServerStep
<1>2. ASSUME NEW j \in Jobs, Service!Insert(j) \/ Service!CancelRun(j)
      PROVE  JobsAreTrue' /\ \A k \in Jobs : status'[k] = status[k]
  BY <1>2 DEF Service!Insert, Service!CancelRun
<1>3. CASE Service!Restart
  BY <1>3 DEF Service!Restart
<1>. QED
  BY <1>1, <1>2, <1>3

LEMMA TrueInit == Init => TrueInv
BY TypeInit DEF Init, TrueInv, JobsAreTrue, AnswersAreTrue, TellsAreTrue, Service!Init

LEMMA TrueStep == TrueInv /\ [Next]_vars => TrueInv'
<1> SUFFICES ASSUME TrueInv, [Next]_vars
             PROVE  JobsAreTrue' /\ AnswersAreTrue' /\ TellsAreTrue'
  BY TypeStep DEF TrueInv
<1>1. TypeOK /\ TypeOK' /\ JobsAreTrue /\ AnswersAreTrue /\ TellsAreTrue
  BY TypeStep DEF TrueInv
<1> USE <1>1
\* Steps of the client alone leave the server as it is.
<1>2. ASSUME UNCHANGED serverVars PROVE JobsAreTrue'
  BY <1>2 DEF serverVars, JobsAreTrue
<1>3. ASSUME UNCHANGED serverVars, UNCHANGED <<reply, told>>
      PROVE  JobsAreTrue' /\ AnswersAreTrue' /\ TellsAreTrue'
  BY <1>2, <1>3 DEF serverVars, AnswersAreTrue, TellsAreTrue
\* Steps of the server leave answers and toasts as they are, and true.
<1>4. ASSUME UNCHANGED <<reply, told>>,
             \/ \E j \in Jobs : ServerStep(j) \/ Service!Insert(j) \/ Service!CancelRun(j)
             \/ Service!Restart
      PROVE  JobsAreTrue' /\ AnswersAreTrue' /\ TellsAreTrue'
  <2>1. /\ JobsAreTrue'
        /\ \A j \in Jobs : \/ status'[j] = status[j]
                           \/ status'[j] = "lost"
                           \/ status[j] \notin Service!Ended \cup {"lost"}
    BY <1>4, ServerKeeps
  <2>2. AnswersAreTrue' /\ TellsAreTrue'
    BY <1>4, <2>1 DEF AnswersAreTrue, TellsAreTrue, TypeOK
  <2>. QED
    BY <2>1, <2>2
<1>5. CASE UNCHANGED vars
  BY <1>3, <1>5 DEF vars, clientVars, loopVars
<1>6. ASSUME NEW j \in Jobs, Click(j) PROVE JobsAreTrue' /\ AnswersAreTrue' /\ TellsAreTrue'
  BY <1>4, <1>6 DEF Click, loopVars
<1>7. ASSUME NEW j \in Jobs, PostAnswered(j) \/ PostFails(j) \/ PollFails(j)
      PROVE  JobsAreTrue' /\ AnswersAreTrue' /\ TellsAreTrue'
  BY <1>3, <1>7 DEF PostAnswered, PostFails, PollFails, loopVars
<1>8. ASSUME NEW j \in Jobs, Answer(j) PROVE JobsAreTrue' /\ AnswersAreTrue' /\ TellsAreTrue'
  BY <1>2, <1>8 DEF Answer, AnswersAreTrue, TellsAreTrue, serverVars, TypeOK
<1>9. ASSUME NEW j \in Jobs, Receive(j) PROVE JobsAreTrue' /\ AnswersAreTrue' /\ TellsAreTrue'
  BY <1>2, <1>9 DEF Receive, Tell, Ends, AnswersAreTrue, TellsAreTrue, serverVars, TypeOK
<1>10. ASSUME NEW j \in Jobs, ServerStep(j) PROVE JobsAreTrue' /\ AnswersAreTrue' /\ TellsAreTrue'
  BY <1>4, <1>10 DEF ServerStep, clientVars, loopVars
<1>11. ASSUME NEW j \in Jobs, CancelWritten(j)
       PROVE  JobsAreTrue' /\ AnswersAreTrue' /\ TellsAreTrue'
  BY <1>4, <1>11 DEF CancelWritten, loopVars
<1>12. ASSUME NEW j \in Jobs, CancelFails(j) \/ Cleared(j)
       PROVE  JobsAreTrue' /\ AnswersAreTrue' /\ TellsAreTrue'
  BY <1>3, <1>12 DEF CancelFails, Cleared, loopVars
<1>13. CASE Cancel
  BY <1>3, <1>13 DEF Cancel, loopVars
<1>14. CASE Restart
  BY <1>4, <1>14 DEF Restart, clientVars, loopVars
<1>. QED
  BY <1>5, <1>6, <1>7, <1>8, <1>9, <1>10, <1>11, <1>12, <1>13, <1>14 DEF Next, ClientStep

\* pollJob's toast: the end it names is how the job ended, and a job told to have passed
\* has that verdict in its durable run, or a later cancel.
THEOREM TellsTheTruth == SafeSpec => []ToldIsTrue
<1>1. TrueInv => ToldIsTrue
  BY DEF TrueInv, JobsAreTrue, TellsAreTrue, ToldIsTrue
<1>. QED
  BY <1>1, TrueInit, TrueStep, PTL DEF SafeSpec

(***************************************************************************)
(* The one activeJob of several loops.                                     *)
(***************************************************************************)
\* What is shown is polled, or its loop has failed.
ShownIsPolled == active = NoJob \/ loop[active] \in Polling \/ active \in failed

LEMMA ShownStep == TypeOK /\ ShownIsPolled /\ [Next]_vars => ShownIsPolled'
<1> SUFFICES ASSUME TypeOK, ShownIsPolled, [Next]_vars PROVE ShownIsPolled'
  OBVIOUS
<1> USE DEF TypeOK, ShownIsPolled, Goto
<1>1. CASE UNCHANGED vars
  BY <1>1 DEF vars, clientVars
<1>2. ASSUME NEW j \in Jobs, Click(j) PROVE ShownIsPolled'
  BY <1>2 DEF Click
<1>3. ASSUME NEW j \in Jobs, PostAnswered(j) \/ PostFails(j) PROVE ShownIsPolled'
  BY <1>3 DEF PostAnswered, PostFails
<1>4. ASSUME NEW j \in Jobs, Answer(j) \/ PollFails(j) PROVE ShownIsPolled'
  BY <1>4 DEF Answer, PollFails
<1>5. ASSUME NEW j \in Jobs, Receive(j) PROVE ShownIsPolled'
  BY <1>5 DEF Receive
<1>6. ASSUME NEW j \in Jobs, ServerStep(j) PROVE ShownIsPolled'
  BY <1>6 DEF ServerStep, clientVars
<1>7. ASSUME NEW j \in Jobs, CancelFails(j) \/ CancelWritten(j) \/ Cleared(j) PROVE ShownIsPolled'
  BY <1>7 DEF CancelFails, CancelWritten, Cleared
<1>8. CASE Cancel \/ Restart
  BY <1>8 DEF Cancel, Restart, clientVars
<1>. QED
  BY <1>1, <1>2, <1>3, <1>4, <1>5, <1>6, <1>7, <1>8 DEF Next, ClientStep

\* pollJob and cancelActiveJob: whichever loop or cancel writes activeJob last, no job is
\* shown when all loops have ended, but one whose poll failed.
THEOREM FreesWorkspace == SafeSpec => []WorkspaceIsFreed
<1>1. Init => ShownIsPolled
  BY DEF Init, ShownIsPolled
<1>2. TypeOK /\ ShownIsPolled => WorkspaceIsFreed
  BY DEF TypeOK, ShownIsPolled, WorkspaceIsFreed
<1>. QED
  BY <1>1, <1>2, ShownStep, TypeCorrect, PTL DEF SafeSpec
============================================================================

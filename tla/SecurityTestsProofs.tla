------------------------ MODULE SecurityTestsProofs ------------------------
(***************************************************************************)
(* Proofs about SecurityTests, for any requests, clock, answers and length *)
(* of replies and reports: types, whose tests are stored, and where their  *)
(* statuses come from.                                                     *)
(***************************************************************************)
EXTENDS SecurityTests, NaturalsInduction, WellFoundedInduction, TLAPS

LEMMA TestParts ==
    ASSUME NEW t \in Tests
    PROVE  t[1] \in 0..MaxSecond /\ t[2] \in Numbers /\ t = <<t[1], t[2]>>
BY DEF Tests

\* The database inserts, and updates, in the order of the numbers.
LEMMA FirstIsLeast ==
    ASSUME NEW S \in SUBSET Tests, S # {}
    PROVE  First(S) \in S /\ \A u \in S : First(S)[2] <= u[2]
<1> DEFINE numbers == {t[2] : t \in S}
           less == {p \in Nat \X Nat : p[1] < p[2]}
<1>1. numbers \subseteq Nat /\ numbers # {}
  BY SecurityAssumption, TestParts DEF Numbers
<1>2. IsWellFoundedOn(less, Nat)
  BY NatLessThanWellFounded DEF OpToRel
<1>3. PICK n \in numbers : \A m \in numbers : <<m, n>> \notin less
  <2> HIDE DEF numbers, less
  <2>. QED
    BY <1>1, <1>2, WFMin
<1>4. \A m \in numbers : n <= m
  <2>1. SUFFICES ASSUME NEW m \in numbers, ~(n <= m) PROVE FALSE
    OBVIOUS
  <2>2. m \in Nat /\ n \in Nat
    BY <1>1
  <2>3. <<m, n>> \in less
    BY <2>1, <2>2
  <2>. QED
    BY <1>3, <2>3
<1>5. PICK t \in S : t[2] = n
  OBVIOUS
<1>6. \A u \in S : u[2] \in numbers
  OBVIOUS
<1> HIDE DEF numbers
<1>7. \A u \in S : t[2] <= u[2]
  BY <1>4, <1>5, <1>6
<1>. QED
  BY <1>7 DEF First

\* What a request may plan: its tests differ in their numbers, and a report begins with its
\* number 1, in its first second.
Numbered(p) == \A t, u \in DOMAIN p : t[2] = u[2] => t = u
Reported(p) == \A t \in DOMAIN p : /\ p[t] # "draft"
                                   /\ \E v \in DOMAIN p : v[2] = 1 /\ v[1] <= t[1]

LEMMA ReplyIsPlan ==
    ASSUME NEW good \in SUBSET Numbers, NEW shape
    PROVE  /\ IsPlan([t \in {0} \X Items(shape, good) |-> "draft"])
           /\ Numbered([t \in {0} \X Items(shape, good) |-> "draft"])
<1>1. Items(shape, good) \subseteq Numbers
  BY SecurityAssumption DEF Items, Numbers
<1>2. {0} \X Items(shape, good) \subseteq Tests
  BY <1>1, SecurityAssumption DEF Tests
<1>. QED
  BY <1>2 DEF IsPlan, Numbered

LEMMA AlertsArePlan ==
    ASSUME NEW s \in 1..MaxSecond, NEW e \in s..MaxSecond,
           NEW risks \in Risks, NEW stamps \in Stamps(DOMAIN risks, s..e)
    PROVE  /\ IsPlan(Alerts(stamps, risks))
           /\ Numbered(Alerts(stamps, risks))
           /\ Reported(Alerts(stamps, risks))
<1> DEFINE p == Alerts(stamps, risks)
           tests == {<<stamps[n], n>> : n \in DOMAIN risks}
<1>1. PICK k \in 0..MaxItems : risks \in [1..k -> {"high", "medium", "low"}]
  BY DEF Risks
<1>2. /\ \A n \in 1..k : stamps[n] \in s..e
      /\ \A m, n \in 1..k : m <= n => stamps[m] <= stamps[n]
  BY <1>1 DEF Stamps
<1>3. tests \subseteq Tests
  BY <1>1, <1>2, SecurityAssumption DEF Tests, Numbers
<1>4. p = [t \in tests |-> IF risks[t[2]] = "low" THEN "WARNING" ELSE "FAIL"]
  BY DEF Alerts
<1>5. DOMAIN p = tests /\ \A t \in tests : p[t] \in {"WARNING", "FAIL"}
  BY <1>4
<1>6. IsPlan(p)
  BY <1>3, <1>4 DEF IsPlan
<1>7. Numbered(p)
  BY <1>5 DEF Numbered
<1>8. Reported(p)
  <2>1. SUFFICES ASSUME NEW n \in 1..k
                 PROVE  \E v \in tests : v[2] = 1 /\ v[1] <= stamps[n]
    BY <1>1, <1>5 DEF Reported
  <2>2. 1 \in 1..k /\ 1 <= n
    BY <1>1, <2>1, SecurityAssumption
  <2>3. <<stamps[1], 1>> \in tests /\ stamps[1] <= stamps[n]
    BY <1>1, <1>2, <2>2
  <2>. QED
    BY <2>3
<1>. QED
  BY <1>6, <1>7, <1>8

LEMMA VerdictType ==
    ASSUME NEW type \in {"security_headers", "cookie_security", "input_validation",
                         "information_disclosure", "authentication_configuration"}, NEW a
    PROVE  Verdict(type, a) \in Verdicts
BY DEF Verdict, Verdicts, HeadersVerdict, CookieVerdict, InputVerdict, DisclosureVerdict,
   AuthVerdict

(***************************************************************************)
(* Type correctness: whoever inserts or judges has something left to do,   *)
(* so that there is a first test.                                          *)
(***************************************************************************)
TypeInv == /\ TypeOK
           /\ \A r \in Requests : pc[r] \in {"inserting", "judging"} => todo[r] # {}

LEMMA TypeInit == Init => TypeInv
<1> SUFFICES ASSUME Init PROVE TypeInv
  OBVIOUS
<1>0. DOMAIN << >> = {} /\ IsPlan(<< >>)
  <2>1. DOMAIN << >> = {}
    OBVIOUS
  <2>2. << >> \in [{} -> {"draft", "FAIL", "WARNING"}]
    OBVIOUS
  <2>. QED
    BY <2>1, <2>2 DEF IsPlan
<1>1. \A r \in Requests : plan[r] = << >> /\ todo[r] = {}
  BY DEF Init
<1>2. \A r \in Requests : IsPlan(plan[r]) /\ todo[r] \subseteq DOMAIN plan[r]
  BY <1>0, <1>1
<1>3. <<0, 1>> \in Tests
  BY SecurityAssumption DEF Tests, Numbers
<1>. QED
  BY <1>2, <1>3, SecurityAssumption DEF Init, TypeInv, TypeOK, Awaits, Verdicts

\* A request that takes a plan takes it whole, or is answered if there is nothing in it.
LEMMA TakeTypes ==
    ASSUME TypeInv, NEW r \in Requests, NEW p, IsPlan(p),
           NEW where \in Awaits, Take(r, p, where)
    PROVE  /\ pc' \in [Requests -> Awaits \cup Ends]
           /\ plan' = [q \in Requests |-> plan'[q]]
           /\ todo' \in [Requests -> SUBSET Tests]
           /\ \A q \in Requests : IsPlan(plan'[q]) /\ todo'[q] \subseteq DOMAIN plan'[q]
           /\ \A q \in Requests : pc'[q] \in {"inserting", "judging"} => todo'[q] # {}
<1>1. /\ plan'[r] = p /\ todo'[r] = DOMAIN p /\ DOMAIN p \subseteq Tests
      /\ pc'[r] = IF DOMAIN p = {} THEN "answered" ELSE where
      /\ \A q \in Requests \ {r} : plan'[q] = plan[q] /\ todo'[q] = todo[q] /\ pc'[q] = pc[q]
  BY DEF Take, Goto, TypeInv, TypeOK, IsPlan
<1>2. pc' \in [Requests -> Awaits \cup Ends]
  BY DEF Take, Goto, Ends, TypeInv, TypeOK
<1>3. plan' = [q \in Requests |-> plan'[q]] /\ todo' \in [Requests -> SUBSET Tests]
  BY <1>1 DEF Take, TypeInv, TypeOK
<1>4. \A q \in Requests : IsPlan(plan'[q]) /\ todo'[q] \subseteq DOMAIN plan'[q]
  BY <1>1 DEF TypeInv, TypeOK
<1>5. \A q \in Requests : pc'[q] \in {"inserting", "judging"} => todo'[q] # {}
  BY <1>1 DEF TypeInv
<1>. QED
  BY <1>2, <1>3, <1>4, <1>5

\* A request that fails, or goes on without inserting or judging.
LEMMA WalkTypes ==
    ASSUME TypeInv, NEW r \in Requests,
           NEW where \in Awaits \cup Ends, where \notin {"inserting", "judging"},
           Keep(r, where) \/ Fail(r)
    PROVE  /\ pc' \in [Requests -> Awaits \cup Ends]
           /\ plan' = plan /\ UNCHANGED store
           /\ todo' \in [Requests -> SUBSET Tests]
           /\ \A q \in Requests : todo'[q] \subseteq DOMAIN plan[q]
           /\ \A q \in Requests : pc'[q] \in {"inserting", "judging"} => todo'[q] # {}
<1>1. /\ \A q \in Requests \ {r} : pc'[q] = pc[q] /\ todo'[q] = todo[q]
      /\ pc'[r] \in {where, "failed"} /\ todo'[r] \in {todo[r], {}}
      /\ pc' \in [Requests -> Awaits \cup Ends] /\ plan' = plan /\ UNCHANGED store
      /\ todo' \in [Requests -> SUBSET Tests]
  BY DEF Keep, Fail, Goto, Ends, TypeInv, TypeOK
<1>. QED
  BY <1>1 DEF TypeInv, TypeOK

LEMMA InsertTypes == ASSUME TypeInv, NEW r \in Requests, Insert(r) PROVE TypeInv'
<1> DEFINE t == First(todo[r])
<1>1. t \in todo[r] /\ t \in Tests
  BY FirstIsLeast DEF Insert, TypeInv, TypeOK
<1>2. CASE Fail(r)
  BY <1>2, WalkTypes DEF Insert, TypeInv, TypeOK, store, check, Awaits, Ends
<1> HIDE DEF t
<1>3. CASE t \notin Stored
  <2>1. /\ Inserted(t, r) /\ UNCHANGED <<kind, project, clock, check, containers, plan>>
        /\ \/ Lost(r)
           \/ /\ todo' = [todo EXCEPT ![r] = IF @ # {t} THEN @ \ {t}
                                             ELSE IF kind[r] = "scan" THEN DOMAIN plan[r] ELSE {}]
              /\ Goto(r, IF todo[r] # {t} THEN "inserting"
                         ELSE IF kind[r] = "scan" THEN "judging" ELSE "answered")
    BY <1>3 DEF Insert, t
  <2>2. /\ todo' \in [Requests -> SUBSET Tests]
        /\ \A q \in Requests : todo'[q] \subseteq DOMAIN plan[q]
    BY <1>1, <2>1 DEF Lost, TypeInv, TypeOK, IsPlan
  <2>3. /\ pc' \in [Requests -> Awaits \cup Ends]
        /\ \A q \in Requests : pc'[q] \in {"inserting", "judging"} => todo'[q] # {}
    <3>1. t \in DOMAIN plan[r] /\ "inserting" \in Awaits /\ "judging" \in Awaits
      BY <1>1 DEF TypeInv, TypeOK, Awaits
    <3>2. CASE Lost(r)
      BY <3>2 DEF Lost, Goto, TypeInv, TypeOK, Ends
    <3>3. CASE ~Lost(r)
      BY <1>1, <2>1, <3>1, <3>3 DEF Goto, TypeInv, TypeOK, Ends
    <3>. QED
      BY <3>2, <3>3
  <2>4. /\ status' \in [Tests -> Verdicts \cup {"draft", "absent"}]
        /\ by' \in [Tests -> Requests \cup {NoRequest}]
        /\ \A u \in Tests : status'[u] = "absent" <=> by'[u] = NoRequest
    BY <1>1, <2>1, SecurityAssumption DEF Inserted, TypeInv, TypeOK
  <2>. QED
    BY <2>1, <2>2, <2>3, <2>4 DEF TypeInv, TypeOK, check
<1>. QED
  BY <1>2, <1>3 DEF Insert, t

LEMMA JudgeTypes == ASSUME TypeInv, NEW r \in Requests, Judge(r),
                           status[First(todo[r])] # "absent"
                    PROVE  TypeInv'
<1> DEFINE t == First(todo[r])
<1>1. t \in todo[r] /\ t \in Tests /\ t \in DOMAIN plan[r]
  BY FirstIsLeast DEF Judge, TypeInv, TypeOK
<1>2. plan[r][t] \in {"draft", "FAIL", "WARNING"}
  BY <1>1 DEF TypeInv, TypeOK, IsPlan
<1> HIDE DEF t
<1>3. /\ status' = [status EXCEPT ![t] = plan[r][t]] /\ status[t] # "absent"
      /\ \/ Lost(r)
         \/ /\ todo' = [todo EXCEPT ![r] = @ \ {t}]
            /\ Goto(r, IF todo[r] = {t} THEN "answered" ELSE "judging")
      /\ UNCHANGED <<kind, project, clock, by, plan, check, containers>>
  BY DEF Judge, t
<1>4. /\ status' \in [Tests -> Verdicts \cup {"draft", "absent"}]
      /\ \A u \in Tests : status'[u] = "absent" <=> by'[u] = NoRequest
  BY <1>1, <1>2, <1>3 DEF TypeInv, TypeOK, Verdicts
<1>5. /\ pc' \in [Requests -> Awaits \cup Ends]
      /\ todo' \in [Requests -> SUBSET Tests]
      /\ \A q \in Requests : todo'[q] \subseteq DOMAIN plan[q]
      /\ \A q \in Requests : pc'[q] \in {"inserting", "judging"} => todo'[q] # {}
  BY <1>1, <1>3 DEF Lost, Goto, TypeInv, TypeOK, Awaits, Ends
<1>. QED
  BY <1>3, <1>4, <1>5 DEF TypeInv, TypeOK, check

(***************************************************************************)
(* The inductive invariant: what a request has planned where it stands,    *)
(* what it owns of that plan, and what has been judged.                    *)
(***************************************************************************)
Planned(r) ==
    /\ Numbered(plan[r])
    /\ kind[r] = "scan" => Reported(plan[r])
    /\ pc[r] \in {"start", "listing", "asking", "again", "starting", "scanning"}
          => DOMAIN plan[r] = {}
    /\ r \in containers => pc[r] \in {"scanning", "failed"} /\ DOMAIN plan[r] = {}
    /\ pc[r] \in {"starting", "scanning", "judging"} => kind[r] = "scan"
    /\ pc[r] \in {"listing", "asking", "again"} => kind[r] = "generate"
    /\ kind[r] = "execute" => pc[r] # "inserting" /\ DOMAIN plan[r] = {}
    /\ pc[r] \in {"checking", "recording"} => kind[r] = "execute"

\* An insertion goes through the plan in order; what failed of it stays a beginning.
Owned(r) ==
    /\ \A t \in Tests : by[t] = r => t \in DOMAIN plan[r]
    /\ \A t, u \in DOMAIN plan[r] : by[t] = r /\ u[2] < t[2] => by[u] = r
    /\ pc[r] = "inserting" => \A t \in DOMAIN plan[r] : by[t] = r <=> t \notin todo[r]
    /\ pc[r] \in {"judging", "answered"} => \A t \in DOMAIN plan[r] : by[t] = r

Judged(r) ==
    /\ kind[r] = "scan" /\ pc[r] \in {"judging", "answered"} =>
          \A t \in DOMAIN plan[r] :
              status[t] = "draft" => pc[r] = "judging" /\ t \in todo[r]
    /\ kind[r] = "execute" /\ pc[r] \in {"checking", "recording", "answered", "lost"}
          => target[r] \in Stored
    /\ kind[r] = "execute" /\ pc[r] \in {"answered", "lost"} => status[target[r]] # "draft"

Good(r) == Planned(r) /\ Owned(r) /\ Judged(r)

Earned(t) == status[t] \notin {"draft", "absent"} =>
                \/ \E r \in Requests : Executed(r, t) /\ verdict[r] = status[t]
                \/ by[t] \in Requests /\ kind[by[t]] = "scan" /\ status[t] = plan[by[t]][t]

IInv == /\ TypeInv
        /\ \A r \in Requests : Good(r)
        /\ \A t \in Tests : Earned(t)

(***************************************************************************)
(* A step of one request.                                                  *)
(***************************************************************************)
Untouched(q) == /\ kind'[q] = kind[q] /\ pc'[q] = pc[q]
                /\ plan'[q] = plan[q] /\ todo'[q] = todo[q]
                /\ target'[q] = target[q] /\ verdict'[q] = verdict[q]
                /\ \A t \in Tests : by'[t] = q <=> by[t] = q
                /\ q \in containers' => q \in containers

\* A stored test stays stored, and never becomes a draft again.
Advances == \A t \in Stored : /\ status'[t] # "absent"
                              /\ status'[t] = "draft" => status[t] = "draft"

LEMMA UntouchedIsGood ==
    ASSUME TypeInv, TypeInv', NEW q \in Requests, Good(q), Untouched(q), Advances
    PROVE  Good(q)'
<1>1. DOMAIN plan[q] \subseteq Tests /\ target[q] \in Tests
  BY DEF TypeInv, TypeOK, IsPlan
<1>2. Planned(q)'
  BY DEF Good, Untouched, Planned
<1>3. Owned(q)'
  BY <1>1 DEF Good, Untouched, Owned
<1>4. Judged(q)'
  <2>1. pc[q] \in {"judging", "answered"} => \A t \in DOMAIN plan[q] : t \in Stored
    BY <1>1, SecurityAssumption DEF Good, Owned, Stored, TypeInv, TypeOK
  <2>2. target[q] \in Stored => target[q] \in Stored'
    BY <1>1 DEF Advances, Stored
  <2>3. target[q] \in Stored /\ status[target[q]] # "draft" => status'[target[q]] # "draft"
    BY DEF Advances
  <2>. QED
    BY <2>1, <2>2, <2>3 DEF Good, Untouched, Judged, Advances
<1>. QED
  BY <1>2, <1>3, <1>4 DEF Good

\* What a step of r does to r, to the others and to the store.
Moved(r) ==
    /\ TypeInv'
    /\ Good(r)'
    /\ \A q \in Requests \ {r} : Untouched(q)
    /\ Advances
    /\ kind' = kind
    /\ pc[r] \in Ends => pc'[r] = pc[r] /\ target'[r] = target[r] /\ verdict'[r] = verdict[r]
    /\ DOMAIN plan[r] # {} => plan'[r] = plan[r]
    /\ \A t \in Tests : (status'[t] = status[t] /\ by'[t] = by[t]) \/ Earned(t)'

LEMMA MovedKeepsInv ==
    ASSUME IInv, NEW r \in Requests, Moved(r) PROVE IInv'
<1>1. ASSUME NEW q \in Requests PROVE Good(q)'
  BY <1>1, UntouchedIsGood DEF IInv, Moved
<1>2. ASSUME NEW t \in Tests PROVE Earned(t)'
  <2>1. CASE Earned(t)'
    BY <2>1
  <2>2. CASE status'[t] = status[t] /\ by'[t] = by[t]
    <3>1. SUFFICES ASSUME status[t] \notin {"draft", "absent"} PROVE Earned(t)'
      BY <2>2 DEF Earned
    <3>2. CASE \E q \in Requests : Executed(q, t) /\ verdict[q] = status[t]
      <4>1. PICK q \in Requests : Executed(q, t) /\ verdict[q] = status[t]
        BY <3>2
      <4>2. Executed(q, t)' /\ verdict'[q] = status[t]
        BY <4>1 DEF Moved, Untouched, Executed, Ends
      <4>. QED
        BY <2>2, <4>2 DEF Earned
    <3>3. CASE by[t] \in Requests /\ kind[by[t]] = "scan" /\ status[t] = plan[by[t]][t]
      <4>1. t \in DOMAIN plan[by[t]]
        BY <3>3 DEF IInv, Good, Owned
      <4>2. plan'[by[t]] = plan[by[t]]
        BY <3>3, <4>1 DEF Moved, Untouched
      <4>. QED
        BY <2>2, <3>3, <4>2 DEF Earned, Moved
    <3>. QED
      BY <3>1, <3>2, <3>3 DEF IInv, Earned
  <2>. QED
    BY <2>1, <2>2 DEF Moved
<1>. QED
  BY <1>1, <1>2 DEF IInv, Moved

(***************************************************************************)
(* One lemma for each way a request moves: it fails, goes on, takes a      *)
(* plan, inserts, judges, records.                                         *)
(***************************************************************************)
LEMMA FailMoves ==
    ASSUME IInv, NEW r \in Requests, Fail(r), pc[r] \notin Ends,
           containers' \subseteq containers,
           UNCHANGED <<kind, project, clock, target, verdict>>
    PROVE  Moved(r)
<1> USE DEF IInv
<1>1. TypeInv'
  BY WalkTypes DEF TypeInv, TypeOK, store, Awaits, Ends
<1>2. /\ pc'[r] = "failed" /\ plan' = plan /\ status' = status /\ by' = by
      /\ \A q \in Requests \ {r} : Untouched(q)
  BY DEF Fail, Goto, store, Untouched, TypeInv, TypeOK
<1>3. Good(r)'
  BY <1>2 DEF Good, Planned, Owned, Judged
<1>. QED
  BY <1>1, <1>2, <1>3 DEF Moved, Advances, Stored

\* Without inserting or judging; the plan of r stays, empty unless r has begun to insert.
LEMMA KeepMoves ==
    ASSUME IInv, NEW r \in Requests,
           NEW where \in (Awaits \ {"inserting", "judging"}) \cup Ends,
           Keep(r, where), pc[r] \notin Ends,
           kind' = kind, project' \in {"none", "bare", "located"}, clock' = clock,
           target' \in [Requests -> Tests], verdict' \in [Requests -> Verdicts],
           containers' \subseteq Requests,
           \A q \in Requests \ {r} : /\ target'[q] = target[q] /\ verdict'[q] = verdict[q]
                                     /\ q \in containers' => q \in containers,
           Good(r)'
    PROVE  Moved(r)
<1> USE DEF IInv
<1>1. /\ pc' \in [Requests -> Awaits \cup Ends]
      /\ plan' = plan /\ status' = status /\ by' = by
      /\ todo' \in [Requests -> SUBSET Tests]
      /\ \A q \in Requests : todo'[q] \subseteq DOMAIN plan[q]
      /\ \A q \in Requests : pc'[q] \in {"inserting", "judging"} => todo'[q] # {}
  BY WalkTypes DEF store, Awaits, Ends
<1>2. TypeInv'
  BY <1>1 DEF TypeInv, TypeOK
<1>3. \A q \in Requests \ {r} : Untouched(q)
  BY <1>1 DEF Keep, Goto, Untouched, TypeInv, TypeOK
<1>. QED
  BY <1>1, <1>2, <1>3 DEF Moved, Advances, Stored

LEMMA TakeMoves ==
    ASSUME IInv, NEW r \in Requests, NEW p, IsPlan(p), Take(r, p, "inserting"),
           UNCHANGED <<kind, project, store, check>>, clock' \in 1..MaxSecond,
           containers' \subseteq containers \ {r},
           DOMAIN plan[r] = {}, pc[r] \notin Ends, kind[r] # "execute",
           Numbered(p), kind[r] = "scan" => Reported(p)
    PROVE  Moved(r)
<1> USE DEF IInv
<1>1. TypeInv'
  BY TakeTypes DEF TypeInv, TypeOK, store, check, Awaits
<1>2. /\ plan'[r] = p /\ todo'[r] = DOMAIN p /\ status' = status /\ by' = by
      /\ pc'[r] = IF DOMAIN p = {} THEN "answered" ELSE "inserting"
      /\ \A q \in Requests \ {r} : Untouched(q)
  BY DEF Take, Goto, store, check, Untouched, TypeInv, TypeOK
<1>3. \A t \in Tests : by[t] # r
  BY DEF Good, Owned
<1>4. DOMAIN p \subseteq Tests
  BY DEF IsPlan
<1>5. Planned(r)' /\ Owned(r)' /\ Judged(r)'
  <2>1. Planned(r)'
    BY <1>2 DEF Planned
  <2>2. Owned(r)'
    BY <1>2, <1>3, <1>4 DEF Owned
  <2>. QED
    BY <1>2, <2>1, <2>2 DEF Judged
<1>. QED
  BY <1>1, <1>2, <1>5 DEF Moved, Good, Advances, Stored

LEMMA InsertMoves == ASSUME IInv, NEW r \in Requests, Insert(r) PROVE Moved(r)
<1> USE DEF IInv
<1> DEFINE t == First(todo[r])
<1>1. /\ t \in todo[r] /\ t \in DOMAIN plan[r] /\ \A u \in todo[r] : t[2] <= u[2]
      /\ \A u \in DOMAIN plan[r] : u \in Tests /\ u[2] \in Nat
  <2>1. todo[r] \in SUBSET Tests /\ todo[r] # {} /\ todo[r] \subseteq DOMAIN plan[r]
    BY DEF Insert, TypeInv, TypeOK
  <2>2. \A u \in DOMAIN plan[r] : u \in Tests /\ u[2] \in Nat
    BY TestParts, SecurityAssumption DEF TypeInv, TypeOK, IsPlan, Numbers
  <2>. QED
    BY <2>1, <2>2, FirstIsLeast
<1>2. CASE Fail(r)
  BY <1>2, FailMoves DEF Insert, check, Ends
<1> HIDE DEF t
<1>3. CASE t \notin Stored
  <2>1. /\ Inserted(t, r) /\ UNCHANGED <<kind, project, clock, check, containers, plan>>
        /\ \/ Lost(r)
           \/ /\ todo' = [todo EXCEPT ![r] = IF @ # {t} THEN @ \ {t}
                                             ELSE IF kind[r] = "scan" THEN DOMAIN plan[r] ELSE {}]
              /\ Goto(r, IF todo[r] # {t} THEN "inserting"
                         ELSE IF kind[r] = "scan" THEN "judging" ELSE "answered")
        /\ pc[r] = "inserting"
    BY <1>3 DEF Insert, t
  <2>2. /\ status'[t] = "draft" /\ by'[t] = r /\ by[t] = NoRequest /\ status[t] = "absent"
        /\ \A u \in Tests \ {t} : status'[u] = status[u] /\ by'[u] = by[u]
    BY <1>1, <1>3, <2>1 DEF Inserted, Stored, TypeInv, TypeOK
  <2>3. Planned(r)'
    BY <2>1 DEF Good, Planned, Lost, Goto, TypeInv, TypeOK
  <2>4. Owned(r)'
    <3>1. \A u \in DOMAIN plan[r] : by'[u] = r <=> u \notin todo[r] \/ u = t
      BY <1>1, <2>1, <2>2 DEF Good, Owned
    <3>2. \A u, v \in DOMAIN plan[r] : by'[u] = r /\ v[2] < u[2] => by'[v] = r
      <4>1. ASSUME NEW u \in DOMAIN plan[r], NEW v \in DOMAIN plan[r],
                   by'[u] = r, v[2] < u[2], by'[v] # r
            PROVE  FALSE
        <5>1. v \in todo[r] /\ v # t
          BY <3>1, <4>1
        <5>2. u = t
          BY <1>1, <2>1, <2>2, <3>1, <4>1, <5>1 DEF Good, Owned
        <5>. QED
          BY <1>1, <4>1, <5>1, <5>2
      <4>. QED
        BY <4>1
    <3>3. \A u \in Tests : by'[u] = r => u \in DOMAIN plan[r]
      BY <1>1, <2>2 DEF Good, Owned
    <3>4. /\ pc'[r] = "inserting" => todo'[r] = todo[r] \ {t}
          /\ pc'[r] \in {"judging", "answered"} => todo[r] = {t}
      BY <2>1 DEF Lost, Goto, TypeInv, TypeOK
    <3>. QED
      BY <2>1, <3>1, <3>2, <3>3, <3>4 DEF Owned
  <2>5. Judged(r)'
    <3>1. kind[r] = "scan" => pc'[r] # "answered"
      BY <2>1 DEF Lost, Goto, TypeInv, TypeOK
    <3>2. kind[r] = "scan" /\ pc'[r] = "judging" => todo'[r] = DOMAIN plan[r]
      BY <2>1 DEF Lost, Goto, TypeInv, TypeOK
    <3>3. kind[r] # "execute"
      BY <2>1 DEF Good, Planned
    <3>. QED
      BY <2>1, <3>1, <3>2, <3>3 DEF Judged
  <2>6. \A q \in Requests \ {r} : Untouched(q)
    BY <2>1, <2>2, SecurityAssumption DEF Lost, Goto, check, Untouched, TypeInv, TypeOK
  <2>7. \A u \in Tests : (status'[u] = status[u] /\ by'[u] = by[u]) \/ Earned(u)'
    BY <2>2 DEF Earned
  <2>. QED
    BY InsertTypes, <1>1, <2>1, <2>2, <2>3, <2>4, <2>5, <2>6, <2>7 DEF Moved, Good, Ends, Advances, Stored
<1>. QED
  BY <1>2, <1>3 DEF Insert, t

LEMMA JudgeMoves == ASSUME IInv, NEW r \in Requests, Judge(r) PROVE Moved(r)
<1> USE DEF IInv
<1> DEFINE t == First(todo[r])
<1>1. t \in todo[r] /\ t \in Tests /\ t \in DOMAIN plan[r]
  BY FirstIsLeast DEF Judge, TypeInv, TypeOK
<1>2. /\ pc[r] = "judging" /\ kind[r] = "scan" /\ by[t] = r /\ status[t] # "absent"
      /\ plan[r][t] \in {"FAIL", "WARNING"}
  BY <1>1, SecurityAssumption DEF Judge, Good, Planned, Reported, Owned, TypeInv, TypeOK, IsPlan
<1>3. TypeInv'
  BY <1>2, JudgeTypes
<1> HIDE DEF t
<1>4. /\ status' = [status EXCEPT ![t] = plan[r][t]]
      /\ \/ Lost(r)
         \/ /\ todo' = [todo EXCEPT ![r] = @ \ {t}]
            /\ Goto(r, IF todo[r] = {t} THEN "answered" ELSE "judging")
      /\ UNCHANGED <<kind, project, clock, by, plan, check, containers>>
  BY DEF Judge, t
<1>5. /\ status'[t] = plan[r][t] /\ \A u \in Tests \ {t} : status'[u] = status[u]
      /\ pc'[r] \in {"answered", "judging", "lost"} /\ (pc'[r] = "answered" => todo[r] = {t})
      /\ pc'[r] = "judging" => todo'[r] = todo[r] \ {t}
  BY <1>1, <1>4 DEF Lost, Goto, TypeInv, TypeOK
<1>6. Planned(r)' /\ Owned(r)'
  BY <1>2, <1>4, <1>5 DEF Good, Planned, Owned
<1>7. Judged(r)'
  <2>1. DOMAIN plan[r] \subseteq Tests
    BY DEF TypeInv, TypeOK, IsPlan
  <2>2. \A u \in DOMAIN plan[r] : status'[u] = "draft" => u \in todo[r] /\ u # t
    BY <1>2, <1>5, <2>1 DEF Good, Judged
  <2>. QED
    BY <1>2, <1>4, <1>5, <2>2 DEF Judged
<1>8. \A q \in Requests \ {r} : Untouched(q)
  BY <1>4 DEF Lost, Goto, check, Untouched, TypeInv, TypeOK
<1>9. \A u \in Tests : (status'[u] = status[u] /\ by'[u] = by[u]) \/ Earned(u)'
  <2>1. ASSUME NEW u \in Tests, u = t PROVE Earned(u)'
    BY <1>2, <1>4, <1>5, <2>1 DEF Earned
  <2>. QED
    BY <1>4, <1>5, <2>1
<1>. QED
  BY <1>2, <1>3, <1>4, <1>5, <1>6, <1>7, <1>8, <1>9 DEF Moved, Good, Ends, Advances, Stored

LEMMA RecordMoves == ASSUME IInv, NEW r \in Requests, Record(r) PROVE Moved(r)
<1> USE DEF IInv
<1> DEFINE t == target[r]
<1>1. /\ pc[r] = "recording" /\ kind[r] = "execute" /\ t \in Tests /\ status[t] # "absent"
      /\ verdict[r] \in Verdicts
  BY DEF Record, Good, Planned, Judged, Stored, TypeInv, TypeOK
<1> HIDE DEF t
<1>2. /\ status' = [status EXCEPT ![t] = verdict[r]] /\ (Goto(r, "answered") \/ Goto(r, "lost"))
      /\ UNCHANGED <<kind, project, clock, by, plan, todo, check, containers>>
  BY DEF Record, t
<1>3. /\ status'[t] = verdict[r] /\ \A u \in Tests \ {t} : status'[u] = status[u]
      /\ pc'[r] \in {"answered", "lost"} /\ \A q \in Requests \ {r} : pc'[q] = pc[q]
  BY <1>1, <1>2 DEF Goto, TypeInv, TypeOK
<1>4. TypeInv'
  <2>1. /\ status' \in [Tests -> Verdicts \cup {"draft", "absent"}]
        /\ pc' \in [Requests -> Awaits \cup Ends]
    BY <1>1, <1>2 DEF Goto, TypeInv, TypeOK, Ends
  <2>2. \A u \in Tests : status'[u] = "absent" <=> by'[u] = NoRequest
    BY <1>1, <1>2, <1>3 DEF Verdicts, TypeInv, TypeOK
  <2>. QED
    BY <1>2, <1>3, <2>1, <2>2 DEF TypeInv, TypeOK, check
<1>5. \A q \in Requests \ {r} : Untouched(q)
  BY <1>2, <1>3 DEF check, Untouched
<1>6. Good(r)'
  <2>1. \A u \in Tests : by[u] # r
    <3>1. ASSUME NEW u \in Tests, by[u] = r PROVE FALSE
      BY <1>1, <3>1 DEF Good, Planned, Owned
    <3>. QED
      BY <3>1
  <2>. QED
    BY <1>1, <1>2, <1>3, <2>1 DEF Good, Planned, Owned, Judged, Stored, Verdicts, check, t
<1>7. ASSUME NEW u \in Tests, u = t PROVE Earned(u)'
  BY <1>1, <1>2, <1>3, <1>7 DEF Earned, Executed, check, t
<1>. QED
  BY <1>1, <1>2, <1>3, <1>4, <1>5, <1>6, <1>7 DEF Moved, Ends, Advances, Stored, Verdicts, check

(***************************************************************************)
(* Every step keeps the invariant.                                         *)
(***************************************************************************)
\* Ticks, new projects and containers that end on their own.
LEMMA StillInv ==
    ASSUME IInv, UNCHANGED <<kind, store, pc, plan, todo, check>>,
           project' \in {"none", "bare", "located"}, clock' \in 1..MaxSecond,
           containers' \subseteq containers
    PROVE  IInv'
<1> USE DEF IInv
<1>1. TypeInv'
  BY DEF TypeInv, TypeOK, store, check
<1>2. \A q \in Requests : Untouched(q)
  BY DEF Untouched, store, check
<1>3. Advances
  BY DEF Advances, Stored, store
<1>4. \A q \in Requests : Good(q)'
  BY <1>1, <1>2, <1>3, UntouchedIsGood
<1>5. \A t \in Tests : Earned(t)'
  BY DEF Earned, Executed, store, check
<1>. QED
  BY <1>1, <1>4, <1>5

LEMMA GenerateMoves == ASSUME IInv, NEW r \in Requests, GenerateStep(r) PROVE Moved(r)
<1> USE DEF IInv
<1>1. /\ pc[r] \in {"start", "listing", "asking", "again"} /\ kind[r] = "generate"
      /\ DOMAIN plan[r] = {} /\ r \notin containers
  BY DEF GenerateStep, Locate, List, Reply, Malformed, Good, Planned
<1>2. ASSUME NEW where \in {"listing", "answered", "asking", "again", "failed"}, Keep(r, where),
             kind' = kind, project' \in {"none", "bare", "located"}, clock' = clock,
             UNCHANGED <<check, containers>>
      PROVE  Moved(r)
  <2>1. pc'[r] = where /\ plan' = plan /\ status' = status /\ by' = by
    BY <1>2 DEF Keep, Goto, store, TypeInv, TypeOK
  <2>2. Good(r)'
    BY <1>1, <1>2, <2>1 DEF Good, Planned, Owned, Judged
  <2>3. where \in (Awaits \ {"inserting", "judging"}) \cup Ends
    BY <1>2 DEF Awaits, Ends
  <2>. QED
    BY <1>1, <1>2, <2>2, <2>3, KeepMoves DEF check, Ends, TypeInv, TypeOK
<1>3. CASE Reply(r)
  <2>1. PICK shape \in {"list", "object"}, good \in SUBSET Numbers :
            Take(r, [t \in {0} \X Items(shape, good) |-> "draft"], "inserting")
    BY <1>3 DEF Reply
  <2> DEFINE p == [t \in {0} \X Items(shape, good) |-> "draft"]
  <2>2. IsPlan(p) /\ Numbered(p) /\ Take(r, p, "inserting")
    BY <2>1, ReplyIsPlan
  <2> HIDE DEF p
  <2>. QED
    BY <1>1, <1>3, <2>2, TakeMoves DEF Reply, Ends, TypeInv, TypeOK
<1>. QED
  BY <1>2, <1>3 DEF GenerateStep, Locate, List, Malformed, TypeInv, TypeOK

LEMMA ScanMoves == ASSUME IInv, NEW r \in Requests, ScanStep(r) PROVE Moved(r)
<1> USE DEF IInv
<1>1. CASE Judge(r)
  BY <1>1, JudgeMoves
<1>2. ASSUME ~Judge(r)
      PROVE  pc[r] \in {"start", "starting", "scanning"} /\ kind[r] = "scan" /\ DOMAIN plan[r] = {}
  BY <1>2 DEF ScanStep, BeginScan, StartContainer, ScanExits, ScanTimesOut, Good, Planned
<1>3. CASE BeginScan(r) \/ StartContainer(r)
  <2>1. PICK where \in {"starting", "failed", "scanning"} :
            /\ Keep(r, where) /\ UNCHANGED <<kind, project, clock, check>>
            /\ pc[r] \in {"start", "starting"} /\ kind[r] = "scan"
            /\ \/ containers' = containers /\ where # "scanning"
               \/ containers' = containers \cup {r} /\ where = "scanning"
    BY <1>3 DEF BeginScan, StartContainer, Good, Planned
  <2>2. pc'[r] = where /\ plan' = plan /\ status' = status /\ by' = by
    BY <2>1 DEF Keep, Goto, store, TypeInv, TypeOK
  <2>3. DOMAIN plan[r] = {} /\ r \notin containers
    BY <2>1 DEF Good, Planned
  <2>4. Good(r)'
    BY <2>1, <2>2, <2>3 DEF Good, Planned, Owned, Judged
  <2>5. where \in (Awaits \ {"inserting", "judging"}) \cup Ends
    BY DEF Awaits, Ends
  <2>. QED
    BY <2>1, <2>4, <2>5, KeepMoves DEF check, Ends, TypeInv, TypeOK
<1>4. CASE Fail(r) /\ UNCHANGED clock /\ (ScanExits(r) \/ ScanTimesOut(r))
  BY <1>4, FailMoves DEF ScanExits, ScanTimesOut, check, Ends
<1>5. CASE ScanExits(r) /\ ~(Fail(r) /\ UNCHANGED clock)
  <2>1. PICK risks \in Risks : \E stamps \in Stamps(DOMAIN risks, clock..clock') :
            Take(r, Alerts(stamps, risks), "inserting")
    BY <1>5 DEF ScanExits
  <2>2. PICK stamps \in Stamps(DOMAIN risks, clock..clock') :
            Take(r, Alerts(stamps, risks), "inserting")
    BY <2>1
  <2>3. clock \in 1..MaxSecond /\ clock' \in clock..MaxSecond /\ clock' \in 1..MaxSecond
    BY <1>5, SecurityAssumption DEF ScanExits, TypeInv, TypeOK
  <2> DEFINE p == Alerts(stamps, risks)
  <2>4. IsPlan(p) /\ Numbered(p) /\ Reported(p)
    BY <2>2, <2>3, AlertsArePlan
  <2>5. Take(r, p, "inserting")
    BY <2>2
  <2> HIDE DEF p
  <2>6. DOMAIN plan[r] = {} /\ kind[r] = "scan" /\ pc[r] = "scanning"
    BY <1>5 DEF ScanExits, Good, Planned
  <2>. QED
    BY <1>5, <2>3, <2>4, <2>5, <2>6, TakeMoves DEF ScanExits, Ends
<1>. QED
  BY <1>1, <1>3, <1>4, <1>5 DEF ScanStep, ScanTimesOut

LEMMA ExecuteMoves == ASSUME IInv, NEW r \in Requests, ExecuteStep(r) PROVE Moved(r)
<1> USE DEF IInv
<1>1. CASE Record(r)
  BY <1>1, RecordMoves
<1>2. CASE FindTest(r) /\ Fail(r) /\ UNCHANGED target
  BY <1>2, FailMoves DEF FindTest, Ends
<1>3. CASE FindTest(r) /\ ~(Fail(r) /\ UNCHANGED target)
  <2>1. PICK t \in Stored : Keep(r, "checking") /\ target' = [target EXCEPT ![r] = t]
    BY <1>3 DEF FindTest
  <2>2. /\ pc'[r] = "checking" /\ plan' = plan /\ status' = status /\ by' = by
        /\ target'[r] = t /\ t \in Tests
    BY <2>1 DEF Keep, Goto, store, Stored, TypeInv, TypeOK
  <2>3. DOMAIN plan[r] = {} /\ kind[r] = "execute" /\ pc[r] = "start" /\ r \notin containers
    BY <1>3 DEF FindTest, Good, Planned
  <2>4. Good(r)'
    BY <1>3, <2>2, <2>3 DEF FindTest, Good, Planned, Owned, Judged, Stored
  <2>. QED
    BY <1>3, <2>1, <2>2, <2>3, <2>4, KeepMoves DEF FindTest, Awaits, Ends, TypeInv, TypeOK
<1>4. CASE Check(r)
  <2>1. PICK type \in TypesOf(target[r]), a \in Responses :
            verdict' = [verdict EXCEPT ![r] = Verdict(type, a)]
    BY <1>4 DEF Check
  <2>2. verdict' \in [Requests -> Verdicts] /\ \A q \in Requests \ {r} : verdict'[q] = verdict[q]
    BY <2>1, VerdictType DEF TypesOf, TypeInv, TypeOK
  <2>3. /\ pc'[r] = "recording" /\ plan' = plan /\ status' = status /\ by' = by
    BY <1>4 DEF Check, Keep, Goto, store, TypeInv, TypeOK
  <2>4. kind[r] = "execute" /\ pc[r] = "checking" /\ r \notin containers
    BY <1>4 DEF Check, Good, Planned
  <2>5. Good(r)'
    BY <1>4, <2>3, <2>4 DEF Check, Good, Planned, Owned, Judged, Stored
  <2>. QED
    BY <1>4, <2>2, <2>4, <2>5, KeepMoves DEF Check, Awaits, Ends, TypeInv, TypeOK
<1>. QED
  BY <1>1, <1>2, <1>3, <1>4 DEF ExecuteStep

LEMMA InvStep == IInv /\ [Next]_vars => IInv'
<1> SUFFICES ASSUME IInv, [Next]_vars PROVE IInv'
  OBVIOUS
<1> USE DEF IInv
<1>1. ASSUME NEW r \in Requests, Step(r) PROVE IInv'
  <2>1. Moved(r)
    BY <1>1, GenerateMoves, ScanMoves, InsertMoves, ExecuteMoves DEF Step
  <2>. QED
    BY <2>1, MovedKeepsInv
<1>2. ASSUME NEW r \in Requests, Stops(r) PROVE IInv'
  <2>1. Moved(r)
    BY <1>2, FailMoves DEF Stops, check, Awaits, Ends
  <2>. QED
    BY <2>1, MovedKeepsInv
<1>3. CASE AddProject \/ Tick \/ UNCHANGED vars \/ \E r \in Requests : ContainerEnds(r)
  <2>1. /\ UNCHANGED <<kind, store, pc, plan, todo, check>> /\ containers' \subseteq containers
        /\ project' \in {"none", "bare", "located"} /\ clock' \in 1..MaxSecond
    BY <1>3, SecurityAssumption DEF AddProject, Tick, vars, ContainerEnds, store, check, TypeInv,
       TypeOK
  <2>. QED
    BY <2>1, StillInv
<1>. QED
  BY <1>1, <1>2, <1>3 DEF Next

LEMMA InvInit == Init => IInv
<1> SUFFICES ASSUME Init PROVE IInv
  OBVIOUS
<1>1. DOMAIN << >> = {}
  OBVIOUS
<1>2. \A r \in Requests : DOMAIN plan[r] = {} /\ pc[r] = "start" /\ r \notin containers
  BY <1>1 DEF Init
<1>3. \A t \in Tests : status[t] = "absent" /\ by[t] \notin Requests
  BY SecurityAssumption DEF Init
<1>. QED
  BY <1>2, <1>3, TypeInit DEF IInv, Good, Planned, Numbered, Reported, Owned, Judged, Earned

LEMMA Invariance == SafeSpec => []IInv
BY InvInit, InvStep, PTL DEF SafeSpec

(***************************************************************************)
(* What the invariant says.                                                *)
(***************************************************************************)
\* Requests, tests, plans and containers keep their types.
THEOREM TypeCorrect == SafeSpec => []TypeOK
BY Invariance, PTL DEF IInv, TypeInv

\* Of a suite or a report, a beginning is stored, and all of it when its request is answered.
THEOREM SuitesStayOrdered == SafeSpec => []SuitesAreOrdered
<1>1. IInv => SuitesAreOrdered
  BY DEF IInv, Good, Owned, SuitesAreOrdered
<1>. QED
  BY <1>1, Invariance, PTL

\* No alert is stored before its container has exited.
THEOREM ReportsAreComplete == SafeSpec => []ReportIsComplete
<1>1. IInv => ReportIsComplete
  BY SecurityAssumption
  DEF IInv, Good, Owned, Planned, ReportIsComplete, Stored, TypeInv, TypeOK
<1>. QED
  BY <1>1, Invariance, PTL

\* Two requests mix their tests under one prefix only if one of them has no number 1 there:
\* its suite lacks the first item, or its report began in an earlier second.
THEOREM OriginsStayApart == SafeSpec => []OriginsApart
<1>1. ASSUME IInv, NEW t \in Stored
      PROVE  /\ by[t] \in Requests /\ t \in DOMAIN plan[by[t]] /\ <<t[1], 1>> \in Tests
             /\ Planned(by[t]) /\ Owned(by[t])
  <2>1. t \in Tests /\ by[t] \in Requests
    BY <1>1 DEF Stored, IInv, TypeInv, TypeOK
  <2>2. <<t[1], 1>> \in Tests
    BY <2>1, TestParts, SecurityAssumption DEF Tests, Numbers
  <2>. QED
    BY <1>1, <2>1, <2>2 DEF IInv, Good, Owned
<1>2. ASSUME IInv, NEW t \in Stored, <<t[1], 1>> \notin DOMAIN plan[by[t]]
      PROVE  StartsElsewhere(by[t], t[1])
  <2>1. SUFFICES ASSUME kind[by[t]] = "scan"
                 PROVE  \E v \in DOMAIN plan[by[t]] : v[2] = 1 /\ v[1] < t[1]
    BY <1>2 DEF StartsElsewhere
  <2>2. PICK v \in DOMAIN plan[by[t]] : v[2] = 1 /\ v[1] <= t[1]
    BY <1>1, <1>2, <2>1 DEF Planned, Reported
  <2>3. v \in Tests /\ t \in Tests
    BY <1>1, <1>2 DEF IInv, TypeInv, TypeOK, IsPlan, Stored
  <2>4. v = <<v[1], 1>> /\ v[1] \in Nat /\ t[1] \in Nat
    BY <2>2, <2>3, TestParts, SecurityAssumption
  <2>. QED
    BY <1>2, <2>2, <2>4
<1>3. ASSUME IInv, NEW t \in Stored, NEW u \in Stored, t[1] = u[1], by[t] # by[u]
      PROVE  StartsElsewhere(by[t], t[1]) \/ StartsElsewhere(by[u], t[1])
  <2> DEFINE one == <<t[1], 1>>
  <2>1. ~(one \in DOMAIN plan[by[t]] /\ one \in DOMAIN plan[by[u]])
    <3>1. SUFFICES ASSUME one \in DOMAIN plan[by[t]], one \in DOMAIN plan[by[u]] PROVE FALSE
      OBVIOUS
    <3>2. t[2] \in Nat \ {0} /\ u[2] \in Nat \ {0} /\ t = <<t[1], t[2]>> /\ u = <<t[1], u[2]>>
      BY <1>3, TestParts DEF Stored, Numbers
    <3>3. by[one] = by[t]
      BY <1>1, <1>3, <3>1, <3>2 DEF Owned
    <3>4. by[one] = by[u]
      BY <1>1, <1>3, <3>1, <3>2 DEF Owned
    <3>. QED
      BY <1>3, <3>3, <3>4
  <2>. QED
    BY <1>2, <1>3, <2>1
<1>4. IInv => OriginsApart
  BY <1>3 DEF OriginsApart
<1>. QED
  BY <1>4, Invariance, PTL

\* A status is what an execution of the test or the scan that found it says, however executions
\* and scans overlap; and what was executed or reported is no draft.
THEOREM StatusesAreEarned == SafeSpec => []StatusIsEarned
<1>1. ASSUME IInv, NEW t \in Stored
      PROVE  /\ status[t] # "draft" => \/ \E r \in Requests : Executed(r, t) /\ verdict[r] = status[t]
                                       \/ kind[by[t]] = "scan" /\ status[t] = plan[by[t]][t]
             /\ status[t] = "draft" => /\ \A r \in Requests : ~Executed(r, t)
                                       /\ ~(kind[by[t]] = "scan" /\ pc[by[t]] = "answered")
  <2>1. t \in Tests /\ by[t] \in Requests
    BY <1>1 DEF Stored, IInv, TypeInv, TypeOK
  <2>2. by[t] \in Requests /\ t \in DOMAIN plan[by[t]]
    BY <1>1, <2>1 DEF IInv, Good, Owned
  <2>. QED
    BY <1>1, <2>1, <2>2 DEF IInv, Earned, Good, Judged, Stored, Executed
<1>2. IInv => StatusIsEarned
  BY <1>1 DEF StatusIsEarned
<1>. QED
  BY <1>2, Invariance, PTL
===========================================================================

--------------------------- MODULE TestRunProofs ---------------------------
(***************************************************************************)
(* Proofs about TestRun, for any set of concurrent requests.               *)
(***************************************************************************)
EXTENDS TestRun, TLAPS

\* The scripts the LLM writes for request r.
Own(r) == {Written(r), Repaired(r)}

Unstarted == {"new", "started", "writing"}
Started == {"executing", "repairing", "reporting", "caching"}

\* Script s was stored by the run that had it written, whose last step that was.
Published(s, q) == s \in Own(q) /\ pc[q] \in {"done", "lost"} /\ kind[q] = "run"

\* The last step of a run, whether or not it is told that it was made.
Stores(r) == Cache(r) \/ (Crash(r) /\ pc[r] = "caching" /\ cached' = Recached(r))

CacheOwned == cached # None => \E q \in Requests : Published(cached, q)

\* What request r holds, by where it is.
RequestOK(r) ==
    /\ reused[r] # None => /\ kind[r] = "run"
                           /\ pc[r] \notin Unstarted
                           /\ \E q \in Requests \ {r} : Published(reused[r], q)
    /\ pc[r] = "started" => kind[r] = "run"
    /\ pc[r] = "caching" => kind[r] = "run"
    /\ pc[r] = "repairing" => script[r] # Repaired(r)
    /\ pc[r] \in Started =>
          /\ script[r] \in {reused[r], Blank} \cup Own(r)
          /\ script[r] # None
          /\ kind[r] = "run" => script[r] # Blank
    /\ pc[r] \in {"repairing", "reporting", "caching"} =>
          [by |-> r, script |-> script[r], outcome |-> outcome[r]] \in seen

\* What is known of an execution, by where the request that made it is: no script is
\* executed twice by one request, so the request remembers how its last one ended.
ExecutionOK(e) ==
    /\ pc[e.by] \notin Unstarted
    /\ e.script \in {reused[e.by], Blank} \cup Own(e.by)
    /\ pc[e.by] = "executing" => e.script # script[e.by]
    /\ pc[e.by] \in {"executing", "repairing"} => e.script # Repaired(e.by)
    /\ pc[e.by] \in {"repairing", "reporting", "caching"} /\ e.script = script[e.by]
          => e.outcome = outcome[e.by]

\* The inductive invariant.
RunInv == /\ TypeOK
          /\ CacheOwned
          /\ \A r \in Requests : RequestOK(r)
          /\ \A e \in seen : ExecutionOK(e)
          /\ CacheIsTrusted

LEMMA OwnFacts ==
    ASSUME NEW r \in Requests
    PROVE  /\ Own(r) \subseteq Scripts
           /\ None \notin Own(r) /\ Blank \notin Own(r)
           /\ Written(r) # Repaired(r)
           /\ \A q \in Requests : q # r => Own(q) \cap Own(r) = {}
<1>1. Written(r) \in Requests \X {1, 2} /\ Repaired(r) \in Requests \X {1, 2}
  BY DEF Written, Repaired
<1>2. Written(r) # Repaired(r)
  BY DEF Written, Repaired
<1>3. \A q \in Requests : q # r => Own(q) \cap Own(r) = {}
  BY DEF Own, Written, Repaired
<1>. QED
  BY <1>1, <1>2, <1>3, RunAssumption DEF Own, Scripts

\* What is published stays published: an answered request is never touched again.
LEMMA PublishedStays ==
    ASSUME TypeOK, [Next]_vars, NEW s, NEW q \in Requests, Published(s, q)
    PROVE  Published(s, q)'
<1>1. pc[q] \in {"done", "lost"}
  BY DEF Published
<1>2. pc'[q] = pc[q] /\ kind'[q] = kind[q]
  BY <1>1 DEF TypeOK, Next, vars, Step, Start, ReadCache, Write, WriteFails, Execute, Classify,
     VerdictRaises, Repair, Report, Cache, Crash, Goto, Active
<1>. QED
  BY <1>2 DEF Published

(***************************************************************************)
(* Type correctness.                                                       *)
(***************************************************************************)
LEMMA TypeStep ==
    ASSUME TypeOK, \A r \in Requests : RequestOK(r), [Next]_vars
    PROVE  TypeOK'
<1> USE DEF TypeOK, Goto, Outcomes, Active
<1>1. CASE UNCHANGED vars
  BY <1>1 DEF vars
<1>2. ASSUME NEW r \in Requests, NEW k \in {"run", "resume"}, Start(r, k) PROVE TypeOK'
  BY <1>2 DEF Start
<1>3. ASSUME NEW r \in Requests, ReadCache(r) PROVE TypeOK'
  BY <1>3 DEF ReadCache
<1>4. ASSUME NEW r \in Requests, Write(r) PROVE TypeOK'
  <2>1. Written(r) \in Scripts /\ Blank \in Scripts
    BY OwnFacts DEF Own, Scripts
  <2>. QED
    BY <1>4, <2>1 DEF Write
<1>5. ASSUME NEW r \in Requests, WriteFails(r) \/ VerdictRaises(r) \/ Crash(r) PROVE TypeOK'
  BY <1>5 DEF WriteFails, VerdictRaises, Crash, Recached
<1>6. ASSUME NEW r \in Requests, Execute(r) PROVE TypeOK'
  <2>1. script[r] # None
    BY <1>6 DEF Execute, RequestOK, Started
  <2>. QED
    BY <1>6, <2>1 DEF Execute, Classify, Exits
<1>7. ASSUME NEW r \in Requests, Repair(r) PROVE TypeOK'
  <2>1. Repaired(r) \in Scripts
    BY OwnFacts DEF Own
  <2>. QED
    BY <1>7, <2>1 DEF Repair
<1>8. ASSUME NEW r \in Requests, Report(r) PROVE TypeOK'
  BY <1>8 DEF Report
<1>9. ASSUME NEW r \in Requests, Cache(r) PROVE TypeOK'
  BY <1>9 DEF Cache, Recached
<1>. QED
  BY <1>1, <1>2, <1>3, <1>4, <1>5, <1>6, <1>7, <1>8, <1>9 DEF Next, Step

(***************************************************************************)
(* The conjuncts of the invariant.                                         *)
(***************************************************************************)
LEMMA ChangesStore ==
    ASSUME [Next]_vars, cached' # cached PROVE \E r \in Requests : Stores(r)
BY DEF Next, vars, Step, Start, ReadCache, Write, WriteFails, Execute, Classify,
   VerdictRaises, Repair, Report, Crash, Stores

LEMMA CacheOwnedStep == RunInv /\ [Next]_vars => CacheOwned'
<1> SUFFICES ASSUME RunInv, [Next]_vars, cached' # None
             PROVE  \E q \in Requests : Published(cached, q)'
  BY DEF CacheOwned
<1>1. CASE cached' = cached
  BY <1>1, PublishedStays DEF RunInv, CacheOwned, Published
<1>2. CASE cached' # cached
  <2>1. PICK r \in Requests : Stores(r)
    BY <1>2, ChangesStore
  <2>2. script[r] # reused[r] /\ cached' = script[r] /\ pc[r] = "caching"
    BY <1>2, <2>1 DEF Stores, Cache, Recached
  <2>3. script[r] \in Own(r) /\ kind[r] = "run"
    BY <2>2 DEF RunInv, RequestOK, Started
  <2>4. pc'[r] \in {"done", "lost"} /\ kind'[r] = "run"
    BY <2>1, <2>3 DEF RunInv, TypeOK, Stores, Cache, Crash, Goto
  <2>. QED
    BY <2>2, <2>3, <2>4 DEF Published, Own, Written, Repaired
<1>. QED
  BY <1>1, <1>2

LEMMA RequestStep == RunInv /\ [Next]_vars => \A r \in Requests : RequestOK(r)'
<1> SUFFICES ASSUME RunInv, [Next]_vars, NEW q \in Requests PROVE RequestOK(q)'
  OBVIOUS
<1>0. TypeOK /\ TypeOK' /\ RequestOK(q)
  BY TypeStep DEF RunInv
<1>1. ASSUME reused[q] # None, reused'[q] = reused[q]
      PROVE  \E p \in Requests \ {q} : Published(reused[q], p)'
  <2>1. PICK p \in Requests \ {q} : Published(reused[q], p)
    BY <1>0, <1>1 DEF RequestOK
  <2>2. Published(reused[q], p)'
    BY <1>0, <1>1, <2>1, PublishedStays DEF Published
  <2>. QED
    BY <2>2
<1> USE DEF TypeOK, Goto, Unstarted, Started
<1>2. CASE UNCHANGED vars
  BY <1>0, <1>1, <1>2 DEF RequestOK, vars, Published
<1>3. ASSUME NEW r \in Requests, NEW k \in {"run", "resume"}, Start(r, k) PROVE RequestOK(q)'
  BY <1>0, <1>1, <1>3 DEF Start, RequestOK, Published
<1>4. ASSUME NEW r \in Requests, ReadCache(r) PROVE RequestOK(q)'
  <2>1. CASE q = r /\ cached # None
    <3>1. PICK p \in Requests : Published(cached, p)
      BY <2>1 DEF RunInv, CacheOwned
    <3>2. p # r
      BY <1>4, <3>1 DEF ReadCache, Published
    <3>3. Published(cached, p)'
      BY <1>0, <1>4, <3>1, PublishedStays DEF ReadCache, Published
    <3>4. cached # Blank
      BY <3>1, OwnFacts DEF Published
    <3>. QED
      BY <1>0, <1>4, <2>1, <3>2, <3>3, <3>4 DEF ReadCache, RequestOK, Published
  <2>2. CASE ~(q = r /\ cached # None)
    BY <1>0, <1>1, <1>4, <2>2 DEF ReadCache, RequestOK, Published
  <2>. QED
    BY <2>1, <2>2
<1>5. ASSUME NEW r \in Requests, Write(r) PROVE RequestOK(q)'
  <2>1. Written(r) \in Own(r) /\ None \notin Own(r) /\ Blank \notin Own(r) /\ Blank # None
    BY OwnFacts, RunAssumption DEF Own, Scripts
  <2>. QED
    BY <1>0, <1>1, <1>5, <2>1 DEF Write, RequestOK, Published
<1>6. ASSUME NEW r \in Requests, WriteFails(r) \/ VerdictRaises(r) \/ Crash(r) PROVE RequestOK(q)'
  BY <1>0, <1>1, <1>6 DEF WriteFails, VerdictRaises, Crash, RequestOK, Published, Active
<1>7. ASSUME NEW r \in Requests, Execute(r) PROVE RequestOK(q)'
  BY <1>0, <1>1, <1>7 DEF Execute, Classify, RequestOK, Published
<1>8. ASSUME NEW r \in Requests, Repair(r) PROVE RequestOK(q)'
  <2>1. Repaired(r) \in Own(r) /\ None \notin Own(r) /\ Blank \notin Own(r)
    BY OwnFacts DEF Own
  <2>. QED
    BY <1>0, <1>1, <1>8, <2>1 DEF Repair, RequestOK, Published
<1>9. ASSUME NEW r \in Requests, Report(r) \/ Cache(r) PROVE RequestOK(q)'
  BY <1>0, <1>1, <1>9 DEF Report, Cache, RequestOK, Published
<1>. QED
  BY <1>2, <1>3, <1>4, <1>5, <1>6, <1>7, <1>8, <1>9 DEF Next, Step

LEMMA ExecutionStep == RunInv /\ [Next]_vars => \A e \in seen' : ExecutionOK(e)'
<1> SUFFICES ASSUME RunInv, [Next]_vars, NEW e \in seen' PROVE ExecutionOK(e)'
  OBVIOUS
<1>0. TypeOK /\ TypeOK'
  BY TypeStep DEF RunInv
<1>1. e.by \in Requests /\ RequestOK(e.by)
  BY <1>0 DEF RunInv, TypeOK
<1>2. e \in seen => ExecutionOK(e)
  BY DEF RunInv
<1> USE DEF TypeOK, Goto, Unstarted, Started
<1>3. CASE UNCHANGED vars
  BY <1>1, <1>2, <1>3 DEF ExecutionOK, vars
<1>4. ASSUME NEW r \in Requests, NEW k \in {"run", "resume"}, Start(r, k) PROVE ExecutionOK(e)'
  BY <1>0, <1>1, <1>2, <1>4 DEF Start, ExecutionOK
<1>5. ASSUME NEW r \in Requests, ReadCache(r) PROVE ExecutionOK(e)'
  BY <1>0, <1>1, <1>2, <1>5 DEF ReadCache, ExecutionOK
<1>6. ASSUME NEW r \in Requests, Write(r) PROVE ExecutionOK(e)'
  BY <1>0, <1>1, <1>2, <1>6 DEF Write, ExecutionOK
<1>7. ASSUME NEW r \in Requests, WriteFails(r) \/ VerdictRaises(r) \/ Crash(r)
      PROVE  ExecutionOK(e)'
  BY <1>0, <1>1, <1>2, <1>7 DEF WriteFails, VerdictRaises, Crash, ExecutionOK, Active
<1>8. ASSUME NEW r \in Requests, Execute(r) PROVE ExecutionOK(e)'
  <2>1. CASE e \in seen
    BY <1>0, <1>1, <1>2, <1>8, <2>1 DEF Execute, Classify, ExecutionOK
  <2>2. CASE e \notin seen
    BY <1>0, <1>1, <1>8, <2>2 DEF Execute, Classify, ExecutionOK, RequestOK
  <2>. QED
    BY <2>1, <2>2
<1>9. ASSUME NEW r \in Requests, Repair(r) PROVE ExecutionOK(e)'
  BY <1>0, <1>1, <1>2, <1>9 DEF Repair, ExecutionOK
<1>10. ASSUME NEW r \in Requests, Report(r) \/ Cache(r) PROVE ExecutionOK(e)'
  BY <1>0, <1>1, <1>2, <1>10 DEF Report, Cache, ExecutionOK
<1>. QED
  BY <1>3, <1>4, <1>5, <1>6, <1>7, <1>8, <1>9, <1>10 DEF Next, Step

\* A failing execution of the cached script is one of its reader, who still has to act.
LEMMA StaleReaders ==
    ASSUME RunInv, cached # None, NEW e \in seen, e.script = cached
    PROVE  \/ reused[e.by] = cached
           \/ pc[e.by] \in {"done", "lost"} /\ kind[e.by] = "run" /\ cached \in Own(e.by)
<1>1. PICK q \in Requests : Published(cached, q)
  BY DEF RunInv, CacheOwned
<1>2. e.by \in Requests /\ e.script \in {reused[e.by], Blank} \cup Own(e.by)
  BY DEF RunInv, TypeOK, ExecutionOK
<1>3. cached # Blank /\ (e.by # q => cached \notin Own(e.by))
  BY <1>1, <1>2, OwnFacts DEF Published
<1>. QED
  BY <1>1, <1>2, <1>3 DEF Published

LEMMA TrustStep == RunInv /\ [Next]_vars => CacheIsTrusted'
<1> SUFFICES ASSUME RunInv, [Next]_vars, cached' # None
             PROVE  /\ \E e \in seen' : /\ e.script = cached' /\ e.outcome = "passed"
                                        /\ kind'[e.by] = "run" /\ reused'[e.by] # cached'
                    /\ \A e \in seen' : e.script = cached' /\ e.outcome # "passed"
                                           => pc'[e.by] # "done"
  BY DEF CacheIsTrusted, Seen
<1>0. TypeOK /\ TypeOK'
  BY TypeStep DEF RunInv
<1> USE DEF TypeOK, Goto, Outcomes
<1>1. \A e \in seen : /\ e.by \in Requests /\ e.outcome \in Outcomes
                      /\ pc[e.by] \notin Unstarted
                      /\ kind'[e.by] = kind[e.by] /\ reused'[e.by] = reused[e.by]
  BY <1>0 DEF RunInv, ExecutionOK, Unstarted, Next, vars, Step, Start, ReadCache, Write,
     WriteFails, Execute, Classify, VerdictRaises, Repair, Report, Cache, Crash
<1>2. CASE cached' = cached
  <2>1. PICK e \in seen : /\ e.script = cached /\ e.outcome = "passed"
                          /\ kind[e.by] = "run" /\ reused[e.by] # cached
    BY <1>2 DEF RunInv, CacheIsTrusted, Seen
  <2>2. seen \subseteq seen'
    BY DEF Next, vars, Step, Start, ReadCache, Write, WriteFails, Execute, Classify,
       VerdictRaises, Repair, Report, Cache, Crash
  <2>3. ASSUME NEW f \in seen', f.script = cached, f.outcome # "passed"
        PROVE  pc'[f.by] # "done"
    <3>1. CASE f \notin seen
      BY <1>0, <3>1 DEF Next, vars, Step, Start, ReadCache, Write, WriteFails, Execute,
         Classify, VerdictRaises, Repair, Report, Cache, Crash
    <3>2. CASE f \in seen
      <4>1. f.by \in Requests /\ pc[f.by] # "done"
        BY <1>2, <2>3, <3>2 DEF RunInv, CacheIsTrusted, Seen
      <4>2. SUFFICES ASSUME pc'[f.by] = "done" PROVE FALSE
        OBVIOUS
      <4>3. reused[f.by] = cached /\ kind[f.by] = "run"
        <5>1. pc[f.by] # "lost"
          BY <1>0, <4>1, <4>2 DEF Next, vars, Step, Start, ReadCache, Write, WriteFails, Execute,
             Classify, VerdictRaises, Repair, Report, Cache, Crash, Active
        <5>. QED
          BY <1>2, <2>3, <3>2, <4>1, <5>1, StaleReaders DEF RunInv, RequestOK
      <4>4. Cache(f.by)
        <5>1. PICK r \in Requests : WriteFails(r) \/ Report(r) \/ Cache(r)
          BY <1>0, <4>1, <4>2 DEF Next, vars, Step, Start, ReadCache, Write, Execute, Classify,
             VerdictRaises, Repair, Crash
        <5>2. r = f.by
          BY <1>0, <4>1, <4>2, <5>1 DEF WriteFails, Report, Cache
        <5>3. ~WriteFails(r) /\ ~Report(r)
          BY <1>0, <1>1, <3>2, <4>1, <4>2, <4>3, <5>2 DEF Unstarted, WriteFails, Report
        <5>. QED
          BY <5>1, <5>2, <5>3
      <4>5. outcome[f.by] = "passed" /\ script[f.by] = cached
        BY <1>2, <4>3, <4>4 DEF Cache, Recached
      <4>6. f.outcome = outcome[f.by]
        BY <2>3, <3>2, <4>4, <4>5 DEF RunInv, ExecutionOK, Cache
      <4>. QED
        BY <2>3, <4>5, <4>6
    <3>. QED
      BY <3>1, <3>2
  <2>. QED
    BY <1>1, <1>2, <2>1, <2>2, <2>3
<1>3. CASE cached' # cached
  <2>1. PICK r \in Requests : Stores(r)
    BY <1>3, ChangesStore
  <2>2. /\ outcome[r] = "passed" /\ script[r] # reused[r] /\ cached' = script[r] /\ seen' = seen
        /\ pc[r] = "caching"
    BY <1>3, <2>1 DEF Stores, Cache, Crash, Recached
  <2>3. script[r] \in Own(r) /\ kind[r] = "run"
    BY <2>2 DEF RunInv, RequestOK, Started
  <2>4. [by |-> r, script |-> script[r], outcome |-> outcome[r]] \in seen
    BY <2>2 DEF RunInv, RequestOK
  <2>5. ASSUME NEW f \in seen, f.script = script[r] PROVE f.outcome = "passed"
    <3>1. f.by \in Requests /\ f.script \in {reused[f.by], Blank} \cup Own(f.by)
      BY DEF RunInv, ExecutionOK
    <3>2. pc[r] = "caching"
      BY <2>2
    <3>3. f.by = r
      <4>1. SUFFICES ASSUME f.by # r PROVE FALSE
        OBVIOUS
      <4>2. f.script = reused[f.by] /\ reused[f.by] # None
        BY <2>3, <2>5, <3>1, <4>1, OwnFacts
      <4>3. PICK q \in Requests : Published(reused[f.by], q)
        BY <3>1, <4>2 DEF RunInv, RequestOK
      <4>4. q = r
        BY <2>3, <2>5, <4>2, <4>3, OwnFacts DEF Published
      <4>. QED
        BY <3>2, <4>3, <4>4 DEF Published
    <3>. QED
      BY <2>2, <2>5, <3>2, <3>3 DEF RunInv, ExecutionOK
  <2>. QED
    BY <1>1, <2>2, <2>3, <2>4, <2>5
<1>. QED
  BY <1>2, <1>3

(***************************************************************************)
(* The theorems.                                                           *)
(***************************************************************************)
LEMMA InvInit == Init => RunInv
BY RunAssumption DEF Init, RunInv, TypeOK, CacheOwned, RequestOK, Started, CacheIsTrusted,
   Outcomes, Unstarted

LEMMA InvStep == RunInv /\ [Next]_vars => RunInv'
BY TypeStep, CacheOwnedStep, RequestStep, ExecutionStep, TrustStep DEF RunInv

\* However many requests run one test at the same time, and wherever they die, what a
\* request holds, what it executed and what is cached stay in step.
THEOREM Consistency == SafeSpec => []RunInv
BY InvInit, InvStep, PTL DEF SafeSpec

\* Every reachable state is well typed.
THEOREM TypeCorrect == SafeSpec => []TypeOK
<1>1. RunInv => TypeOK
  BY DEF RunInv
<1>. QED
  BY <1>1, Consistency, PTL

\* The cached script passed in the run that wrote it, and no request that has been
\* answered saw it fail: a stale script is never put back.
THEOREM CacheTrusted == SafeSpec => []CacheIsTrusted
<1>1. RunInv => CacheIsTrusted
  BY DEF RunInv
<1>. QED
  BY <1>1, Consistency, PTL

\* Whose the status is: nobody's yet, that of a request that has reported it, or that
\* of a start some request has still to make good, or never will.
Reported == {"caching", "done"}
Underway == {"started", "writing", "executing", "repairing", "reporting", "lost"}

StatusOwned == \/ \A r \in Requests : pc[r] = "new"
               \/ \E r \in Requests : pc[r] \in Reported /\ status = outcome[r]
               \/ \E r \in Requests : pc[r] \in Underway

LEMMA OwnedStep == TypeOK /\ StatusOwned /\ [Next]_vars => StatusOwned'
<1> SUFFICES ASSUME TypeOK, StatusOwned, [Next]_vars PROVE StatusOwned'
  OBVIOUS
<1> USE DEF TypeOK, Goto, Reported, Underway
<1>1. CASE UNCHANGED vars
  BY <1>1 DEF vars, StatusOwned
<1>2. ASSUME NEW r \in Requests, NEW k \in {"run", "resume"}, Start(r, k) PROVE StatusOwned'
  BY <1>2 DEF Start, StatusOwned
<1>3. ASSUME NEW r \in Requests, \/ ReadCache(r) \/ Write(r) \/ Execute(r)
                                 \/ VerdictRaises(r) \/ Repair(r) \/ Crash(r)
      PROVE  StatusOwned'
  <2>1. pc'[r] \in Underway
    BY <1>3 DEF ReadCache, Write, Execute, VerdictRaises, Repair, Crash
  <2>. QED
    BY <2>1 DEF StatusOwned
<1>4. ASSUME NEW r \in Requests, WriteFails(r) \/ Report(r) PROVE StatusOwned'
  <2>1. pc'[r] \in Reported /\ status' = outcome'[r]
    BY <1>4 DEF WriteFails, Report
  <2>. QED
    BY <2>1 DEF StatusOwned
<1>5. ASSUME NEW r \in Requests, Cache(r) PROVE StatusOwned'
  BY <1>5 DEF Cache, StatusOwned
<1>. QED
  BY <1>1, <1>2, <1>3, <1>4, <1>5 DEF Next, Step

\* When every request has been answered, the test shows how one of them ended.
THEOREM StatusEarned == SafeSpec => []StatusIsEarned
<1>1. Init => StatusOwned
  BY DEF Init, StatusOwned
<1>2. TypeOK /\ StatusOwned => StatusIsEarned
  BY DEF TypeOK, StatusOwned, StatusIsEarned, Quiet, Ended, Active, Reported, Underway
<1>. QED
  BY <1>1, <1>2, OwnedStep, TypeCorrect, PTL DEF SafeSpec
===========================================================================

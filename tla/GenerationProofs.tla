-------------------------- MODULE GenerationProofs --------------------------
(***************************************************************************)
(* Proofs about Generation, for any number of requests and any profiles.   *)
(* GenInv is its inductive invariant: upto[r] says which documents r owns, *)
(* at most one request owns any, and what a request has asked the LLM,     *)
(* inserted and returned follows from the place it has reached.            *)
(***************************************************************************)
EXTENDS Generation, TLAPS

Early == {"finding", "creating", "locating", "listing", "deciding"}

\* upto is the whole truth about tests, and only one request has inserted any.
Owned == /\ \A i \in Nat \ {0}, r \in Requests : <<i, r>> \in tests <=> i <= upto[r]
         /\ \A r, s \in Requests : upto[r] > 0 /\ upto[s] > 0 => r = s

\* What request r has done by the place it has reached.
Place(r) ==
    /\ pc[r] \in Early => todo[r] > 0 /\ parsed[r] = 0 /\ upto[r] = 0
    /\ pc[r] = "generating" => todo[r] > 0 /\ upto[r] = 0
    /\ pc[r] = "saving" => upto[r] < parsed[r]
    /\ pc[r] = "done" /\ upto[r] > 0 => /\ upto[r] = parsed[r]
                                        /\ answer[r] = {<<i, r>> : i \in 1..upto[r]}
    /\ pc[r] = "failed" => /\ upto[r] = 0
                           /\ parsed[r] > 0 => \E s \in Requests \ {r} : <<1, s>> \in tests
    /\ answer[r] \subseteq tests

\* How far the project is settled where request r is.
Settled(r) ==
    /\ pc[r] \in {"locating", "deciding"} => exists
    /\ pc[r] = "listing" => exists /\ (agent[r] \/ located)
    /\ pc[r] \in {"generating", "saving"} => exists /\ located

GenInv == /\ TypeOK
          /\ Owned
          /\ \A r \in Requests : Place(r) /\ Settled(r)
          /\ located => exists
          /\ UrlKnown

\* No step of one request takes a test away or changes the place of another.
Others(r) == \A s \in Requests \ {r} :
                 /\ pc'[s] = pc[s] /\ agent'[s] = agent[s] /\ todo'[s] = todo[s]
                 /\ parsed'[s] = parsed[s] /\ upto'[s] = upto[s] /\ answer'[s] = answer[s]
---------------------------------------------------------------------------
\* The initial states: nothing is there and nothing has been asked.
LEMMA InitInv == Init => GenInv
<1>1. SUFFICES ASSUME Init PROVE GenInv
  OBVIOUS
<1>2. TypeOK
  BY <1>1, GenerationAssumption DEF Init, TypeOK, Awaits
<1>3. \A r \in Requests : todo[r] > 0
  <2>1. todo \in [Requests -> Profiles]
    BY <1>1 DEF Init
  <2>2. \A n \in Profiles : n > 0
    BY GenerationAssumption
  <2> QED
    BY <2>1, <2>2
<1>4. Owned
  BY <1>1 DEF Init, Owned
<1>5. \A r \in Requests : Place(r) /\ Settled(r)
  BY <1>1, <1>3 DEF Init, Place, Settled, Early
<1> QED
  BY <1>1, <1>2, <1>4, <1>5 DEF GenInv, Init, UrlKnown

\* A request's step that leaves the tests alone keeps everyone else's place.
LEMMA OthersStay ==
    ASSUME GenInv, NEW r \in Requests, Others(r), tests \subseteq tests',
           exists => exists', located => located'
    PROVE  \A s \in Requests \ {r} : Place(s)' /\ Settled(s)'
<1>1. SUFFICES ASSUME NEW s \in Requests \ {r} PROVE Place(s)' /\ Settled(s)'
  OBVIOUS
<1>2. Place(s) /\ Settled(s)
  BY DEF GenInv
<1>3. /\ pc'[s] = pc[s] /\ agent'[s] = agent[s] /\ todo'[s] = todo[s]
      /\ parsed'[s] = parsed[s] /\ upto'[s] = upto[s] /\ answer'[s] = answer[s]
  BY DEF Others
<1>4. Place(s)'
  BY <1>2, <1>3 DEF Place
<1>5. Settled(s)'
  BY <1>2, <1>3 DEF Settled
<1> QED
  BY <1>4, <1>5

\* Adding the project with or without a url.
LEMMA AddProjectInv == GenInv /\ AddProject => GenInv'
<1>1. SUFFICES ASSUME GenInv, AddProject PROVE GenInv'
  OBVIOUS
<1>2. TypeOK'
  BY <1>1 DEF AddProject, GenInv, TypeOK, work
<1>3. Owned'
  BY <1>1 DEF AddProject, GenInv, Owned, work
<1>4. \A r \in Requests : Place(r)'
  BY <1>1 DEF AddProject, GenInv, Place, work
<1>5. ~located /\ tests = {}
  BY <1>1 DEF AddProject, GenInv, UrlKnown
<1>6. \A r \in Requests : Settled(r)'
  BY <1>1, <1>5 DEF AddProject, GenInv, Settled, work
<1>7. UrlKnown' /\ exists'
  BY <1>1, <1>5 DEF AddProject, UrlKnown
<1> QED
  BY <1>2, <1>3, <1>4, <1>6, <1>7 DEF GenInv

\* The steps before anything is generated: only the project and the request's place change.
LEMMA EarlyInv ==
    ASSUME GenInv, NEW r \in Requests, Find(r) \/ Locate(r) \/ Create(r)
    PROVE  GenInv'
<1>1. /\ UNCHANGED <<tests, agent, todo, parsed, upto, answer>>
      /\ pc[r] \in Early
  BY DEF Find, Locate, Create, project, work, Early
<1>2. /\ exists' \in BOOLEAN /\ located' \in BOOLEAN
      /\ exists => exists'
      /\ located => located'
      /\ located' => exists'
  <2>1. CASE Find(r)
    BY <2>1 DEF Find, project, GenInv, TypeOK
  <2>2. CASE Locate(r)
    BY <2>2 DEF Locate, GenInv, TypeOK, Settled
  <2>3. CASE Create(r) /\ ~exists
    <3>1. exists' = TRUE /\ located' = ~agent[r] /\ ~located
      BY <2>3 DEF Create, GenInv
    <3> QED
      BY <3>1, Zenon DEF GenInv, TypeOK
  <2>4. CASE Create(r) /\ exists
    BY <2>4 DEF Create, project, GenInv, TypeOK
  <2> QED
    BY <2>1, <2>2, <2>3, <2>4
<1>3. /\ pc' = [pc EXCEPT ![r] = pc'[r]]
      /\ pc'[r] \in {"creating", "listing", "locating", "failed"}
  BY DEF Find, Locate, Create, Goto, GenInv, TypeOK
<1>4. TypeOK'
  BY <1>1, <1>2, <1>3 DEF GenInv, TypeOK, Awaits
<1>5. Owned'
  BY <1>1 DEF GenInv, Owned
<1>6. Others(r)
  BY <1>1, <1>3 DEF Others, GenInv, TypeOK
<1>7. Place(r)'
  BY <1>1, <1>3 DEF GenInv, Place, Early
<1>8. Settled(r)'
  BY <1>1, <1>3 DEF Find, Locate, Create, Goto, project, work, GenInv, TypeOK, Settled
<1>9. UrlKnown'
  BY <1>1, <1>2 DEF GenInv, UrlKnown
<1> QED
  BY <1>1, <1>2, <1>4, <1>5, <1>6, <1>7, <1>8, <1>9, OthersStay DEF GenInv

\* Listing, deciding, generating and stopping leave the project and the tests alone.
LEMMA WorkInv ==
    ASSUME GenInv, NEW r \in Requests,
           List(r) \/ Decide(r) \/ Batch(r) \/ BatchFails(r) \/ Crash(r)
    PROVE  GenInv'
<1> USE DEF GenInv
<1>1. UNCHANGED <<exists, located, tests, upto>>
  BY DEF List, Decide, Batch, BatchFails, Crash, project, work
<1>2. /\ pc' = [pc EXCEPT ![r] = pc'[r]]
      /\ pc'[r] \in Awaits \cup {"done", "failed", "lost"}
  BY DEF List, Decide, Batch, BatchFails, Crash, Goto, TypeOK, Awaits
<1>3. /\ agent' \in [Requests -> BOOLEAN]
      /\ \A s \in Requests \ {r} : agent'[s] = agent[s]
  BY DEF List, Decide, Batch, BatchFails, Crash, TypeOK
<1>4. pc[r] = "generating" => todo[r] > 0
  BY DEF Place
<1>5. /\ todo' \in [Requests -> Nat]
      /\ parsed' \in [Requests -> Nat]
      /\ \A s \in Requests \ {r} : todo'[s] = todo[s] /\ parsed'[s] = parsed[s]
  <2>1. CASE Batch(r)
    <3>1. PICK n \in 0..BatchSize : parsed' = [parsed EXCEPT ![r] = @ + n]
      BY <2>1 DEF Batch
    <3>2. n \in Nat
      BY GenerationAssumption
    <3>3. todo[r] > 0 /\ todo' = [todo EXCEPT ![r] = @ - 1]
      BY <2>1, <1>4 DEF Batch
    <3> QED
      BY <3>1, <3>2, <3>3 DEF TypeOK
  <2>2. CASE ~Batch(r)
    BY <2>2 DEF List, Decide, BatchFails, Crash, work, TypeOK
  <2> QED
    BY <2>1, <2>2
<1>6. /\ answer' \in [Requests -> SUBSET ((Nat \ {0}) \X Requests)]
      /\ \A s \in Requests \ {r} : answer'[s] = answer[s]
      /\ answer'[r] = answer[r] \/ answer'[r] = tests
  BY DEF List, Decide, Batch, BatchFails, Crash, TypeOK, Goto
<1>7. TypeOK'
  BY <1>1, <1>2, <1>3, <1>5, <1>6 DEF TypeOK
<1>8. Owned' /\ UrlKnown'
  BY <1>1 DEF Owned, UrlKnown
<1>9. Others(r)
  BY <1>1, <1>2, <1>3, <1>5, <1>6 DEF Others, TypeOK
<1>10. Place(r)'
  <2> USE <1>1 DEF Place, Early, TypeOK, Goto
  <2>1. CASE List(r)
    BY <2>1 DEF List, work
  <2>2. CASE Decide(r)
    BY <2>2 DEF Decide, work
  <2>3. CASE Batch(r)
    <3>1. /\ todo'[r] = todo[r] - 1 /\ todo[r] \in Nat /\ parsed'[r] \in Nat
          /\ upto[r] = 0 /\ todo[r] > 0
      BY <2>3, <1>5 DEF Batch
    <3>2. pc'[r] = IF todo[r] > 1 THEN "generating" ELSE IF parsed'[r] > 0 THEN "saving" ELSE "done"
      BY <2>3 DEF Batch
    <3>3. answer' = answer
      BY <2>3 DEF Batch
    <3> QED
      BY <3>1, <3>2, <3>3
  <2>4. CASE BatchFails(r)
    BY <2>4 DEF BatchFails, work
  <2>5. CASE Crash(r)
    BY <2>5 DEF Crash, work
  <2> QED
    BY <2>1, <2>2, <2>3, <2>4, <2>5
<1>11. Settled(r)'
  BY <1>1, <1>2 DEF List, Decide, Batch, BatchFails, Crash, Goto, Settled, UrlKnown, TypeOK
<1> QED
  BY <1>1, <1>7, <1>8, <1>9, <1>10, <1>11, OthersStay

\* An insertion: the index lets only one request begin, and then no other one.
LEMMA SaveInv == ASSUME GenInv, NEW r \in Requests, Save(r) PROVE GenInv'
<1> USE DEF GenInv
<1> DEFINE number == upto[r] + 1
<1>1. /\ pc[r] = "saving" /\ pc' = [pc EXCEPT ![r] = pc'[r]]
      /\ UNCHANGED <<exists, located, agent, todo, parsed>>
      /\ exists /\ located
      /\ upto[r] \in Nat /\ parsed[r] \in Nat /\ upto[r] < parsed[r]
  BY DEF Save, Goto, project, TypeOK, Place, Settled
<1>2. number \in Nat \ {0} /\ number > upto[r]
  BY <1>1
<1>3. CASE /\ \A s \in Requests : <<number, s>> \notin tests
           /\ tests' = tests \cup {<<number, r>>}
           /\ upto' = [upto EXCEPT ![r] = number]
           /\ Goto(r, IF number < parsed[r] THEN "saving" ELSE "done")
           /\ answer' = IF number < parsed[r] THEN answer
                        ELSE [answer EXCEPT ![r] = {<<i, r>> : i \in 1..number}]
  <2>1. {<<i, r>> : i \in 1..number} \subseteq (Nat \ {0}) \X Requests
    BY <1>2
  <2>2. TypeOK'
    BY <1>1, <1>2, <1>3, <2>1 DEF TypeOK, Goto, Awaits
  <2>3. \A i \in Nat \ {0}, s \in Requests : <<i, s>> \in tests' <=> i <= upto'[s]
    <3>1. SUFFICES ASSUME NEW i \in Nat \ {0}, NEW s \in Requests
                   PROVE  <<i, s>> \in tests' <=> i <= upto'[s]
      OBVIOUS
    <3>2. <<i, s>> \in tests <=> i <= upto[s]
      BY DEF Owned
    <3>3. CASE s = r
      <4>1. upto'[s] = upto[r] + 1
        BY <1>3, <3>3 DEF TypeOK
      <4>2. <<i, s>> \in tests' <=> i <= upto[r] \/ i = number
        BY <1>3, <3>2, <3>3
      <4> QED
        BY <4>1, <4>2, <1>1
    <3>4. CASE s # r
      BY <1>3, <3>2, <3>4 DEF TypeOK
    <3> QED
      BY <3>3, <3>4
  <2>4. \A s \in Requests \ {r} : upto[s] = 0
    <3>1. ASSUME NEW s \in Requests \ {r}, upto[s] > 0 PROVE FALSE
      <4>1. upto[r] = 0
        BY <3>1, <1>1 DEF Owned
      <4>2. <<1, s>> \in tests
        BY <3>1 DEF Owned, TypeOK
      <4> QED
        BY <1>3, <4>1, <4>2
    <3>2. \A s \in Requests : upto[s] \in Nat
      BY DEF TypeOK
    <3>3. ASSUME NEW s \in Requests \ {r} PROVE upto[s] = 0
      <4>1. upto[s] \in Nat /\ ~(upto[s] > 0)
        BY <3>1, <3>2
      <4> QED
        BY <4>1
    <3> QED
      BY <3>3
  <2>5. Owned'
    <3>1. \A s \in Requests \ {r} : upto'[s] = 0
      BY <2>4, <1>3 DEF TypeOK
    <3>2. \A s, t \in Requests : upto'[s] > 0 /\ upto'[t] > 0 => s = t
      BY <3>1
    <3> QED
      BY <2>3, <3>2 DEF Owned
  <2>6. Others(r)
    BY <1>1, <1>3 DEF Others, TypeOK
  <2>7. \A i \in 1..number : <<i, r>> \in tests'
    <3>1. SUFFICES ASSUME NEW i \in 1..number PROVE <<i, r>> \in tests'
      OBVIOUS
    <3>2. i \in Nat \ {0} /\ upto'[r] = number
      BY <1>1, <1>3 DEF TypeOK
    <3> QED
      BY <2>3, <3>2, <1>2
  <2>8. Place(r)'
    <3>1. upto'[r] = number /\ parsed'[r] = parsed[r]
      BY <1>1, <1>3 DEF TypeOK
    <3>2. CASE number < parsed[r]
      <4>1. pc'[r] = "saving" /\ answer'[r] = answer[r]
        BY <1>3, <3>2 DEF Goto, TypeOK
      <4> QED
        BY <4>1, <3>1, <3>2, <1>3 DEF Place, Early
    <3>3. CASE ~(number < parsed[r])
      <4>1. pc'[r] = "done" /\ answer'[r] = {<<i, r>> : i \in 1..number}
        BY <1>3, <3>3 DEF Goto, TypeOK
      <4>2. number = parsed[r]
        BY <1>1, <3>3
      <4>3. answer'[r] \subseteq tests'
        BY <4>1, <2>7
      <4> QED
        BY <4>1, <4>2, <4>3, <3>1 DEF Place, Early
    <3> QED
      BY <3>2, <3>3
  <2>9. Settled(r)' /\ UrlKnown'
    BY <1>1 DEF Settled, UrlKnown
  <2> QED
    BY <1>1, <1>3, <2>2, <2>5, <2>6, <2>8, <2>9, OthersStay
<1>4. CASE /\ \E s \in Requests : <<number, s>> \in tests
           /\ Goto(r, "failed")
           /\ UNCHANGED <<tests, upto, answer>>
  <2>1. PICK s \in Requests : <<number, s>> \in tests
    BY <1>4
  <2>2. number <= upto[s] /\ upto[s] \in Nat
    BY <2>1, <1>2 DEF Owned, TypeOK
  <2>3. s # r
    BY <2>2, <1>2
  <2>4. upto[r] = 0
    BY <2>2, <2>3, <1>1 DEF Owned
  <2>5. TypeOK'
    BY <1>1, <1>4 DEF TypeOK, Goto
  <2>6. Owned' /\ Others(r) /\ UrlKnown' /\ Settled(r)'
    BY <1>1, <1>4 DEF Owned, Others, UrlKnown, Settled, Goto, TypeOK
  <2>7. Place(r)'
    <3>1. pc'[r] = "failed" /\ <<1, s>> \in tests'
      BY <1>4, <2>1, <2>4 DEF Goto, TypeOK
    <3> QED
      BY <3>1, <2>3, <2>4, <1>4 DEF Place, Early
  <2> QED
    BY <1>1, <1>4, <2>5, <2>6, <2>7, OthersStay
<1> QED
  BY <1>3, <1>4 DEF Save

\* Every step keeps the invariant.
LEMMA NextInv == GenInv /\ [Next]_vars => GenInv'
<1>1. ASSUME GenInv, AddProject PROVE GenInv'
  BY <1>1, AddProjectInv
<1>2. ASSUME GenInv, NEW r \in Requests, Step(r) \/ Crash(r) PROVE GenInv'
  BY <1>2, EarlyInv, WorkInv, SaveInv DEF Step
<1>3. ASSUME GenInv, UNCHANGED vars PROVE GenInv'
  BY <1>3 DEF vars, GenInv, TypeOK, Owned, Place, Settled, UrlKnown
<1> QED
  BY <1>1, <1>2, <1>3 DEF Next
---------------------------------------------------------------------------
\* GenInv holds in every reachable state.
THEOREM Consistency == Spec => []GenInv
<1> QED
  BY InitInv, NextInv, PTL DEF Spec, SafeSpec

\* Every reachable state is well typed.
THEOREM TypeCorrect == Spec => []TypeOK
<1>1. GenInv => TypeOK
  BY DEF GenInv
<1> QED
  BY <1>1, Consistency, PTL

\* The tests of a project are the first ones of one request's suite, whatever races or stops.
THEOREM SuitesDoNotMix == Spec => []OneSuite
<1>1. GenInv => OneSuite
  <2>1. SUFFICES ASSUME GenInv, NEW t \in tests
                 PROVE  /\ \A s \in tests : s[2] = t[2]
                        /\ \A i \in 1..t[1] : <<i, t[2]>> \in tests
    BY DEF OneSuite
  <2>2. \A s \in tests : /\ s[1] \in Nat \ {0} /\ s[2] \in Requests
                         /\ s = <<s[1], s[2]>>
    BY <2>1 DEF GenInv, TypeOK
  <2>3. \A s \in tests : s[1] <= upto[s[2]] /\ upto[s[2]] \in Nat
    BY <2>1, <2>2 DEF GenInv, Owned, TypeOK
  <2>4. \A s \in tests : upto[s[2]] > 0
    BY <2>2, <2>3
  <2>5. \A s \in tests : s[2] = t[2]
    BY <2>1, <2>2, <2>4 DEF GenInv, Owned
  <2>6. ASSUME NEW i \in 1..t[1] PROVE <<i, t[2]>> \in tests
    <3>1. i \in Nat \ {0} /\ i <= upto[t[2]]
      BY <2>2, <2>3
    <3> QED
      BY <3>1, <2>1, <2>2 DEF GenInv, Owned
  <2> QED
    BY <2>5, <2>6
<1> QED
  BY <1>1, Consistency, PTL

\* What a request was answered stays; its own suite was inserted whole and stands alone.
THEOREM AnswersStand == Spec => []AnswersHold
<1>1. GenInv => AnswersHold
  <2>1. SUFFICES ASSUME GenInv, NEW r \in Requests
                 PROVE  /\ answer[r] \subseteq tests
                        /\ pc[r] = "done" /\ upto[r] > 0
                               => answer[r] = tests /\ upto[r] = parsed[r]
    BY DEF AnswersHold
  <2>2. Place(r)
    BY <2>1 DEF GenInv
  <2>3. ASSUME pc[r] = "done", upto[r] > 0 PROVE tests \subseteq answer[r]
    <3>1. SUFFICES ASSUME NEW t \in tests PROVE t \in answer[r]
      OBVIOUS
    <3>2. t[1] \in Nat \ {0} /\ t[2] \in Requests /\ t = <<t[1], t[2]>>
      BY <2>1 DEF GenInv, TypeOK
    <3>3. t[1] <= upto[t[2]] /\ upto[t[2]] \in Nat /\ upto[r] \in Nat
      BY <2>1, <3>2 DEF GenInv, Owned, TypeOK
    <3>4. t[2] = r
      BY <2>1, <2>3, <3>2, <3>3 DEF GenInv, Owned
    <3>5. t[1] \in 1..upto[r]
      BY <3>2, <3>3, <3>4
    <3> QED
      BY <2>2, <2>3, <3>2, <3>4, <3>5 DEF Place
  <2> QED
    BY <2>2, <2>3 DEF Place
<1> QED
  BY <1>1, Consistency, PTL

\* Cases the LLM has given are discarded only in favour of another request's suite.
THEOREM KeepsWork == Spec => []WorkIsKept
<1>1. GenInv => WorkIsKept
  BY DEF GenInv, Place, WorkIsKept
<1> QED
  BY <1>1, Consistency, PTL

\* A project with tests has a url.
THEOREM KnowsUrl == Spec => []UrlKnown
<1>1. GenInv => UrlKnown
  BY DEF GenInv
<1> QED
  BY <1>1, Consistency, PTL
===========================================================================

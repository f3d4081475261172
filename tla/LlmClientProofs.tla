-------------------------- MODULE LlmClientProofs --------------------------
(***************************************************************************)
(* Proofs about LlmClient, for any number of calls, models, slots and      *)
(* retries.                                                                *)
(***************************************************************************)
EXTENDS LlmClient, FiniteSetTheorems, NaturalsInduction, WellFoundedInduction, TLAPS

(***************************************************************************)
(* The semaphore.                                                          *)
(***************************************************************************)
Semaphore == [free: 0..Slots, holders: SUBSET Calls, queue: Seq(Calls)]

Queued(s) == {s.queue[i] : i \in DOMAIN s.queue}

\* Semaphore s serves exactly the calls in asking.
Serves(s, asking) ==
    /\ s \in Semaphore
    /\ IsFiniteSet(s.holders)
    /\ s.free + Cardinality(s.holders) = Slots
    /\ s.queue # <<>> => s.free = 0
    /\ asking = s.holders \cup Queued(s)
    /\ s.holders \cap Queued(s) = {}
    /\ \A i, k \in DOMAIN s.queue : s.queue[i] = s.queue[k] => i = k

LEMMA AcquireServes ==
    ASSUME NEW s, NEW asking, Serves(s, asking), NEW c \in Calls, c \notin asking
    PROVE  Serves(Acquired(s, c), asking \cup {c})
<1>. SUFFICES ASSUME NEW t, t = Acquired(s, c) PROVE Serves(t, asking \cup {c})
  OBVIOUS
<1>0. Slots \in Nat
  BY LlmAssumption
<1>1. CASE s.free > 0
  <2>1. t = [free |-> s.free - 1, holders |-> s.holders \cup {c}, queue |-> s.queue]
    BY <1>1 DEF Acquired, Serves, Semaphore
  <2>2. t \in Semaphore
    BY <1>0, <1>1, <2>1 DEF Serves, Semaphore
  <2>3. c \notin s.holders
    BY DEF Serves
  <2>4. /\ IsFiniteSet(s.holders \cup {c})
        /\ Cardinality(s.holders \cup {c}) = Cardinality(s.holders) + 1
    BY <2>3, FS_AddElement DEF Serves
  <2>5. Cardinality(s.holders) \in Nat
    BY FS_CardinalityType DEF Serves
  <2>6. s.free - 1 + Cardinality(s.holders \cup {c}) = Slots
    BY <1>0, <2>4, <2>5 DEF Serves, Semaphore
  <2>7. s.queue = <<>>
    BY <1>1 DEF Serves
  <2>8. Queued(t) = {} /\ Queued(s) = {}
    BY <2>1, <2>7 DEF Queued
  <2>. QED
    <3>1. t.free = s.free - 1 /\ t.holders = s.holders \cup {c} /\ t.queue = <<>>
      BY <2>1, <2>7
    <3>2. asking = s.holders
      BY <2>8 DEF Serves
    <3>. QED
      BY <2>2, <2>4, <2>6, <2>8, <3>1, <3>2 DEF Serves
<1>2. CASE ~(s.free > 0)
  <2>1. t = [free |-> s.free, holders |-> s.holders, queue |-> Append(s.queue, c)]
    BY <1>2 DEF Acquired, Serves, Semaphore
  <2>2. t \in Semaphore
    BY <2>1 DEF Serves, Semaphore
  <2>3. s.queue \in Seq(Calls) /\ c \notin Queued(s)
    BY DEF Serves, Semaphore
  <2>4. Queued(t) = Queued(s) \cup {c}
    BY <2>1, <2>3 DEF Queued
  <2>5. \A i, k \in DOMAIN t.queue : t.queue[i] = t.queue[k] => i = k
    BY <2>1, <2>3 DEF Serves, Queued
  <2>6. t.free = 0
    BY <1>0, <1>2, <2>1 DEF Serves, Semaphore
  <2>. QED
    <3>1. t.free = s.free /\ t.holders = s.holders /\ t.queue # <<>>
      BY <2>1, <2>3
    <3>2. asking \cup {c} = t.holders \cup Queued(t) /\ t.holders \cap Queued(t) = {}
      BY <2>4, <3>1 DEF Serves
    <3>3. IsFiniteSet(t.holders) /\ t.free + Cardinality(t.holders) = Slots
      BY <3>1 DEF Serves
    <3>. QED
      BY <2>2, <2>5, <2>6, <3>2, <3>3 DEF Serves
<1>. QED
  BY <1>1, <1>2

LEMMA ReleaseServes ==
    ASSUME NEW s, NEW asking, Serves(s, asking), NEW c \in s.holders
    PROVE  Serves(Released(s, c), asking \ {c})
<1>. SUFFICES ASSUME NEW t, t = Released(s, c) PROVE Serves(t, asking \ {c})
  OBVIOUS
<1>0. /\ Slots \in Nat
      /\ Cardinality(s.holders) \in Nat
      /\ s.queue \in Seq(Calls)
  BY LlmAssumption, FS_CardinalityType DEF Serves, Semaphore
<1>1. /\ IsFiniteSet(s.holders \ {c})
      /\ Cardinality(s.holders \ {c}) = Cardinality(s.holders) - 1
  BY FS_RemoveElement DEF Serves
<1>2. Cardinality(s.holders \ {c}) \in Nat
  BY <1>1, FS_CardinalityType
<1>3. CASE s.queue = <<>>
  <2>1. t = [free |-> s.free + 1, holders |-> s.holders \ {c}, queue |-> s.queue]
    BY <1>3 DEF Released, Serves, Semaphore
  <2>2. t.free + Cardinality(t.holders) = Slots /\ t.free \in 0..Slots
    BY <1>0, <1>1, <1>2, <2>1 DEF Serves, Semaphore
  <2>3. t \in Semaphore
    BY <2>1, <2>2 DEF Serves, Semaphore
  <2>4. Queued(t) = {} /\ Queued(s) = {}
    BY <1>3, <2>1 DEF Queued
  <2>. QED
    <3>1. t.holders = s.holders \ {c} /\ t.queue = <<>>
      BY <1>3, <2>1
    <3>2. asking = s.holders
      BY <2>4 DEF Serves
    <3>. QED
      BY <1>1, <2>2, <2>3, <2>4, <3>1, <3>2 DEF Serves
<1>4. CASE s.queue # <<>>
  <2>. DEFINE h == Head(s.queue)
  <2>1. t = [free |-> s.free, holders |-> (s.holders \ {c}) \cup {h}, queue |-> Tail(s.queue)]
    BY <1>4 DEF Released, Serves, Semaphore
  <2>2. h \in Calls /\ h \in Queued(s) /\ Tail(s.queue) \in Seq(Calls)
    BY <1>0, <1>4 DEF Queued
  <2>3. t \in Semaphore
    BY <2>1, <2>2 DEF Serves, Semaphore
  <2>4. h \notin s.holders
    BY <2>2 DEF Serves
  <2>5. /\ IsFiniteSet(t.holders)
        /\ Cardinality(t.holders) = Cardinality(s.holders)
    <3>1. h \notin s.holders \ {c} /\ t.holders = (s.holders \ {c}) \cup {h}
      BY <2>1, <2>4
    <3>2. /\ IsFiniteSet((s.holders \ {c}) \cup {h})
          /\ Cardinality((s.holders \ {c}) \cup {h}) = Cardinality(s.holders \ {c}) + 1
      BY <1>1, <3>1, FS_AddElement
    <3>. QED
      BY <1>0, <1>1, <3>1, <3>2
  <2>6. \A i \in DOMAIN t.queue : i + 1 \in DOMAIN s.queue /\ t.queue[i] = s.queue[i + 1]
    BY <1>0, <1>4, <2>1
  <2>7. \A i \in DOMAIN s.queue : i = 1 \/ (i - 1 \in DOMAIN t.queue /\ t.queue[i - 1] = s.queue[i])
    BY <1>0, <1>4, <2>1
  <2>8. \A i, k \in DOMAIN t.queue : t.queue[i] = t.queue[k] => i = k
    <3>1. DOMAIN t.queue \subseteq Nat
      BY <2>1, <2>2
    <3>. QED
      BY <2>6, <3>1 DEF Serves
  <2>9. h \notin Queued(t)
    <3>1. ASSUME NEW i \in DOMAIN t.queue, t.queue[i] = h
          PROVE  FALSE
      <4>1. i \in Nat \ {0} /\ 1 \in DOMAIN s.queue /\ s.queue[1] = h
        BY <1>0, <1>4, <2>1, <2>2
      <4>2. i + 1 \in DOMAIN s.queue /\ s.queue[i + 1] = s.queue[1]
        BY <2>6, <3>1, <4>1
      <4>. QED
        BY <4>1, <4>2 DEF Serves
    <3>. QED
      BY <3>1 DEF Queued
  <2>10. Queued(s) = Queued(t) \cup {h}
    <3>1. Queued(t) \subseteq Queued(s)
      BY <2>6 DEF Queued
    <3>2. \A i \in DOMAIN s.queue : s.queue[i] \in Queued(t) \cup {h}
      BY <1>0, <1>4, <2>7 DEF Queued
    <3>. QED
      BY <2>2, <3>1, <3>2 DEF Queued
  <2>11. s.free = 0 /\ t.free = 0
    BY <1>4, <2>1 DEF Serves
  <2>12. asking \ {c} = t.holders \cup Queued(t)
    <3>1. t.holders = (s.holders \ {c}) \cup {h} /\ c \notin Queued(s)
      BY <2>1 DEF Serves
    <3>. QED
      BY <2>10, <3>1 DEF Serves
  <2>13. t.holders \cap Queued(t) = {}
    <3>1. t.holders = (s.holders \ {c}) \cup {h}
      BY <2>1
    <3>. QED
      BY <2>9, <2>10, <3>1 DEF Serves
  <2>14. t.free + Cardinality(t.holders) = Slots
    BY <2>5, <2>11 DEF Serves
  <2>. QED
    BY <2>3, <2>5, <2>8, <2>11, <2>12, <2>13, <2>14 DEF Serves
<1>. QED
  BY <1>3, <1>4

(***************************************************************************)
(* Type correctness, and the models a call asks.                           *)
(***************************************************************************)
LEMMA UsableModels ==
    ASSUME NEW models \in Chains, NEW capped, NEW to \in FirstUsable(models, capped)
    PROVE  to \in Models /\ to \notin capped
BY LlmAssumption DEF FirstUsable

LEMMA LeastOfNaturals ==
    ASSUME NEW numbers \in SUBSET Nat, numbers # {}
    PROVE  \E n \in numbers : \A m \in numbers : n <= m
<1> DEFINE less == {p \in Nat \X Nat : p[1] < p[2]}
<1>1. IsWellFoundedOn(less, Nat)
  BY NatLessThanWellFounded DEF OpToRel
<1>2. PICK n \in numbers : \A m \in numbers : <<m, n>> \notin less
  <2> HIDE DEF less
  <2>. QED
    BY <1>1, WFMin
<1>3. ASSUME NEW m \in numbers, ~(n <= m) PROVE FALSE
  <2>1. m \in Nat /\ n \in Nat
    OBVIOUS
  <2>2. <<m, n>> \in less
    BY <1>3, <2>1
  <2>. QED
    BY <1>2, <2>2
<1>. QED
  BY <1>3

\* A chain has no usable model only if it is capped from end to end: the first model that is
\* not capped would be one.
LEMMA NoneUsable ==
    ASSUME NEW models \in Chains, NEW capped, FirstUsable(models, capped) = {}
    PROVE  \A i \in DOMAIN models : models[i] \in capped
<1> DEFINE open == {i \in 1..Len(models) : models[i] \notin capped}
<1>1. Len(models) \in Nat /\ DOMAIN models = 1..Len(models)
  BY LlmAssumption
<1>2. ASSUME open # {} PROVE FALSE
  <2>1. open \in SUBSET Nat
    BY <1>1
  <2>2. PICK i \in open : \A k \in open : i <= k
    <3> HIDE DEF open
    <3>. QED
      BY <1>2, <2>1, LeastOfNaturals
  <2>3. \A k \in 1..(i - 1) : models[k] \in capped
    BY <1>1, <2>2
  <2>4. models[i] \in FirstUsable(models, capped)
    BY <2>2, <2>3 DEF FirstUsable
  <2>. QED
    BY <2>4
<1>. QED
  BY <1>1, <1>2

LEMMA FirstModel == \A models \in Chains : Head(models) \in Models
BY LlmAssumption

LEMMA SlotsType ==
    ASSUME NEW s, NEW asking, Serves(s, asking)
    PROVE  s \in Semaphore /\ asking \subseteq Calls
<1>1. s \in Semaphore
  BY DEF Serves
<1>2. Queued(s) \subseteq Calls
  BY <1>1 DEF Queued, Semaphore
<1>. QED
  BY <1>1, <1>2 DEF Serves, Semaphore

Asking == {c \in Calls : pc[c] = "asking"}

\* What a call holds, by where it is.
CallOK(c) ==
    /\ pc[c] = "new" => told[c] = {}
    /\ told[c] \subseteq exhausted
    /\ pc[c] \in {"asking", "sleeping"} => /\ model[c] \notin told[c]
                                          /\ effort[c] = (model[c] \in Reasoning)
    /\ pc[c] = "sleeping" => attempt[c] < MaxRetries

\* The inductive invariant.
ClientInv == /\ TypeOK
             /\ Serves(slots, Asking)
             /\ \A c \in Calls : CallOK(c)

LEMMA InvInit == Init => ClientInv
<1>. SUFFICES ASSUME Init PROVE ClientInv
  OBVIOUS
<1>1. TypeOK
  BY FirstModel, LlmAssumption DEF Init, TypeOK
<1>2. Serves(slots, Asking)
  <2>1. /\ slots.free = Slots /\ slots.holders = {} /\ slots.queue = <<>>
        /\ Queued(slots) = {} /\ Asking = {}
    BY DEF Init, Queued, Asking
  <2>2. slots \in Semaphore
    BY LlmAssumption DEF Init, Semaphore
  <2>3. Slots + 0 = Slots
    BY LlmAssumption
  <2>. QED
    BY <2>1, <2>2, <2>3, FS_EmptySet DEF Serves
<1>3. \A c \in Calls : CallOK(c)
  BY DEF Init, CallOK
<1>. QED
  BY <1>1, <1>2, <1>3 DEF ClientInv

\* How each kind of step changes who is served.
LEMMA SlotsStep == ClientInv /\ [Next]_vars => Serves(slots, Asking)'
<1>. SUFFICES ASSUME ClientInv, [Next]_vars PROVE Serves(slots', Asking')
  BY DEF Serves, Queued, Semaphore
<1>0. pc \in [Calls -> {"new", "asking", "sleeping", "answered", "failed", "limited"}]
  BY DEF ClientInv, TypeOK
<1>1. Serves(slots, Asking)
  BY DEF ClientInv
<1>2. CASE UNCHANGED <<pc, slots>>
  BY <1>1, <1>2 DEF Asking
<1>3. ASSUME NEW c \in Calls, pc[c] # "asking", pc' = [pc EXCEPT ![c] = "asking"],
             slots' = Acquired(slots, c)
      PROVE  Serves(slots', Asking')
  <2>1. c \notin Asking /\ Asking' = Asking \cup {c}
    BY <1>0, <1>3 DEF Asking
  <2>. QED
    BY <1>1, <1>3, <2>1, AcquireServes
<1>4. ASSUME NEW c \in Calls, Posting(c), NEW how, how # "asking",
             pc' = [pc EXCEPT ![c] = how], slots' = Released(slots, c)
      PROVE  Serves(slots', Asking')
  <2>1. c \in slots.holders /\ Asking' = Asking \ {c}
    BY <1>0, <1>4 DEF Asking, Posting
  <2>. QED
    BY <1>1, <1>4, <2>1, ReleaseServes
<1>5. ASSUME NEW c \in Calls, Posting(c), NEW to, Switch(c, to)
      PROVE  Serves(slots', Asking')
  <2>1. c \in slots.holders /\ c \in Asking /\ Asking' = Asking
    BY <1>5 DEF Asking, Posting, Switch
  <2>2. Serves(Released(slots, c), Asking \ {c})
    BY <1>1, <2>1, ReleaseServes
  <2>3. Serves(Acquired(Released(slots, c), c), (Asking \ {c}) \cup {c})
    BY <2>2, AcquireServes
  <2>4. (Asking \ {c}) \cup {c} = Asking'
    BY <2>1
  <2>. QED
    BY <1>5, <2>3, <2>4 DEF Switch
<1>6. ASSUME NEW c \in Calls, Start(c) \/ Wake(c) PROVE Serves(slots', Asking')
  BY <1>3, <1>6 DEF Start, Wake
<1>7. ASSUME NEW c \in Calls, Respond(c) PROVE Serves(slots', Asking')
  <2>1. CASE Answer(c) \/ Fail(c) \/ Sleep(c) \/ GiveUp(c)
    BY <1>4, <2>1 DEF Answer, Fail, Sleep, GiveUp, Finish
  <2>2. CASE Capped(c)
    BY <1>4, <1>5, <2>2 DEF Capped, Finish
  <2>. QED
    BY <1>7, <2>1, <2>2 DEF Respond
<1>8. ASSUME NEW m \in Models, Lapse(m) PROVE Serves(slots', Asking')
  BY <1>2, <1>8 DEF Lapse
<1>9. CASE UNCHANGED vars
  BY <1>2, <1>9 DEF vars
<1>. QED
  BY <1>6, <1>7, <1>8, <1>9 DEF Next

LEMMA TypeStep == ClientInv /\ [Next]_vars => TypeOK'
<1>. SUFFICES ASSUME ClientInv, [Next]_vars PROVE TypeOK'
  OBVIOUS
<1>0. TypeOK /\ MaxRetries \in Nat
  BY LlmAssumption DEF ClientInv
<1>1. slots' \in Semaphore
  BY SlotsStep DEF Serves, Semaphore, Queued, Asking
<1>2. ASSUME NEW c \in Calls, Start(c) PROVE TypeOK'
  <2>1. chain[c] \in Chains
    BY <1>0 DEF TypeOK
  <2>2. PICK first \in Models : /\ model' = [model EXCEPT ![c] = first]
                                /\ effort' = [effort EXCEPT ![c] = first \in Reasoning]
    BY <1>2, <2>1, UsableModels, FirstModel DEF Start
  <2>. QED
    BY <1>0, <1>1, <1>2, <2>2 DEF Start, TypeOK, Semaphore
<1>3. ASSUME NEW c \in Calls, NEW how \in {"answered", "failed", "limited"}, Finish(c, how),
             exhausted' \subseteq Models, told' \in [Calls -> SUBSET Models]
      PROVE  TypeOK'
  BY <1>0, <1>1, <1>3 DEF Finish, TypeOK, Semaphore
<1>4. ASSUME NEW c \in Calls, Answer(c) \/ Fail(c) \/ GiveUp(c) PROVE TypeOK'
  BY <1>0, <1>3, <1>4 DEF Answer, Fail, GiveUp, TypeOK
<1>5. ASSUME NEW c \in Calls, Sleep(c) PROVE TypeOK'
  BY <1>0, <1>1, <1>5 DEF Sleep, TypeOK, Semaphore
<1>6. ASSUME NEW c \in Calls, Wake(c) PROVE TypeOK'
  <2>1. attempt[c] \in 0..MaxRetries /\ attempt[c] < MaxRetries
    BY <1>0, <1>6 DEF ClientInv, CallOK, Wake, TypeOK
  <2>. QED
    BY <1>0, <1>1, <1>6, <2>1 DEF Wake, TypeOK, Semaphore
<1>7. ASSUME NEW c \in Calls, Capped(c) PROVE TypeOK'
  <2>1. /\ exhausted' \subseteq Models /\ told' \in [Calls -> SUBSET Models]
        /\ chain[c] \in Chains /\ attempt[c] \in 0..MaxRetries
    BY <1>0, <1>7 DEF Capped, TypeOK
  <2>2. CASE Finish(c, "limited")
    BY <1>3, <2>1, <2>2
  <2>3. ASSUME NEW to \in FirstUsable(chain[c], exhausted'), attempt[c] < MaxRetries, Switch(c, to)
        PROVE  TypeOK'
    <3>1. to \in Models
      BY <2>1, UsableModels
    <3>2. attempt[c] + 1 \in 0..MaxRetries
      BY <1>0, <2>1, <2>3
    <3>. QED
      BY <1>0, <1>1, <2>1, <2>3, <3>1, <3>2 DEF Switch, TypeOK, Semaphore
  <2>. QED
    BY <1>7, <2>2, <2>3 DEF Capped
<1>8. ASSUME NEW m \in Models, Lapse(m) PROVE TypeOK'
  BY <1>0, <1>8 DEF Lapse, TypeOK
<1>9. CASE UNCHANGED vars
  BY <1>0, <1>9 DEF vars, TypeOK
<1>. QED
  BY <1>2, <1>4, <1>5, <1>6, <1>7, <1>8, <1>9 DEF Next, Respond

LEMMA CallStep == ClientInv /\ [Next]_vars => \A c \in Calls : CallOK(c)'
<1>. SUFFICES ASSUME ClientInv, [Next]_vars, NEW d \in Calls PROVE CallOK(d)'
  OBVIOUS
<1>0. TypeOK /\ CallOK(d) /\ chain[d] \in Chains
  BY DEF ClientInv, TypeOK
<1>. USE DEF TypeOK, CallOK
<1>1. ASSUME NEW c \in Calls, Start(c) PROVE CallOK(d)'
  <2>1. CallOK(c)
    BY DEF ClientInv
  <2>2. PICK first : /\ model' = [model EXCEPT ![c] = first]
                     /\ effort' = [effort EXCEPT ![c] = first \in Reasoning]
    BY <1>1 DEF Start
  <2>. QED
    BY <1>0, <1>1, <2>1, <2>2 DEF Start
<1>2. ASSUME NEW c \in Calls, Answer(c) \/ Fail(c) \/ GiveUp(c) PROVE CallOK(d)'
  BY <1>0, <1>2 DEF Answer, Fail, GiveUp, Finish
<1>3. ASSUME NEW c \in Calls, Sleep(c) PROVE CallOK(d)'
  BY <1>0, <1>3 DEF Sleep, Posting
<1>4. ASSUME NEW c \in Calls, Wake(c) PROVE CallOK(d)'
  BY <1>0, <1>4 DEF Wake
<1>5. ASSUME NEW c \in Calls, Capped(c) PROVE CallOK(d)'
  <2>1. /\ told[d] \subseteq exhausted => told'[d] \subseteq exhausted'
        /\ d # c => told'[d] = told[d]
        /\ pc[c] = "asking"
    BY <1>0, <1>5 DEF Capped, Posting
  <2>2. CASE Finish(c, "limited")
    BY <1>0, <2>1, <2>2 DEF Finish
  <2>3. ASSUME NEW to \in FirstUsable(chain[c], exhausted'), Switch(c, to)
        PROVE  CallOK(d)'
    <3>1. to \notin exhausted'
      <4>1. chain[c] \in Chains
        BY <1>0
      <4>. QED
        BY <4>1, UsableModels
    <3>. QED
      BY <1>0, <2>1, <2>3, <3>1 DEF Switch
  <2>. QED
    BY <1>5, <2>2, <2>3 DEF Capped
<1>6. ASSUME NEW m \in Models, Lapse(m) PROVE CallOK(d)'
  BY <1>0, <1>6 DEF Lapse
<1>7. CASE UNCHANGED vars
  BY <1>0, <1>7 DEF vars
<1>. QED
  BY <1>1, <1>2, <1>3, <1>4, <1>5, <1>6, <1>7 DEF Next, Respond

(***************************************************************************)
(* The theorems.                                                           *)
(***************************************************************************)
\* ClientInv ties the semaphore to the calls that ask, and what a call was told to what
\* the process remembers.
THEOREM Consistency == SafeSpec => []ClientInv
<1>1. ClientInv /\ [Next]_vars => ClientInv'
  BY SlotsStep, TypeStep, CallStep DEF ClientInv
<1>. QED
  BY <1>1, InvInit, PTL DEF SafeSpec

\* Every reachable state is well typed: no call makes more than 1 + MaxRetries posts.
THEOREM TypeCorrect == SafeSpec => []TypeOK
<1>1. ClientInv => TypeOK
  BY DEF ClientInv
<1>. QED
  BY <1>1, Consistency, PTL

\* No slot is lost, and none is given out twice, on any path through the retry loop.
THEOREM SlotsKept == SafeSpec => []SlotsAccounted
<1>1. ClientInv => SlotsAccounted
  <2>. SUFFICES ASSUME ClientInv PROVE SlotsAccounted
    OBVIOUS
  <2>1. Serves(slots, Asking)
    BY DEF ClientInv
  <2>2. \A c \in Calls : InQueue(c) <=> c \in Queued(slots)
    BY DEF InQueue, Queued
  <2>. QED
    BY <2>1, <2>2 DEF Serves, Asking, SlotsAccounted
<1>. QED
  BY <1>1, Consistency, PTL

\* A call never goes back to a model that told it of its cap.
THEOREM CapHeeded == SafeSpec => []CapIsHeeded
<1>1. ClientInv => CapIsHeeded
  BY DEF ClientInv, CallOK, CapIsHeeded
<1>. QED
  BY <1>1, Consistency, PTL

\* reasoning_effort goes to reasoning models and to no other.
THEOREM EffortFits == SafeSpec => []EffortFitsModel
<1>1. ClientInv => EffortFitsModel
  BY DEF ClientInv, CallOK, EffortFitsModel
<1>. QED
  BY <1>1, Consistency, PTL

\* A call gives up for a rate limit only after its last attempt, or with every model of its
\* chain known to be over its cap.
THEOREM LimitsHaveCause == SafeSpec => LimitedForCause
<1> DEFINE Cause(c) == \/ attempt[c] = MaxRetries
                       \/ \A i \in DOMAIN chain[c] : chain[c][i] \in exhausted'
           Caused == \A c \in Calls : pc[c] = "asking" /\ pc'[c] = "limited" => Cause(c)
<1>1. ASSUME TypeOK, Next PROVE Caused
  <2>. SUFFICES ASSUME NEW c \in Calls, pc[c] = "asking", pc'[c] = "limited" PROVE Cause(c)
    OBVIOUS
  <2>1. pc \in [Calls -> {"new", "asking", "sleeping", "answered", "failed", "limited"}]
    BY <1>1 DEF TypeOK
  <2>2. GiveUp(c) \/ Capped(c)
    BY <1>1, <2>1 DEF Next, Respond, Start, Answer, Fail, Sleep, GiveUp, Wake, Capped, Lapse,
       Finish, Switch
  <2>3. CASE GiveUp(c)
    BY <2>3 DEF GiveUp
  <2>4. CASE Capped(c)
    <3>1. FirstUsable(chain[c], exhausted') = {} \/ attempt[c] = MaxRetries
      BY <2>1, <2>4 DEF Capped, Switch
    <3>2. chain[c] \in Chains
      BY <1>1 DEF TypeOK
    <3>. QED
      BY <3>1, <3>2, NoneUsable
  <2>. QED
    BY <2>2, <2>3, <2>4
<1>2. TypeOK /\ [Next]_vars => [Caused]_vars
  BY <1>1
<1>. QED
  BY <1>2, TypeCorrect, PTL DEF SafeSpec, LimitedForCause
===========================================================================

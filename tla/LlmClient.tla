----------------------------- MODULE LlmClient -----------------------------
(***************************************************************************)
(* OpenAICompatClient.chat of app/core/llm/openai_compat_client.py: calls  *)
(* from all requests of the process share a semaphore and a memory of the  *)
(* models known to be over their daily cap.  A call that meets a short     *)
(* rate limit sleeps without its slot; one that meets a daily cap goes on  *)
(* with the first model of its chain that is not known to be capped.       *)
(*                                                                         *)
(* From the answer of one post to the next await the code is one step: the *)
(* slot is given back, and perhaps asked for again, in a single action.    *)
(* Clocks are left out: a window in _exhausted_until may end at any time.  *)
(***************************************************************************)
EXTENDS Naturals, FiniteSets, Sequences

CONSTANTS Calls,       \* calls of chat()
          Models,
          Chains,      \* model lists a call may have: its model, then LLM_FALLBACK_MODEL
          Reasoning,   \* models that accept reasoning_effort
          Slots,       \* LLM_MAX_CONCURRENCY
          MaxRetries   \* _MAX_RATE_LIMIT_RETRIES

ASSUME LlmAssumption == /\ Chains \subseteq Seq(Models) \ {<<>>}
                        /\ Reasoning \subseteq Models
                        /\ Slots \in Nat \ {0}
                        /\ MaxRetries \in Nat

VARIABLES
    pc,         \* pc[c]: new, asking (in the slot's queue or in a post), sleeping,
                \* answered, failed (an error), limited (raised the provider's 429)
    chain,      \* chain[c]
    model,      \* model[c]: payload["model"]
    effort,     \* effort[c]: the payload carries reasoning_effort (LLM_REASONING_EFFORT is set)
    attempt,    \* attempt[c]: the loop's counter
    slots,      \* the semaphore: [free, holders, queue]
    exhausted,  \* models whose _exhausted_until lies ahead
    \* History variable.
    told        \* told[c]: exhausted models that c itself was told of

vars == <<pc, chain, model, effort, attempt, slots, exhausted, told>>

TypeOK == /\ pc \in [Calls -> {"new", "asking", "sleeping", "answered", "failed", "limited"}]
          /\ chain \in [Calls -> Chains]
          /\ model \in [Calls -> Models]
          /\ effort \in [Calls -> BOOLEAN]
          /\ attempt \in [Calls -> 0..MaxRetries]
          /\ slots \in [free: 0..Slots, holders: SUBSET Calls, queue: Seq(Calls)]
          /\ exhausted \subseteq Models
          /\ told \in [Calls -> SUBSET Models]

Init == /\ pc = [c \in Calls |-> "new"]
        /\ chain \in [Calls -> Chains]
        /\ model = [c \in Calls |-> Head(chain[c])]
        /\ effort = [c \in Calls |-> FALSE]
        /\ attempt = [c \in Calls |-> 0]
        /\ slots = [free |-> Slots, holders |-> {}, queue |-> <<>>]
        /\ exhausted = {}
        /\ told = [c \in Calls |-> {}]
---------------------------------------------------------------------------
(***************************************************************************)
(* asyncio.Semaphore: first come, first served; a released slot goes       *)
(* straight to the call that has waited longest.                           *)
(***************************************************************************)
Acquired(s, c) == IF s.free > 0
                  THEN [s EXCEPT !.free = @ - 1, !.holders = @ \cup {c}]
                  ELSE [s EXCEPT !.queue = Append(@, c)]

Released(s, c) == IF s.queue = <<>>
                  THEN [s EXCEPT !.free = @ + 1, !.holders = @ \ {c}]
                  ELSE [s EXCEPT !.holders = (@ \ {c}) \cup {Head(s.queue)},
                                 !.queue = Tail(@)]

Posting(c) == pc[c] = "asking" /\ c \in slots.holders
---------------------------------------------------------------------------
\* Only the fallbacks are considered: the call's own model is never gone back to.
MutantFirstUsable(models, capped) ==
    {models[i] : i \in {i \in 2..Len(models) : /\ models[i] \notin capped
                                               /\ \A k \in 2..(i - 1) : models[k] \in capped}}

\* The first model of a chain that is not known to be over its cap, if there is one.
FirstUsable(models, capped) ==
    {models[i] : i \in {i \in 1..Len(models) : /\ models[i] \notin capped
                                               /\ \A k \in 1..(i - 1) : models[k] \in capped}}

\* A chain without a usable model is tried from its start all the same.
Start(c) ==
    /\ pc[c] = "new"
    /\ LET usable == FirstUsable(chain[c], exhausted)
       IN  \E first \in IF usable = {} THEN {Head(chain[c])} ELSE usable :
               /\ model' = [model EXCEPT ![c] = first]
               /\ effort' = [effort EXCEPT ![c] = first \in Reasoning]
    /\ pc' = [pc EXCEPT ![c] = "asking"]
    /\ slots' = Acquired(slots, c)
    /\ UNCHANGED <<chain, attempt, exhausted, told>>

Finish(c, how) ==
    /\ pc' = [pc EXCEPT ![c] = how]
    /\ slots' = Released(slots, c)
    /\ UNCHANGED <<chain, model, effort, attempt>>

Answer(c) ==
    /\ Posting(c)
    /\ Finish(c, "answered")
    /\ UNCHANGED <<exhausted, told>>

\* Any status but 429, a connection error, a timeout, or a body that is no answer.
Fail(c) ==
    /\ Posting(c)
    /\ Finish(c, "failed")
    /\ UNCHANGED <<exhausted, told>>

\* The wait is inside `async with _llm_slot()`.
MutantSleep(c) ==
    /\ Posting(c)
    /\ attempt[c] < MaxRetries
    /\ pc' = [pc EXCEPT ![c] = "sleeping"]
    /\ UNCHANGED <<chain, model, effort, attempt, slots, exhausted, told>>

\* A 429 that asks for at most MAX_WAIT_S.
Sleep(c) ==
    /\ Posting(c)
    /\ attempt[c] < MaxRetries
    /\ pc' = [pc EXCEPT ![c] = "sleeping"]
    /\ slots' = Released(slots, c)
    /\ UNCHANGED <<chain, model, effort, attempt, exhausted, told>>

GiveUp(c) ==
    /\ Posting(c)
    /\ attempt[c] = MaxRetries
    /\ Finish(c, "limited")
    /\ UNCHANGED <<exhausted, told>>

Wake(c) ==
    /\ pc[c] = "sleeping"
    /\ pc' = [pc EXCEPT ![c] = "asking"]
    /\ attempt' = [attempt EXCEPT ![c] = @ + 1]
    /\ slots' = Acquired(slots, c)
    /\ UNCHANGED <<chain, model, effort, exhausted, told>>

\* The next post goes to the same model.
MutantSwitchStay(c, to) ==
    /\ attempt' = [attempt EXCEPT ![c] = @ + 1]
    /\ slots' = Acquired(Released(slots, c), c)
    /\ UNCHANGED <<pc, chain, model, effort>>

\* A switch does not count as an attempt.
MutantSwitchFree(c, to) ==
    /\ model' = [model EXCEPT ![c] = to]
    /\ effort' = [effort EXCEPT ![c] = to \in Reasoning]
    /\ slots' = Acquired(Released(slots, c), c)
    /\ UNCHANGED <<pc, attempt, chain>>

\* `continue`: the next turn of the loop posts to another model.
Switch(c, to) ==
    /\ model' = [model EXCEPT ![c] = to]
    /\ effort' = [effort EXCEPT ![c] = to \in Reasoning]
    /\ attempt' = [attempt EXCEPT ![c] = @ + 1]
    /\ slots' = Acquired(Released(slots, c), c)
    /\ UNCHANGED <<pc, chain>>

\* A 429 for the day, or one that asks for more than MAX_WAIT_S.
Capped(c) ==
    /\ Posting(c)
    /\ exhausted' = exhausted \cup {model[c]}
    /\ told' = [told EXCEPT ![c] = @ \cup {model[c]}]
    /\ LET usable == FirstUsable(chain[c], exhausted')
       IN  \/ /\ usable = {} \/ attempt[c] = MaxRetries
              /\ Finish(c, "limited")
           \/ /\ attempt[c] < MaxRetries
              /\ \E to \in usable : Switch(c, to)

\* A model's window ends.
Lapse(m) ==
    /\ m \in exhausted
    /\ exhausted' = exhausted \ {m}
    /\ told' = [c \in Calls |-> told[c] \ {m}]
    /\ UNCHANGED <<pc, chain, model, effort, attempt, slots>>
---------------------------------------------------------------------------
Respond(c) == Answer(c) \/ Fail(c) \/ Sleep(c) \/ GiveUp(c) \/ Capped(c)

Next == \/ \E c \in Calls : Start(c) \/ Respond(c) \/ Wake(c)
        \/ \E m \in Models : Lapse(m)

\* A post ends, if only at LLM_TIMEOUT_S; a sleep ends.
Fairness == \A c \in Calls : WF_vars(Respond(c)) /\ WF_vars(Wake(c))

SafeSpec == Init /\ [][Next]_vars
Spec == SafeSpec /\ Fairness
---------------------------------------------------------------------------
(***************************************************************************)
(* Properties.                                                             *)
(***************************************************************************)
InQueue(c) == \E i \in DOMAIN slots.queue : slots.queue[i] = c

\* Every slot is free or held by one call that is about to post or posting; nobody waits
\* while one is free; a call that sleeps or has ended, whichever way, holds none.
SlotsAccounted ==
    /\ slots.free + Cardinality(slots.holders) = Slots
    /\ slots.queue # <<>> => slots.free = 0
    /\ \A c \in Calls : /\ pc[c] = "asking" <=> c \in slots.holders \/ InQueue(c)
                        /\ ~(c \in slots.holders /\ InQueue(c))
    /\ \A i, k \in DOMAIN slots.queue : slots.queue[i] = slots.queue[k] => i = k

\* Whatever other calls learn meanwhile, a call does not go back to a model that has
\* told it of its cap before the window ends.
CapIsHeeded == \A c \in Calls : pc[c] \in {"asking", "sleeping"} => model[c] \notin told[c]

\* However often a call changed models, the parameter only reasoning models accept is
\* sent to those and to no other.
EffortFitsModel ==
    \A c \in Calls : pc[c] \in {"asking", "sleeping"} => effort[c] = (model[c] \in Reasoning)

\* docs/DEPLOYMENT_GUIDE.md:23-24, waits and switches: a call fails for a rate limit only when it
\* has used all its attempts or every model of its chain is known to be over its cap.
LimitedForCause ==
    [][\A c \in Calls :
          pc[c] = "asking" /\ pc'[c] = "limited"
              => \/ attempt[c] = MaxRetries
                 \/ \A i \in DOMAIN chain[c] : chain[c][i] \in exhausted']_vars

\* Every call ends, however the provider's limits come and go.
CallsEnd == \A c \in Calls : pc[c] = "asking" ~> pc[c] \in {"answered", "failed", "limited"}
===========================================================================

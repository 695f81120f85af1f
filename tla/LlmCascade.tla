------------------------------ MODULE LlmCascade ------------------------------
(***************************************************************************)
(* One chat / chat_json call: _cascade over the tiers, _call_tier's retry  *)
(* loop on one of them, and OpenRouter (external), which may answer, fail  *)
(* or hang.  Time is counted in ticks, a share is rounded down to one, and *)
(* a timer may fire late, when the event loop is busy with something else. *)
(***************************************************************************)
EXTENDS Integers, Sequences

CONSTANTS
  Configurations,  \* the functions tier -> model the settings may hold
  NodeDeadline,    \* llm_node_deadline_s, in ticks
  Attempts,        \* _ATTEMPTS_PER_TIER
  Base, Jitter,    \* _BACKOFF_BASE_S and _BACKOFF_JITTER_S, in ticks
  Lag              \* bound: how many ticks late a timer may fire

Tiers == {"primary", "fast", "fallback"}

\* A tick is short enough for every tier to have one.
ASSUME CascadeSettings ==
  /\ NodeDeadline \in Nat /\ NodeDeadline >= 3 /\ Attempts \in Nat \ {0}
  /\ Base \in Nat \ {0} /\ Jitter \in Nat /\ Lag \in Nat
  /\ \A models \in Configurations : DOMAIN models = Tiers

\* Arithmetic, stated because the provers have no rules for powers.
ASSUME PowersOfTwo == \A n \in 0..Attempts : 2^n \in Nat

\* The router tells "timeout" apart from the other stages it retries only in
\* what it reports: "upstream" is rate_limited, server_error and http_error.
Transient == {"upstream", "timeout"}

\* client_error, bad_response, upstream_error; invalid_json, schema_mismatch.
Permanent == {"other"}

VARIABLES
  models,    \* _configured_models
  order,     \* the tiers to try
  now,       \* ticks since the call began
  pc,        \* where the call is
  index,     \* the tier in progress, 1 for the first
  until,     \* the end of its share
  attempt,   \* failed attempts on it
  last,      \* why the latest of them failed
  wake,      \* when its backoff ends
  failures,  \* tiers given up: the stage reported, why, and the calls made
  late       \* history: some timer has fired late

vars == <<models, order, now, pc, index, until, attempt, last, wake,
          failures, late>>

Ended == {"answered", "exhausted", "cancelled"}

\* _CASCADE without the requested tier.
Others == [primary  |-> <<"fast", "fallback">>,
           fast     |-> <<"primary", "fallback">>,
           fallback |-> <<"primary", "fast">>]

\* A tier whose model is already in the order adds nothing.
Add(tiers, tier, m) ==
  IF \E i \in DOMAIN tiers : m[tiers[i]] = m[tier] THEN tiers ELSE Append(tiers, tier)

\* Mutant of CascadeOrder: two tiers naming one model are both tried.
CascadeOrderWithRepeats(requested, m) == <<requested>> \o Others[requested]

\* cascade_order: the requested tier, then the others; a model once.
CascadeOrder(requested, m) ==
  Add(Add(<<requested>>, Others[requested][1], m), Others[requested][2], m)

Init ==
  /\ models \in Configurations
  /\ \E requested \in Tiers : order = CascadeOrder(requested, models)
  /\ now = 0 /\ pc = "tier" /\ index = 0 /\ until = 0 /\ attempt = 0
  /\ last = "timeout" /\ wake = 0 /\ failures = <<>> /\ late = FALSE

\* Mutants of Share: a tier may use all that is left; every tier gets the same
\* part of the whole, whatever the ones before it took.
ShareOfAll == NodeDeadline - now
ShareOfTheWhole == NodeDeadline \div Len(order)

\* What is left, divided among the tiers that have not been tried.
Share == (NodeDeadline - now) \div (Len(order) - index)

StartTier ==
  /\ pc = "tier" /\ index < Len(order)
  /\ index' = index + 1
  /\ until' = now + Share
  /\ pc' = "attempt" /\ attempt' = 0 /\ last' = "timeout"
  /\ UNCHANGED <<models, order, now, wake, failures, late>>

Exhaust ==
  /\ pc = "tier" /\ index = Len(order)
  /\ pc' = "exhausted"
  /\ UNCHANGED <<models, order, now, index, until, attempt, last, wake,
                 failures, late>>

\* The LLMError that _call_tier (or read) raises, caught by _cascade.
GiveUp(stage, why, calls) ==
  /\ failures' = Append(failures, [tier |-> order[index], stage |-> stage,
                                   why |-> why, calls |-> calls])
  /\ pc' = "tier"

BeginAttempt ==
  /\ pc = "attempt"
  /\ IF until <= now
     THEN GiveUp(last, "no_time", attempt)
     ELSE pc' = "calling" /\ UNCHANGED failures
  /\ UNCHANGED <<models, order, now, index, until, attempt, last, wake, late>>

Answer ==
  /\ pc = "calling"
  /\ pc' = "answered"
  /\ UNCHANGED <<models, order, now, index, until, attempt, last, wake,
                 failures, late>>

\* A failure the same model would repeat, or a reply that read rejects.
FailForGood ==
  /\ pc = "calling"
  /\ \E stage \in Permanent : GiveUp(stage, "permanent", attempt + 1)
  /\ UNCHANGED <<models, order, now, index, until, attempt, last, wake, late>>

\* _backoff_s
Delays == {Base * 2^attempt + j : j \in 0..Jitter}

\* After a transient failure: back off if an attempt and the time are left.
RetryOrGiveUp(stage) ==
  \/ /\ attempt = Attempts - 1
     /\ GiveUp(stage, "attempts", attempt + 1)
     /\ UNCHANGED wake
  \/ /\ attempt < Attempts - 1
     /\ \E delay \in Delays :
          \/ now + delay >= until /\ GiveUp(stage, "backoff", attempt + 1) /\ UNCHANGED wake
          \/ /\ now + delay < until
             /\ pc' = "sleeping" /\ wake' = now + delay
             /\ UNCHANGED failures

FailForNow ==
  /\ pc = "calling"
  /\ \E stage \in Transient : last' = stage /\ RetryOrGiveUp(stage)
  /\ UNCHANGED <<models, order, now, index, until, attempt, late>>

\* Mutant of Cut: only the first attempt on a tier is under a timeout.
CutFirstAttempt ==
  /\ pc = "calling" /\ now >= until /\ attempt = 0
  /\ last' = "timeout"
  /\ RetryOrGiveUp("timeout")
  /\ UNCHANGED <<models, order, now, index, until, attempt, late>>

\* asyncio.timeout(left) ends the attempt.
Cut ==
  /\ pc = "calling" /\ now >= until
  /\ last' = "timeout"
  /\ RetryOrGiveUp("timeout")
  /\ UNCHANGED <<models, order, now, index, until, attempt, late>>

Wake ==
  /\ pc = "sleeping" /\ now >= wake
  /\ attempt' = attempt + 1
  /\ pc' = "attempt" /\ wake' = 0
  /\ UNCHANGED <<models, order, now, index, until, last, failures, late>>

\* Time passes only while the call waits; a timer that is due fires within Lag.
Due == IF pc = "calling" THEN until ELSE wake

Tick ==
  /\ pc \in {"calling", "sleeping"}
  /\ now < Due + Lag
  /\ now' = now + 1
  /\ late' = (late \/ now >= Due)
  /\ UNCHANGED <<models, order, pc, index, until, attempt, last, wake, failures>>

\* The debate's deadline, or the other branch's failure, cancels the node.
Cancel ==
  /\ pc \notin Ended
  /\ pc' = "cancelled"
  /\ UNCHANGED <<models, order, now, index, until, attempt, last, wake,
                 failures, late>>

\* The call is over: only then may it stop.
Returned == pc \in Ended /\ UNCHANGED vars

\* The router's own steps and its timers; OpenRouter's answers are not among them.
Step == StartTier \/ Exhaust \/ BeginAttempt \/ Cut \/ Wake \/ Tick

Next == Step \/ Answer \/ FailForGood \/ FailForNow \/ Cancel \/ Returned

Spec == Init /\ [][Next]_vars /\ WF_vars(Step)

-----------------------------------------------------------------------------
(* Properties                                                               *)

TypeOK ==
  /\ models \in Configurations /\ order \in Seq(Tiers)
  /\ now \in Nat /\ until \in Int /\ wake \in Int /\ late \in BOOLEAN
  /\ pc \in {"tier", "attempt", "calling", "sleeping"} \cup Ended
  /\ index \in 0..Len(order) /\ attempt \in 0..Attempts - 1
  /\ last \in Transient
  /\ failures \in Seq([tier : Tiers, stage : Transient \cup Permanent,
                       why : {"no_time", "permanent", "attempts", "backoff"},
                       calls : 0..Attempts])

\* Spec 04, rule 5: the whole cascade, retries and backoffs included, takes at
\* most the node's deadline.  Late timers do not add up over attempts and tiers:
\* only the last one shows.
WithinDeadline == now <= NodeDeadline + Lag

\* A model that was given up is never asked again in the same call, under the
\* name of another tier either.
GivenUpModelNotAsked ==
  pc = "calling" =>
    \A i \in DOMAIN failures : models[failures[i].tier] # models[order[index]]

\* The call fails only after every tier did, each named once and in order.  With
\* every timer on time no tier is ever found out of time: a hung or failing model
\* does not take the time of the next, and a backoff that is slept leaves time
\* for the attempt it was slept for.
ExhaustedAfterEveryTier ==
  /\ pc = "exhausted" => [i \in DOMAIN failures |-> failures[i].tier] = order
  /\ ~late => \A i \in DOMAIN failures :
                failures[i].why # "no_time" /\ failures[i].calls > 0

\* A tier that makes calls ends within the node's deadline, even when late timers
\* have left the ones after it nothing; a backoff ends within its tier's share.
SharesNest ==
  /\ pc = "attempt" => until <= NodeDeadline \/ until <= now
  /\ pc \in {"calling", "sleeping"} => until <= NodeDeadline
  /\ pc = "sleeping" => wake < until /\ attempt < Attempts - 1

\* The tiers given up are the ones before the one in progress, in order, and no
\* two tiers of the order name the same model.
FailuresFollowTheOrder ==
  /\ \A i, j \in DOMAIN order : i # j => models[order[i]] # models[order[j]]
  /\ \A i \in DOMAIN failures : failures[i].tier = order[i]
  /\ pc \in {"attempt", "calling", "sleeping"} =>
       index > 0 /\ Len(failures) = index - 1
  /\ pc \in {"tier", "exhausted"} => Len(failures) = index
  /\ pc = "exhausted" => index = Len(order)

\* The inductive invariant behind the bound and the order.
CascadeInv == WithinDeadline /\ SharesNest /\ FailuresFollowTheOrder

\* However OpenRouter behaves, hang included, the call ends.
CallEnds == pc = "tier" ~> pc \in Ended
=============================================================================

------------------------------ MODULE Gateway ------------------------------
(***************************************************************************)
(* GeminiAIGateway: model calls behind a circuit breaker and a budget that *)
(* all instances share through RedisCacheAdapter.                          *)
(*                                                                         *)
(* Every command to Redis is a step.  A call asks for the open flag, the   *)
(* cost and the tokens before it turns to Gemini, and records what it used *)
(* afterwards, by GET and SET; in between other calls go on.  A call that  *)
(* fails is counted by INCR; the first of a series gives the counter its   *)
(* time to live, the FailureThreshold-th sets the open flag, which expires *)
(* by itself.  Commands may fail, before or after they had their effect,   *)
(* and the instance of a call may crash at any moment.                     *)
(*                                                                         *)
(* A Call is a call slot.  Of stories one prompt is kept.                  *)
(***************************************************************************)
EXTENDS Naturals, FiniteSets

CONSTANTS Call,             \* calls that may be under way at once
          FailureThreshold, \* 5
          CostThreshold,    \* $0.50, in calls: a call costs 1
          TokenBudget,      \* 50000, in the tokens a call uses
          ResetTicks,       \* 60 s, in ticks of the clock
          MaxCalls          \* bound: calls that are begun

ASSUME CallAssumption == IsFiniteSet(Call)
ASSUME LimitsAssumption == /\ FailureThreshold \in Nat \ {0, 1}
                           /\ CostThreshold \in Nat \ {0}
                           /\ TokenBudget \in Nat \ {0}
                           /\ ResetTicks \in Nat \ {0}
                           /\ MaxCalls \in Nat

\* The time to live of a key: ticks that are left, or never.
Never == ResetTicks + 1

\* story caches its answer; a stream has no timeout of its own; thought and
\* structured differ from neither but in the model they ask.
Kind == {"story", "stream", "structured"}

Checking  == {"cache", "open", "cost", "tokens"}
Recording == {"forgive", "bump", "readTokens", "writeTokens",
              "readCost", "writeCost"}
Counting  == {"count", "expire", "trip"}
Place     == {"idle", "refuse", "asked", "parse", "store"}
                 \cup Checking \cup Recording \cup Counting

VARIABLES open,      \* ticks the open flag has left, 0: not set
          failures,  \* the failure counter, 0: no key
          counterTtl,\* ticks it has left, Never: no time to live yet
          tokens,    \* the recorded tokens
          cost,      \* the recorded cost
          cached,    \* the story of the prompt is in the cache
          at,        \* Call -> where it is
          kind,      \* Call -> what it is
          read,      \* Call -> the last value it read
          begun,     \* number of calls begun
          spent,     \* history: answers that Gemini has charged for
          blurred,   \* history: a cost was lost, overwritten or expired
          slipped    \* history: a failure was not counted to its end

breaker == <<open, failures, counterTtl>>
usage == <<tokens, cost>>
history == <<spent, blurred, slipped>>
vars == <<open, failures, counterTtl, tokens, cost, cached, at, kind, read,
          begun, spent, blurred, slipped>>

\* A counter is there exactly as long as it has a time to live, or none yet.
KeysTyped ==
    /\ open \in 0 .. ResetTicks
    /\ failures \in Nat
    /\ counterTtl \in 0 .. Never
    /\ failures = 0 <=> counterTtl = 0
    /\ tokens \in Nat
    /\ cost \in Nat

CallsTyped ==
    /\ at \in [Call -> Place]
    /\ kind \in [Call -> Kind]
    /\ read \in [Call -> Nat]

CountsTyped ==
    /\ begun \in 0 .. MaxCalls
    /\ spent \in Nat

FlagsTyped ==
    /\ cached \in BOOLEAN
    /\ blurred \in BOOLEAN
    /\ slipped \in BOOLEAN

TypeOK == KeysTyped /\ CallsTyped /\ CountsTyped /\ FlagsTyped

Init ==
    /\ open = 0
    /\ failures = 0
    /\ counterTtl = 0
    /\ tokens = 0
    /\ cost = 0
    /\ cached = FALSE
    /\ at = [c \in Call |-> "idle"]
    /\ kind = [c \in Call |-> "structured"]
    /\ read = [c \in Call |-> 0]
    /\ begun = 0
    /\ spent = 0
    /\ blurred = FALSE
    /\ slipped = FALSE

-----------------------------------------------------------------------------
\* A call goes on at a place.  What it has read serves the next step only,
\* what it is no further than its failure; an idle slot is free.
Goto(c, place) ==
    /\ at' = [at EXCEPT ![c] = place]
    /\ read' = [read EXCEPT ![c] = 0]
    /\ kind' = [kind EXCEPT ![c] = IF place \in Counting \cup {"idle"}
                                      THEN "structured" ELSE @]

GotoWith(c, place, value) ==
    /\ at' = [at EXCEPT ![c] = place]
    /\ read' = [read EXCEPT ![c] = value]
    /\ UNCHANGED kind

\* What a call that fails here leaves undone.
Slips(c) ==
    /\ blurred' = (blurred \/ at[c] \in Recording)
    /\ slipped' = (slipped \/ at[c] \in Counting)

\* An error in recordSuccess is caught and counted as a failure of the call.
Break(c) == Goto(c, "count") /\ Slips(c)

\* A command that only reads: it answers, or fails and throws.
GetFails(c) ==
    /\ at[c] \in Checking \cup {"readTokens", "readCost"}
    /\ Goto(c, IF at[c] \in Checking THEN "idle" ELSE "count")
    /\ Slips(c)
    /\ UNCHANGED <<breaker, usage, cached, begun, spent>>

Begin(c, k) ==
    /\ at[c] = "idle"
    /\ begun < MaxCalls
    /\ begun' = begun + 1
    /\ at' = [at EXCEPT ![c] = IF k = "story" THEN "cache" ELSE "open"]
    /\ kind' = [kind EXCEPT ![c] = k]
    /\ UNCHANGED <<breaker, usage, cached, read, history>>

\* generateStory: a story in the cache is answered before the breaker is
\* asked.
LookUp(c) ==
    /\ at[c] = "cache"
    /\ Goto(c, IF cached THEN "idle" ELSE "open")
    /\ UNCHANGED <<breaker, usage, cached, begun, history>>

\* checkCircuitBreaker
CheckOpen(c) ==
    /\ at[c] = "open"
    /\ Goto(c, IF open > 0 THEN "idle" ELSE "cost")
    /\ UNCHANGED <<breaker, usage, cached, begun, history>>

\* Mutation: the threshold itself may still be spent.
CheckCostAbove(c) ==
    /\ at[c] = "cost"
    /\ Goto(c, IF cost > CostThreshold THEN "refuse" ELSE "tokens")
    /\ UNCHANGED <<breaker, usage, cached, begun, history>>

CheckCost(c) ==
    /\ at[c] = "cost"
    /\ Goto(c, IF cost >= CostThreshold THEN "refuse" ELSE "tokens")
    /\ UNCHANGED <<breaker, usage, cached, begun, history>>

CheckTokens(c) ==
    /\ at[c] = "tokens"
    /\ Goto(c, IF tokens >= TokenBudget THEN "refuse" ELSE "asked")
    /\ UNCHANGED <<breaker, usage, cached, begun, history>>

\* openCircuit, for the budget or for the failures; the call fails anyway.
\* The SET may be lost, and for the failures that is a slip.
OpenCircuit(c) ==
    /\ at[c] \in {"refuse", "trip"}
    /\ Goto(c, "idle")
    /\ \/ open' = ResetTicks /\ UNCHANGED slipped
       \/ open' = open /\ slipped' = (slipped \/ at[c] = "trip")
    /\ UNCHANGED <<failures, counterTtl, usage, cached, begun,
                   spent, blurred>>

-----------------------------------------------------------------------------
(* Gemini                                                                  *)

\* The answer comes, with or without the usage that is to be recorded.
Answer(c) ==
    /\ at[c] = "asked"
    /\ \/ Goto(c, "forgive") /\ spent' = spent + 1
       \/ Goto(c, "parse") /\ spent' = spent
    /\ UNCHANGED <<breaker, usage, cached, begun, blurred, slipped>>

\* Mutation: a structured answer is not raced against the timeout.
FaultUnlessStructured(c) ==
    /\ at[c] = "asked"
    /\ kind[c] # "structured"
    /\ Goto(c, "count")
    /\ UNCHANGED <<breaker, usage, cached, begun, history>>

\* An error, the timeout, or for a stream a chunk that comes after it.
Fault(c) ==
    /\ at[c] = "asked"
    /\ Goto(c, "count")
    /\ UNCHANGED <<breaker, usage, cached, begun, history>>

-----------------------------------------------------------------------------
(* recordSuccess                                                           *)

\* Mutation: the counter is set to 0, which makes a key without an end.
ForgiveBySet(c) ==
    /\ at[c] = "forgive"
    /\ failures' = 0 /\ counterTtl' = Never
    /\ Goto(c, "bump")
    /\ UNCHANGED <<open, usage, cached, begun, history>>

\* DEL failures
Forgive(c) ==
    /\ at[c] = "forgive"
    /\ \/ /\ failures' = 0 /\ counterTtl' = 0
          /\ \/ Goto(c, "bump") /\ UNCHANGED <<blurred, slipped>>
             \/ Break(c)
       \/ /\ UNCHANGED <<failures, counterTtl>>
          /\ Break(c)
    /\ UNCHANGED <<open, usage, cached, begun, spent>>

\* INCR tokens: one token too many, before the others are added.
Bump(c) ==
    /\ at[c] = "bump"
    /\ \/ /\ tokens' = tokens + 1
          /\ \/ Goto(c, "readTokens") /\ UNCHANGED <<blurred, slipped>>
             \/ Break(c)
       \/ /\ UNCHANGED tokens
          /\ Break(c)
    /\ UNCHANGED <<breaker, cost, cached, begun, spent>>

ReadTokens(c) ==
    /\ at[c] = "readTokens"
    /\ GotoWith(c, "writeTokens", tokens)
    /\ UNCHANGED <<breaker, usage, cached, begun, history>>

WriteTokens(c) ==
    /\ at[c] = "writeTokens"
    /\ \/ /\ tokens' = read[c] + 1
          /\ \/ Goto(c, "readCost") /\ UNCHANGED <<blurred, slipped>>
             \/ Break(c)
       \/ /\ UNCHANGED tokens
          /\ Break(c)
    /\ UNCHANGED <<breaker, cost, cached, begun, spent>>

ReadCost(c) ==
    /\ at[c] = "readCost"
    /\ GotoWith(c, "writeCost", cost)
    /\ UNCHANGED <<breaker, usage, cached, begun, history>>

\* What others have recorded since the read is overwritten.
WriteCost(c) ==
    /\ at[c] = "writeCost"
    /\ \/ /\ cost' = read[c] + 1
          /\ blurred' = (blurred \/ cost # read[c])
          /\ Goto(c, "parse") \/ Goto(c, "count")
       \/ /\ UNCHANGED cost
          /\ blurred' = TRUE
          /\ Goto(c, "count")
    /\ UNCHANGED <<breaker, tokens, cached, begun, spent, slipped>>

-----------------------------------------------------------------------------
\* A stream has been handed on already; any other answer is parsed and
\* checked against its schema, and a story is stored.
Parse(c) ==
    /\ at[c] = "parse"
    /\ \/ Goto(c, IF kind[c] = "story" THEN "store" ELSE "idle")
       \/ kind[c] # "stream" /\ Goto(c, "count")
    /\ UNCHANGED <<breaker, usage, cached, begun, history>>

StoreStory(c) ==
    /\ at[c] = "store"
    /\ \/ cached' = TRUE /\ (Goto(c, "idle") \/ Goto(c, "count"))
       \/ UNCHANGED cached /\ Goto(c, "count")
    /\ UNCHANGED <<breaker, usage, begun, history>>

-----------------------------------------------------------------------------
(* recordFailure                                                           *)

\* Mutation: the counter gets no time to live.
AfterCountEndless(n) == IF n >= FailureThreshold THEN "trip" ELSE "idle"

\* What follows the n-th failure of a series.
AfterCount(n) ==
    IF n = 1 THEN "expire" ELSE IF n >= FailureThreshold THEN "trip" ELSE "idle"

\* INCR failures
Count(c) ==
    /\ at[c] = "count"
    /\ \/ /\ failures' = failures + 1
          /\ counterTtl' = IF failures = 0 THEN Never ELSE counterTtl
          /\ \/ Goto(c, AfterCount(failures + 1)) /\ UNCHANGED slipped
             \/ Goto(c, "idle") /\ slipped' = TRUE
       \/ /\ UNCHANGED <<failures, counterTtl>>
          /\ Goto(c, "idle") /\ slipped' = TRUE
    /\ UNCHANGED <<open, usage, cached, begun, spent, blurred>>

\* EXPIRE failures, by the call that made the key; a slip if it is lost or
\* comes when the counter has gone on.
Expire(c) ==
    /\ at[c] = "expire"
    /\ Goto(c, "idle")
    /\ \/ /\ counterTtl' = IF failures = 0 THEN 0 ELSE ResetTicks
          /\ slipped' = (slipped \/ failures > 1) \/ slipped' = TRUE
       \/ UNCHANGED counterTtl /\ slipped' = TRUE
    /\ UNCHANGED <<open, failures, usage, cached, begun, spent, blurred>>

-----------------------------------------------------------------------------
\* The instance of a call crashes.
Crash(c) ==
    /\ at[c] # "idle"
    /\ Goto(c, "idle")
    /\ Slips(c)
    /\ UNCHANGED <<breaker, usage, cached, begun, spent>>

\* Time passes for the keys with a time to live.
Tick ==
    /\ open > 0 \/ counterTtl \in 1 .. ResetTicks
    /\ open' = IF open = 0 THEN 0 ELSE open - 1
    /\ counterTtl' = IF counterTtl \in 1 .. ResetTicks THEN counterTtl - 1
                                                       ELSE counterTtl
    /\ failures' = IF counterTtl = 1 THEN 0 ELSE failures
    /\ UNCHANGED <<usage, cached, at, kind, read, begun, history>>

\* A day after the last success its totals are forgotten.
UsageExpires ==
    /\ tokens > 0 \/ cost > 0
    /\ tokens' = 0
    /\ cost' = 0
    /\ blurred' = (blurred \/ cost > 0)
    /\ UNCHANGED <<breaker, cached, at, kind, read, begun, spent, slipped>>

\* Half an hour after it was stored so is the story.
StoryExpires ==
    /\ cached
    /\ cached' = FALSE
    /\ UNCHANGED <<breaker, usage, at, kind, read, begun, history>>

-----------------------------------------------------------------------------
Step(c) ==
    \/ LookUp(c) \/ CheckOpen(c) \/ CheckCost(c) \/ CheckTokens(c)
    \/ OpenCircuit(c) \/ GetFails(c)
    \/ Forgive(c) \/ Bump(c) \/ ReadTokens(c) \/ WriteTokens(c)
    \/ ReadCost(c) \/ WriteCost(c) \/ Parse(c) \/ StoreStory(c)
    \/ Count(c) \/ Expire(c)

Next ==
    \/ \E c \in Call : \/ \E k \in Kind : Begin(c, k)
                       \/ Step(c) \/ Answer(c) \/ Fault(c) \/ Crash(c)
    \/ Tick \/ UsageExpires \/ StoryExpires

Spec == Init /\ [][Next]_vars

\* Redis answers or its client gives up.  Gemini may be silent for ever: the
\* timeout ends the wait, unless it is a stream that is waited for.
Fairness ==
    \A c \in Call : /\ WF_vars(Step(c))
                    /\ WF_vars(kind[c] # "stream" /\ Fault(c))

FairSpec == Spec /\ Fairness

-----------------------------------------------------------------------------
(* Properties                                                              *)

\* Answers that are charged and not yet recorded.
Unrecorded == {c \in Call : at[c] \in Recording}

\* The recorded cost and what is being recorded is what was spent, unless a
\* write fell between the GET and the SET of another call, a call failed or
\* died while it recorded, or a day has passed (recordSuccess).
SpendAccounted == ~ blurred => cost + Cardinality(Unrecorded) = spent

\* As long as no cost was lost, the budget is overrun by the calls that were
\* under way when it was reached and by no more, however they interleave:
\* the check is made before the call and the cost recorded after it
\* (checkCircuitBreaker, recordSuccess).
OverrunBounded == ~ blurred => spent < CostThreshold + Cardinality(Call)

\* A breaker that closes starts anew: a counter at the threshold never
\* outlives the open flag it has set, so that a single failure would open
\* it again, unless a count slipped (recordFailure, RedisCacheAdapter).
FreshStart ==
    ~ slipped /\ failures >= FailureThreshold =>
        \/ open >= counterTtl
        \/ \E c \in Call : at[c] \in {"expire", "trip"}

\* A call that has begun ends; only a stream may wait for its next chunk
\* forever, for its timeout is looked at when a chunk comes.
CallsEnd ==
    \A c \in Call :
        []<>(at[c] = "idle" \/ (at[c] = "asked" /\ kind[c] = "stream"))
=============================================================================

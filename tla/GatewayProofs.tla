--------------------------- MODULE GatewayProofs ---------------------------
(***************************************************************************)
(* What holds of the gateway for any number of calls, any thresholds and   *)
(* any time to live: what is spent, how the breaker closes, and that a     *)
(* call goes from place to place towards its end.                          *)
(***************************************************************************)
EXTENDS Gateway, FiniteSetTheorems, TLAPS

USE CallAssumption, LimitsAssumption

\* The calls that a map takes to one of some places.
CallsAt(f, S) == {c \in Call : f[c] \in S}

\* Calls that the cost has let pass and Gemini has not answered.
Waiting == {"tokens", "asked"}
Passed == CallsAt(at, Waiting)

\* What was spent and what may still be spent before a call is refused.
Bounded == ~ blurred => spent + Cardinality(Passed) < CostThreshold + Cardinality(Call)

\* A counter without a time to live has a call that is about to give it one.
Expiring == ~ slipped /\ counterTtl = Never => \E c \in Call : at[c] = "expire"

Inv == TypeOK /\ SpendAccounted /\ Bounded /\ Expiring /\ FreshStart

One(x, S) == IF x \in S THEN 1 ELSE 0

-----------------------------------------------------------------------------
(* Counting the calls at a set of places                                   *)

\* Between two maps only c has moved, to p.
Moves(f, g, c, p) == \A d \in Call : g[d] = IF d = c THEN p ELSE f[d]

\* One call that moves changes a count by what it leaves and enters.
LEMMA CountMoves ==
    ASSUME NEW f, NEW g, NEW c \in Call, NEW p, NEW S, Moves(f, g, c, p)
    PROVE  Cardinality(CallsAt(g, S))
               = Cardinality(CallsAt(f, S)) + One(p, S) - One(f[c], S)
<1> DEFINE R == CallsAt(f, S) \ {c}
<1>1. IsFiniteSet(CallsAt(f, S)) /\ IsFiniteSet(CallsAt(g, S)) /\ IsFiniteSet(R)
      BY FS_Subset DEF CallsAt
<1>2. /\ Cardinality(R) \in Nat
      /\ Cardinality(R \cup {c}) = Cardinality(R) + 1
      BY <1>1, FS_CardinalityType, FS_AddElement
<1>3. CallsAt(f, S) = IF f[c] \in S THEN R \cup {c} ELSE R
      BY DEF CallsAt
<1>4. CallsAt(g, S) = IF p \in S THEN R \cup {c} ELSE R
      BY DEF CallsAt, Moves
<1> HIDE DEF R
<1>5. Cardinality(CallsAt(f, S)) = Cardinality(R) + One(f[c], S)
      BY <1>2, <1>3 DEF One
<1>6. Cardinality(CallsAt(g, S)) = Cardinality(R) + One(p, S)
      BY <1>2, <1>4 DEF One
<1> QED BY <1>2, <1>5, <1>6 DEF One

\* A call waits, records or does neither.
LEMMA CountsFit ==
    ASSUME NEW f
    PROVE  /\ Cardinality(CallsAt(f, Recording)) \in Nat
           /\ Cardinality(CallsAt(f, Waiting)) \in Nat
           /\ Cardinality(CallsAt(f, Recording)) + Cardinality(CallsAt(f, Waiting))
                  <= Cardinality(Call)
<1> DEFINE U == CallsAt(f, Recording)
           P == CallsAt(f, Waiting)
<1>1. IsFiniteSet(U) /\ IsFiniteSet(P)
      BY FS_Subset DEF CallsAt
<1>2. U \cap P = {}
      BY DEF CallsAt, Recording, Waiting
<1>3. Cardinality(U \cup P) = Cardinality(U) + Cardinality(P) - Cardinality(U \cap P)
      BY <1>1, FS_Union
<1>4. Cardinality(U \cap P) = 0
      BY <1>2, FS_EmptySet
<1>5. U \cup P \subseteq Call
      BY DEF CallsAt
<1>6. Cardinality(U \cup P) <= Cardinality(Call)
      BY <1>5, FS_Subset
<1> QED BY <1>1, <1>3, <1>4, <1>6, FS_CardinalityType

\* What a call that moves changes in the two counts.
LEMMA CallMoves ==
    ASSUME NEW c \in Call, NEW p, Moves(at, at', c, p)
    PROVE  /\ Cardinality(Unrecorded') = Cardinality(Unrecorded)
                                            + One(p, Recording) - One(at[c], Recording)
           /\ Cardinality(Passed') = Cardinality(Passed)
                                        + One(p, Waiting) - One(at[c], Waiting)
           /\ Cardinality(Unrecorded) \in Nat
           /\ Cardinality(Passed) \in Nat
           /\ Cardinality(Unrecorded') \in Nat
           /\ Cardinality(Passed') \in Nat
           /\ Cardinality(Unrecorded') + Cardinality(Passed') <= Cardinality(Call)
<1>1. Unrecorded = CallsAt(at, Recording) /\ Unrecorded' = CallsAt(at', Recording)
      BY DEF Unrecorded, CallsAt
<1>2. Passed' = CallsAt(at', Waiting)
      BY DEF Passed, CallsAt
<1>3. \A S : Cardinality(CallsAt(at', S))
                = Cardinality(CallsAt(at, S)) + One(p, S) - One(at[c], S)
      BY CountMoves
<1>4. /\ Cardinality(CallsAt(at, Recording)) \in Nat
      /\ Cardinality(CallsAt(at, Waiting)) \in Nat
      /\ Cardinality(CallsAt(at', Recording)) \in Nat
      /\ Cardinality(CallsAt(at', Waiting)) \in Nat
      /\ Cardinality(CallsAt(at', Recording)) + Cardinality(CallsAt(at', Waiting))
             <= Cardinality(Call)
      BY CountsFit
<1> QED BY <1>1, <1>2, <1>3, <1>4 DEF Passed

\* A call that goes to a place moves there alone.
LEMMA GotoMoves ==
    ASSUME TypeOK, NEW c \in Call, NEW p, Goto(c, p) \/ (\E v : GotoWith(c, p, v))
    PROVE  Moves(at, at', c, p)
BY DEF TypeOK, CallsTyped, Goto, GotoWith, Moves

-----------------------------------------------------------------------------
(* Types                                                                   *)

\* A call that moves keeps the types of its place, kind and value.
LEMMA GotoTyped ==
    ASSUME TypeOK, NEW c \in Call, NEW p \in Place, Goto(c, p)
    PROVE  CallsTyped'
BY DEF TypeOK, CallsTyped, Goto, Kind

\* A call that goes on with a value it has read stays well typed.
LEMMA ReadTyped ==
    ASSUME TypeOK, NEW c \in Call, NEW p \in Place, NEW v \in Nat, GotoWith(c, p, v)
    PROVE  CallsTyped'
BY DEF TypeOK, CallsTyped, GotoWith

\* A breaker without keys is well typed.
LEMMA TypeInit == Init => TypeOK
<1> SUFFICES ASSUME Init PROVE TypeOK
    OBVIOUS
<1>1. KeysTyped
      BY DEF Init, KeysTyped, Never
<1>2. CallsTyped
      BY DEF Init, CallsTyped, Place, Kind
<1>3. CountsTyped
      BY DEF Init, CountsTyped
<1>4. FlagsTyped
      BY DEF Init, FlagsTyped
<1> QED BY <1>1, <1>2, <1>3, <1>4 DEF TypeOK

\* Every command, expiry and crash keeps the types.
LEMMA TypeStep == TypeOK /\ [Next]_vars => TypeOK'
<1> SUFFICES ASSUME TypeOK, [Next]_vars PROVE TypeOK'
    OBVIOUS
<1>1. CASE UNCHANGED vars
      BY <1>1 DEF TypeOK, KeysTyped, CallsTyped, CountsTyped, FlagsTyped, vars
<1>2. CASE Tick
  <2>1. KeysTyped'
        BY <1>2 DEF TypeOK, KeysTyped, Tick, usage, Never
  <2>2. CallsTyped' /\ CountsTyped'
        BY <1>2 DEF TypeOK, CallsTyped, CountsTyped, Tick, history
  <2>3. FlagsTyped'
        BY <1>2 DEF TypeOK, FlagsTyped, Tick, history
  <2> QED BY <2>1, <2>2, <2>3 DEF TypeOK
<1>3. CASE UsageExpires \/ StoryExpires
  <2>1. KeysTyped'
        BY <1>3 DEF TypeOK, KeysTyped, UsageExpires, StoryExpires, breaker, usage
  <2>2. CallsTyped' /\ CountsTyped'
        BY <1>3 DEF TypeOK, CallsTyped, CountsTyped, UsageExpires, StoryExpires, history
  <2>3. FlagsTyped'
        BY <1>3 DEF TypeOK, FlagsTyped, UsageExpires, StoryExpires, history
  <2> QED BY <2>1, <2>2, <2>3 DEF TypeOK
<1>4. ASSUME NEW c \in Call, NEW k \in Kind, Begin(c, k)
      PROVE  TypeOK'
  <2>1. CallsTyped'
        BY <1>4 DEF TypeOK, CallsTyped, Begin, Place, Checking
  <2>2. KeysTyped'
        BY <1>4 DEF TypeOK, KeysTyped, Begin, breaker, usage
  <2>3. CountsTyped'
        BY <1>4 DEF TypeOK, CountsTyped, Begin, history
  <2>4. FlagsTyped'
        BY <1>4 DEF TypeOK, FlagsTyped, Begin, Slips, Break, history
  <2> QED BY <2>1, <2>2, <2>3, <2>4 DEF TypeOK
<1>5. ASSUME NEW c \in Call, LookUp(c) \/ CheckOpen(c) \/ CheckCost(c) \/ CheckTokens(c)
      PROVE  TypeOK'
  <2>1. \E p \in Place : Goto(c, p)
        BY <1>5 DEF LookUp, CheckOpen, CheckCost, CheckTokens, Place, Checking, Recording, Counting
  <2>2. KeysTyped'
        BY <1>5 DEF TypeOK, KeysTyped, LookUp, CheckOpen, CheckCost, CheckTokens, breaker, usage
  <2>3. CountsTyped'
        BY <1>5 DEF TypeOK, CountsTyped, LookUp, CheckOpen, CheckCost, CheckTokens, history
  <2>4. FlagsTyped'
        BY <1>5 DEF TypeOK, FlagsTyped, LookUp, CheckOpen, CheckCost, CheckTokens, Slips, Break, history
  <2> QED BY <2>1, GotoTyped, <2>2, <2>3, <2>4 DEF TypeOK
<1>6. ASSUME NEW c \in Call, GetFails(c) \/ OpenCircuit(c)
      PROVE  TypeOK'
  <2>1. \E p \in Place : Goto(c, p)
        BY <1>6 DEF GetFails, OpenCircuit, Place, Checking, Recording, Counting
  <2>2. KeysTyped'
        BY <1>6 DEF TypeOK, KeysTyped, GetFails, OpenCircuit, breaker, usage
  <2>3. CountsTyped'
        BY <1>6 DEF TypeOK, CountsTyped, GetFails, OpenCircuit, history
  <2>4. FlagsTyped'
        BY <1>6 DEF TypeOK, FlagsTyped, GetFails, OpenCircuit, Slips, Break, history
  <2> QED BY <2>1, GotoTyped, <2>2, <2>3, <2>4 DEF TypeOK
<1>7. ASSUME NEW c \in Call, Answer(c) \/ Fault(c) \/ Crash(c)
      PROVE  TypeOK'
  <2>1. \E p \in Place : Goto(c, p)
        BY <1>7 DEF Answer, Fault, Crash, Place, Checking, Recording, Counting
  <2>2. KeysTyped'
        BY <1>7 DEF TypeOK, KeysTyped, Answer, Fault, Crash, breaker, usage
  <2>3. CountsTyped'
        BY <1>7 DEF TypeOK, CountsTyped, Answer, Fault, Crash, history
  <2>4. FlagsTyped'
        BY <1>7 DEF TypeOK, FlagsTyped, Answer, Fault, Crash, Slips, Break, history
  <2> QED BY <2>1, GotoTyped, <2>2, <2>3, <2>4 DEF TypeOK
<1>8. ASSUME NEW c \in Call, Forgive(c) \/ Bump(c)
      PROVE  TypeOK'
  <2>1. \E p \in Place : Goto(c, p)
        BY <1>8 DEF Forgive, Bump, Place, Checking, Recording, Counting, Break
  <2>2. KeysTyped'
        BY <1>8 DEF TypeOK, KeysTyped, Forgive, Bump, breaker, usage, Never
  <2>3. CountsTyped'
        BY <1>8 DEF TypeOK, CountsTyped, Forgive, Bump, history
  <2>4. FlagsTyped'
        BY <1>8 DEF TypeOK, FlagsTyped, Forgive, Bump, Slips, Break, history
  <2> QED BY <2>1, GotoTyped, <2>2, <2>3, <2>4 DEF TypeOK
<1>9. ASSUME NEW c \in Call, ReadTokens(c) \/ ReadCost(c)
      PROVE  TypeOK'
  <2>1. \E p \in Place, v \in Nat : GotoWith(c, p, v)
        BY <1>9 DEF TypeOK, KeysTyped, ReadTokens, ReadCost, Place, Checking, Recording, Counting
  <2>2. KeysTyped'
        BY <1>9 DEF TypeOK, KeysTyped, ReadTokens, ReadCost, breaker, usage
  <2>3. CountsTyped'
        BY <1>9 DEF TypeOK, CountsTyped, ReadTokens, ReadCost, history
  <2>4. FlagsTyped'
        BY <1>9 DEF TypeOK, FlagsTyped, ReadTokens, ReadCost, Slips, Break, history
  <2> QED BY <2>1, ReadTyped, <2>2, <2>3, <2>4 DEF TypeOK
<1>10. ASSUME NEW c \in Call, WriteTokens(c) \/ WriteCost(c)
      PROVE  TypeOK'
  <2>1. \E p \in Place : Goto(c, p)
        BY <1>10 DEF WriteTokens, WriteCost, Place, Checking, Recording, Counting, Break
  <2>2. KeysTyped'
        BY <1>10 DEF TypeOK, KeysTyped, WriteTokens, WriteCost, breaker, usage, CallsTyped
  <2>3. CountsTyped'
        BY <1>10 DEF TypeOK, CountsTyped, WriteTokens, WriteCost, history
  <2>4. FlagsTyped'
        BY <1>10 DEF TypeOK, FlagsTyped, WriteTokens, WriteCost, Slips, Break, history
  <2> QED BY <2>1, GotoTyped, <2>2, <2>3, <2>4 DEF TypeOK
<1>11. ASSUME NEW c \in Call, Parse(c) \/ StoreStory(c)
      PROVE  TypeOK'
  <2>1. \E p \in Place : Goto(c, p)
        BY <1>11 DEF Parse, StoreStory, Place, Checking, Recording, Counting
  <2>2. KeysTyped'
        BY <1>11 DEF TypeOK, KeysTyped, Parse, StoreStory, breaker, usage
  <2>3. CountsTyped'
        BY <1>11 DEF TypeOK, CountsTyped, Parse, StoreStory, history
  <2>4. FlagsTyped'
        BY <1>11 DEF TypeOK, FlagsTyped, Parse, StoreStory, Slips, Break, history
  <2> QED BY <2>1, GotoTyped, <2>2, <2>3, <2>4 DEF TypeOK
<1>12. ASSUME NEW c \in Call, Count(c) \/ Expire(c)
      PROVE  TypeOK'
  <2>1. \E p \in Place : Goto(c, p)
        BY <1>12 DEF Count, Expire, Place, Checking, Recording, Counting, AfterCount
  <2>2. KeysTyped'
    <3>1. CASE Count(c)
          BY <3>1 DEF TypeOK, KeysTyped, Count, usage, Never
    <3>2. CASE Expire(c)
          BY <3>2 DEF TypeOK, KeysTyped, Expire, usage, Never
    <3> QED BY <1>12, <3>1, <3>2
  <2>3. CountsTyped'
        BY <1>12 DEF TypeOK, CountsTyped, Count, Expire, history
  <2>4. FlagsTyped'
        BY <1>12 DEF TypeOK, FlagsTyped, Count, Expire, Slips, Break, history
  <2> QED BY <2>1, GotoTyped, <2>2, <2>3, <2>4 DEF TypeOK
<1> QED BY <1>1, <1>2, <1>3, <1>4, <1>5, <1>6, <1>7, <1>8, <1>9, <1>10, <1>11,
           <1>12 DEF Next, Step

-----------------------------------------------------------------------------
(* The budget                                                              *)

\* A step of a call that records nothing, loses nothing and lets nobody pass.
LEMMA QuietMove ==
    ASSUME TypeOK, SpendAccounted, Bounded, NEW c \in Call, NEW p,
           Moves(at, at', c, p),
           cost' = cost, spent' = spent, blurred' = blurred,
           One(p, Recording) = One(at[c], Recording),
           One(p, Waiting) <= One(at[c], Waiting)
    PROVE  SpendAccounted' /\ Bounded'
<1>1. cost \in Nat /\ spent \in Nat
      BY DEF TypeOK, KeysTyped, CountsTyped
<1>2. Cardinality(Call) \in Nat /\ CostThreshold \in Nat
      BY FS_CardinalityType
<1>3. One(p, Recording) \in {0, 1} /\ One(p, Waiting) \in {0, 1} /\ One(at[c], Waiting) \in {0, 1}
      BY DEF One
<1> QED BY <1>1, <1>2, <1>3, CallMoves DEF SpendAccounted, Bounded

\* Nothing is claimed once a cost was lost.
LEMMA BlurredStays == ASSUME blurred' = TRUE PROVE SpendAccounted' /\ Bounded'
BY DEF SpendAccounted, Bounded

\* Every step keeps the ledger and the bound on what was spent.
LEMMA MoneyStep ==
    ASSUME TypeOK, SpendAccounted, Bounded, [Next]_vars
    PROVE  SpendAccounted' /\ Bounded'
<1> DEFINE Goal == SpendAccounted' /\ Bounded'
<1>1. CASE at' = at /\ cost' = cost /\ spent' = spent /\ blurred' = blurred
      BY <1>1 DEF SpendAccounted, Bounded, Unrecorded, Passed, CallsAt
<1>2. CASE UNCHANGED vars \/ Tick \/ StoryExpires
      BY <1>1, <1>2 DEF vars, Tick, StoryExpires, usage, history
<1>3. CASE UsageExpires
  <2>1. CASE cost > 0
        BY <1>3, <2>1, BlurredStays DEF UsageExpires
  <2>2. CASE ~ cost > 0
        BY <1>1, <1>3, <2>2 DEF UsageExpires, TypeOK, KeysTyped, FlagsTyped
  <2> QED BY <2>1, <2>2
<1>4. ASSUME NEW c \in Call, NEW k \in Kind, Begin(c, k) PROVE Goal
  <2> DEFINE p == IF k = "story" THEN "cache" ELSE "open"
  <2>1. Moves(at, at', c, p)
        BY <1>4 DEF Begin, Moves, TypeOK, CallsTyped
  <2>2. /\ One(p, Recording) = One(at[c], Recording)
        /\ One(p, Waiting) <= One(at[c], Waiting)
        BY <1>4 DEF Begin, One, Recording, Waiting
  <2> QED BY <1>4, <2>1, <2>2, QuietMove DEF Begin, usage, history
<1>5. ASSUME NEW c \in Call, LookUp(c) \/ CheckOpen(c) \/ CheckTokens(c)
      PROVE  Goal
  <2>1. PICK p : /\ Goto(c, p)
                 /\ One(p, Recording) = One(at[c], Recording)
                 /\ One(p, Waiting) <= One(at[c], Waiting)
        BY <1>5 DEF LookUp, CheckOpen, CheckTokens, One, Recording, Waiting, Checking, Counting
  <2>2. cost' = cost /\ spent' = spent /\ blurred' = blurred
        BY <1>5 DEF LookUp, CheckOpen, CheckTokens, usage, history
  <2> QED BY <2>1, <2>2, GotoMoves, QuietMove
<1>6. ASSUME NEW c \in Call, OpenCircuit(c) \/ Fault(c)
      PROVE  Goal
  <2>1. PICK p : /\ Goto(c, p)
                 /\ One(p, Recording) = One(at[c], Recording)
                 /\ One(p, Waiting) <= One(at[c], Waiting)
        BY <1>6 DEF OpenCircuit, Fault, One, Recording, Waiting, Checking, Counting
  <2>2. cost' = cost /\ spent' = spent /\ blurred' = blurred
        BY <1>6 DEF OpenCircuit, Fault, usage, history
  <2> QED BY <2>1, <2>2, GotoMoves, QuietMove
<1>7. ASSUME NEW c \in Call, Parse(c) \/ StoreStory(c)
      PROVE  Goal
  <2>1. PICK p : /\ Goto(c, p)
                 /\ One(p, Recording) = One(at[c], Recording)
                 /\ One(p, Waiting) <= One(at[c], Waiting)
        BY <1>7 DEF Parse, StoreStory, One, Recording, Waiting, Checking, Counting
  <2>2. cost' = cost /\ spent' = spent /\ blurred' = blurred
        BY <1>7 DEF Parse, StoreStory, usage, history
  <2> QED BY <2>1, <2>2, GotoMoves, QuietMove
<1>8. ASSUME NEW c \in Call, Count(c) \/ Expire(c)
      PROVE  Goal
  <2>1. PICK p : /\ Goto(c, p)
                 /\ One(p, Recording) = One(at[c], Recording)
                 /\ One(p, Waiting) <= One(at[c], Waiting)
        BY <1>8 DEF Count, Expire, One, Recording, Waiting, Checking, Counting, AfterCount
  <2>2. cost' = cost /\ spent' = spent /\ blurred' = blurred
        BY <1>8 DEF Count, Expire, usage, history
  <2> QED BY <2>1, <2>2, GotoMoves, QuietMove
<1>9. ASSUME NEW c \in Call, GetFails(c) \/ Crash(c) PROVE Goal
  <2>1. CASE at[c] \in Recording
        BY <1>9, <2>1, BlurredStays DEF GetFails, Crash, Slips
  <2>2. CASE at[c] \notin Recording
    <3>1. PICK p : /\ Goto(c, p)
                   /\ One(p, Recording) = One(at[c], Recording)
                   /\ One(p, Waiting) <= One(at[c], Waiting)
          BY <1>9, <2>2 DEF GetFails, Crash, One, Recording, Waiting, Checking
    <3>2. cost' = cost /\ spent' = spent
          BY <1>9 DEF GetFails, Crash, usage
    <3>3. blurred' = blurred
          BY <1>9, <2>2 DEF GetFails, Crash, Slips, TypeOK, FlagsTyped
    <3> QED BY <3>1, <3>2, <3>3, GotoMoves, QuietMove
  <2> QED BY <2>1, <2>2
<1>10. ASSUME NEW c \in Call, Forgive(c) \/ Bump(c) \/ WriteTokens(c) PROVE Goal
  <2>1. CASE Break(c)
        BY <1>10, <2>1, BlurredStays DEF Break, Slips, Forgive, Bump, WriteTokens, Recording
  <2>2. CASE ~ Break(c)
    <3>1. PICK p \in {"bump", "readTokens", "readCost"} : Goto(c, p)
          BY <1>10, <2>2 DEF Forgive, Bump, WriteTokens
    <3>2. /\ One(p, Recording) = One(at[c], Recording)
          /\ One(p, Waiting) <= One(at[c], Waiting)
          BY <1>10, <3>1 DEF Forgive, Bump, WriteTokens, One, Recording, Waiting
    <3>3. cost' = cost /\ spent' = spent /\ blurred' = blurred
          BY <1>10, <2>2 DEF Forgive, Bump, WriteTokens, usage
    <3> QED BY <3>1, <3>2, <3>3, GotoMoves, QuietMove
  <2> QED BY <2>1, <2>2
<1>11. ASSUME NEW c \in Call, ReadTokens(c) \/ ReadCost(c) PROVE Goal
  <2>1. PICK p : /\ \E v : GotoWith(c, p, v)
                 /\ One(p, Recording) = One(at[c], Recording)
                 /\ One(p, Waiting) <= One(at[c], Waiting)
        BY <1>11 DEF ReadTokens, ReadCost, One, Recording, Waiting
  <2>2. cost' = cost /\ spent' = spent /\ blurred' = blurred
        BY <1>11 DEF ReadTokens, ReadCost, usage, history
  <2> QED BY <2>1, <2>2, GotoMoves, QuietMove
<1> HIDE DEF Goal
<1>12. cost \in Nat /\ spent \in Nat /\ CostThreshold \in Nat \ {0} /\ Cardinality(Call) \in Nat
       BY FS_CardinalityType DEF TypeOK, KeysTyped, CountsTyped
<1>13. ASSUME NEW c \in Call, CheckCost(c) PROVE Goal
  <2>1. CASE cost >= CostThreshold
    <3>1. Goto(c, "refuse") /\ at[c] = "cost"
          BY <1>13, <2>1 DEF CheckCost
    <3>2. /\ One("refuse", Recording) = One(at[c], Recording)
          /\ One("refuse", Waiting) <= One(at[c], Waiting)
          BY <3>1 DEF One, Recording, Waiting
    <3> QED BY <1>13, <3>1, <3>2, GotoMoves, QuietMove DEF CheckCost, usage, history, Goal
  <2>2. CASE ~ cost >= CostThreshold
    <3>1. Goto(c, "tokens") /\ at[c] = "cost"
          BY <1>13, <2>2 DEF CheckCost
    <3>2. /\ One("tokens", Recording) = 0 /\ One(at[c], Recording) = 0
          /\ One("tokens", Waiting) = 1 /\ One(at[c], Waiting) = 0
          BY <3>1 DEF One, Recording, Waiting
    <3>3. Moves(at, at', c, "tokens")
          BY <3>1, GotoMoves
    <3>4. cost' = cost /\ spent' = spent /\ blurred' = blurred
          BY <1>13 DEF CheckCost, usage, history
    <3> QED BY <1>12, <2>2, <3>2, <3>3, <3>4, CallMoves DEF SpendAccounted, Bounded, Goal
  <2> QED BY <2>1, <2>2
<1>14. ASSUME NEW c \in Call, Answer(c) PROVE Goal
  <2>1. CASE Goto(c, "forgive") /\ spent' = spent + 1
    <3>1. /\ One("forgive", Recording) = 1 /\ One(at[c], Recording) = 0
          /\ One("forgive", Waiting) = 0 /\ One(at[c], Waiting) = 1
          BY <1>14 DEF Answer, One, Recording, Waiting
    <3>2. Moves(at, at', c, "forgive")
          BY <2>1, GotoMoves
    <3>3. cost' = cost /\ blurred' = blurred
          BY <1>14 DEF Answer, usage
    <3> QED BY <1>12, <2>1, <3>1, <3>2, <3>3, CallMoves DEF SpendAccounted, Bounded, Goal
  <2>2. CASE Goto(c, "parse") /\ spent' = spent
    <3>1. /\ One("parse", Recording) = One(at[c], Recording)
          /\ One("parse", Waiting) <= One(at[c], Waiting)
          BY <1>14 DEF Answer, One, Recording, Waiting
    <3> QED BY <1>14, <2>2, <3>1, GotoMoves, QuietMove DEF Answer, usage, Goal
  <2> QED BY <1>14, <2>1, <2>2 DEF Answer
<1>15. ASSUME NEW c \in Call, WriteCost(c) PROVE Goal
  <2>1. CASE blurred'
        BY <2>1 DEF Goal, SpendAccounted, Bounded
  <2>2. CASE ~ blurred'
    <3>1. cost' = cost + 1 /\ spent' = spent /\ ~ blurred
          BY <1>12, <1>15, <2>2 DEF WriteCost
    <3>2. PICK p \in {"parse", "count"} : Goto(c, p)
          BY <1>15 DEF WriteCost
    <3>3. /\ One(p, Recording) = 0 /\ One(at[c], Recording) = 1
          /\ One(p, Waiting) = 0 /\ One(at[c], Waiting) = 0
          BY <1>15, <3>2 DEF WriteCost, One, Recording, Waiting
    <3>4. Moves(at, at', c, p)
          BY <3>2, GotoMoves
    <3> QED BY <1>12, <3>1, <3>3, <3>4, CallMoves DEF SpendAccounted, Bounded, Goal
  <2> QED BY <2>1, <2>2
<1> QED BY <1>2, <1>3, <1>4, <1>5, <1>6, <1>7, <1>8, <1>9, <1>10, <1>11, <1>13,
           <1>14, <1>15 DEF Next, Step, Goal

-----------------------------------------------------------------------------
(* The breaker                                                             *)

\* Nothing is claimed once a count has slipped.
LEMMA SlippedStays == ASSUME slipped' = TRUE PROVE Expiring' /\ FreshStart'
BY DEF Expiring, FreshStart

\* A step that touches no counter and takes no call from where it counts.
LEMMA CalmMove ==
    ASSUME TypeOK, Expiring, FreshStart,
           failures' = failures, counterTtl' = counterTtl, slipped' = slipped,
           open' >= open, open' \in Nat,
           \A d \in Call : at[d] \in {"expire", "trip"} => at'[d] = at[d]
    PROVE  Expiring' /\ FreshStart'
<1>1. open \in Nat /\ counterTtl \in Nat /\ failures \in Nat
      BY DEF TypeOK, KeysTyped, Never
<1>2. Expiring'
      BY DEF Expiring
<1>3. FreshStart'
      BY <1>1 DEF FreshStart
<1> QED BY <1>2, <1>3

\* Every step keeps a counter on its way to expire, and the breaker to start anew.
LEMMA BreakerStep ==
    ASSUME TypeOK, Expiring, FreshStart, [Next]_vars
    PROVE  Expiring' /\ FreshStart'
<1> DEFINE Goal == Expiring' /\ FreshStart'
<1>1. /\ open \in Nat /\ counterTtl \in 0 .. Never /\ failures \in Nat
      /\ failures = 0 <=> counterTtl = 0
      /\ ResetTicks \in Nat \ {0} /\ FailureThreshold \in Nat \ {0, 1}
      /\ Never = ResetTicks + 1
      BY DEF TypeOK, KeysTyped, Never
<1>2. CASE UNCHANGED vars \/ UsageExpires \/ StoryExpires
      BY <1>1, <1>2, CalmMove DEF vars, UsageExpires, StoryExpires, breaker, history
<1>3. CASE Tick
  <2>1. slipped' = slipped /\ at' = at
        BY <1>3 DEF Tick, history
  <2>2. counterTtl' = Never => counterTtl = Never
        BY <1>1, <1>3 DEF Tick
  <2>3. Expiring'
        BY <2>1, <2>2 DEF Expiring
  <2>4. ASSUME ~ slipped', failures' >= FailureThreshold PROVE
            open' >= counterTtl' \/ \E c \in Call : at'[c] \in {"expire", "trip"}
    <3>1. failures' = failures /\ counterTtl # 1
          BY <1>1, <1>3, <2>4 DEF Tick
    <3>2. CASE counterTtl = Never
          BY <2>1, <2>4, <3>2 DEF Expiring
    <3>3. CASE counterTtl # Never /\ open >= counterTtl
          BY <1>1, <1>3, <3>1, <3>3 DEF Tick
    <3>4. CASE \E c \in Call : at[c] \in {"expire", "trip"}
          BY <2>1, <3>4
    <3> QED BY <2>1, <2>4, <3>1, <3>2, <3>3, <3>4 DEF FreshStart
  <2>5. FreshStart'
        BY <2>4 DEF FreshStart
  <2> QED BY <2>3, <2>5
<1>4. ASSUME NEW c \in Call, NEW k \in Kind, Begin(c, k) PROVE Goal
  <2>1. \A d \in Call : at[d] \in {"expire", "trip"} => at'[d] = at[d]
        BY <1>4 DEF Begin, TypeOK, CallsTyped
  <2> QED BY <1>1, <1>4, <2>1, CalmMove DEF Begin, breaker, history
<1>5. ASSUME NEW c \in Call, NEW p, Goto(c, p) \/ (\E v : GotoWith(c, p, v)),
             at[c] \notin {"expire", "trip"}
      PROVE  \A d \in Call : at[d] \in {"expire", "trip"} => at'[d] = at[d]
      BY <1>5, GotoMoves DEF Moves
<1>6. ASSUME NEW c \in Call, LookUp(c) \/ CheckOpen(c) \/ CheckCost(c) \/ CheckTokens(c)
      PROVE  Goal
  <2>1. (\E p : Goto(c, p)) /\ at[c] \notin {"expire", "trip"}
        BY <1>6 DEF LookUp, CheckOpen, CheckCost, CheckTokens
  <2> QED BY <1>1, <1>5, <1>6, <2>1, CalmMove
          DEF LookUp, CheckOpen, CheckCost, CheckTokens, breaker, history
<1>7. ASSUME NEW c \in Call, Answer(c) \/ Fault(c) \/ Parse(c) \/ StoreStory(c)
      PROVE  Goal
  <2>1. (\E p : Goto(c, p)) /\ at[c] \notin {"expire", "trip"}
        BY <1>7 DEF Answer, Fault, Parse, StoreStory
  <2> QED BY <1>1, <1>5, <1>7, <2>1, CalmMove
          DEF Answer, Fault, Parse, StoreStory, breaker, history
<1>8. ASSUME NEW c \in Call, ReadTokens(c) \/ ReadCost(c) PROVE Goal
  <2>1. (\E p, v : GotoWith(c, p, v)) /\ at[c] \notin {"expire", "trip"}
        BY <1>8 DEF ReadTokens, ReadCost
  <2> QED BY <1>1, <1>5, <1>8, <2>1, CalmMove DEF ReadTokens, ReadCost, breaker, history
<1>9. ASSUME NEW c \in Call, GetFails(c) \/ Bump(c) \/ WriteTokens(c) \/ WriteCost(c)
      PROVE  Goal
  <2>1. (\E p : Goto(c, p)) /\ at[c] \notin {"expire", "trip"}
        BY <1>9 DEF GetFails, Bump, WriteTokens, WriteCost, Break, Checking
  <2>2. slipped' = slipped
        BY <1>9 DEF GetFails, Bump, WriteTokens, WriteCost, Break, Slips, Checking,
                    Counting, TypeOK, FlagsTyped
  <2>3. failures' = failures /\ counterTtl' = counterTtl /\ open' = open
        BY <1>9 DEF GetFails, Bump, WriteTokens, WriteCost, breaker
  <2> QED BY <1>1, <1>5, <2>1, <2>2, <2>3, CalmMove
<1>10. ASSUME NEW c \in Call, Forgive(c) PROVE Goal
  <2>1. (\E p : Goto(c, p)) /\ at[c] = "forgive"
        BY <1>10 DEF Forgive, Break
  <2>2. slipped' = slipped /\ open' = open
        BY <1>10 DEF Forgive, Break, Slips, Counting, TypeOK, FlagsTyped
  <2>3. CASE failures' = failures /\ counterTtl' = counterTtl
        BY <1>1, <1>5, <2>1, <2>2, <2>3, CalmMove
  <2>4. CASE failures' = 0 /\ counterTtl' = 0
        BY <1>1, <2>4 DEF Expiring, FreshStart
  <2> QED BY <1>10, <2>3, <2>4 DEF Forgive
<1>11. ASSUME NEW c \in Call, Count(c) PROVE Goal
  <2>1. CASE slipped' = TRUE
        BY <2>1, SlippedStays
  <2>2. CASE /\ failures' = failures + 1
             /\ counterTtl' = IF failures = 0 THEN Never ELSE counterTtl
             /\ Goto(c, AfterCount(failures + 1))
             /\ slipped' = slipped
    <3>1. \A d \in Call : at'[d] = IF d = c THEN AfterCount(failures + 1) ELSE at[d]
          BY <2>2 DEF Goto, TypeOK, CallsTyped
    <3>2. at[c] = "count"
          BY <1>11 DEF Count
    <3>3. Expiring'
      <4>1. CASE failures = 0
            BY <2>2, <3>1, <4>1 DEF AfterCount, Expiring
      <4>2. CASE failures # 0
            BY <2>2, <3>1, <3>2, <4>2 DEF Expiring
      <4> QED BY <4>1, <4>2
    <3>4. FreshStart'
      <4>1. failures' >= FailureThreshold => at'[c] = "trip"
            BY <1>1, <2>2, <3>1 DEF AfterCount
      <4> QED BY <4>1 DEF FreshStart
    <3> QED BY <3>3, <3>4
  <2> QED BY <1>11, <2>1, <2>2 DEF Count
<1>12. ASSUME NEW c \in Call, Expire(c) PROVE Goal
  <2>1. CASE slipped' = TRUE
        BY <2>1, SlippedStays
  <2>2. CASE slipped' # TRUE
    <3>1. /\ counterTtl' = IF failures = 0 THEN 0 ELSE ResetTicks
          /\ slipped' = (slipped \/ failures > 1)
          /\ failures' = failures
          BY <1>12, <2>2 DEF Expire
    <3>2. failures <= 1
      <4>1. ~ failures > 1
            BY <2>2, <3>1, Zenon
      <4> QED BY <1>1, <4>1
    <3>3. counterTtl' # Never
          BY <1>1, <3>1
    <3> QED BY <1>1, <3>1, <3>2, <3>3 DEF Expiring, FreshStart
  <2> QED BY <2>1, <2>2
<1>13. ASSUME NEW c \in Call, OpenCircuit(c) PROVE Goal
  <2>1. CASE slipped' = TRUE
        BY <2>1, SlippedStays
  <2>2. CASE slipped' # TRUE
    <3>1. /\ failures' = failures /\ counterTtl' = counterTtl
          /\ at[c] \in {"refuse", "trip"} /\ Goto(c, "idle")
          BY <1>13 DEF OpenCircuit
    <3>2. \A d \in Call : at'[d] = IF d = c THEN "idle" ELSE at[d]
          BY <3>1 DEF Goto, TypeOK, CallsTyped
    <3>3. slipped' = slipped
          BY <1>13, <2>2 DEF OpenCircuit, TypeOK, FlagsTyped
    <3>4. Expiring'
          BY <3>1, <3>2, <3>3 DEF Expiring
    <3>5. CASE open' = open /\ at[c] # "trip"
      <4>1. \A d \in Call : at[d] \in {"expire", "trip"} => at'[d] = at[d]
            BY <3>1, <3>2, <3>5
      <4> QED BY <1>1, <3>1, <3>3, <3>5, <4>1, CalmMove
    <3>6. CASE open' = ResetTicks
      <4>1. CASE counterTtl = Never
            BY <3>1, <3>4, <4>1 DEF Expiring, FreshStart
      <4>2. CASE counterTtl # Never
        <5>1. open' >= counterTtl'
              BY <1>1, <3>1, <3>6, <4>2
        <5> QED BY <3>4, <5>1 DEF FreshStart
      <4> QED BY <4>1, <4>2
    <3> QED BY <1>13, <2>2, <3>5, <3>6 DEF OpenCircuit
  <2> QED BY <2>1, <2>2
<1>14. ASSUME NEW c \in Call, Crash(c) PROVE Goal
  <2>1. CASE at[c] \in Counting
        BY <1>14, <2>1, SlippedStays DEF Crash, Slips
  <2>2. CASE at[c] \notin Counting
    <3>1. Goto(c, "idle") /\ at[c] \notin {"expire", "trip"}
          BY <1>14, <2>2 DEF Crash, Counting
    <3>2. slipped' = slipped
          BY <1>14, <2>2 DEF Crash, Slips, TypeOK, FlagsTyped
    <3>3. failures' = failures /\ counterTtl' = counterTtl /\ open' = open
          BY <1>14 DEF Crash, breaker
    <3> QED BY <1>1, <1>5, <3>1, <3>2, <3>3, CalmMove
  <2> QED BY <2>1, <2>2
<1> HIDE DEF Goal
<1> QED BY <1>2, <1>3, <1>4, <1>6, <1>7, <1>8, <1>9, <1>10, <1>11, <1>12, <1>13,
           <1>14 DEF Next, Step, Goal

-----------------------------------------------------------------------------
(* Theorems                                                                *)

\* A breaker without keys has nothing to account for.
LEMMA InvInit == Init => Inv
<1> SUFFICES ASSUME Init PROVE Inv
    OBVIOUS
<1>1. TypeOK
      BY TypeInit
<1>2. CallsAt(at, Recording) = {} /\ CallsAt(at, Waiting) = {}
      BY DEF Init, CallsAt, Recording, Waiting
<1>3. Unrecorded = CallsAt(at, Recording)
      BY DEF Unrecorded, CallsAt
<1>4. Cardinality(Unrecorded) = 0 /\ Cardinality(Passed) = 0
      BY <1>2, <1>3, FS_EmptySet DEF Passed
<1>5. SpendAccounted /\ Bounded
      BY <1>4, FS_CardinalityType DEF Init, SpendAccounted, Bounded
<1>6. Expiring /\ FreshStart
      BY DEF Init, Expiring, FreshStart, Never
<1> QED BY <1>1, <1>5, <1>6 DEF Inv

\* Every step keeps the whole invariant.
LEMMA InvStep == Inv /\ [Next]_vars => Inv'
BY TypeStep, MoneyStep, BreakerStep DEF Inv

\* It holds in every reachable state.
LEMMA Invariance == Spec => []Inv
<1> QED BY InvInit, InvStep, PTL DEF Spec

\* The breaker's keys, the calls and the counts stay in their types, and a
\* failure counter is never there without a place for its time to live.
THEOREM TypeCorrect == Spec => []TypeOK
BY Invariance, PTL DEF Inv

\* What was spent is recorded or being recorded, unless a write was lost or
\* overwritten: recordSuccess accounts for every answer.
THEOREM SpendAlwaysAccounted == Spec => []SpendAccounted
BY Invariance, PTL DEF Inv

\* However many calls interleave, the budget is overrun by fewer calls than
\* may be under way at once, as long as no cost was lost.
THEOREM OverrunAlwaysBounded == Spec => []OverrunBounded
<1>1. Inv => OverrunBounded
  <2>1. Cardinality(Passed) \in Nat
        BY CountsFit DEF Passed
  <2> QED BY <2>1, FS_CardinalityType
          DEF Inv, TypeOK, CountsTyped, Bounded, OverrunBounded
<1> QED BY <1>1, Invariance, PTL

\* A breaker that closes by itself closes with a counter below the
\* threshold, unless a count slipped.
THEOREM StartsAlwaysFresh == Spec => []FreshStart
BY Invariance, PTL DEF Inv

-----------------------------------------------------------------------------
(* What CallsEnd rests on: the safety half of it.                          *)

\* How many places may be left for a call, from checkCircuitBreaker over Gemini
\* and recordSuccess to recordFailure.
PlacesLeft(place) ==
    CASE place = "cache"       -> 15
      [] place = "open"        -> 14
      [] place = "cost"        -> 13
      [] place = "tokens"      -> 12
      [] place = "asked"       -> 11
      [] place = "forgive"     -> 10
      [] place = "bump"        -> 9
      [] place = "readTokens"  -> 8
      [] place = "writeTokens" -> 7
      [] place = "readCost"    -> 6
      [] place = "writeCost"   -> 5
      [] place = "parse"       -> 4
      [] place = "store"       -> 3
      [] place = "count"       -> 2
      [] place \in {"expire", "trip", "refuse"} -> 1
      [] place = "idle"        -> 0

OwnStep(c) == Step(c) \/ Answer(c) \/ Fault(c) \/ Crash(c)

\* A step of a call takes it nearer to its end, and nothing else moves it: no
\* error in recordSuccess or recordFailure starts a round of its own, and
\* whatever other calls and the expiries write, no call goes back to ask again.
RunsDown ==
    [][\A c \in Call :
          /\ OwnStep(c) => PlacesLeft(at'[c]) < PlacesLeft(at[c])
          /\ at'[c] # at[c] => at[c] = "idle" \/ OwnStep(c)]_vars

\* A call that moves is nearer to its end, and the others stay.
Nearer(c) ==
    /\ PlacesLeft(at'[c]) < PlacesLeft(at[c])
    /\ \A d \in Call \ {c} : at'[d] = at[d]

\* A call that goes to a place with less left is nearer to its end.
LEMMA GotoNearer ==
    ASSUME TypeOK, NEW c \in Call, NEW p,
           Goto(c, p) \/ (\E v : GotoWith(c, p, v)), PlacesLeft(p) < PlacesLeft(at[c])
    PROVE  Nearer(c)
<1>1. at'[c] = p /\ \A d \in Call \ {c} : at'[d] = at[d]
      BY DEF TypeOK, CallsTyped, Goto, GotoWith
<1> QED BY <1>1 DEF Nearer

\* Every command, answer, error and crash of a call leads to a later place.
LEMMA OwnStepNearer ==
    ASSUME TypeOK, NEW c \in Call, OwnStep(c)
    PROVE  Nearer(c)
<1>1. at[c] \in Place
      BY DEF TypeOK, CallsTyped
<1>2. ASSUME LookUp(c) \/ CheckOpen(c) \/ CheckCost(c) \/ CheckTokens(c) \/ OpenCircuit(c)
      PROVE  Nearer(c)
  <2>1. PICK p : Goto(c, p) /\ PlacesLeft(p) < PlacesLeft(at[c])
        BY <1>2 DEF LookUp, CheckOpen, CheckCost, CheckTokens, OpenCircuit, PlacesLeft
  <2> QED BY <2>1, GotoNearer
<1>3. ASSUME GetFails(c) \/ Crash(c)
      PROVE  Nearer(c)
  <2>1. PICK p \in {"idle", "count"} :
            /\ Goto(c, p)
            /\ at[c] # "idle"
            /\ p = "count" => at[c] \in {"readTokens", "readCost"}
        BY <1>3 DEF GetFails, Crash, Checking
  <2>2. PlacesLeft(p) < PlacesLeft(at[c])
        BY <1>1, <2>1 DEF PlacesLeft, Place, Checking, Recording, Counting
  <2> QED BY <2>1, <2>2, GotoNearer
<1>4. ASSUME Answer(c) \/ Fault(c)
      PROVE  Nearer(c)
  <2>1. PICK p : Goto(c, p) /\ PlacesLeft(p) < PlacesLeft(at[c])
        BY <1>4 DEF Answer, Fault, PlacesLeft
  <2> QED BY <2>1, GotoNearer
<1>5. ASSUME Forgive(c) \/ Bump(c) \/ WriteTokens(c) \/ WriteCost(c)
      PROVE  Nearer(c)
  <2>1. PICK p : Goto(c, p) /\ PlacesLeft(p) < PlacesLeft(at[c])
        BY <1>5 DEF Forgive, Bump, WriteTokens, WriteCost, Break, PlacesLeft
  <2> QED BY <2>1, GotoNearer
<1>6. ASSUME ReadTokens(c) \/ ReadCost(c)
      PROVE  Nearer(c)
  <2>1. PICK p, v : GotoWith(c, p, v) /\ PlacesLeft(p) < PlacesLeft(at[c])
        BY <1>6 DEF ReadTokens, ReadCost, PlacesLeft
  <2> QED BY <2>1, GotoNearer
<1>7. ASSUME Parse(c) \/ StoreStory(c)
      PROVE  Nearer(c)
  <2>1. PICK p : Goto(c, p) /\ PlacesLeft(p) < PlacesLeft(at[c])
        BY <1>7 DEF Parse, StoreStory, PlacesLeft
  <2> QED BY <2>1, GotoNearer
<1>8. ASSUME Count(c) \/ Expire(c)
      PROVE  Nearer(c)
  <2>1. PICK p : Goto(c, p) /\ PlacesLeft(p) < PlacesLeft(at[c])
        BY <1>8 DEF Count, Expire, AfterCount, PlacesLeft
  <2> QED BY <2>1, GotoNearer
<1> QED BY <1>2, <1>3, <1>4, <1>5, <1>6, <1>7, <1>8 DEF OwnStep, Step

\* A call makes fifteen steps at the most, whatever happens around it: the
\* errors it meets in its bookkeeping never send it back.  With the fairness
\* of its steps this is what CallsEnd says.
THEOREM CallsRunDown == Spec => RunsDown
<1> DEFINE Down == \A c \in Call :
               /\ OwnStep(c) => PlacesLeft(at'[c]) < PlacesLeft(at[c])
               /\ at'[c] # at[c] => at[c] = "idle" \/ OwnStep(c)
<1>1. TypeOK /\ [Next]_vars => [Down]_vars
  <2> SUFFICES ASSUME TypeOK, Next PROVE Down
      OBVIOUS
  <2>1. ASSUME NEW c \in Call, OwnStep(c)
        PROVE  PlacesLeft(at'[c]) < PlacesLeft(at[c])
        BY <2>1, OwnStepNearer DEF Nearer
  <2>2. ASSUME NEW c \in Call, at'[c] # at[c]
        PROVE  at[c] = "idle" \/ OwnStep(c)
    <3>1. ASSUME NEW d \in Call, OwnStep(d) PROVE OwnStep(c)
          BY <2>2, <3>1, OwnStepNearer DEF Nearer
    <3>2. ASSUME NEW d \in Call, NEW k \in Kind, Begin(d, k) PROVE at[c] = "idle"
          BY <2>2, <3>2 DEF Begin, TypeOK, CallsTyped
    <3>3. ASSUME Tick \/ UsageExpires \/ StoryExpires PROVE FALSE
          BY <2>2, <3>3 DEF Tick, UsageExpires, StoryExpires
    <3> QED BY <3>1, <3>2, <3>3 DEF Next, OwnStep
  <2> QED BY <2>1, <2>2
<1> QED BY <1>1, TypeCorrect, PTL DEF Spec, RunsDown
=============================================================================

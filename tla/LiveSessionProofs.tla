-------------------------- MODULE LiveSessionProofs --------------------------
(***************************************************************************)
(* Two parts of a live session that never meet in one step, each proved by *)
(* itself: the sentinel in the API, for any levels, gains, cooldown and    *)
(* sessions, and the page with its worker, for any number of attempts,     *)
(* length of the queue and number of frames.                               *)
(*                                                                         *)
(* The cooldown between lone cues rests on LoneCue: as long as the last    *)
(* cue was published alone, it is the only one awaited, and once it has    *)
(* returned the cooldown runs from its own time.  The rest after waking    *)
(* rests on Rested: the silence that is counted is never longer than the   *)
(* rest; what the chunks of the rest add up to is a recursive function,    *)
(* which is shown to exist by induction.                                   *)
(*                                                                         *)
(* That Gemini hears the setup first rests on Flow, which follows it from  *)
(* the wire through the queue; what is left behind by the page rests on    *)
(* Held, which says who can still close which socket.                      *)
(***************************************************************************)
EXTENDS SleepSentinel, LiveConnection, WellFoundedInduction, TLAPS

-----------------------------------------------------------------------------
(* The sentinel                                                            *)

LoneCue ==
    last # NoCue /\ last.alone =>
        /\ \A cue \in publishing : cue.at = last.at
        /\ publishing = {} => lastCueAt = last.at

Attaching == (monitored # {} => live \in monitored) /\ monitored \subseteq Opening

IInv == SentinelTypeOK /\ LoneCue /\ Attaching

-----------------------------------------------------------------------------
\* The levels stay levels.
LEMMA Levels == ASSUME NEW level \in 0 .. Full, NEW by \in Nat
                PROVE  Lowered(level, by) \in 0 .. Full /\ Raised(level, by) \in 0 .. Full
  BY LevelAssumption DEF Lowered, Raised, Lesser

\* A quiet chunk adds a natural number.
LEMMA GainType == ASSUME NEW n \in Nat, NEW b \in BOOLEAN
                  PROVE  Gain(n, b) \in Nat
  <1>1. /\ Base \in Nat /\ BonusStep \in Nat /\ BonusCap \in Nat
        /\ StableGain \in Nat /\ BreathingGain \in Nat
    BY GainAssumption
  <1>2. n * BonusStep \in Nat
    BY <1>1
  <1>3. Lesser(BonusCap, n * BonusStep) \in Nat
    BY <1>1, <1>2 DEF Lesser
  <1> QED BY <1>1, <1>3 DEF Gain

\* What the end of updateConfidenceFromAudio does: nothing, or one cue that
\* names the session attached last, after the cooldown.
LEMMA Evaluated ==
    ASSUME IInv, NEW level \in 0 .. Full, Evaluate(level), monitored # {},
           UNCHANGED <<live, monitored, lastCueAt, now>>
    PROVE  /\ cues' \in 0 .. MaxCues /\ publishing' \in SUBSET Cue
           /\ last' \in [at : 0 .. Horizon, alone : BOOLEAN] \cup {NoCue}
           /\ LoneCue'
           /\ \A cue \in publishing' \ publishing :
                 /\ cue.names \in monitored
                 /\ publishing = {} /\ last # NoCue /\ last.alone
                       => cue.at - last.at > Cooldown
  <1>1. CASE level > Threshold /\ Cooled
    <2> DEFINE cue == [n |-> cues + 1, at |-> now, names |-> live]
    <2>1. /\ cues < MaxCues /\ cues' = cues + 1
          /\ publishing' = publishing \cup {cue}
          /\ last' = [at |-> now, alone |-> publishing = {}]
      BY <1>1 DEF Evaluate
    <2>2. /\ cues + 1 \in 1 .. MaxCues /\ now \in 0 .. Horizon
          /\ live \in monitored /\ live \in Opening
      BY <2>1, BoundAssumption DEF IInv, SentinelTypeOK, Attaching
    <2>3. cue \in Cue /\ cue.at = now /\ cue.names = live
      BY <2>2 DEF Cue
    <2>4. (publishing = {}) \in BOOLEAN
      OBVIOUS
    <2>5. last' \in [at : 0 .. Horizon, alone : BOOLEAN]
      BY <2>1, <2>2, <2>4, Zenon
    <2>6. last'.at = now /\ (last'.alone <=> publishing = {})
      BY <2>1
    <2> HIDE DEF cue
    <2>7. LoneCue'
      BY <2>1, <2>3, <2>6 DEF LoneCue
    <2>8. publishing = {} /\ last # NoCue /\ last.alone => now - last.at > Cooldown
      BY <1>1 DEF IInv, LoneCue, Cooled
    <2> QED BY <2>1, <2>2, <2>3, <2>5, <2>7, <2>8 DEF IInv, SentinelTypeOK
  <1>2. CASE ~(level > Threshold /\ Cooled)
    BY <1>2 DEF Evaluate, IInv, SentinelTypeOK, LoneCue
  <1> QED BY <1>1, <1>2

\* What holds after a step: the invariant, and the two things a new cue obeys.
Good ==
    /\ IInv'
    /\ \A cue \in publishing' \ publishing :
          /\ cue.names \in monitored
          /\ publishing = {} /\ last # NoCue /\ last.alone
                => cue.at - last.at > Cooldown

\* Every step of the sentinel is good.
LEMMA Step == ASSUME IInv, [SentinelNext]_sentinelVars PROVE Good
  <1> USE DEF IInv
  <1>1. ASSUME NEW o \in Opening, Monitor(o[1], o[2]) PROVE Good
    <2>1. <<o[1], o[2]>> \in Opening
      BY NullAssumption
    <2>2. live' \in Opening /\ monitored' = monitored \cup {live'}
      BY <1>1, <2>1 DEF Monitor, Attached
    <2> QED BY <1>1, <2>2 DEF Monitor, SentinelTypeOK, LoneCue, Attaching, Good
  <1>2. CASE Quiet
    <2>1. silenceCounter' \in 0 .. MaxSilence /\ silenceCounter' \in Nat
      BY <1>2, SilenceAssumption DEF Quiet, Lesser, SentinelTypeOK
    <2>2. confidence' \in 0 .. Full
      BY <1>2, <2>1, GainType, Levels DEF Quiet, SentinelTypeOK
    <2>3. rest' \in 0 .. MaxRest
      BY <1>2, BoundAssumption DEF Quiet, Lesser, SentinelTypeOK
    <2>4. UNCHANGED <<live, monitored, lastCueAt, now, resumed>> /\ breathing' \in BOOLEAN
      BY <1>2 DEF Quiet
    <2>5. Evaluate(confidence') /\ monitored # {}
      BY <1>2 DEF Quiet
    <2> QED BY <2>1, <2>2, <2>3, <2>4, <2>5, Evaluated DEF SentinelTypeOK, Attaching, Good
  <1>3. ASSUME NEW by \in Nat, Noisy(by) PROVE Good
    <2>1. silenceCounter' \in 0 .. MaxSilence
      BY <1>3, SilenceAssumption DEF Noisy
    <2>2. confidence' \in 0 .. Full
      BY <1>3, Levels DEF Noisy, SentinelTypeOK
    <2>3. UNCHANGED <<live, monitored, lastCueAt, now, rest, resumed>> /\ breathing' \in BOOLEAN
      BY <1>3 DEF Noisy
    <2>4. Evaluate(confidence') /\ monitored # {}
      BY <1>3 DEF Noisy
    <2> QED BY <2>1, <2>2, <2>3, <2>4, Evaluated DEF SentinelTypeOK, Attaching, Good
  <1>4. ASSUME NEW cue \in publishing, Returned(cue) PROVE Good
    <2>1. publishing' = publishing \ {cue} /\ lastCueAt' = cue.at
      BY <1>4 DEF Returned
    <2>2. cue.at \in 0 .. Horizon
      BY DEF SentinelTypeOK, Cue
    <2>3. confidence' \in 0 .. Full
      BY <1>4, LevelAssumption DEF Returned
    <2>4. /\ UNCHANGED <<silenceCounter, breathing, live, monitored, now, cues, last, rest>>
          /\ resumed' = TRUE
      BY <1>4 DEF Returned
    <2>5. LoneCue'
      BY <2>1, <2>4 DEF LoneCue
    <2>6. /\ publishing' \in SUBSET Cue
          /\ lastCueAt' \in {NeverCued} \cup 0 .. Horizon
          /\ publishing' \ publishing = {}
      BY <2>1, <2>2 DEF SentinelTypeOK
    <2>7. SentinelTypeOK'
      BY <2>3, <2>4, <2>6 DEF SentinelTypeOK
    <2> QED BY <2>4, <2>5, <2>6, <2>7 DEF Attaching, Good
  <1>5. CASE Interruption
    <2>1. confidence' \in 0 .. Full
      BY <1>5, Levels, LevelAssumption DEF Interruption, SentinelTypeOK
    <2>2. silenceCounter' \in 0 .. MaxSilence /\ rest' \in 0 .. MaxRest
      BY <1>5, SilenceAssumption, BoundAssumption DEF Interruption
    <2>3. resumed' = FALSE
          /\ UNCHANGED <<breathing, live, monitored, lastCueAt, publishing, now, cues, last>>
      BY <1>5 DEF Interruption
    <2> QED BY <2>1, <2>2, <2>3 DEF SentinelTypeOK, LoneCue, Attaching, Good
  <1>6. CASE Tick
    <2>1. now' \in 0 .. Horizon
      BY <1>6, BoundAssumption DEF Tick, SentinelTypeOK
    <2> QED BY <1>6, <2>1 DEF Tick, SentinelTypeOK, LoneCue, Attaching, Good
  <1>7. CASE UNCHANGED sentinelVars
    BY <1>7 DEF sentinelVars, SentinelTypeOK, LoneCue, Attaching, Good
  <1>8. Loud \in Nat /\ Loud + Moving \in Nat
    BY LevelAssumption
  <1> QED BY <1>1, <1>2, <1>3, <1>4, <1>5, <1>6, <1>7, <1>8 DEF SentinelNext

\* A new sentinel has published no cue.
LEMMA Start == SentinelInit => IInv
  <1> SUFFICES ASSUME SentinelInit PROVE IInv
    OBVIOUS
  <1>1. SentinelTypeOK
    <2>1. /\ 0 \in 0 .. Full /\ 0 \in 0 .. MaxSilence /\ 0 \in 0 .. Horizon
          /\ 0 \in 0 .. MaxCues /\ 0 \in 0 .. MaxRest
      BY LevelAssumption, SilenceAssumption, BoundAssumption
    <2> QED BY <2>1 DEF SentinelInit, SentinelTypeOK
  <1>2. LoneCue /\ Attaching
    BY DEF SentinelInit, LoneCue, Attaching
  <1> QED BY <1>1, <1>2 DEF IInv

\* The sentinel's invariant holds in every reachable state.
LEMMA Invariance == SentinelSpec => []IInv
  <1>1. IInv /\ [SentinelNext]_sentinelVars => IInv'
    BY Step DEF Good
  <1> QED BY Start, <1>1, PTL DEF SentinelSpec

\* The confidence never leaves 0 to 1.0, and every variable keeps its type.
THEOREM TypeCorrect == SentinelSpec => []SentinelTypeOK
  <1>1. IInv => SentinelTypeOK
    BY DEF IInv
  <1> QED BY Invariance, <1>1, PTL

\* Of two cues in a row, each published while no publish was awaited, the second
\* comes after the cooldown.
THEOREM LoneCuesCooled == SentinelSpec => CooldownBetweenLoneCues
  <1>1. IInv /\ [SentinelNext]_sentinelVars =>
          [\A cue \in publishing' \ publishing :
              publishing = {} /\ last # NoCue /\ last.alone
                  => cue.at - last.at > Cooldown]_sentinelVars
    BY Step DEF Good
  <1> QED BY Invariance, <1>1, PTL DEF SentinelSpec, CooldownBetweenLoneCues

\* A cue names a session that was attached together with the user it names.
THEOREM CuesNamePairs == SentinelSpec => CueNamesAPair
  <1>1. IInv /\ [SentinelNext]_sentinelVars =>
          [\A cue \in publishing' \ publishing : cue.names \in monitored]_sentinelVars
    BY Step DEF Good
  <1> QED BY Invariance, <1>1, PTL DEF SentinelSpec, CueNamesAPair

-----------------------------------------------------------------------------
\* Less than, as a relation on the natural numbers.
Below == {ss \in Nat \X Nat : ss[1] < ss[2]}

\* A set of natural numbers with 0 and with every successor has them all.
LEMMA SetInduction == ASSUME NEW S, 0 \in S, \A n \in Nat : n \in S => n + 1 \in S
                      PROVE  Nat \subseteq S
  <1> SUFFICES ASSUME Nat \ S # {} PROVE FALSE
    OBVIOUS
  <1>1. IsWellFoundedOn(Below, Nat)
    <2>1. Below = OpToRel(<, Nat)
      BY Zenon DEF Below, OpToRel
    <2> QED BY <2>1, NatLessThanWellFounded, Zenon
  <1>2. PICK n \in Nat \ S : \A m \in Nat \ S : <<m, n>> \notin Below
    BY <1>1, WFMin, Zenon
  <1>3. n # 0 /\ n - 1 \in Nat /\ n - 1 \notin S
    BY <1>2
  <1>4. /\ <<n - 1, n>> \in Nat \X Nat
        /\ <<n - 1, n>>[1] = n - 1 /\ <<n - 1, n>>[2] = n
    BY <1>3
  <1>5. n - 1 < n
    BY <1>3
  <1>6. <<n - 1, n>> \in Below
    BY <1>4, <1>5, Zenon DEF Below
  <1> QED BY <1>2, <1>3, <1>6

\* The running sums of a sequence of natural numbers: a recursive function that
\* adds them up exists.
LEMMA RunningSum ==
    ASSUME NEW g \in [Nat -> Nat]
    PROVE  \E F \in [Nat -> Nat] : F[0] = 0 /\ \A k \in Nat : F[k + 1] = F[k] + g[k + 1]
  <1> DEFINE Sums(n) == {f \in [0 .. n -> Nat] :
                 f[0] = 0 /\ \A k \in Nat : k < n => f[k + 1] = f[k] + g[k + 1]}
  <1>1. \A n \in Nat : Sums(n) # {}
    <2> DEFINE S == {n \in Nat : Sums(n) # {}}
    <2>1. 0 \in S
      <3>1. [k \in 0 .. 0 |-> 0] \in Sums(0)
        OBVIOUS
      <3> QED BY <3>1
    <2>2. ASSUME NEW n \in Nat, n \in S PROVE n + 1 \in S
      <3>1. PICK f \in [0 .. n -> Nat] :
                   f[0] = 0 /\ \A k \in Nat : k < n => f[k + 1] = f[k] + g[k + 1]
        BY <2>2
      <3> DEFINE h == [k \in 0 .. n + 1 |-> IF k <= n THEN f[k] ELSE f[n] + g[n + 1]]
      <3>2. f[n] \in Nat /\ g[n + 1] \in Nat /\ n + 1 \in Nat
        BY <3>1
      <3>3. h \in [0 .. n + 1 -> Nat]
        BY <3>1, <3>2
      <3>4. h[0] = 0
        BY <3>1
      <3>5. ASSUME NEW k \in Nat, k < n + 1 PROVE h[k + 1] = h[k] + g[k + 1]
        <4>1. k \in 0 .. n + 1 /\ k + 1 \in 0 .. n + 1
          BY <3>5
        <4>2. CASE k < n
          <5>1. h[k] = f[k] /\ h[k + 1] = f[k + 1]
            BY <4>1, <4>2
          <5> QED BY <3>1, <4>2, <5>1
        <4>3. CASE k = n
          BY <4>1, <4>3
        <4> QED BY <3>5, <4>2, <4>3
      <3> QED BY <3>2, <3>3, <3>4, <3>5
    <2> HIDE DEF S
    <2>3. Nat \subseteq S
      BY <2>1, <2>2, SetInduction
    <2> QED BY <2>3 DEF S
  <1>2. ASSUME NEW n \in Nat, NEW f \in Sums(n), NEW h \in Sums(n + 1)
        PROVE  f[n] = h[n]
    <2> DEFINE S == {k \in Nat : k <= n => f[k] = h[k]}
    <2>1. 0 \in S
      OBVIOUS
    <2>2. ASSUME NEW k \in Nat, k \in S PROVE k + 1 \in S
      BY <2>2
    <2> HIDE DEF S
    <2>3. Nat \subseteq S
      BY <2>1, <2>2, SetInduction
    <2> QED BY <2>3 DEF S
  <1> DEFINE F == [n \in Nat |-> (CHOOSE f \in Sums(n) : TRUE)[n]]
  <1>3. ASSUME NEW n \in Nat PROVE F[n] \in Nat /\ F[0] = 0 /\ F[n + 1] = F[n] + g[n + 1]
    <2> DEFINE f == CHOOSE s \in Sums(n) : TRUE
               h == CHOOSE s \in Sums(n + 1) : TRUE
               z == CHOOSE s \in Sums(0) : TRUE
    <2>1. f \in Sums(n) /\ h \in Sums(n + 1) /\ z \in Sums(0)
      <3> HIDE DEF Sums
      <3> QED BY <1>1
    <2>2. F[n] = f[n] /\ F[n + 1] = h[n + 1] /\ F[0] = z[0]
      <3> HIDE DEF Sums
      <3> QED OBVIOUS
    <2> HIDE DEF f, h, z, F
    <2>3. f[n] \in Nat /\ z[0] = 0 /\ h[n + 1] = h[n] + g[n + 1]
      BY <2>1
    <2>4. f[n] = h[n]
      <3> HIDE DEF Sums
      <3> QED BY <2>1, <1>2
    <2> QED BY <2>2, <2>3, <2>4
  <1> HIDE DEF Sums
  <1>4. F \in [Nat -> Nat]
    <2> SUFFICES \A n \in Nat : F[n] \in Nat
      OBVIOUS
    <2> HIDE DEF F
    <2> QED BY <1>3
  <1> HIDE DEF F
  <1> QED BY <1>3, <1>4

-----------------------------------------------------------------------------
\* What the bound adds up: as k chunks in a row grow by one, the most that the
\* new one can add.
LEMMA MostGainAdds ==
    /\ MostGain \in [Nat -> Nat]
    /\ MostGain[0] = 0
    /\ \A k \in Nat : MostGain[k + 1] = MostGain[k] + Gain(Lesser(MaxSilence, k + 1), TRUE)
  <1> DEFINE g == [k \in Nat |-> Gain(Lesser(MaxSilence, k), TRUE)]
  <1>1. ASSUME NEW k \in Nat PROVE Gain(Lesser(MaxSilence, k), TRUE) \in Nat
    <2>1. Lesser(MaxSilence, k) \in Nat
      BY SilenceAssumption DEF Lesser
    <2> QED BY <2>1, GainType
  <1>2. g \in [Nat -> Nat] /\ \A k \in Nat : g[k] = Gain(Lesser(MaxSilence, k), TRUE)
    BY <1>1
  <1> HIDE DEF g
  <1>3. PICK F \in [Nat -> Nat] : F[0] = 0 /\ \A k \in Nat : F[k + 1] = F[k] + g[k + 1]
    BY <1>2, RunningSum
  <1> DEFINE Next0(M, k) ==
               IF k = 0 THEN 0 ELSE M[k - 1] + Gain(Lesser(MaxSilence, k), TRUE)
  <1>4. F = [k \in Nat |-> Next0(F, k)]
    <2>1. ASSUME NEW k \in Nat PROVE F[k] = Next0(F, k)
      <3>1. CASE k = 0
        BY <1>3, <3>1
      <3>2. CASE k # 0
        <4>1. k - 1 \in Nat /\ (k - 1) + 1 = k
          BY <3>2
        <4>2. F[(k - 1) + 1] = F[k - 1] + g[(k - 1) + 1]
          BY <1>3, <4>1
        <4> QED BY <1>2, <3>2, <4>1, <4>2
      <3> QED BY <3>1, <3>2
    <2> HIDE DEF Next0
    <2> QED BY <1>3, <2>1
  <1>5. MostGain = [k \in Nat |-> Next0(MostGain, k)]
    BY <1>4, Zenon DEF MostGain
  <1>6. ASSUME NEW k \in Nat PROVE MostGain[k] = Next0(MostGain, k)
    <2> HIDE DEF Next0
    <2> QED BY <1>5
  <1>7. ASSUME NEW k \in Nat
        PROVE  MostGain[k + 1] = MostGain[k] + Gain(Lesser(MaxSilence, k + 1), TRUE)
    <2>1. k + 1 \in Nat /\ k + 1 # 0 /\ (k + 1) - 1 = k
      OBVIOUS
    <2> QED BY <1>6, <2>1
  <1>8. MostGain[0] = 0
    BY <1>6
  <1>9. MostGain \in [Nat -> Nat]
    <2> DEFINE S == {k \in Nat : MostGain[k] \in Nat}
    <2>1. 0 \in S
      BY <1>8
    <2>2. ASSUME NEW k \in Nat, k \in S PROVE k + 1 \in S
      <3>1. Gain(Lesser(MaxSilence, k + 1), TRUE) \in Nat
        <4>1. k + 1 \in Nat
          OBVIOUS
        <4> QED BY <1>1, <4>1
      <3>2. MostGain[k] \in Nat
        BY <2>2
      <3>3. MostGain[k + 1] \in Nat
        <4> DEFINE most == Gain(Lesser(MaxSilence, k + 1), TRUE)
                   sum  == MostGain[k]
        <4>1. MostGain[k + 1] = sum + most
          BY <1>7, Zenon
        <4>2. most \in Nat /\ sum \in Nat
          BY <3>1, <3>2, Zenon
        <4> HIDE DEF most, sum
        <4>3. sum + most \in Nat
          BY <4>2
        <4> QED BY <4>1, <4>3, Zenon
      <3> QED BY <3>3
    <2> HIDE DEF S
    <2>3. \A k \in Nat : MostGain[k] \in Nat
      <3>1. Nat \subseteq S
        BY <2>1, <2>2, SetInduction
      <3> QED BY <3>1 DEF S
    <2> HIDE DEF Next0
    <2> QED BY <1>5, <2>3
  <1> QED BY <1>7, <1>8, <1>9

\* A later chunk in a row, or one that breathes, adds no less.
LEMMA GainGrows == ASSUME NEW m \in Nat, NEW n \in Nat, m <= n, NEW b \in BOOLEAN
                   PROVE  Gain(m, b) <= Gain(n, TRUE)
  <1>1. /\ Base \in Nat /\ BonusStep \in Nat /\ BonusCap \in Nat
        /\ StableGain \in Nat /\ BreathingGain \in Nat
        /\ StableAfter \in Nat /\ BreathingAfter \in Nat
    BY GainAssumption
  <1>2. m * BonusStep <= n * BonusStep /\ m * BonusStep \in Nat /\ n * BonusStep \in Nat
    <2>1. PICK d \in Nat : n = m + d
      <3>1. n - m \in Nat /\ n = m + (n - m)
        OBVIOUS
      <3> QED BY <3>1
    <2>2. m * BonusStep \in Nat /\ d * BonusStep \in Nat
      BY <1>1
    <2>3. n * BonusStep = m * BonusStep + d * BonusStep
      BY <1>1, <2>1
    <2> QED BY <2>2, <2>3
  <1>3. /\ Lesser(BonusCap, m * BonusStep) <= Lesser(BonusCap, n * BonusStep)
        /\ Lesser(BonusCap, m * BonusStep) \in Nat /\ Lesser(BonusCap, n * BonusStep) \in Nat
    BY <1>1, <1>2 DEF Lesser
  <1> QED BY <1>1, <1>3 DEF Gain

\* As long as no publish has returned since the interruption, the silence that
\* is counted is not longer than the rest, and the confidence has gained no more
\* than the rest allows.
Rested ==
    \/ resumed
    \/ rest = MaxRest
    \/ silenceCounter <= rest /\ confidence <= Full - Wake + MostGain[rest]

\* Every step keeps the confidence within what the rest allows.
LEMMA RestedStep == ASSUME SentinelTypeOK, Rested, [SentinelNext]_sentinelVars PROVE Rested'
  <1> DEFINE allowed(k) == Full - Wake + MostGain[k]
  <1>1. /\ Full \in Nat /\ Wake \in 0 .. Full /\ MaxSilence \in Nat /\ MaxRest \in Nat
        /\ Loud \in Nat /\ Moving \in Nat
    BY LevelAssumption, SilenceAssumption, BoundAssumption
  <1>2. /\ confidence \in 0 .. Full /\ silenceCounter \in 0 .. MaxSilence
        /\ rest \in 0 .. MaxRest /\ resumed \in BOOLEAN
    BY DEF SentinelTypeOK
  <1>3. ASSUME NEW k \in Nat PROVE allowed(k) \in Nat
    <2>1. MostGain[k] \in Nat
      BY MostGainAdds
    <2> QED BY <1>1, <2>1
  <1>4. ASSUME UNCHANGED <<confidence, silenceCounter, rest, resumed>> PROVE Rested'
    BY <1>4 DEF Rested
  <1>5. CASE Quiet
    <2>1. /\ resumed' = resumed
          /\ breathing' \in BOOLEAN
          /\ silenceCounter' = Lesser(MaxSilence, silenceCounter + 1)
          /\ confidence' = Raised(confidence, Gain(silenceCounter', breathing'))
          /\ rest' = Lesser(MaxRest, rest + 1)
      BY <1>5 DEF Quiet
    <2>2. CASE resumed \/ rest' = MaxRest
      BY <2>1, <2>2 DEF Rested
    <2>3. CASE ~ resumed /\ rest' # MaxRest
      <3>1. rest' = rest + 1 /\ rest # MaxRest
        BY <1>1, <1>2, <2>1, <2>3 DEF Lesser
      <3>2. silenceCounter <= rest /\ confidence <= allowed(rest)
        BY <2>3, <3>1 DEF Rested
      <3>3. /\ silenceCounter' \in Nat /\ Lesser(MaxSilence, rest + 1) \in Nat
            /\ silenceCounter' <= Lesser(MaxSilence, rest + 1)
            /\ silenceCounter' <= rest + 1
        BY <1>1, <1>2, <2>1, <3>2 DEF Lesser
      <3>4. /\ Gain(silenceCounter', breathing') <= Gain(Lesser(MaxSilence, rest + 1), TRUE)
            /\ Gain(silenceCounter', breathing') \in Nat
            /\ Gain(Lesser(MaxSilence, rest + 1), TRUE) \in Nat
        BY <2>1, <3>3, GainGrows, GainType
      <3>5. confidence' <= confidence + Gain(silenceCounter', breathing')
        <4> DEFINE gain == Gain(silenceCounter', breathing')
        <4>1. gain \in Nat /\ confidence' = Raised(confidence, gain)
          BY <2>1, <3>4
        <4> HIDE DEF gain
        <4>2. confidence' <= confidence + gain
          BY <1>1, <1>2, <4>1 DEF Raised, Lesser
        <4> QED BY <4>2 DEF gain
      <3>6. confidence' \in 0 .. Full
        BY <1>2, <2>1, <3>4, Levels
      <3>7. /\ MostGain[rest + 1] = MostGain[rest] + Gain(Lesser(MaxSilence, rest + 1), TRUE)
            /\ MostGain[rest] \in Nat
        <4>1. rest \in Nat
          BY <1>1, <1>2
        <4> QED BY <4>1, MostGainAdds, Zenon
      <3>8. confidence' <= allowed(rest + 1)
        <4> DEFINE gain == Gain(silenceCounter', breathing')
                   most == Gain(Lesser(MaxSilence, rest + 1), TRUE)
                   sum  == MostGain[rest]
                   next == MostGain[rest + 1]
        <4>1. /\ gain \in Nat /\ most \in Nat /\ gain <= most
              /\ sum \in Nat /\ next = sum + most
              /\ confidence' <= confidence + gain /\ confidence <= Full - Wake + sum
          BY <3>2, <3>4, <3>5, <3>7
        <4> HIDE DEF gain, most, sum, next
        <4>2. confidence' <= Full - Wake + next
          BY <1>1, <1>2, <3>6, <4>1
        <4> QED BY <4>2 DEF next
      <3> QED BY <3>1, <3>3, <3>8 DEF Rested
    <2> QED BY <2>2, <2>3
  <1>6. ASSUME NEW by \in Nat, Noisy(by) PROVE Rested'
    <2>1. /\ silenceCounter' = 0 /\ confidence' = Lowered(confidence, by)
          /\ UNCHANGED <<rest, resumed>>
      BY <1>6 DEF Noisy
    <2>2. confidence' \in 0 .. Full /\ (confidence' = 0 \/ confidence' <= confidence)
      BY <1>1, <1>2, <2>1, Levels DEF Lowered
    <2>3. allowed(rest) \in Nat
      BY <1>2, <1>3
    <2>4. ~ resumed /\ rest # MaxRest => confidence' <= allowed(rest)
      BY <1>2, <2>2, <2>3 DEF Rested
    <2> QED BY <1>2, <2>1, <2>4 DEF Rested
  <1>7. CASE Interruption
    <2>1. /\ silenceCounter' = 0 /\ rest' = 0
          /\ confidence' = Lowered(confidence, Wake)
      BY <1>7 DEF Interruption
    <2>2. confidence' <= Full - Wake
      BY <1>1, <1>2, <2>1 DEF Lowered
    <2>3. MostGain[0] = 0
      BY MostGainAdds
    <2>4. Full - Wake = Full - Wake + MostGain[0]
      BY <1>1, <2>3
    <2> QED BY <2>1, <2>2, <2>4 DEF Rested
  <1>8. ASSUME NEW cue \in publishing, Returned(cue) PROVE Rested'
    BY <1>8 DEF Returned, Rested
  <1>9. ASSUME NEW o \in Opening, Monitor(o[1], o[2]) PROVE Rested'
    BY <1>4, <1>9 DEF Monitor
  <1>10. CASE Tick \/ UNCHANGED sentinelVars
    BY <1>4, <1>10 DEF Tick, sentinelVars
  <1>11. Loud \in Nat /\ Loud + Moving \in Nat
    BY <1>1
  <1> QED BY <1>5, <1>6, <1>7, <1>8, <1>9, <1>10, <1>11 DEF SentinelNext

\* After an interruption the confidence is no higher than the quiet chunks since
\* can have raised it, unless a publish has returned: onInterruption lowers it
\* and counts the silence from zero, and noise only lowers it.
THEOREM RestsAfterWaking == SentinelSpec => []RestAfterWaking
  <1>1. SentinelInit => Rested
    <2>1. MostGain[0] = 0
      BY MostGainAdds
    <2> QED BY <2>1, LevelAssumption DEF SentinelInit, Rested
  <1>2. SentinelTypeOK /\ Rested /\ [SentinelNext]_sentinelVars => Rested'
    BY RestedStep
  <1>3. Rested => RestAfterWaking
    BY DEF Rested, RestAfterWaking
  <1> QED BY TypeCorrect, <1>1, <1>2, <1>3, PTL DEF SentinelSpec

-----------------------------------------------------------------------------
(* The page and the worker                                                 *)

\* Until Gemini has heard a frame, the setup leads what the worker keeps, or,
\* when it keeps nothing yet, what is on the way to it; nothing is kept once
\* the socket to Gemini is open.
Unheard(a) ==
    /\ queue[a] # <<>> => Head(queue[a]) = "setup"
    /\ queue[a] = <<>> /\ ~ closing[a] =>
           /\ wire[a] # <<>> => Head(wire[a]) = "setup"
           /\ client[a] = "open" => wire[a] # <<>>

Flow(a) ==
    /\ up[a] = "open" => queue[a] = <<>>
    /\ \/ gap[a]
       \/ first[a] = "setup"
       \/ first[a] = None /\ Unheard(a)

\* A socket that may live on is the one the hook refers to, or out of its
\* reach; without the page it is the latter, and so is one still to come.
Held(a) ==
    /\ client[a] \in {"connecting", "open"} => a = wsRef \/ a \in astray
    /\ ~ mounted /\ client[a] \in {"init", "connecting", "open"} => a \in astray

ConnectionInv ==
    /\ ConnectionTypeOK
    /\ \A a \in Attempt : Flow(a)
    /\ \A a \in Attempt : Held(a)

-----------------------------------------------------------------------------
\* close() on the socket the hook refers to: no socket comes up by it, and that
\* one is not up any more.
LEMMA RefClosedFacts ==
    ASSUME ConnectionTypeOK
    PROVE  /\ RefClosed \in [Attempt -> Client]
           /\ \A a \in Attempt :
                 /\ RefClosed[a] \in {client[a], "closing", "aborting"}
                 /\ a = wsRef => RefClosed[a] \notin {"connecting", "open"}
  <1>1. ASSUME NEW a \in Attempt
        PROVE  /\ RefClosed[a] \in {client[a], "closing", "aborting"}
               /\ a = wsRef => RefClosed[a] \notin {"connecting", "open"}
    <2>1. CASE a = wsRef /\ client[a] = "open"
      BY <2>1 DEF RefClosed
    <2>2. CASE a = wsRef /\ client[a] = "connecting"
      BY <2>2 DEF RefClosed
    <2>3. CASE ~(a = wsRef /\ client[a] \in {"open", "connecting"})
      BY <2>3 DEF RefClosed
    <2> QED BY <2>1, <2>2, <2>3
  <1>2. \A a \in Attempt : RefClosed[a] \in Client
    BY <1>1 DEF ConnectionTypeOK, SocketsTyped, Client
  <1>3. RefClosed = [a \in Attempt |-> RefClosed[a]]
    BY DEF RefClosed
  <1>4. RefClosed \in [Attempt -> Client]
    BY <1>2, <1>3
  <1> QED BY <1>1, <1>4

\* The queue with a frame more: the trim keeps it in its bound, and drops the
\* head only when it was full.
LEMMA KeptFacts ==
    ASSUME NEW q \in Seq(Frame), Len(q) <= QueueSize, NEW frame \in Frame
    PROVE  /\ Kept(Append(q, frame)) \in Seq(Frame)
           /\ Len(Kept(Append(q, frame))) <= QueueSize
           /\ Len(q) # QueueSize =>
                 /\ Kept(Append(q, frame)) # <<>>
                 /\ Head(Kept(Append(q, frame))) = IF q = <<>> THEN frame ELSE Head(q)
  <1> DEFINE long == Append(q, frame)
  <1>1. /\ long \in Seq(Frame) /\ Len(long) = Len(q) + 1 /\ long # <<>>
        /\ Head(long) = IF q = <<>> THEN frame ELSE Head(q)
    <2>1. /\ long \in Seq(Frame) /\ Len(long) = Len(q) + 1 /\ long # <<>>
          /\ Head(long) = long[1]
      OBVIOUS
    <2>2. CASE q = <<>>
      <3>1. long[1] = frame
        BY <2>2
      <3> QED BY <2>1, <2>2, <3>1
    <2>3. CASE q # <<>>
      <3>1. Len(q) >= 1 /\ Head(q) = q[1]
        BY <2>3
      <3>2. long[1] = q[1]
        BY <3>1
      <3> QED BY <2>1, <2>3, <3>1, <3>2
    <2> QED BY <2>2, <2>3
  <1>2. QueueSize \in Nat \ {0}
    BY BoundsAssumption
  <1>3. Tail(long) \in Seq(Frame) /\ Len(Tail(long)) = Len(q)
    BY <1>1
  <1> HIDE DEF long
  <1>4. CASE Len(long) > QueueSize
    <2>1. Kept(long) = Tail(long) /\ Len(q) = QueueSize
      BY <1>1, <1>2, <1>4 DEF Kept
    <2> QED BY <1>3, <2>1 DEF long
  <1>5. CASE ~(Len(long) > QueueSize)
    <2>1. Kept(long) = long /\ Len(long) <= QueueSize
      BY <1>1, <1>2, <1>5 DEF Kept
    <2> QED BY <1>1, <2>1 DEF long
  <1> QED BY <1>4, <1>5

\* What the socket to Gemini comes to leaves its queue typed, and no longer.
LEMMA UpstreamFacts ==
    ASSUME RelaysTyped, NEW a \in Attempt, NEW s \in {"none", "connecting", "open", "gone"},
           Upstream(a, s)
    PROVE  /\ up' \in [Attempt -> {"none", "connecting", "open", "gone"}]
           /\ queue' \in [Attempt -> Seq(Frame)]
           /\ \A b \in Attempt : Len(queue'[b]) <= QueueSize
           /\ up'[a] = s /\ queue'[a] = IF s = "gone" THEN <<>> ELSE queue[a]
           /\ \A b \in Attempt : b # a => UNCHANGED <<up[b], queue[b]>>
  <1>1. up' = [up EXCEPT ![a] = s]
    BY DEF Upstream
  <1>2. CASE s = "gone"
    <2>1. queue' = [queue EXCEPT ![a] = <<>>] /\ <<>> \in Seq(Frame) /\ Len(<<>>) <= QueueSize
      BY <1>2, BoundsAssumption DEF Upstream
    <2> QED BY <1>1, <1>2, <2>1 DEF RelaysTyped
  <1>3. CASE s # "gone"
    <2>1. queue' = queue
      BY <1>3 DEF Upstream
    <2> QED BY <1>1, <1>3, <2>1 DEF RelaysTyped
  <1> QED BY <1>2, <1>3

\* safeClose closes the relay for good; whatever it drops, the relay is closing.
LEMMA SafeCloseFacts ==
    ASSUME RelaysTyped, FlagsTyped, NEW a \in Attempt,
           NEW code \in {"plain", "reserved"},
           NEW left \in {"none", "connecting", "open", "gone"}, SafeClose(a, code, left)
    PROVE  /\ up' \in [Attempt -> {"none", "connecting", "open", "gone"}]
           /\ queue' \in [Attempt -> Seq(Frame)]
           /\ \A b \in Attempt : Len(queue'[b]) <= QueueSize
           /\ closing' \in [Attempt -> BOOLEAN] /\ closing'[a]
           /\ told' \in [Attempt -> BOOLEAN] /\ stuck' \in [Attempt -> BOOLEAN]
           /\ \A b \in Attempt : b # a => UNCHANGED <<up[b], queue[b], closing[b]>>
           /\ up'[a] \in {left, "gone"}
           /\ queue'[a] \in {queue[a], <<>>}
  <1>1. PICK s \in {left, "gone"} : Upstream(a, s)
    BY DEF SafeClose
  <1>2. /\ up' \in [Attempt -> {"none", "connecting", "open", "gone"}]
        /\ queue' \in [Attempt -> Seq(Frame)]
        /\ \A b \in Attempt : Len(queue'[b]) <= QueueSize
        /\ \A b \in Attempt : b # a => UNCHANGED <<up[b], queue[b]>>
        /\ up'[a] = s /\ queue'[a] \in {queue[a], <<>>}
    BY <1>1, UpstreamFacts
  <1>3. CASE closing[a]
    <2>1. UNCHANGED <<closing, told, stuck>>
      BY <1>3 DEF SafeClose
    <2> QED BY <1>2, <1>3, <2>1 DEF FlagsTyped
  <1>4. CASE ~ closing[a]
    <2>1. /\ closing' = [closing EXCEPT ![a] = TRUE]
          /\ told' = [told EXCEPT ![a] = @ \/ code = "plain"]
          /\ stuck' = [stuck EXCEPT ![a] = code = "reserved"]
      BY <1>4 DEF SafeClose
    <2>2. (code = "plain") \in BOOLEAN /\ (code = "reserved") \in BOOLEAN
          /\ (told[a] \/ code = "plain") \in BOOLEAN
      OBVIOUS
    <2>3. /\ closing' \in [Attempt -> BOOLEAN] /\ closing'[a]
          /\ \A b \in Attempt : b # a => closing'[b] = closing[b]
      BY <2>1 DEF FlagsTyped
    <2>4. told' \in [Attempt -> BOOLEAN] /\ stuck' \in [Attempt -> BOOLEAN]
      BY <2>1, <2>2, Zenon DEF FlagsTyped
    <2> QED BY <1>2, <2>3, <2>4
  <1> QED BY <1>3, <1>4

-----------------------------------------------------------------------------
\* Every step of page and worker keeps the types.
LEMMA ConnectionTypeStep ==
    ASSUME ConnectionTypeOK, [ConnectionNext]_connectionVars
    PROVE  ConnectionTypeOK'
  <1> USE DEF ConnectionTypeOK
  <1>1. ASSUME UNCHANGED <<mounted, shown, wsRef, astray>> PROVE PageTyped'
    BY <1>1 DEF PageTyped
  <1>2. ASSUME UNCHANGED sockets PROVE SocketsTyped'
    BY <1>2 DEF sockets, SocketsTyped
  <1>3. ASSUME UNCHANGED <<relay, up, queue, first>> PROVE RelaysTyped'
    BY <1>3 DEF RelaysTyped
  <1>4. ASSUME UNCHANGED <<closing, told, gap, stuck>> PROVE FlagsTyped'
    BY <1>4 DEF FlagsTyped
  <1>5. ASSUME UNCHANGED upstream
        PROVE  FlagsTyped' /\ (UNCHANGED relay => RelaysTyped')
    BY <1>3, <1>4, <1>5 DEF upstream
  <1>6. ASSUME NEW a \in Attempt, Connect(a) \/ InitFails(a) PROVE ConnectionTypeOK'
    <2>1. /\ UNCHANGED <<mounted, wsRef, astray, wire, more, relay, upstream>>
          /\ shown' \in {shown, FALSE}
          /\ client' \in {[client EXCEPT ![a] = "init"], [client EXCEPT ![a] = "failed"]}
      BY <1>6 DEF Connect, InitFails, page
    <2>2. PageTyped' /\ SocketsTyped'
      BY <2>1 DEF PageTyped, SocketsTyped, Client
    <2> QED BY <1>5, <2>1, <2>2
  <1>7. ASSUME NEW a \in Attempt, InitDone(a) PROVE ConnectionTypeOK'
    <2>1. UNCHANGED upstream
      BY <1>7 DEF InitDone
    <2>2. PageTyped'
      BY <1>7 DEF InitDone, page, PageTyped
    <2>3. SocketsTyped'
      BY <1>7 DEF InitDone, SocketsTyped, Client
    <2>4. RelaysTyped'
      BY <1>7 DEF InitDone, upstream, RelaysTyped
    <2> QED BY <1>5, <2>1, <2>2, <2>3, <2>4
  <1>8. ASSUME NEW a \in Attempt, Opens(a) PROVE ConnectionTypeOK'
    <2>1. UNCHANGED <<mounted, wsRef, astray, more, relay, upstream>> /\ shown' = TRUE
      BY <1>8 DEF Opens
    <2>2. <<"setup", "content">> \in Seq(Frame)
      BY DEF Frame
    <2>3. SocketsTyped'
      BY <1>8, <2>2 DEF Opens, SocketsTyped, Client
    <2> QED BY <1>5, <2>1, <2>3 DEF PageTyped
  <1>9. CASE Disconnect
    <2>1. /\ UNCHANGED <<wsRef, wire, more, relay, upstream>>
          /\ client' = RefClosed
      BY <1>9 DEF Disconnect
    <2>2. PageTyped'
      BY <1>9 DEF Disconnect, PageTyped
    <2> QED BY <1>5, <2>1, <2>2, RefClosedFacts DEF SocketsTyped
  <1>10. ASSUME NEW a \in Attempt, Closes(a) PROVE ConnectionTypeOK'
    <2>1. UNCHANGED <<mounted, wsRef, astray, wire, more, relay, upstream>> /\ shown' = FALSE
      BY <1>10 DEF Closes
    <2>2. SocketsTyped'
      BY <1>10 DEF Closes, SocketsTyped, Client
    <2> QED BY <1>5, <2>1, <2>2 DEF PageTyped
  <1>11. ASSUME NEW a \in Attempt, Breaks(a) PROVE ConnectionTypeOK'
    <2>1. /\ UNCHANGED <<mounted, wsRef, astray, more, relay, upstream>> /\ shown' = FALSE
          /\ wire' = [wire EXCEPT ![a] = <<>>]
          /\ client' = [RefClosed EXCEPT ![a] = "lost"]
      BY <1>11 DEF Breaks
    <2>2. client' \in [Attempt -> Client]
      BY <2>1, RefClosedFacts DEF Client
    <2>3. SocketsTyped'
      BY <2>1, <2>2 DEF SocketsTyped
    <2> QED BY <1>5, <2>1, <2>3 DEF PageTyped
  <1>12. CASE Speak
    <2>1. UNCHANGED <<page, wsRef, astray, client, relay, upstream>> /\ wsRef \in Attempt
      BY <1>12 DEF Speak, PageTyped
    <2>2. Append(wire[wsRef], "more") \in Seq(Frame)
      BY <2>1 DEF SocketsTyped, Frame
    <2>3. SocketsTyped'
      BY <1>12, <2>1, <2>2, BoundsAssumption DEF Speak, SocketsTyped
    <2> QED BY <1>1, <1>5, <2>1, <2>3 DEF page
  <1>13. ASSUME NEW a \in Attempt, Accept(a) PROVE ConnectionTypeOK'
    <2>1. UNCHANGED <<page, wsRef, astray, sockets>>
      BY <1>13 DEF Accept
    <2>2. RelaysTyped'
      BY <1>13 DEF Accept, RelaysTyped
    <2>3. FlagsTyped'
      BY <1>13 DEF Accept, FlagsTyped
    <2> QED BY <1>1, <1>2, <2>1, <2>2, <2>3 DEF page
  <1>14. ASSUME NEW a \in Attempt, HandleFrame(a) PROVE ConnectionTypeOK'
    <2>1. /\ UNCHANGED <<page, wsRef, astray, client, more, relay, up, closing, stuck>>
          /\ wire' = [wire EXCEPT ![a] = IF closing[a] THEN <<>> ELSE Tail(@)]
          /\ wire[a] # <<>> /\ wire[a] \in Seq(Frame)
      BY <1>14 DEF HandleFrame, SocketsTyped
    <2>2. Tail(wire[a]) \in Seq(Frame) /\ Head(wire[a]) \in Frame /\ <<>> \in Seq(Frame)
      BY <2>1
    <2>3. SocketsTyped'
      BY <2>1, <2>2 DEF SocketsTyped
    <2>4. FlagsTyped'
      BY <1>14, <2>1 DEF HandleFrame, FlagsTyped
    <2>5. CASE UNCHANGED <<queue, first>>
      BY <1>1, <1>3, <2>1, <2>3, <2>4, <2>5 DEF page
    <2>6. CASE Hear(a, Head(wire[a])) /\ UNCHANGED queue
      <3>1. RelaysTyped'
        BY <2>1, <2>2, <2>6 DEF Hear, RelaysTyped
      <3> QED BY <1>1, <2>1, <2>3, <2>4, <3>1 DEF page
    <2>7. CASE /\ queue' = [queue EXCEPT ![a] = Kept(Append(@, Head(wire[a])))]
               /\ UNCHANGED first
      <3>1. queue[a] \in Seq(Frame) /\ Len(queue[a]) <= QueueSize
        BY DEF RelaysTyped
      <3>2. /\ Kept(Append(queue[a], Head(wire[a]))) \in Seq(Frame)
            /\ Len(Kept(Append(queue[a], Head(wire[a])))) <= QueueSize
        BY <2>2, <3>1, KeptFacts
      <3>3. RelaysTyped'
        BY <2>1, <2>7, <3>2 DEF RelaysTyped
      <3> QED BY <1>1, <2>1, <2>3, <2>4, <3>3 DEF page
    <2> QED BY <1>14, <2>5, <2>6, <2>7 DEF HandleFrame
  <1>15. ASSUME NEW a \in Attempt, UpstreamOpens(a) PROVE ConnectionTypeOK'
    <2>1. /\ UNCHANGED <<page, wsRef, astray, sockets, relay, closing, told, gap, stuck>>
          /\ up' = [up EXCEPT ![a] = "open"]
          /\ queue' = [queue EXCEPT ![a] = <<>>]
          /\ IF queue[a] = <<>> THEN UNCHANGED first ELSE Hear(a, Head(queue[a]))
      BY <1>15 DEF UpstreamOpens
    <2>2. /\ <<>> \in Seq(Frame) /\ Len(<<>>) <= QueueSize
          /\ queue[a] # <<>> => Head(queue[a]) \in Frame
      BY BoundsAssumption DEF RelaysTyped
    <2>3. first' \in [Attempt -> Frame \cup {None}]
      BY <2>1, <2>2 DEF Hear, RelaysTyped
    <2>4. RelaysTyped'
      BY <2>1, <2>2, <2>3 DEF RelaysTyped
    <2> QED BY <1>1, <1>2, <1>4, <2>1, <2>4 DEF page
  <1>16. ASSUME NEW a \in Attempt, UpstreamEnds(a) \/ AnswerFails(a) \/ ServerHears(a)
         PROVE  ConnectionTypeOK'
    <2>1. UNCHANGED <<page, wsRef, astray, sockets, relay, first, gap>>
      BY <1>16 DEF UpstreamEnds, AnswerFails, ServerHears
    <2>2. up[a] \in {"none", "connecting", "open", "gone"}
      BY DEF RelaysTyped
    <2>3. \E code \in {"plain", "reserved"}, left \in {"none", "connecting", "open", "gone"} :
              SafeClose(a, code, left)
      BY <1>16, <2>2 DEF UpstreamEnds, AnswerFails, ServerHears
    <2>4. /\ up' \in [Attempt -> {"none", "connecting", "open", "gone"}]
          /\ queue' \in [Attempt -> Seq(Frame)]
          /\ \A b \in Attempt : Len(queue'[b]) <= QueueSize
          /\ closing' \in [Attempt -> BOOLEAN]
          /\ told' \in [Attempt -> BOOLEAN] /\ stuck' \in [Attempt -> BOOLEAN]
      BY <2>3, SafeCloseFacts
    <2>5. RelaysTyped' /\ FlagsTyped'
      BY <2>1, <2>4 DEF RelaysTyped, FlagsTyped
    <2> QED BY <1>1, <1>2, <2>1, <2>5 DEF page
  <1>17. CASE UNCHANGED connectionVars
    BY <1>1, <1>2, <1>3, <1>4, <1>17 DEF connectionVars, sockets
  <1> QED BY <1>6, <1>7, <1>8, <1>9, <1>10, <1>11, <1>12, <1>13, <1>14, <1>15, <1>16, <1>17
          DEF ConnectionNext, Page, Worker

\* What Gemini hears from the attempts that a step is not about stays in order.
LEMMA FlowElsewhere ==
    ASSUME NEW b \in Attempt, Flow(b),
           UNCHANGED <<wire[b], up[b], queue[b], first[b], closing[b], gap[b]>>,
           client'[b] = "open" => client[b] = "open"
    PROVE  Flow(b)'
  BY DEF Flow, Unheard

\* Every step keeps the setup ahead of the other frames.
LEMMA FlowStep ==
    ASSUME ConnectionTypeOK, \A a \in Attempt : Flow(a), [ConnectionNext]_connectionVars
    PROVE  \A a \in Attempt : Flow(a)'
  <1> USE DEF ConnectionTypeOK
  <1>1. ASSUME NEW a \in Attempt,
               Connect(a) \/ InitFails(a) \/ InitDone(a) \/ Closes(a)
        PROVE  \A b \in Attempt : Flow(b)'
    <2>1. UNCHANGED <<wire, up, queue, first, closing, gap>>
      BY <1>1 DEF Connect, InitFails, InitDone, Closes, upstream
    <2>2. \A b \in Attempt : client'[b] = "open" => client[b] = "open"
      BY <1>1 DEF Connect, InitFails, InitDone, Closes, SocketsTyped
    <2> QED BY <2>1, <2>2, FlowElsewhere
  <1>2. ASSUME NEW a \in Attempt, Opens(a) PROVE \A b \in Attempt : Flow(b)'
    <2>1. /\ UNCHANGED <<up, queue, first, closing, gap>>
          /\ wire'[a] = <<"setup", "content">>
          /\ \A b \in Attempt : b # a => wire'[b] = wire[b] /\ client'[b] = client[b]
      BY <1>2 DEF Opens, upstream, SocketsTyped
    <2>2. wire'[a] # <<>> /\ Head(wire'[a]) = "setup"
      BY <2>1
    <2>3. Flow(a)'
      BY <2>1, <2>2 DEF Flow, Unheard
    <2> QED BY <2>1, <2>3, FlowElsewhere
  <1>3. CASE Disconnect
    <2>1. UNCHANGED <<wire, up, queue, first, closing, gap>> /\ client' = RefClosed
      BY <1>3 DEF Disconnect, upstream
    <2> QED BY <2>1, RefClosedFacts, FlowElsewhere
  <1>4. ASSUME NEW a \in Attempt, Breaks(a) PROVE \A b \in Attempt : Flow(b)'
    <2>1. /\ UNCHANGED <<up, queue, first, closing, gap>>
          /\ wire'[a] = <<>> /\ client'[a] = "lost"
          /\ \A b \in Attempt : b # a => wire'[b] = wire[b] /\ client'[b] = RefClosed[b]
      BY <1>4, RefClosedFacts DEF Breaks, upstream, SocketsTyped
    <2>2. Flow(a)'
      BY <2>1 DEF Flow, Unheard
    <2> QED BY <2>1, <2>2, RefClosedFacts, FlowElsewhere
  <1>5. CASE Speak
    <2>1. /\ UNCHANGED <<client, wsRef, up, queue, first, closing, gap>> /\ wsRef \in Attempt
          /\ client[wsRef] = "open"
          /\ wire'[wsRef] = Append(wire[wsRef], "more")
          /\ \A b \in Attempt : b # wsRef => wire'[b] = wire[b]
      BY <1>5 DEF Speak, upstream, PageTyped, SocketsTyped
    <2>2. /\ wire'[wsRef] # <<>>
          /\ wire[wsRef] # <<>> => Head(wire'[wsRef]) = Head(wire[wsRef])
      BY <2>1 DEF SocketsTyped
    <2>3. Flow(wsRef)'
      BY <2>1, <2>2 DEF Flow, Unheard
    <2> QED BY <2>1, <2>3, FlowElsewhere
  <1>6. ASSUME NEW a \in Attempt, HandleFrame(a) PROVE \A b \in Attempt : Flow(b)'
    <2>1. /\ UNCHANGED <<client, up, closing>> /\ wire[a] # <<>>
          /\ wire' = [wire EXCEPT ![a] = IF closing[a] THEN <<>> ELSE Tail(@)]
          /\ \A b \in Attempt : b # a => wire'[b] = wire[b]
          /\ wire[a] \in Seq(Frame) /\ queue[a] \in Seq(Frame) /\ Len(queue[a]) <= QueueSize
      BY <1>6 DEF HandleFrame, SocketsTyped, RelaysTyped
    <2>2. \A b \in Attempt : b # a => UNCHANGED <<queue[b], first[b], gap[b]>>
      BY <1>6 DEF HandleFrame, Hear, RelaysTyped, FlagsTyped
    <2>3. Flow(a)'
      <3>1. CASE closing[a] /\ UNCHANGED <<told, queue, first, gap>>
        BY <2>1, <3>1 DEF Flow, Unheard
      <3>2. CASE gap' = [gap EXCEPT ![a] = TRUE] /\ UNCHANGED <<queue, first>>
        BY <2>1, <3>2 DEF Flow, FlagsTyped
      <3>3. CASE /\ ~ closing[a] /\ up[a] = "open"
                 /\ Hear(a, Head(wire[a])) /\ UNCHANGED <<queue, gap>>
        <4>1. first'[a] = IF first[a] = None THEN Head(wire[a]) ELSE first[a]
          BY <3>3 DEF Hear, RelaysTyped
        <4>2. gap[a] \/ first'[a] = "setup"
          BY <2>1, <3>3, <4>1, NoneAssumption DEF Flow, Unheard
        <4> QED BY <2>1, <3>3, <4>2 DEF Flow
      <3>4. CASE /\ ~ closing[a] /\ up[a] # "open" /\ UNCHANGED first
                 /\ queue' = [queue EXCEPT ![a] = Kept(Append(@, Head(wire[a])))]
                 /\ gap' = [gap EXCEPT ![a] = @ \/ Len(queue[a]) = QueueSize]
        <4>1. /\ queue'[a] = Kept(Append(queue[a], Head(wire[a])))
              /\ gap'[a] = (gap[a] \/ Len(queue[a]) = QueueSize)
          BY <3>4 DEF RelaysTyped, FlagsTyped
        <4>2. CASE gap'[a]
          BY <2>1, <3>4, <4>2 DEF Flow
        <4>3. CASE ~ gap'[a]
          <5>1. /\ queue'[a] # <<>>
                /\ Head(queue'[a]) = IF queue[a] = <<>> THEN Head(wire[a]) ELSE Head(queue[a])
            <6>1. ~ gap[a] /\ Len(queue[a]) # QueueSize
              BY <4>1, <4>3
            <6>2. Head(wire[a]) \in Frame
              BY <2>1
            <6> QED BY <2>1, <4>1, <6>1, <6>2, KeptFacts
          <5>2. ~ gap[a]
            BY <4>1, <4>3
          <5> QED BY <2>1, <3>4, <5>1, <5>2 DEF Flow, Unheard
        <4> QED BY <4>2, <4>3
      <3> QED BY <1>6, <3>1, <3>2, <3>3, <3>4 DEF HandleFrame
    <2> QED BY <2>1, <2>2, <2>3, FlowElsewhere
  <1>7. ASSUME NEW a \in Attempt, UpstreamOpens(a) PROVE \A b \in Attempt : Flow(b)'
    <2>1. /\ UNCHANGED <<wire, client, closing, gap>>
          /\ queue' = [queue EXCEPT ![a] = <<>>]
          /\ \A b \in Attempt : b # a => UNCHANGED <<up[b], queue[b]>>
          /\ IF queue[a] = <<>> THEN UNCHANGED first ELSE Hear(a, Head(queue[a]))
      BY <1>7 DEF UpstreamOpens, sockets, RelaysTyped
    <2>2. queue'[a] = <<>>
      BY <2>1 DEF RelaysTyped
    <2>3. \A b \in Attempt : b # a => first'[b] = first[b]
      BY <2>1 DEF Hear, RelaysTyped
    <2>4. Flow(a)'
      <3>1. CASE queue[a] = <<>>
        BY <2>1, <2>2, <3>1 DEF Flow, Unheard
      <3>2. CASE queue[a] # <<>>
        <4>1. first'[a] = IF first[a] = None THEN Head(queue[a]) ELSE first[a]
          BY <2>1, <3>2 DEF Hear, RelaysTyped
        <4>2. gap[a] \/ first'[a] = "setup"
          BY <3>2, <4>1, NoneAssumption DEF Flow, Unheard
        <4> QED BY <2>1, <2>2, <4>2 DEF Flow
      <3> QED BY <3>1, <3>2
    <2> QED BY <2>1, <2>3, <2>4, FlowElsewhere
  <1>8. ASSUME NEW a \in Attempt, UpstreamEnds(a) \/ AnswerFails(a) \/ ServerHears(a)
        PROVE  \A b \in Attempt : Flow(b)'
    <2>1. UNCHANGED <<client, wire, first, gap>>
      BY <1>8 DEF UpstreamEnds, AnswerFails, ServerHears, sockets
    <2>2. up[a] \in {"none", "connecting", "open", "gone"}
      BY DEF RelaysTyped
    <2>3. \E code \in {"plain", "reserved"}, left \in {"gone", up[a]} :
              SafeClose(a, code, left)
      BY <1>8 DEF UpstreamEnds, AnswerFails, ServerHears
    <2>4. /\ closing'[a] /\ up'[a] \in {up[a], "gone"} /\ queue'[a] \in {queue[a], <<>>}
          /\ \A b \in Attempt : b # a => UNCHANGED <<up[b], queue[b], closing[b]>>
      BY <2>2, <2>3, SafeCloseFacts
    <2>5. Flow(a)'
      BY <2>1, <2>4 DEF Flow, Unheard
    <2> QED BY <2>1, <2>4, <2>5, FlowElsewhere
  <1>9. ASSUME NEW a \in Attempt, Accept(a) PROVE \A b \in Attempt : Flow(b)'
    <2>1. UNCHANGED <<client, wire, queue, first, closing, gap>>
      BY <1>9 DEF Accept, sockets
    <2>2. /\ \A b \in Attempt : b # a => up'[b] = up[b]
          /\ up'[a] \in {up[a], "connecting"}
      BY <1>9 DEF Accept, RelaysTyped
    <2>3. Flow(a)'
      BY <2>1, <2>2 DEF Flow, Unheard
    <2> QED BY <2>1, <2>2, <2>3, FlowElsewhere
  <1>10. CASE UNCHANGED connectionVars
    BY <1>10, FlowElsewhere DEF connectionVars
  <1> QED BY <1>1, <1>2, <1>3, <1>4, <1>5, <1>6, <1>7, <1>8, <1>9, <1>10
          DEF ConnectionNext, Page, Worker

\* Every step keeps the page's sockets in reach of the hook, or astray.
LEMMA HeldStep ==
    ASSUME ConnectionTypeOK, \A a \in Attempt : Held(a), [ConnectionNext]_connectionVars
    PROVE  \A a \in Attempt : Held(a)'
  <1> USE DEF ConnectionTypeOK
  <1>1. ASSUME NEW b \in Attempt, UNCHANGED <<mounted, wsRef, astray>>,
               client'[b] = client[b] \/ client'[b] \notin {"init", "connecting", "open"}
        PROVE  Held(b)'
    BY <1>1 DEF Held
  <1>2. ASSUME NEW a \in Attempt, Connect(a) PROVE \A b \in Attempt : Held(b)'
    <2>1. /\ UNCHANGED <<mounted, wsRef, astray>> /\ mounted /\ client'[a] = "init"
          /\ \A b \in Attempt : b # a => client'[b] = client[b]
      BY <1>2 DEF Connect, page, SocketsTyped
    <2>2. Held(a)'
      BY <2>1 DEF Held
    <2> QED BY <1>1, <2>1, <2>2
  <1>3. ASSUME NEW a \in Attempt, InitFails(a) \/ Closes(a) PROVE \A b \in Attempt : Held(b)'
    <2>1. /\ UNCHANGED <<mounted, wsRef, astray>>
          /\ client'[a] \in {"failed", "closed", "told"}
          /\ \A b \in Attempt : b # a => client'[b] = client[b]
      BY <1>3 DEF InitFails, Closes, SocketsTyped
    <2> QED BY <1>1, <2>1
  <1>4. ASSUME NEW a \in Attempt, InitDone(a) PROVE \A b \in Attempt : Held(b)'
    <2>1. /\ mounted' = mounted /\ wsRef' = a /\ client[a] = "init"
          /\ client'[a] = "connecting"
          /\ \A b \in Attempt : b # a => client'[b] = client[b]
          /\ astray' = IF wsRef = None THEN astray ELSE astray \cup {wsRef}
      BY <1>4 DEF InitDone, page, SocketsTyped
    <2>2. \A b \in Attempt : b \in astray \/ b = wsRef => b \in astray'
      BY <2>1, NoAttemptAssumption
    <2> QED BY <2>1, <2>2 DEF Held
  <1>5. ASSUME NEW a \in Attempt, Opens(a) PROVE \A b \in Attempt : Held(b)'
    <2>1. /\ UNCHANGED <<mounted, wsRef, astray>>
          /\ client[a] = "connecting" /\ client'[a] = "open"
          /\ \A b \in Attempt : b # a => client'[b] = client[b]
      BY <1>5 DEF Opens, SocketsTyped
    <2>2. Held(a)'
      BY <2>1 DEF Held
    <2> QED BY <1>1, <2>1, <2>2
  <1>6. CASE Disconnect
    <2>1. /\ client' = RefClosed /\ wsRef' = wsRef /\ mounted
          /\ astray' = IF mounted' THEN astray
                       ELSE astray \cup {a \in Attempt : client[a] = "init"}
      BY <1>6 DEF Disconnect
    <2> QED BY <2>1, RefClosedFacts DEF Held
  <1>7. ASSUME NEW a \in Attempt, Breaks(a) PROVE \A b \in Attempt : Held(b)'
    <2>1. /\ UNCHANGED <<mounted, wsRef, astray>> /\ client'[a] = "lost"
          /\ \A b \in Attempt : b # a => client'[b] = RefClosed[b]
      BY <1>7, RefClosedFacts DEF Breaks
    <2> QED BY <1>1, <2>1, RefClosedFacts
  <1>8. ASSUME NEW a \in Attempt, Worker(a) PROVE \A b \in Attempt : Held(b)'
    <2>1. UNCHANGED <<page, wsRef, astray, client>>
      BY <1>8 DEF Worker, Accept, HandleFrame, UpstreamOpens, UpstreamEnds, AnswerFails,
                  ServerHears, sockets
    <2> QED BY <1>1, <2>1 DEF page
  <1>9. CASE Speak \/ UNCHANGED connectionVars
    <2>1. UNCHANGED <<mounted, wsRef, astray, client>>
      BY <1>9 DEF Speak, page, connectionVars
    <2> QED BY <1>1, <2>1
  <1> QED BY <1>2, <1>3, <1>4, <1>5, <1>6, <1>7, <1>8, <1>9 DEF ConnectionNext, Page

\* A page that has just come up satisfies the invariant.
LEMMA ConnectionStart == ConnectionInit => ConnectionInv
  <1> SUFFICES ASSUME ConnectionInit PROVE ConnectionInv
    OBVIOUS
  <1>1. <<>> \in Seq(Frame) /\ Len(<<>>) = 0 /\ 0 <= QueueSize /\ 0 \in 0 .. MaxMore
    BY BoundsAssumption
  <1>2. PageTyped /\ SocketsTyped
    BY <1>1 DEF ConnectionInit, PageTyped, SocketsTyped, Client
  <1>3. RelaysTyped /\ FlagsTyped
    BY <1>1 DEF ConnectionInit, RelaysTyped, FlagsTyped
  <1>4. \A a \in Attempt : Flow(a) /\ Held(a)
    BY DEF ConnectionInit, Flow, Unheard, Held
  <1> QED BY <1>2, <1>3, <1>4 DEF ConnectionInv, ConnectionTypeOK

\* The invariant of page and worker holds in every reachable state.
LEMMA ConnectionInvariance == ConnectionSpec => []ConnectionInv
  <1>1. ConnectionInv /\ [ConnectionNext]_connectionVars => ConnectionInv'
    BY ConnectionTypeStep, FlowStep, HeldStep DEF ConnectionInv
  <1> QED BY ConnectionStart, <1>1, PTL DEF ConnectionSpec

\* Every variable of a connection keeps its type; above all, the worker never
\* keeps more frames than the trim leaves.
THEOREM ConnectionTypeCorrect == ConnectionSpec => []ConnectionTypeOK
  <1>1. ConnectionInv => ConnectionTypeOK
    BY DEF ConnectionInv
  <1> QED BY ConnectionInvariance, <1>1, PTL

\* Nothing the page sends gets to Gemini ahead of the setup, unless the worker
\* dropped or refused a frame: onopen sends it first, and the queue, which
\* geminiOpen empties at once, keeps the order.
THEOREM SetupAlwaysFirst == ConnectionSpec => []SetupFirst
  <1>1. ConnectionInv => SetupFirst
    BY DEF ConnectionInv, Flow, SetupFirst
  <1> QED BY ConnectionInvariance, <1>1, PTL

\* A socket that the page leaves behind was out of its reach: still in its init,
\* or replaced in wsRef by a later connect.
THEOREM LeftAlwaysExplained == ConnectionSpec => []LeftExplained
  <1>1. ConnectionInv => LeftExplained
    BY DEF ConnectionInv, Held, LeftExplained
  <1> QED BY ConnectionInvariance, <1>1, PTL

-----------------------------------------------------------------------------
(* What EndsTogether rests on: the safety half of it, for any attempts.    *)

\* A relay is there with its socket to Gemini.  When Gemini's end has gone the
\* relay is closing; a relay that is closing has closed both sides, unless the
\* code was refused.
Ending(a) ==
    /\ client[a] \in {"idle", "init", "failed"} => relay[a] = "none"
    /\ relay[a] = "up" <=> up[a] # "none"
    /\ up[a] = "none" => ~ closing[a]
    /\ up[a] = "gone" => closing[a]
    /\ closing[a] => stuck[a] \/ (told[a] /\ up[a] = "gone")

\* What is due when one end has gone: the worker hears of the page's close, the
\* page's handshake is answered, or the page hears of the worker's close.
EndDue(a) ==
    \/ ~ closing[a] /\ client[a] \in Over
    \/ client[a] \in {"connecting", "aborting"}
    \/ told[a] /\ client[a] \in {"open", "closing"}

\* No relay comes to rest with one of its ends: until the other has gone too,
\* the end of it is due, unless a close was refused for its code.
NoneLeftOver ==
    \A a \in Attempt :
        relay[a] = "up" /\ (client[a] \in Over \/ up[a] = "gone") =>
            \/ stuck[a]
            \/ client[a] \in Over /\ up[a] = "gone"
            \/ EndDue(a)

\* What a step has to leave of a relay that does not end by it.
LEMMA EndingKept ==
    ASSUME NEW b \in Attempt, Ending(b),
           client'[b] = client[b] \/ client'[b] \notin {"idle", "init", "failed"},
           UNCHANGED <<relay[b], up[b], closing[b], stuck[b]>>, told[b] => told'[b]
    PROVE  Ending(b)'
  BY DEF Ending

\* safeClose leaves a relay that has closed both sides or is stuck.
LEMMA SafeCloseEnds ==
    ASSUME RelaysTyped, FlagsTyped, NEW a \in Attempt, Ending(a), up[a] # "none",
           NEW code \in {"plain", "reserved"}, NEW left \in {up[a], "gone"},
           closing[a] => left = "gone", SafeClose(a, code, left),
           UNCHANGED <<client[a], relay[a]>>
    PROVE  /\ Ending(a)'
           /\ \A b \in Attempt \ {a} :
                 UNCHANGED <<up[b], closing[b], told[b], stuck[b]>>
  <1>1. left \in {"none", "connecting", "open", "gone"}
    BY DEF RelaysTyped
  <1>2. CASE closing[a]
    <2>1. Upstream(a, "gone") /\ UNCHANGED <<closing, told, stuck>>
      BY <1>2 DEF SafeClose
    <2>2. up'[a] = "gone" /\ \A b \in Attempt \ {a} : up'[b] = up[b]
      BY <2>1 DEF Upstream, RelaysTyped
    <2> QED BY <1>2, <2>1, <2>2 DEF Ending
  <1>3. CASE ~ closing[a]
    <2>1. /\ Upstream(a, IF code = "plain" THEN "gone" ELSE left)
          /\ closing' = [closing EXCEPT ![a] = TRUE]
          /\ told' = [told EXCEPT ![a] = @ \/ code = "plain"]
          /\ stuck' = [stuck EXCEPT ![a] = code = "reserved"]
      BY <1>3 DEF SafeClose
    <2>2. /\ up'[a] = IF code = "plain" THEN "gone" ELSE left
          /\ \A b \in Attempt \ {a} : up'[b] = up[b]
      BY <2>1 DEF Upstream, RelaysTyped
    <2>3. closing'[a] /\ \A b \in Attempt \ {a} : closing'[b] = closing[b]
      BY <2>1 DEF FlagsTyped
    <2>4. /\ code = "plain" => told'[a]
          /\ \A b \in Attempt \ {a} : told'[b] = told[b]
      BY <2>1, Zenon DEF FlagsTyped
    <2>5. /\ code = "reserved" => stuck'[a]
          /\ \A b \in Attempt \ {a} : stuck'[b] = stuck[b]
      BY <2>1, Zenon DEF FlagsTyped
    <2>6. up'[a] # "none" /\ relay'[a] = "up" /\ client'[a] = client[a]
      BY <2>2 DEF Ending
    <2>7. Ending(a)'
      BY <2>2, <2>3, <2>4, <2>5, <2>6 DEF Ending
    <2> QED BY <2>2, <2>3, <2>4, <2>5, <2>7
  <1> QED BY <1>2, <1>3

\* Every step keeps both ends of every relay accounted for.
LEMMA EndingStep ==
    ASSUME ConnectionTypeOK, \A a \in Attempt : Ending(a),
           [ConnectionNext]_connectionVars
    PROVE  \A a \in Attempt : Ending(a)'
  <1> USE DEF ConnectionTypeOK
  <1>1. ASSUME UNCHANGED <<relay, up, closing, stuck, told>>,
               \A b \in Attempt : \/ client'[b] = client[b]
                                  \/ client'[b] \notin {"idle", "init", "failed"}
        PROVE  \A b \in Attempt : Ending(b)'
    BY <1>1, EndingKept
  <1>2. ASSUME NEW a \in Attempt, Connect(a) \/ InitFails(a)
        PROVE  \A b \in Attempt : Ending(b)'
    <2>1. /\ UNCHANGED <<relay, up, closing, stuck, told>>
          /\ client[a] \in {"idle", "init"}
          /\ \A b \in Attempt \ {a} : client'[b] = client[b]
      BY <1>2 DEF Connect, InitFails, upstream, SocketsTyped
    <2>2. Ending(a)'
      BY <2>1 DEF Ending
    <2> QED BY <2>1, <2>2, EndingKept
  <1>3. ASSUME NEW a \in Attempt, InitDone(a) PROVE \A b \in Attempt : Ending(b)'
    <2>1. /\ UNCHANGED <<up, closing, stuck, told>>
          /\ client[a] = "init" /\ client'[a] = "connecting" /\ relay'[a] = "issued"
          /\ \A b \in Attempt \ {a} : client'[b] = client[b] /\ relay'[b] = relay[b]
      BY <1>3 DEF InitDone, upstream, SocketsTyped, RelaysTyped
    <2>2. Ending(a)'
      BY <2>1 DEF Ending
    <2> QED BY <2>1, <2>2, EndingKept
  <1>4. ASSUME NEW a \in Attempt, Opens(a) \/ Closes(a) PROVE \A b \in Attempt : Ending(b)'
    <2>1. /\ UNCHANGED <<relay, up, closing, stuck, told>>
          /\ client'[a] \in {"open", "closed", "told"}
          /\ \A b \in Attempt \ {a} : client'[b] = client[b]
      BY <1>4 DEF Opens, Closes, upstream, SocketsTyped
    <2> QED BY <1>1, <2>1
  <1>5. ASSUME Disconnect \/ \E a \in Attempt : Breaks(a)
        PROVE  \A b \in Attempt : Ending(b)'
    <2>1. /\ UNCHANGED <<relay, up, closing, stuck, told>>
          /\ \A b \in Attempt : client'[b] \in {RefClosed[b], "lost"}
      BY <1>5, RefClosedFacts DEF Disconnect, Breaks, upstream
    <2> QED BY <1>1, <2>1, RefClosedFacts
  <1>6. ASSUME NEW a \in Attempt, Accept(a) PROVE \A b \in Attempt : Ending(b)'
    <2>1. /\ UNCHANGED <<client, closing, stuck>> /\ relay[a] = "issued"
          /\ \/ relay'[a] \in {"refused", "over"} /\ up'[a] = up[a]
             \/ relay'[a] = "up" /\ up'[a] = "connecting"
          /\ \A b \in Attempt \ {a} : UNCHANGED <<relay[b], up[b], told[b]>>
      BY <1>6 DEF Accept, sockets, RelaysTyped, FlagsTyped
    <2>2. Ending(a)'
      BY <2>1 DEF Ending
    <2> QED BY <2>1, <2>2, EndingKept
  <1>7. ASSUME NEW a \in Attempt, HandleFrame(a) PROVE \A b \in Attempt : Ending(b)'
    <2>1. UNCHANGED <<client, relay, up, closing, stuck>>
      BY <1>7 DEF HandleFrame
    <2>2. told' = told \/ told' = [told EXCEPT ![a] = TRUE]
      BY <1>7 DEF HandleFrame
    <2>3. \A b \in Attempt : told[b] => told'[b]
      BY <2>2 DEF FlagsTyped
    <2> QED BY <2>1, <2>3, EndingKept
  <1>8. ASSUME NEW a \in Attempt, UpstreamOpens(a) PROVE \A b \in Attempt : Ending(b)'
    <2>1. /\ UNCHANGED <<client, relay, closing, stuck, told>>
          /\ up[a] = "connecting" /\ up'[a] = "open"
          /\ \A b \in Attempt \ {a} : up'[b] = up[b]
      BY <1>8 DEF UpstreamOpens, sockets, RelaysTyped
    <2>2. Ending(a)'
      BY <2>1 DEF Ending
    <2> QED BY <2>1, <2>2, EndingKept
  <1>9. ASSUME NEW a \in Attempt, UpstreamEnds(a) \/ AnswerFails(a) \/ ServerHears(a)
        PROVE  \A b \in Attempt : Ending(b)'
    <2>1. UNCHANGED <<client, relay>> /\ up[a] # "none"
      BY <1>9 DEF UpstreamEnds, AnswerFails, ServerHears, sockets, Ending
    <2>2. PICK code \in {"plain", "reserved"}, left \in {up[a], "gone"} :
              SafeClose(a, code, left) /\ (closing[a] => left = "gone")
      BY <1>9 DEF UpstreamEnds, AnswerFails, ServerHears
    <2>3. /\ Ending(a)'
          /\ \A b \in Attempt \ {a} : UNCHANGED <<up[b], closing[b], told[b], stuck[b]>>
      BY <2>1, <2>2, SafeCloseEnds
    <2> QED BY <2>1, <2>3, EndingKept
  <1>10. CASE Speak \/ UNCHANGED connectionVars
    <2>1. UNCHANGED <<client, relay, up, closing, stuck, told>>
      BY <1>10 DEF Speak, upstream, connectionVars
    <2> QED BY <1>1, <2>1
  <1> QED BY <1>2, <1>3, <1>4, <1>5, <1>6, <1>7, <1>8, <1>9, <1>10
          DEF ConnectionNext, Page, Worker

\* Whatever closes, fails or is lost first, of any number of attempts, the other
\* end is about to hear of it, or its close was refused for its code.  With
\* the fairness of those steps this is what EndsTogether says.
THEOREM NothingLeftOver == ConnectionSpec => []NoneLeftOver
  <1> DEFINE Inv == \A a \in Attempt : Ending(a)
  <1>1. ConnectionInit => Inv
    BY DEF ConnectionInit, Ending
  <1>2. ConnectionTypeOK /\ Inv /\ [ConnectionNext]_connectionVars => Inv'
    BY EndingStep
  <1>3. ConnectionTypeOK /\ Inv => NoneLeftOver
    <2> SUFFICES ASSUME ConnectionTypeOK, Inv, NEW a \in Attempt, relay[a] = "up",
                        client[a] \in Over \/ up[a] = "gone"
                 PROVE  \/ stuck[a]
                        \/ client[a] \in Over /\ up[a] = "gone"
                        \/ EndDue(a)
      BY DEF NoneLeftOver
    <2>1. client[a] \in {"connecting", "aborting", "open", "closing"} \cup Over
      BY DEF Ending, ConnectionTypeOK, SocketsTyped, Client, Over
    <2> QED BY <2>1 DEF Ending, EndDue
  <1> HIDE DEF Inv
  <1> QED BY <1>1, <1>2, <1>3, ConnectionTypeCorrect, PTL DEF ConnectionSpec
=============================================================================

---------------------------- MODULE SleepSentinel ----------------------------
(***************************************************************************)
(* SleepSentinelAgent: the one sentinel of an API instance.  Every live    *)
(* session attaches to it; each audio chunk moves its confidence that the  *)
(* child sleeps, and above a threshold it publishes a sleep cue, at most   *)
(* one per cooldown.                                                       *)
(*                                                                         *)
(* `publish` is awaited, and with it every subscriber, one of which has a  *)
(* model summarise the session.  Only then are the confidence and the time *)
(* of the last cue set, so chunks, interruptions and other publishes may   *)
(* come in between.                                                        *)
(*                                                                         *)
(* Confidence is an integer, Full standing for 1.0.  A chunk is quiet,     *)
(* loud (volume above 0.05) or moving (loud, louder than 0.1 and not       *)
(* stable).  A quiet chunk is always stable: the variance of the absolute  *)
(* amplitude is at most the square of its root mean square.  The breathing *)
(* analysis is left open: a chunk may change its verdict.                  *)
(***************************************************************************)
EXTENDS Integers, FiniteSets

CONSTANTS Opening,      \* the sessions that are opened, each with its user
          NoUser, NoLive, NoCue,  \* no user id, no live session, no cue yet
          Full, Threshold, Reset, \* 1.0, 0.85 and 0.8
          Loud, Moving, Wake,     \* what lowers it: 0.05, 0.1 and 0.3
          Base,                   \* a quiet chunk: 0.01, and for the n-th in
          BonusStep, BonusCap,    \* a row n * 0.0002, at most 0.004
          StableGain, StableAfter,       \* 0.02 more after 10 in a row
          BreathingGain, BreathingAfter, \* 0.02 more after 20, breathing
          Cooldown,               \* cueCooldownMs, in ticks of the clock
          MaxSilence,             \* silenceCounter is counted up to here
          MaxRest, Horizon, MaxCues  \* bounds: quiet chunks, clock, cues

ASSUME LevelAssumption ==
    /\ Full \in Nat /\ Threshold \in 0 .. Full /\ Reset \in 0 .. Full
    /\ Loud \in Nat /\ Moving \in Nat /\ Wake \in 0 .. Full
ASSUME GainAssumption ==
    /\ {Base, BonusStep, BonusCap, StableGain, BreathingGain} \subseteq Nat
    /\ {StableAfter, BreathingAfter} \subseteq Nat
\* Counting further would change no gain.
ASSUME SilenceAssumption ==
    /\ MaxSilence \in Nat
    /\ MaxSilence > StableAfter /\ MaxSilence > BreathingAfter
    /\ MaxSilence * BonusStep >= BonusCap
ASSUME BoundAssumption ==
    {Cooldown, MaxRest, Horizon, MaxCues} \subseteq Nat
ASSUME NullAssumption ==
    /\ Opening = {<<o[1], o[2]>> : o \in Opening}
    /\ NoLive \notin Opening

VARIABLES confidence,
          silenceCounter,
          breathing,   \* latestBreathing?.isStable
          live,        \* liveSessionId and liveUserId
          monitored,   \* the sessions and users attached so far
          lastCueAt,   \* lastCueAtMs
          publishing,  \* cues whose publish is still awaited
          now,         \* the clock
          cues,        \* how many cues were published
          last,        \* the last one: its time, and whether it was alone
          rest,        \* quiet chunks since the last interruption
          resumed      \* has a publish returned since?

sentinelVars == <<confidence, silenceCounter, breathing, live, monitored, lastCueAt,
          publishing, now, cues, last, rest, resumed>>

NeverCued == -(Cooldown + 1)  \* lastCueAtMs = 0, long before any clock reading
Cue == [n : 1 .. MaxCues, at : 0 .. Horizon, names : Opening]

SentinelTypeOK ==
    /\ confidence \in 0 .. Full
    /\ silenceCounter \in 0 .. MaxSilence
    /\ breathing \in BOOLEAN
    /\ live \in Opening \cup {NoLive}
    /\ monitored \in SUBSET Opening
    /\ lastCueAt \in {NeverCued} \cup 0 .. Horizon
    /\ publishing \in SUBSET Cue
    /\ now \in 0 .. Horizon
    /\ cues \in 0 .. MaxCues
    /\ last \in [at : 0 .. Horizon, alone : BOOLEAN] \cup {NoCue}
    /\ rest \in 0 .. MaxRest
    /\ resumed \in BOOLEAN

SentinelInit ==
    /\ confidence = 0
    /\ silenceCounter = 0
    /\ breathing = FALSE
    /\ live = NoLive
    /\ monitored = {}
    /\ lastCueAt = NeverCued
    /\ publishing = {}
    /\ now = 0
    /\ cues = 0
    /\ last = NoCue
    /\ rest = 0
    /\ resumed = FALSE

Lesser(m, n) == IF m < n THEN m ELSE n

-----------------------------------------------------------------------------
(* monitorLiveSession                                                      *)

\* Mutation: a session without a user keeps the user of the one before.
AttachedKeepingUser(s, u) ==
    <<s, IF u = NoUser /\ live # NoLive THEN live[2] ELSE u>>

\* liveSessionId = sessionId, liveUserId = userId || null
Attached(s, u) == <<s, u>>

\* The session before stays attached: its audio goes on being counted.
Monitor(s, u) ==
    /\ <<s, u>> \notin monitored
    /\ live' = Attached(s, u)
    /\ monitored' = monitored \cup {<<s, u>>}
    /\ UNCHANGED <<confidence, silenceCounter, breathing, lastCueAt, publishing,
                   now, cues, last, rest, resumed>>

-----------------------------------------------------------------------------
(* updateConfidenceFromAudio                                               *)

\* What the n-th quiet chunk in a row adds.
Gain(n, breathes) ==
    Base + Lesser(BonusCap, n * BonusStep)
         + (IF n > StableAfter THEN StableGain ELSE 0)
         + (IF breathes /\ n > BreathingAfter THEN BreathingGain ELSE 0)

\* Mutation: the floor of 0 is forgotten.
LoweredUnbounded(level, by) == level - by

\* Math.max(0, this.confidence - by)
Lowered(level, by) == IF level > by THEN level - by ELSE 0

\* Math.min(1.0, this.confidence + by)
Raised(level, by) == Lesser(Full, level + by)

\* Mutation: a cue at the very end of the cooldown.
CooledEarly == now - lastCueAt >= Cooldown

\* (now - this.lastCueAtMs) > this.cueCooldownMs
Cooled == now - lastCueAt > Cooldown

\* The end of updateConfidenceFromAudio at confidence `level`: a cue is handed
\* to the bus, or nothing happens.
Evaluate(level) ==
    IF level > Threshold /\ Cooled
    THEN /\ cues < MaxCues
         /\ cues' = cues + 1
         /\ publishing' = publishing \cup {[n |-> cues + 1, at |-> now, names |-> live]}
         /\ last' = [at |-> now, alone |-> publishing = {}]
    ELSE UNCHANGED <<cues, publishing, last>>

\* A chunk of audio of any session that was ever attached.
Quiet ==
    /\ monitored # {}
    /\ breathing' \in BOOLEAN
    /\ silenceCounter' = Lesser(MaxSilence, silenceCounter + 1)
    /\ confidence' = Raised(confidence, Gain(silenceCounter', breathing'))
    /\ rest' = Lesser(MaxRest, rest + 1)
    /\ Evaluate(confidence')
    /\ UNCHANGED <<live, monitored, lastCueAt, now, resumed>>

Noisy(by) ==
    /\ monitored # {}
    /\ breathing' \in BOOLEAN
    /\ silenceCounter' = 0
    /\ confidence' = Lowered(confidence, by)
    /\ Evaluate(confidence')
    /\ UNCHANGED <<live, monitored, lastCueAt, now, rest, resumed>>

\* publish has returned: every subscriber is through with the cue.
Returned(cue) ==
    /\ cue \in publishing
    /\ publishing' = publishing \ {cue}
    /\ confidence' = Reset
    /\ lastCueAt' = cue.at
    /\ resumed' = TRUE
    /\ UNCHANGED <<silenceCounter, breathing, live, monitored, now, cues, last, rest>>

\* Mutation: the child wakes up, the silence is still counted on.
InterruptionUncounted ==
    /\ monitored # {}
    /\ confidence' = Lowered(confidence, Wake)
    /\ rest' = 0
    /\ resumed' = FALSE
    /\ UNCHANGED <<silenceCounter, breathing, live, monitored, lastCueAt,
                   publishing, now, cues, last>>

\* onInterruption: the child spoke over the model.
Interruption ==
    /\ monitored # {}
    /\ silenceCounter' = 0
    /\ confidence' = Lowered(confidence, Wake)
    /\ rest' = 0
    /\ resumed' = FALSE
    /\ UNCHANGED <<breathing, live, monitored, lastCueAt, publishing, now, cues, last>>

Tick ==
    /\ now < Horizon
    /\ now' = now + 1
    /\ UNCHANGED <<confidence, silenceCounter, breathing, live, monitored,
                   lastCueAt, publishing, cues, last, rest, resumed>>

SentinelNext ==
    \/ \E o \in Opening : Monitor(o[1], o[2])
    \/ Quiet
    \/ Noisy(Loud)
    \/ Noisy(Loud + Moving)
    \/ \E cue \in publishing : Returned(cue)
    \/ Interruption
    \/ Tick

SentinelSpec == SentinelInit /\ [][SentinelNext]_sentinelVars

-----------------------------------------------------------------------------
(* Properties                                                              *)

\* The cooldown holds between two cues that follow each other, if each was
\* published while no other publish was awaited.
CooldownBetweenLoneCues ==
    [][\A cue \in publishing' \ publishing :
          publishing = {} /\ last # NoCue /\ last.alone
              => cue.at - last.at > Cooldown]_sentinelVars

\* The most that k quiet chunks in a row can add.
MostGain[k \in Nat] ==
    IF k = 0 THEN 0 ELSE MostGain[k - 1] + Gain(Lesser(MaxSilence, k), TRUE)

\* A child who spoke up is not taken to be asleep until it has been quiet for
\* long enough to make up for the interruption, whatever noise comes between;
\* unless a publish returns meanwhile, which sets the confidence anew.
RestAfterWaking ==
    \/ resumed
    \/ rest = MaxRest
    \/ confidence <= Full - Wake + MostGain[rest]

\* A cue names a session and the user who opened it, never the user of a
\* session before: the relay broadcasts only when both match.
CueNamesAPair ==
    [][\A cue \in publishing' \ publishing : cue.names \in monitored]_sentinelVars

\* The reset exists to avoid flooding events with cues: no cue follows another
\* within the cooldown.
NoFlood ==
    [][\A cue \in publishing' \ publishing :
          last # NoCue => cue.at - last.at > Cooldown]_sentinelVars
=============================================================================

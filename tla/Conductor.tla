----------------------------- MODULE Conductor -----------------------------
(***************************************************************************)
(* BedtimeConductorAgent on one session.                                   *)
(*                                                                         *)
(* Turns of the conversation, sleep cues, new stories and tool calls of    *)
(* the session are handled at the same time, on every instance.  Each      *)
(* handler reads the whole session, works on its copy across awaits, and   *)
(* writes the copy back: there is no lock and no version.  What the        *)
(* handlers share is the theme last suggested, which a verdict of the      *)
(* child takes out of the session and enters in the agent's memory; the    *)
(* counters the quality gate divides; the start of the session and its     *)
(* phase.                                                                  *)
(*                                                                         *)
(* A Suggestion is one occasion on which a theme is suggested: the code    *)
(* compares no themes, so two of them may name the same one.  The store    *)
(* is RedisSessionState as its callers see it, one call one step: get      *)
(* answers null when Redis fails, set and patch throw.  Goals are left     *)
(* out: no caller in src sets one, so beats return early and leave the     *)
(* session as it is.  The ids that tool calls record are in LiveToolCalls. *)
(***************************************************************************)
EXTENDS Naturals, FiniteSets

CONSTANTS Handler,     \* handlers in flight, over all instances
          Suggestion,  \* occasions on which a theme is suggested
          None,        \* no suggestion
          NoSession,   \* nothing stored under the id
          MaxAttempts, \* 3: model calls for a new story
          CriticalRate,\* 70: percent of turns without an intervention
          MaxTurns     \* bound: turns a session counts

ASSUME NoneAssumption == None \notin Suggestion
ASSUME MaxAttemptsAssumption == MaxAttempts \in Nat \ {0}
ASSUME RateAssumption == CriticalRate \in 0 .. 100 /\ MaxTurns \in Nat

Phase == {"IDLE", "ONBOARDING", "STORYTELLING", "REFLECTION", "WIND_DOWN",
          "ASLEEP"}

State == [started : BOOLEAN, phase : Phase, theme : Suggestion \cup {None},
          interactions : Nat, interventions : Nat]

ASSUME NoSessionAssumption == NoSession \notin State

\* state: the copy of the session the handler works on; given: the suggestion
\* it is about to store; taken: the suggestion it has passed a verdict on and
\* has not stored; rejected: that suggestion, if the verdict was negative.
Job == [kind : {"turn", "cue", "conduct", "tool"}, state : State,
        given : Suggestion \cup {None}, taken : Suggestion \cup {None},
        rejected : Suggestion \cup {None}, attempt : 1 .. MaxAttempts]

VARIABLES session,     \* the state stored, or NoSession
          pc,          \* Handler -> where the handler is
          job,         \* Handler -> what it carries from step to step
          offered,     \* suggestions that have been made
          judged,      \* suggestions with an outcome in the agent's memory
          again,       \* suggestions with outcomes of two handlers
          rejected,    \* suggestions with a NEGATIVE outcome
          preferred,   \* pairs <<winner, loser>> in the agent's memory
          disputed,    \* suggestions two handlers carried at one time, or
                       \* whose verdict or storing was cut short
          behind       \* handlers whose copy is not what is stored any more

memory == <<offered, judged, again, rejected, preferred>>
vars == <<session, pc, job, offered, judged, again, rejected, preferred,
          disputed, behind>>

Fresh == [started |-> FALSE, phase |-> "IDLE", theme |-> None,
          interactions |-> 0, interventions |-> 0]
NoJob == [kind |-> "turn", state |-> Fresh, given |-> None, taken |-> None,
          rejected |-> None, attempt |-> 1]

Place == {"idle", "create", "judge", "start", "store", "think", "get",
          "suggest", "patch"}

TypeOK ==
    /\ session \in State \cup {NoSession}
    /\ pc \in [Handler -> Place]
    /\ job \in [Handler -> Job]
    /\ offered \in SUBSET Suggestion
    /\ judged \in SUBSET offered
    /\ again \in SUBSET judged
    /\ rejected \in SUBSET judged
    /\ preferred \in SUBSET (Suggestion \X Suggestion)
    /\ disputed \in SUBSET Suggestion
    /\ behind \in SUBSET Handler

Init ==
    /\ session = NoSession
    /\ pc = [h \in Handler |-> "idle"]
    /\ job = [h \in Handler |-> NoJob]
    /\ offered = {} /\ judged = {} /\ again = {} /\ rejected = {}
    /\ preferred = {} /\ disputed = {} /\ behind = {}

-----------------------------------------------------------------------------
(* Reading and writing the session                                         *)

Goto(h, place) == pc' = [pc EXCEPT ![h] = place]
Return(h) == Goto(h, "idle") /\ job' = [job EXCEPT ![h] = NoJob]

\* Places at which a handler has a copy that it may still write.
Holds(h) == pc[h] \in {"create", "judge", "start", "store", "suggest", "patch"}

\* The handler's copy has the suggestion, or had it until its verdict.
Carries(h, s) ==
    /\ pc[h] \in {"judge", "start", "store"}
    /\ s \in {job[h].state.theme, job[h].taken} \ {None}

\* A write by a handler: every other copy is behind from now on.
Put(h, state) ==
    /\ session' = state
    /\ behind' = {g \in Handler \ {h} : Holds(g)}

\* Where a handler goes on with its copy.
Resume(j) ==
    IF j.given # None THEN "suggest"
    ELSE IF j.kind = "conduct" THEN "start" ELSE "judge"

\* _getOrInitState, first half.  get answers null when there is no session,
\* and also when Redis fails: the handler goes on as if there were none.
GetState(h, j) ==
    \/ /\ session # NoSession
       /\ job' = [job EXCEPT ![h] = [j EXCEPT !.state = session]]
       /\ Goto(h, Resume(j))
       /\ behind' = behind \ {h}
       /\ disputed' = disputed \cup
              {s \in {session.theme} \ {None} :
                  Resume(j) # "suggest" /\ \E g \in Handler \ {h} : Carries(g, s)}
    \/ /\ job' = [job EXCEPT ![h] = [j EXCEPT !.state = Fresh]]
       /\ Goto(h, "create")
       /\ behind' = IF session = NoSession THEN behind \ {h}
                                           ELSE behind \cup {h}
       /\ UNCHANGED disputed

\* _getOrInitState, second half: the fresh state is set.
Create(h) ==
    /\ pc[h] = "create"
    /\ Put(h, Fresh)
    /\ Goto(h, Resume(job[h]))
    /\ UNCHANGED <<job, memory, disputed>>

\* The session is set up anew by POST /live/init, or expires.
InitSession ==
    /\ session' = Fresh
    /\ behind' = {h \in Handler : Holds(h)}
    /\ UNCHANGED <<pc, job, memory, disputed>>

Expire ==
    /\ session # NoSession
    /\ session' = NoSession
    /\ behind' = {h \in Handler : Holds(h)}
    /\ UNCHANGED <<pc, job, memory, disputed>>

-----------------------------------------------------------------------------
(* The handlers                                                            *)

\* AtomOfThoughtEngine.transition
Transition(phase, signal) ==
    CASE phase = "IDLE" /\ signal = "START" -> "ONBOARDING"
      [] phase = "ONBOARDING" /\ signal = "STORY_START" -> "STORYTELLING"
      [] phase \in {"STORYTELLING", "REFLECTION", "WIND_DOWN"}
             /\ signal = "SLEEP_DETECTED" -> "ASLEEP"
      [] phase = "STORYTELLING" /\ signal = "STORY_END" -> "REFLECTION"
      [] phase = "REFLECTION" /\ signal # "SLEEP_DETECTED" -> "WIND_DOWN"
      [] phase = "ASLEEP" /\ signal = "WAKE_UP" -> "IDLE"
      [] OTHER -> phase

\* QualityGate: is the unattended completion rate critical?
Breached(state) ==
    100 * (state.interactions - state.interventions)
        < CriticalRate * state.interactions

\* processTurn, handleSleepCueDetected and conductStorySession begin alike.
Begin(h, kind) ==
    /\ pc[h] = "idle"
    /\ kind # "tool"
    /\ GetState(h, [NoJob EXCEPT !.kind = kind])
    /\ UNCHANGED <<session, memory>>

\* trackOutcome: the verdict is entered in memory, whatever the session holds.
Track(s) ==
    /\ judged' = judged \cup ({s} \ {None})
    /\ again' = again \cup ({s} \cap judged)

Verdict(theme, answer) == IF answer = "other" THEN None ELSE theme

\* Mutation: a theme the child likes is not cleared.
RemainingIfLiked(theme, answer) == IF answer = "no" THEN None ELSE theme

\* state.lastSuggestedTheme = undefined
Remaining(theme, answer) == IF answer = "other" THEN theme ELSE None

\* Mutation: every "no" counts, also one that turns nothing down.
IntervenesAlways(theme, answer) == answer = "no"

\* "Negative feedback is an intervention"
Intervenes(theme, answer) == theme # None /\ answer = "no"

\* The copy of a turn after the answer, and of a cue after the credit.
Answered(state, answer) ==
    [state EXCEPT
        !.theme = Remaining(@, answer),
        !.interactions = @ + 1,
        !.interventions = @ + IF Intervenes(state.theme, answer) THEN 1 ELSE 0]

Credited(state) ==
    [state EXCEPT
        !.phase = IF state.started THEN Transition(@, "SLEEP_DETECTED") ELSE @,
        !.theme = None]

\* processTurn up to its first set: what the child says of the suggestion.
JudgeTurn(h, answer) ==
    LET state == job[h].state
        verdict == Verdict(state.theme, answer)
        negative == IF answer = "no" THEN verdict ELSE None
    IN
    /\ pc[h] = "judge" /\ job[h].kind = "turn"
    /\ state.interactions < MaxTurns
    /\ Track(verdict)
    /\ rejected' = rejected \cup ({negative} \ {None})
    /\ job' = [job EXCEPT ![h].state = Answered(state, answer),
                          ![h].taken = verdict,
                          ![h].rejected = negative]
    /\ Goto(h, "store")
    /\ UNCHANGED <<session, offered, preferred, disputed, behind>>

\* handleSleepCueDetected: the theme is credited, twice, and taken out.
JudgeCue(h) ==
    LET state == job[h].state IN
    /\ pc[h] = "judge" /\ job[h].kind = "cue"
    /\ state.theme # None
    /\ Track(state.theme)
    /\ job' = [job EXCEPT ![h].state = Credited(state),
                          ![h].taken = state.theme]
    /\ Goto(h, "store")
    /\ UNCHANGED <<session, offered, rejected, preferred, disputed, behind>>

\* if (!state.lastSuggestedTheme || !this.memory) return
IgnoreCue(h) ==
    /\ pc[h] = "judge" /\ job[h].kind = "cue"
    /\ job[h].state.theme = None
    /\ Return(h)
    /\ behind' = behind \ {h}
    /\ UNCHANGED <<session, memory, disputed>>

\* The state goes back as a whole.  A turn whose counters breach the gate is
\* answered in safe mode, without a model call and without a suggestion.
Store(h) ==
    LET state == job[h].state IN
    /\ pc[h] = "store"
    /\ Put(h, state)
    /\ IF job[h].kind = "cue" \/ Breached(state)
       THEN Return(h)
       ELSE /\ Goto(h, "think")
            /\ job' = [job EXCEPT ![h].taken = None, ![h].state = Fresh]
    /\ UNCHANGED <<memory, disputed>>

\* conductStorySession: the first story of a session starts it.
Start(h) ==
    LET state == job[h].state IN
    /\ pc[h] = "start"
    /\ IF state.started
       THEN behind' = behind \ {h} /\ UNCHANGED session
       ELSE Put(h, [state EXCEPT !.started = TRUE,
                                 !.phase = Transition(@, "START")])
    /\ Goto(h, "think")
    /\ job' = [job EXCEPT ![h].state = Fresh]
    /\ UNCHANGED <<memory, disputed>>

\* The model answers with a suggestion; a story has its theme beforehand.
Think(h, s) ==
    /\ pc[h] = "think"
    /\ IF job[h].given = None THEN s \notin offered ELSE s = job[h].given
    /\ offered' = offered \cup {s}
    /\ job' = [job EXCEPT ![h].given = s]
    /\ Goto(h, "get")
    /\ UNCHANGED <<session, judged, again, rejected, preferred, disputed, behind>>

\* "Re-fetch to ensure freshness"
Get(h) ==
    /\ pc[h] = "get"
    /\ GetState(h, job[h])
    /\ UNCHANGED <<session, memory>>

\* Mutation: the state is made anew around the theme.
WithThemeAlone(state, s) == [Fresh EXCEPT !.theme = s]

WithTheme(state, s) == [state EXCEPT !.theme = s]

\* Mutation: the rejected theme is taken from the state read anew.
PairWithTheme(h) == <<job[h].given, job[h].state.theme>>

\* trackPreferencePair(themeParam, rejectedTheme)
Pair(h) == <<job[h].given, job[h].rejected>>

\* A turn that has turned one suggestion down and made another one has shown
\* a preference.
Suggest(h) ==
    /\ pc[h] = "suggest"
    /\ Put(h, WithTheme(job[h].state, job[h].given))
    /\ preferred' = preferred \cup ({Pair(h)} \cap (Suggestion \X Suggestion))
    /\ Return(h)
    /\ UNCHANGED <<offered, judged, again, rejected, disputed>>

\* Mutation: one attempt too many.
RetryOnceMore(h) ==
    IF job[h].kind = "conduct" /\ job[h].attempt <= MaxAttempts
    THEN /\ Goto(h, "think")
         /\ job' = [job EXCEPT ![h].attempt = @ + 1, ![h].state = Fresh]
    ELSE Return(h)

\* A story's model call or set fails: another attempt, or the fallback.
Retry(h) ==
    IF job[h].kind = "conduct" /\ job[h].attempt < MaxAttempts
    THEN /\ Goto(h, "think")
         /\ job' = [job EXCEPT ![h].attempt = @ + 1, ![h].state = Fresh]
    ELSE Return(h)

\* The set of a suggestion reaches Redis, and its answer or the preference that
\* a turn would enter next is lost.
SuggestUnconfirmed(h) ==
    /\ pc[h] = "suggest"
    /\ Put(h, WithTheme(job[h].state, job[h].given))
    /\ Retry(h)
    /\ disputed' = disputed \cup {job[h].given}
    /\ UNCHANGED memory

\* A call of the model or of the store fails inside the try block.
Fail(h) ==
    /\ \/ pc[h] \in {"think", "suggest"}
       \/ pc[h] = "create" /\ job[h].given # None
    /\ Retry(h)
    /\ behind' = behind \ {h}
    /\ UNCHANGED <<session, memory, disputed>>

\* Anything else fails, a turn needs no suggestion, or the instance stops.
End(h) ==
    /\ pc[h] # "idle"
    /\ Return(h)
    /\ behind' = behind \ {h}
    /\ disputed' = disputed \cup ({job[h].taken} \ {None})
    /\ UNCHANGED <<session, memory>>

-----------------------------------------------------------------------------
(* POST /live/tool                                                         *)

BeginTool(h) ==
    /\ pc[h] = "idle"
    /\ session # NoSession
    /\ job' = [job EXCEPT ![h] = [NoJob EXCEPT !.kind = "tool",
                                               !.state = session]]
    /\ Goto(h, "patch")
    /\ behind' = behind \ {h}
    /\ UNCHANGED <<session, memory, disputed>>

\* The context is patched back as it was read, and the counters are in it.
Patch(h) ==
    LET state == job[h].state IN
    /\ pc[h] = "patch"
    /\ session # NoSession
    /\ Put(h, [session EXCEPT !.interactions = state.interactions,
                              !.interventions = state.interventions])
    /\ Return(h)
    /\ UNCHANGED <<memory, disputed>>

Next ==
    \/ InitSession
    \/ Expire
    \/ \E h \in Handler :
          \/ \E kind \in {"turn", "cue", "conduct"} : Begin(h, kind)
          \/ Create(h)
          \/ \E answer \in {"no", "yes", "other"} : JudgeTurn(h, answer)
          \/ JudgeCue(h) \/ IgnoreCue(h)
          \/ Store(h)
          \/ Start(h)
          \/ \E s \in Suggestion : Think(h, s)
          \/ Get(h)
          \/ Suggest(h) \/ SuggestUnconfirmed(h)
          \/ Fail(h) \/ End(h)
          \/ BeginTool(h) \/ Patch(h)

Spec == Init /\ [][Next]_vars

-----------------------------------------------------------------------------
(* Properties                                                              *)

\* A suggestion is credited or blamed once.  Two verdicts on it need two
\* handlers that had it at the same time, or a set that failed or whose
\* answer was lost; turns, cues and stories one after the other, stale writes
\* of other handlers, inits and expiries do not bring a judged theme back.
JudgedOnce == again \subseteq disputed

\* The counters never show an intervention without its NEGATIVE outcome in
\* memory, unless a suggestion turned down was judged again, nor more
\* interventions than interactions, whichever handler's copies were written:
\* the rate the quality gate computes stays between 0 and 1.
InterventionsBacked ==
    session # NoSession =>
        /\ session.interventions <= session.interactions
        /\ \/ again \cap rejected # {}
           \/ session.interventions <= Cardinality(rejected)

\* A preference in memory is one of a suggestion that was made over another one
\* that was turned down, though the turn read the session anew in between.
PreferenceBacked ==
    \A p \in preferred : /\ p[1] \in offered
                         /\ p[2] \in rejected
                         /\ p[1] # p[2]

\* Why no session is ever asleep (SleepCueLeavesAsleep): START and SLEEP_DETECTED
\* are all that is signalled, and whatever copies are written back, a session is
\* onboarding exactly when a story has started it, and else idle.
PhaseFollowsStart ==
    session # NoSession =>
        session.phase = IF session.started THEN "ONBOARDING" ELSE "IDLE"

\* A sleep cue that is credited in a started session leaves it asleep: "Session
\* state should be updated to SLEEP_DETECTED" (handleSleepCueDetected).
SleepCueLeavesAsleep ==
    [][\A h \in Handler :
          Store(h) /\ job[h].kind = "cue" /\ job[h].state.started
              => session'.phase = "ASLEEP"]_vars

\* The session goes on: started, counters not lower, and its suggestion there
\* unless a verdict has been passed on it.
GoesOn(old, new) ==
    /\ new # NoSession
    /\ old.started => new.started
    /\ old.interactions <= new.interactions
    /\ old.interventions <= new.interventions
    /\ old.theme \in {None, new.theme} \cup judged

\* What is in a session is lost only when the session is set up anew or
\* expires (no handler moves), when a newer suggestion takes the place of the
\* old one, or when a handler writes a copy that another write has overtaken
\* or that a failed read made up; never by a handler alone with the session,
\* however long its model calls take.
LossesExplained ==
    [][session # NoSession /\ ~GoesOn(session, session') =>
          \/ pc' = pc
          \/ \E h \in Handler :
                /\ pc'[h] # pc[h]
                /\ \/ h \in behind
                   \/ /\ pc[h] = "suggest"
                      /\ GoesOn([session EXCEPT !.theme = None], session')]_vars
=============================================================================

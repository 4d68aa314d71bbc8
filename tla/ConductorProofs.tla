-------------------------- MODULE ConductorProofs --------------------------
(***************************************************************************)
(* What the run of Conductor shows for two handlers and two suggestions,   *)
(* proved for any number of both, any number of attempts and any rate the  *)
(* quality gate may ask for.                                               *)
(***************************************************************************)
EXTENDS Conductor, FiniteSetTheorems, TLAPS

\* What a handler carries has been offered, and the verdicts it carries are in
\* memory; no turn prefers a suggestion to itself.
Fits(h) ==
    /\ job[h].state.theme \in offered \cup {None}
    /\ job[h].given \in offered \cup {None}
    /\ job[h].taken \in judged \cup {None}
    /\ job[h].rejected \in rejected \cup {None}
    /\ job[h].given # None => job[h].given # job[h].rejected

\* What a handler carries where.
Placed(h) ==
    /\ pc[h] = "create" => job[h].state = Fresh
    /\ pc[h] \in {"idle", "judge", "start", "store", "patch"} =>
           job[h].given = None
    /\ pc[h] \in {"get", "suggest"} => job[h].given # None
    /\ job[h].taken # None => pc[h] = "store" /\ job[h].state.theme = None

Known ==
    /\ session # NoSession => session.theme \in offered \cup {None}
    /\ \A h \in Handler : Fits(h) /\ Placed(h)

Types == TypeOK /\ Known

-----------------------------------------------------------------------------
\* The initial copy is a state.
LEMMA FreshType == Fresh \in State
BY DEF Fresh, State, Phase

\* A handler that is idle carries nothing, which is a job.
LEMMA NoJobType == NoJob \in Job
<1>1. 1 \in 1 .. MaxAttempts
    BY MaxAttemptsAssumption
<1> QED BY <1>1, FreshType DEF NoJob, Job

\* Every signal leads from a phase to a phase.
LEMMA TransitionType ==
    ASSUME NEW phase \in Phase, NEW signal
    PROVE  Transition(phase, signal) \in Phase
BY DEF Transition, Phase

\* What an answer and a credit do to a copy.
LEMMA AnsweredState ==
    ASSUME NEW state \in State, NEW answer
    PROVE  /\ Answered(state, answer) \in State
           /\ Answered(state, answer).started = state.started
           /\ Answered(state, answer).phase = state.phase
           /\ Answered(state, answer).theme = Remaining(state.theme, answer)
           /\ Answered(state, answer).interactions = state.interactions + 1
           /\ Answered(state, answer).interventions =
                  state.interventions +
                  IF Intervenes(state.theme, answer) THEN 1 ELSE 0
<1> DEFINE more == IF Intervenes(state.theme, answer) THEN 1 ELSE 0
<1>1. /\ Remaining(state.theme, answer) \in Suggestion \cup {None}
      /\ state.interactions + 1 \in Nat
      /\ state.interventions + more \in Nat
    BY DEF State, Remaining
<1>2. Answered(state, answer) =
          [state EXCEPT !.theme = Remaining(state.theme, answer),
                        !.interactions = state.interactions + 1,
                        !.interventions = state.interventions + more]
    BY DEF Answered
<1> HIDE DEF more
<1>3. /\ Answered(state, answer) \in State
      /\ Answered(state, answer).started = state.started
      /\ Answered(state, answer).phase = state.phase
      /\ Answered(state, answer).theme = Remaining(state.theme, answer)
      /\ Answered(state, answer).interactions = state.interactions + 1
      /\ Answered(state, answer).interventions = state.interventions + more
    BY <1>1, <1>2 DEF State
<1> QED BY <1>3 DEF more

\* A credit takes the theme from a copy, and the phase along the cue's transition
\* if the session was started; the counters stay.
LEMMA CreditedState ==
    ASSUME NEW state \in State
    PROVE  /\ Credited(state) \in State
           /\ Credited(state).started = state.started
           /\ Credited(state).phase =
                  IF state.started THEN Transition(state.phase, "SLEEP_DETECTED")
                  ELSE state.phase
           /\ Credited(state).theme = None
           /\ Credited(state).interactions = state.interactions
           /\ Credited(state).interventions = state.interventions
<1>1. Transition(state.phase, "SLEEP_DETECTED") \in Phase
    BY TransitionType DEF State
<1> QED BY <1>1 DEF State, Credited

\* After its read a handler goes on at one of three places.
LEMMA ResumeType ==
    ASSUME NEW j
    PROVE  Resume(j) \in {"suggest", "start", "judge"}
BY DEF Resume

\* Types of the copy a handler gets.
LEMMA GetTypes ==
    ASSUME Types, NEW h \in Handler, NEW j \in Job, GetState(h, j),
           UNCHANGED <<session, memory>>,
           j.given \in offered \cup {None},
           j.taken = None,
           j.rejected \in rejected \cup {None},
           j.given # None => j.given # j.rejected
    PROVE  /\ pc' \in [Handler -> Place]
           /\ job' \in [Handler -> Job]
           /\ behind' \in SUBSET Handler
           /\ disputed' \in SUBSET Suggestion
           /\ Known'
<1> USE DEF Types, TypeOK, memory
<1> DEFINE copy == IF pc'[h] = "create" THEN Fresh ELSE session
<1>1. /\ pc' = [pc EXCEPT ![h] = pc'[h]]
      /\ pc'[h] \in {"create", "suggest", "start", "judge"}
      /\ pc'[h] = "suggest" => j.given # None
      /\ pc'[h] \in {"start", "judge"} => j.given = None
      /\ job' = [job EXCEPT ![h] = [j EXCEPT !.state = copy]]
      /\ copy \in State
      /\ copy.theme \in offered \cup {None}
    <2>1. /\ Resume(j) \in {"suggest", "start", "judge"}
          /\ Resume(j) = "suggest" <=> j.given # None
        BY DEF Resume
    <2>2. CASE session # NoSession /\ Goto(h, Resume(j)) /\
               job' = [job EXCEPT ![h] = [j EXCEPT !.state = session]]
        BY <2>1, <2>2 DEF Goto, Place, Known
    <2>3. CASE Goto(h, "create") /\
               job' = [job EXCEPT ![h] = [j EXCEPT !.state = Fresh]]
        BY <2>3, FreshType DEF Goto, Place, Fresh
    <2> QED BY <2>2, <2>3 DEF GetState
<1>2. [j EXCEPT !.state = copy] \in Job
    BY <1>1 DEF Job
<1>3. /\ pc' \in [Handler -> Place]
      /\ job' \in [Handler -> Job]
    BY <1>1, <1>2 DEF Place
<1>4. /\ behind' \in SUBSET Handler
      /\ disputed' \in SUBSET Suggestion
    BY DEF GetState, State
<1>5. Known'
    <2>1. ASSUME NEW g \in Handler
          PROVE  Fits(g)' /\ Placed(g)'
        <3>1. CASE g = h
            BY <1>1, <3>1 DEF Job, Fits, Placed
        <3>2. CASE g # h
            BY <1>1, <3>2 DEF Known, Fits, Placed
        <3> QED BY <3>1, <3>2
    <2> QED BY <1>1, <2>1 DEF Known
<1> QED BY <1>3, <1>4, <1>5

\* A step of one handler keeps the types when its job is well formed.
LEMMA TypesOfStep ==
    ASSUME Types, NEW h \in Handler,
           pc' = [pc EXCEPT ![h] = pc'[h]], pc'[h] \in Place,
           job' = [job EXCEPT ![h] = job'[h]], job'[h] \in Job,
           session' \in State \cup {NoSession},
           session' # NoSession => session'.theme \in offered' \cup {None},
           Fits(h)', Placed(h)',
           offered \subseteq offered', offered' \subseteq Suggestion,
           judged \subseteq judged', judged' \subseteq offered',
           again' \subseteq judged',
           rejected \subseteq rejected', rejected' \subseteq judged',
           preferred' \in SUBSET (Suggestion \X Suggestion),
           disputed' \subseteq Suggestion, behind' \subseteq Handler
    PROVE  Types'
<1>1. TypeOK'
    BY DEF Types, TypeOK
<1>2. ASSUME NEW g \in Handler
      PROVE  Fits(g)' /\ Placed(g)'
    <2>1. CASE g = h
        BY <2>1
    <2>2. CASE g # h
        BY <2>2 DEF Types, TypeOK, Known, Fits, Placed
    <2> QED BY <2>1, <2>2
<1>3. Known'
    BY <1>2 DEF Known
<1> QED BY <1>1, <1>3 DEF Types

\* The job a handler returns to fits any memory.
LEMMA ReturnTypes ==
    ASSUME Types, NEW h \in Handler, Return(h)
    PROVE  /\ pc' = [pc EXCEPT ![h] = "idle"]
           /\ pc'[h] = "idle" /\ "idle" \in Place
           /\ job' = [job EXCEPT ![h] = NoJob]
           /\ job'[h] = NoJob
           /\ job'[h] \in Job
           /\ Fits(h)' /\ Placed(h)'
BY NoJobType DEF Types, TypeOK, Return, Goto, Place, Fits, Placed, NoJob, Fresh

\* Jobs keep their form but for the fields that change.
LEMMA RetryTypes ==
    ASSUME Types, NEW h \in Handler, Retry(h), UNCHANGED memory,
           pc[h] \in {"create", "think", "suggest"}
    PROVE  /\ pc' = [pc EXCEPT ![h] = pc'[h]] /\ pc'[h] \in {"idle", "think"}
           /\ job' = [job EXCEPT ![h] = job'[h]]
           /\ job'[h] \in Job
           /\ Fits(h)' /\ Placed(h)'
<1>1. CASE Return(h)
    BY <1>1, ReturnTypes DEF Types, TypeOK
<1>2. CASE /\ job[h].attempt < MaxAttempts
           /\ Goto(h, "think")
           /\ job' = [job EXCEPT ![h].attempt = @ + 1, ![h].state = Fresh]
    <2>1. job[h] \in Job /\ job[h].attempt + 1 \in 1 .. MaxAttempts
        BY <1>2, MaxAttemptsAssumption DEF Types, TypeOK, Job
    <2>2. job'[h] = [job[h] EXCEPT !.attempt = @ + 1, !.state = Fresh]
        BY <1>2, <2>1 DEF Types, TypeOK
    <2>3. job'[h] \in Job
        BY <2>1, <2>2, FreshType DEF Job
    <2>4. Fits(h)' /\ Placed(h)'
        BY <1>2, <2>1, <2>2
           DEF Types, TypeOK, Known, Fits, Placed, Fresh, Job, Goto, memory
    <2>5. job' = [job EXCEPT ![h] = job'[h]]
        BY <1>2, <2>2 DEF Types, TypeOK
    <2> QED BY <1>2, <2>3, <2>4, <2>5 DEF Types, TypeOK, Goto
<1> QED BY <1>1, <1>2 DEF Retry

\* Nobody carries anything in the beginning.
LEMMA InitTypes == Init => Types
<1> SUFFICES ASSUME Init
             PROVE  Types
    OBVIOUS
<1>1. ASSUME NEW h \in Handler
      PROVE  Fits(h) /\ Placed(h)
    BY DEF Init, Fits, Placed, NoJob, Fresh
<1>2. TypeOK
    BY NoJobType DEF Init, TypeOK, Place
<1>3. Known
    BY <1>1 DEF Known, Init
<1> QED BY <1>2, <1>3 DEF Types

\* Every step keeps the types, and what handlers carry known.
LEMMA StepTypes == Types /\ [Next]_vars => Types'
<1> SUFFICES ASSUME Types, [Next]_vars
             PROVE  Types'
    OBVIOUS
<1> USE DEF Types, TypeOK
<1>1. CASE UNCHANGED vars
    BY <1>1 DEF vars, Known, Fits, Placed
<1>2. CASE InitSession \/ Expire
    <2>1. /\ session' \in State \cup {NoSession}
          /\ session' # NoSession => session'.theme = None
        <3>1. Fresh.theme = None
            BY DEF Fresh
        <3> QED BY <1>2, <3>1, FreshType DEF InitSession, Expire
    <2>2. behind' \subseteq Handler
        BY <1>2 DEF InitSession, Expire
    <2>3. UNCHANGED <<pc, job, memory, disputed>>
        BY <1>2 DEF InitSession, Expire
    <2>4. ASSUME NEW h \in Handler
          PROVE  Fits(h)' /\ Placed(h)'
        BY <2>3 DEF Known, Fits, Placed, memory
    <2>5. Known'
        BY <2>1, <2>4 DEF Known
    <2> QED BY <2>1, <2>2, <2>3, <2>5 DEF memory
<1>3. ASSUME NEW h \in Handler, NEW kind \in {"turn", "cue", "conduct"},
             Begin(h, kind)
      PROVE  Types'
    <2>1. [NoJob EXCEPT !.kind = kind] \in Job
        BY NoJobType DEF Job
    <2> QED BY <1>3, <2>1, GetTypes DEF Begin, NoJob, memory
<1>4. ASSUME NEW h \in Handler, Create(h)
      PROVE  Types'
    <2>1. /\ Resume(job[h]) \in {"suggest", "start", "judge"}
          /\ Resume(job[h]) = "suggest" <=> job[h].given # None
        BY DEF Resume
    <2>2. Fits(h)' /\ Placed(h)'
        BY <1>4, <2>1 DEF Create, Goto, Known, Fits, Placed, memory
    <2> QED BY <1>4, <2>1, <2>2, FreshType, TypesOfStep
            DEF Create, Put, Goto, Place, Fresh, memory
<1>5. ASSUME NEW h \in Handler, NEW answer \in {"no", "yes", "other"},
             JudgeTurn(h, answer)
      PROVE  Types'
    <2> DEFINE state == job[h].state
               verdict == Verdict(state.theme, answer)
               negative == IF answer = "no" THEN verdict ELSE None
               new == Answered(state, answer)
    <2>1. /\ job[h] \in Job /\ state \in State
          /\ verdict \in offered \cup {None}
          /\ negative \in {None, verdict}
          /\ new \in State /\ new.theme \in {None, state.theme}
          /\ verdict # None => new.theme = None
        <3>1. job[h] \in Job /\ state \in State
            BY DEF Job
        <3>2. /\ state.theme \in offered \cup {None}
              /\ verdict \in {None, state.theme}
              /\ Remaining(state.theme, answer) \in {None, state.theme}
              /\ verdict # None => Remaining(state.theme, answer) = None
            BY DEF Known, Fits, Verdict, Remaining
        <3> QED BY <3>1, <3>2, AnsweredState
    <2>2. job'[h] = [job[h] EXCEPT !.state = new, !.taken = verdict,
                                   !.rejected = negative]
        BY <1>5, <2>1 DEF JudgeTurn
    <2>3. job'[h] \in Job
        BY <2>1, <2>2 DEF Job
    <2>4. /\ judged' = judged \cup ({verdict} \ {None})
          /\ again' = again \cup ({verdict} \cap judged)
          /\ rejected' = rejected \cup ({negative} \ {None})
        BY <1>5 DEF JudgeTurn, Track
    <2>5. /\ pc' = [pc EXCEPT ![h] = "store"]
          /\ job' = [job EXCEPT ![h] = job'[h]]
        BY <1>5, <2>2 DEF JudgeTurn, Goto
    <2>6. Fits(h)' /\ Placed(h)'
        BY <1>5, <2>1, <2>2, <2>4, <2>5 DEF Fits, Placed, Known, JudgeTurn, Job
    <2> QED BY <1>5, <2>1, <2>3, <2>4, <2>5, <2>6, TypesOfStep
            DEF JudgeTurn, Place, Known
<1>6. ASSUME NEW h \in Handler, JudgeCue(h)
      PROVE  Types'
    <2> DEFINE state == job[h].state
               new == Credited(state)
    <2>1. /\ job[h] \in Job /\ state \in State
          /\ state.theme \in offered
          /\ new \in State /\ new.theme = None
        BY <1>6, CreditedState DEF Job, State, Known, Fits, JudgeCue
    <2>2. job'[h] = [job[h] EXCEPT !.state = new, !.taken = state.theme]
        BY <1>6, <2>1 DEF JudgeCue
    <2>3. job'[h] \in Job
        BY <2>1, <2>2 DEF Job
    <2>4. /\ judged' = judged \cup {state.theme}
          /\ again' = again \cup ({state.theme} \cap judged)
        BY <1>6 DEF JudgeCue, Track
    <2>5. /\ pc' = [pc EXCEPT ![h] = "store"]
          /\ job' = [job EXCEPT ![h] = job'[h]]
        BY <1>6, <2>2 DEF JudgeCue, Goto
    <2>6. Fits(h)' /\ Placed(h)'
        BY <1>6, <2>1, <2>2, <2>4, <2>5 DEF Fits, Placed, Known, JudgeCue, Job
    <2> QED BY <1>6, <2>1, <2>3, <2>4, <2>5, <2>6, TypesOfStep
            DEF JudgeCue, Place, Known
<1>7. ASSUME NEW h \in Handler, IgnoreCue(h)
      PROVE  Types'
    BY <1>7, ReturnTypes, TypesOfStep DEF IgnoreCue, Known, memory
<1>8. ASSUME NEW h \in Handler, Store(h)
      PROVE  Types'
    <2>1. job[h] \in Job /\ job[h].state \in State
        BY DEF Job
    <2>2. CASE Return(h)
        BY <1>8, <2>1, <2>2, ReturnTypes, TypesOfStep
           DEF Store, Put, Known, Fits, memory
    <2>3. CASE /\ Goto(h, "think")
               /\ job' = [job EXCEPT ![h].taken = None, ![h].state = Fresh]
        <3>1. job'[h] = [job[h] EXCEPT !.taken = None, !.state = Fresh]
            BY <2>1, <2>3
        <3>2. job'[h] \in Job
            BY <2>1, <3>1, FreshType DEF Job
        <3>3. Fits(h)' /\ Placed(h)'
            BY <1>8, <2>1, <2>3, <3>1
               DEF Store, Goto, Fits, Placed, Known, Fresh, Job, memory
        <3>4. /\ pc' = [pc EXCEPT ![h] = "think"]
              /\ job' = [job EXCEPT ![h] = job'[h]]
            BY <2>3, <3>1 DEF Goto
        <3> QED BY <1>8, <2>1, <3>2, <3>3, <3>4, TypesOfStep
                DEF Store, Put, Place, Known, Fits, memory
    <2> QED BY <1>8, <2>2, <2>3 DEF Store
<1>9. ASSUME NEW h \in Handler, Start(h)
      PROVE  Types'
    <2>1. job[h] \in Job /\ job[h].state \in State
        BY DEF Job
    <2>2. job'[h] = [job[h] EXCEPT !.state = Fresh]
        BY <1>9, <2>1 DEF Start
    <2>3. job'[h] \in Job
        BY <2>1, <2>2, FreshType DEF Job
    <2>4. Fits(h)' /\ Placed(h)'
        BY <1>9, <2>1, <2>2 DEF Start, Goto, Fits, Placed, Known, Fresh, Job, memory
    <2>5. /\ pc' = [pc EXCEPT ![h] = "think"]
          /\ job' = [job EXCEPT ![h] = job'[h]]
        BY <1>9, <2>2 DEF Start, Goto
    <2>6. /\ session' \in State \cup {NoSession}
          /\ session' # NoSession => session'.theme \in offered \cup {None}
          /\ behind' \subseteq Handler
        <3>1. CASE job[h].state.started
            BY <1>9, <3>1 DEF Start, Known
        <3>2. CASE ~job[h].state.started
            <4> DEFINE new == [job[h].state EXCEPT !.started = TRUE,
                                            !.phase = Transition(@, "START")]
            <4>1. new \in State /\ new.theme = job[h].state.theme
                BY <2>1, TransitionType DEF State
            <4>2. session' = new /\ behind' \subseteq Handler
                BY <1>9, <3>2 DEF Start, Put
            <4> QED BY <4>1, <4>2 DEF Known, Fits
        <3> QED BY <3>1, <3>2
    <2> QED BY <1>9, <2>3, <2>4, <2>5, <2>6, TypesOfStep
            DEF Start, Place, memory
<1>10. ASSUME NEW h \in Handler, NEW s \in Suggestion, Think(h, s)
       PROVE  Types'
    <2>1. job[h] \in Job
        OBVIOUS
    <2>2. job'[h] = [job[h] EXCEPT !.given = s]
        BY <1>10, <2>1 DEF Think
    <2>3. job'[h] \in Job
        BY <2>1, <2>2 DEF Job
    <2>4. /\ pc' = [pc EXCEPT ![h] = "get"]
          /\ job' = [job EXCEPT ![h] = job'[h]]
        BY <1>10, <2>2 DEF Think, Goto
    <2>5. Fits(h)' /\ Placed(h)'
        BY <1>10, <2>1, <2>2, <2>4, NoneAssumption
           DEF Think, Fits, Placed, Known, Job
    <2> QED BY <1>10, <2>3, <2>4, <2>5, TypesOfStep DEF Think, Place, Known
<1>11. ASSUME NEW h \in Handler, Get(h)
       PROVE  Types'
    BY <1>11, GetTypes DEF Get, Known, Fits, Placed, memory
<1>12. ASSUME NEW h \in Handler, Suggest(h) \/ SuggestUnconfirmed(h)
       PROVE  Types'
    <2> DEFINE new == WithTheme(job[h].state, job[h].given)
    <2>1. /\ job[h] \in Job /\ job[h].state \in State
          /\ job[h].given \in offered
          /\ new \in State /\ new.theme = job[h].given
        BY <1>12 DEF Job, State, WithTheme, Known, Fits, Placed, Suggest,
                     SuggestUnconfirmed
    <2>2. CASE Suggest(h)
        BY <2>1, <2>2, ReturnTypes, TypesOfStep DEF Suggest, Put, memory
    <2>3. CASE SuggestUnconfirmed(h)
        BY <2>1, <2>3, RetryTypes, TypesOfStep
           DEF SuggestUnconfirmed, Put, Place, memory
    <2> QED BY <1>12, <2>2, <2>3
<1>13. ASSUME NEW h \in Handler, Fail(h)
       PROVE  Types'
    BY <1>13, RetryTypes, TypesOfStep DEF Fail, Place, Known, memory
<1>14. ASSUME NEW h \in Handler, End(h)
       PROVE  Types'
    <2>1. job[h].taken \in Suggestion \cup {None}
        BY DEF Job
    <2> QED BY <1>14, <2>1, ReturnTypes, TypesOfStep DEF End, Known, memory
<1>15. ASSUME NEW h \in Handler, BeginTool(h)
       PROVE  Types'
    <2>1. /\ [NoJob EXCEPT !.kind = "tool", !.state = session] \in Job
          /\ session \in State
        BY <1>15, NoJobType DEF BeginTool, Job
    <2>2. job'[h] = [NoJob EXCEPT !.kind = "tool", !.state = session]
        BY <1>15 DEF BeginTool
    <2>3. Fits(h)' /\ Placed(h)'
        BY <1>15, <2>2 DEF BeginTool, Goto, Fits, Placed, Known, NoJob, memory
    <2> QED BY <1>15, <2>1, <2>2, <2>3, TypesOfStep
            DEF BeginTool, Goto, Place, Known, memory
<1>16. ASSUME NEW h \in Handler, Patch(h)
       PROVE  Types'
    <2>1. job[h] \in Job /\ job[h].state \in State
        BY DEF Job
    <2>2. session' \in State /\ session'.theme = session.theme
        BY <1>16, <2>1 DEF Patch, Put, State
    <2> QED BY <1>16, <2>2, ReturnTypes, TypesOfStep DEF Patch, Put, Known, memory
<1> QED
    BY <1>1, <1>2, <1>3, <1>4, <1>5, <1>6, <1>7, <1>8, <1>9, <1>10, <1>11,
       <1>12, <1>13, <1>14, <1>15, <1>16 DEF Next

-----------------------------------------------------------------------------
(* Counters and phases                                                     *)

\* A copy against the suggestions turned down and those judged twice.
Sound(state, downs, twice) ==
    /\ state.interventions <= state.interactions
    /\ \/ twice \cap downs # {}
       \/ state.interventions <= Cardinality(downs)
    /\ state.phase = IF state.started THEN "ONBOARDING" ELSE "IDLE"

\* Any copy may be written back, so every copy has to be sound.
Counted ==
    /\ IsFiniteSet(rejected)
    /\ session # NoSession => Sound(session, rejected, again)
    /\ \A h \in Handler : Sound(job[h].state, rejected, again)

\* A new state has counted nothing, so the memory backs it.
LEMMA FreshSound ==
    ASSUME NEW downs, NEW twice, IsFiniteSet(downs)
    PROVE  Sound(Fresh, downs, twice)
<1>1. Cardinality(downs) \in Nat
    BY FS_CardinalityType
<1> QED BY <1>1 DEF Sound, Fresh

\* The memory only grows.
LEMMA SoundStays ==
    ASSUME NEW state \in State, NEW downs, NEW twice, NEW downs2, NEW twice2,
           Sound(state, downs, twice), downs \subseteq downs2,
           twice \subseteq twice2, IsFiniteSet(downs2)
    PROVE  Sound(state, downs2, twice2)
<1>1. /\ Cardinality(downs) \in Nat
      /\ Cardinality(downs2) \in Nat
      /\ Cardinality(downs) <= Cardinality(downs2)
    BY FS_CardinalityType, FS_Subset
<1>2. state.interventions \in Nat
    BY DEF State
<1> QED BY <1>1, <1>2 DEF Sound

\* Only new copies have to be looked at.
LEMMA CountedOfStep ==
    ASSUME Types, Counted, NEW h \in Handler,
           again \subseteq again', rejected \subseteq rejected',
           IsFiniteSet(rejected'),
           job' = [job EXCEPT ![h] = job'[h]],
           Sound(job'[h].state, rejected', again'),
           session' \in {session, NoSession} \/ Sound(session', rejected', again')
    PROVE  Counted'
<1>1. ASSUME NEW g \in Handler
      PROVE  Sound(job'[g].state, rejected', again')
    <2>1. CASE g = h
        BY <2>1
    <2>2. CASE g # h
        <3>1. job'[g] = job[g] /\ job[g].state \in State
            BY <2>2 DEF Types, TypeOK, Job
        <3> QED BY <3>1, SoundStays DEF Counted
    <2> QED BY <2>1, <2>2
<1>2. session' # NoSession => Sound(session', rejected', again')
    BY SoundStays DEF Counted, Types, TypeOK
<1> QED BY <1>1, <1>2 DEF Counted

\* A step that tracks nothing, and makes no new copy but in the session.
LEMMA CountedOfQuietStep ==
    ASSUME Types, Counted, NEW h \in Handler, UNCHANGED memory,
           job' = [job EXCEPT ![h] = job'[h]],
           \/ job'[h].state \in {Fresh, job[h].state}
           \/ session # NoSession /\ job'[h].state = session,
           \/ session' \in {session, NoSession, Fresh, job[h].state}
           \/ Sound(session', rejected, again)
    PROVE  Counted'
<1>1. Sound(job[h].state, rejected, again) /\ Sound(Fresh, rejected, again)
    BY FreshSound DEF Counted
<1>2. Sound(job'[h].state, rejected', again')
    BY <1>1 DEF Counted, memory
<1>3. session' \in {session, NoSession} \/ Sound(session', rejected', again')
    BY <1>1 DEF memory
<1> QED BY <1>2, <1>3, CountedOfStep DEF Counted, memory

\* The copy a handler is left with when it returns, retries or reads.
LEMMA ReturnCopy ==
    ASSUME Types, NEW h \in Handler, Return(h)
    PROVE  /\ job' = [job EXCEPT ![h] = job'[h]]
           /\ job'[h].state = Fresh
           /\ job'[h].given = None
           /\ pc' = [pc EXCEPT ![h] = pc'[h]]
           /\ pc'[h] = "idle"
BY DEF Return, Goto, Types, TypeOK, NoJob

\* A retry, or the end of the last attempt, leaves no copy to write back.
LEMMA RetryCopy ==
    ASSUME Types, NEW h \in Handler, Retry(h)
    PROVE  /\ job' = [job EXCEPT ![h] = job'[h]]
           /\ job'[h].state = Fresh
           /\ job'[h].given \in {None, job[h].given}
           /\ pc' = [pc EXCEPT ![h] = pc'[h]]
           /\ pc'[h] \in {"idle", "think"}
<1>1. CASE Return(h)
    BY <1>1, ReturnCopy
<1>2. CASE /\ Goto(h, "think")
           /\ job' = [job EXCEPT ![h].attempt = @ + 1, ![h].state = Fresh]
    <2>1. job'[h] = [job[h] EXCEPT !.attempt = @ + 1, !.state = Fresh]
        BY <1>2 DEF Types, TypeOK
    <2>2. job[h] \in Job
        BY DEF Types, TypeOK
    <2> QED BY <1>2, <2>1, <2>2 DEF Types, TypeOK, Job, Goto
<1> QED BY <1>1, <1>2 DEF Retry

\* A read gives a handler the session as it is, or a new state.
LEMMA GetCopy ==
    ASSUME Types, NEW h \in Handler, NEW j \in Job, GetState(h, j)
    PROVE  /\ job' = [job EXCEPT ![h] = job'[h]]
           /\ \/ job'[h].state = Fresh
              \/ session # NoSession /\ job'[h].state = session
BY DEF GetState, Types, TypeOK, Job

\* No counter has counted anything yet.
LEMMA CountedInit == Init => Counted
<1> SUFFICES ASSUME Init
             PROVE  Counted
    OBVIOUS
<1>1. IsFiniteSet(rejected)
    BY FS_EmptySet DEF Init
<1> QED BY <1>1, FreshSound DEF Init, Counted, NoJob

\* Every step leaves session and copies backed by the memory.
LEMMA CountedStep == Types /\ Types' /\ Counted /\ [Next]_vars => Counted'
<1> SUFFICES ASSUME Types, Types', Counted, [Next]_vars
             PROVE  Counted'
    OBVIOUS
<1> USE DEF Types, TypeOK
<1>1. CASE UNCHANGED vars
    BY <1>1 DEF vars, Counted
<1>2. CASE InitSession \/ Expire
    BY <1>2, FreshSound DEF InitSession, Expire, Counted, memory
<1>3. ASSUME NEW h \in Handler, NEW kind \in {"turn", "cue", "conduct"},
             Begin(h, kind)
      PROVE  Counted'
    <2>1. [NoJob EXCEPT !.kind = kind] \in Job
        BY NoJobType DEF Job
    <2> QED BY <1>3, <2>1, GetCopy, CountedOfQuietStep DEF Begin
<1>4. ASSUME NEW h \in Handler, Create(h)
      PROVE  Counted'
    BY <1>4, CountedOfQuietStep DEF Create, Put
<1>5. ASSUME NEW h \in Handler, NEW answer \in {"no", "yes", "other"},
             JudgeTurn(h, answer)
      PROVE  Counted'
    <2> DEFINE state == job[h].state
               new == Answered(state, answer)
               theme == state.theme
    <2>1. job[h] \in Job /\ state \in State
        BY DEF Job
    <2>2. job'[h].state = new /\ job' = [job EXCEPT ![h] = job'[h]]
        BY <1>5, <2>1 DEF JudgeTurn, Job
    <2>3. /\ again \subseteq again'
          /\ rejected \subseteq rejected'
          /\ session' = session
        BY <1>5 DEF JudgeTurn, Track
    <2>4. Sound(new, rejected', again') /\ IsFiniteSet(rejected')
        <3>1. CASE Intervenes(theme, answer)
            <4>1. /\ theme # None /\ answer = "no"
                  /\ rejected' = rejected \cup {theme}
                  /\ again' = again \cup ({theme} \cap judged)
                BY <1>5, <3>1 DEF Intervenes, JudgeTurn, Track, Verdict
            <4>2. /\ IsFiniteSet(rejected')
                  /\ Cardinality(rejected) \in Nat
                  /\ theme \notin rejected =>
                         Cardinality(rejected') = Cardinality(rejected) + 1
                BY <4>1, FS_AddElement, FS_CardinalityType DEF Counted
            <4>3. theme \in rejected => again' \cap rejected' # {}
                BY <4>1
            <4>4. /\ new.interventions = state.interventions + 1
                  /\ new.interactions = state.interactions + 1
                  /\ new.phase = state.phase /\ new.started = state.started
                BY <2>1, <3>1, AnsweredState
            <4>5. \/ again' \cap rejected' # {}
                  \/ new.interventions <= Cardinality(rejected')
                <5>1. CASE again \cap rejected # {}
                    BY <2>3, <5>1
                <5>2. CASE state.interventions <= Cardinality(rejected)
                    BY <2>1, <4>2, <4>3, <4>4, <5>2 DEF State
                <5> QED BY <5>1, <5>2 DEF Counted, Sound
            <4> QED BY <2>1, <4>2, <4>4, <4>5 DEF Counted, Sound, State
        <3>2. CASE ~Intervenes(theme, answer)
            <4>1. rejected' = rejected
                BY <1>5, <3>2 DEF Intervenes, JudgeTurn, Verdict
            <4>2. /\ new.interventions = state.interventions
                  /\ new.interactions = state.interactions + 1
                  /\ new.phase = state.phase /\ new.started = state.started
                BY <2>1, <3>2, AnsweredState DEF State
            <4> QED BY <2>1, <2>3, <4>1, <4>2 DEF Counted, Sound, State
        <3> QED BY <3>1, <3>2
    <2> QED BY <2>2, <2>3, <2>4, CountedOfStep
<1>6. ASSUME NEW h \in Handler, JudgeCue(h)
      PROVE  Counted'
    <2>1. job[h] \in Job /\ job[h].state \in State
        BY DEF Job
    <2>2. /\ job'[h].state = Credited(job[h].state)
          /\ job' = [job EXCEPT ![h] = job'[h]]
        BY <1>6, <2>1 DEF JudgeCue, Job
    <2>3. /\ again \subseteq again'
          /\ UNCHANGED <<session, rejected>>
        BY <1>6 DEF JudgeCue, Track
    <2>4. Sound(job'[h].state, rejected', again')
        BY <2>1, <2>2, <2>3, CreditedState DEF Counted, Sound, Transition
    <2> QED BY <2>2, <2>3, <2>4, CountedOfStep DEF Counted
<1>7. ASSUME NEW h \in Handler, IgnoreCue(h)
      PROVE  Counted'
    BY <1>7, ReturnCopy, CountedOfQuietStep DEF IgnoreCue
<1>8. ASSUME NEW h \in Handler, Store(h)
      PROVE  Counted'
    <2>1. job[h] \in Job
        OBVIOUS
    <2>2. job' = [job EXCEPT ![h] = job'[h]] /\ job'[h].state = Fresh
        BY <1>8, <2>1, ReturnCopy DEF Store, Job
    <2> QED BY <1>8, <2>2, CountedOfQuietStep DEF Store, Put
<1>9. ASSUME NEW h \in Handler, Start(h)
      PROVE  Counted'
    <2> DEFINE state == job[h].state
               new == [state EXCEPT !.started = TRUE,
                                    !.phase = Transition(@, "START")]
    <2>1. job[h] \in Job /\ state \in State
        BY DEF Job
    <2>2. job' = [job EXCEPT ![h] = job'[h]] /\ job'[h].state = Fresh
        BY <1>9, <2>1 DEF Start, Job
    <2>3. ~state.started => Sound(new, rejected, again)
        <3>1. /\ new.started = TRUE
              /\ new.phase = Transition(state.phase, "START")
              /\ new.interactions = state.interactions
              /\ new.interventions = state.interventions
            BY <2>1 DEF State
        <3> QED BY <2>1, <3>1 DEF Counted, Sound, Transition
    <2> QED BY <1>9, <2>2, <2>3, CountedOfQuietStep DEF Start, Put
<1>10. ASSUME NEW h \in Handler, NEW s \in Suggestion, Think(h, s)
       PROVE  Counted'
    <2>1. job[h] \in Job
        OBVIOUS
    <2>2. /\ job' = [job EXCEPT ![h] = job'[h]]
          /\ job'[h].state = job[h].state
        BY <1>10, <2>1 DEF Think, Job
    <2> QED BY <1>10, <2>2, CountedOfStep DEF Think, Counted
<1>11. ASSUME NEW h \in Handler, Get(h)
       PROVE  Counted'
    BY <1>11, GetCopy, CountedOfQuietStep DEF Get
<1>12. ASSUME NEW h \in Handler, Suggest(h) \/ SuggestUnconfirmed(h)
       PROVE  Counted'
    <2> DEFINE new == WithTheme(job[h].state, job[h].given)
    <2>1. job[h] \in Job /\ job[h].state \in State
        BY DEF Job
    <2>2. Sound(new, rejected, again)
        BY <2>1 DEF Counted, Sound, WithTheme, State
    <2>3. job' = [job EXCEPT ![h] = job'[h]] /\ job'[h].state = Fresh
        BY <1>12, ReturnCopy, RetryCopy DEF Suggest, SuggestUnconfirmed
    <2>4. session' = new /\ UNCHANGED <<again, rejected>>
        BY <1>12 DEF Suggest, SuggestUnconfirmed, Put, memory
    <2> QED BY <2>2, <2>3, <2>4, FreshSound, CountedOfStep DEF Counted
<1>13. ASSUME NEW h \in Handler, Fail(h)
       PROVE  Counted'
    BY <1>13, RetryCopy, CountedOfQuietStep DEF Fail
<1>14. ASSUME NEW h \in Handler, End(h)
       PROVE  Counted'
    BY <1>14, ReturnCopy, CountedOfQuietStep DEF End
<1>15. ASSUME NEW h \in Handler, BeginTool(h)
       PROVE  Counted'
    <2>1. [NoJob EXCEPT !.kind = "tool", !.state = session].state = session
        BY NoJobType DEF Job
    <2> QED BY <1>15, <2>1, CountedOfQuietStep DEF BeginTool
<1>16. ASSUME NEW h \in Handler, Patch(h)
       PROVE  Counted'
    <2>1. job[h] \in Job /\ job[h].state \in State
        BY DEF Job
    <2>2. Sound(session', rejected, again)
        BY <1>16, <2>1 DEF Patch, Put, Counted, Sound, State
    <2> QED BY <1>16, <2>2, ReturnCopy, CountedOfQuietStep DEF Patch
<1> QED
    BY <1>1, <1>2, <1>3, <1>4, <1>5, <1>6, <1>7, <1>8, <1>9, <1>10, <1>11,
       <1>12, <1>13, <1>14, <1>15, <1>16 DEF Next

-----------------------------------------------------------------------------
(* One verdict for a suggestion                                            *)

\* Of a suggestion that was never disputed: one handler carries it at a time;
\* after its verdict no copy has it, and the session only until the handler
\* that passed the verdict has stored; and before it is stored for the first
\* time it is with one handler and nowhere else.
Single(s) ==
    /\ s \notin again
    /\ \A g, h \in Handler : Carries(g, s) /\ Carries(h, s) => g = h
    /\ s \in judged =>
           /\ \A h \in Handler :
                  pc[h] \in {"judge", "start", "store"} => job[h].state.theme # s
           /\ session # NoSession /\ session.theme = s =>
                  \E h \in Handler : pc[h] = "store" /\ job[h].taken = s
    /\ \A h \in Handler : job[h].given = s =>
           /\ s \notin judged
           /\ session # NoSession => session.theme # s
           /\ \A g \in Handler : ~Carries(g, s)
           /\ \A g \in Handler : job[g].given = s => g = h

Once == \A s \in Suggestion \ disputed : Single(s)

\* A step of one handler that tracks nothing: s comes to no new place.
LEMMA SingleOfStep ==
    ASSUME Types, NEW h \in Handler, NEW s \in Suggestion, Single(s),
           s \in judged' <=> s \in judged,
           s \in again' <=> s \in again,
           pc' = [pc EXCEPT ![h] = pc'[h]],
           job' = [job EXCEPT ![h] = job'[h]],
           Carries(h, s)' => Carries(h, s),
           pc'[h] \in {"judge", "start", "store"} =>
               job'[h].state.theme # s \/ s \notin judged,
           job'[h].given = s => job[h].given = s,
           session' # NoSession /\ session'.theme = s =>
               /\ \/ session # NoSession /\ session.theme = s
                  \/ s \notin judged /\ \A g \in Handler : job'[g].given # s
               /\ ~(pc[h] = "store" /\ job[h].taken = s)
    PROVE  Single(s)'
<1> USE DEF Types, TypeOK
<1>1. ASSUME NEW g \in Handler, g # h
      PROVE  pc'[g] = pc[g] /\ job'[g] = job[g]
    BY <1>1
<1>2. ASSUME NEW g \in Handler
      PROVE  Carries(g, s)' => Carries(g, s)
    BY <1>1 DEF Carries
<1>3. ASSUME NEW g \in Handler, job'[g].given = s
      PROVE  job[g].given = s
    BY <1>1, <1>3
<1>4. \A f, g \in Handler : Carries(f, s)' /\ Carries(g, s)' => f = g
    BY <1>2 DEF Single
<1>5. s \in judged =>
          \A g \in Handler :
              pc'[g] \in {"judge", "start", "store"} => job'[g].state.theme # s
    BY <1>1 DEF Single
<1>6. s \in judged /\ session' # NoSession /\ session'.theme = s =>
          \E g \in Handler : pc'[g] = "store" /\ job'[g].taken = s
    BY <1>1 DEF Single
<1>7. ASSUME NEW f \in Handler, job'[f].given = s
      PROVE  /\ s \notin judged
             /\ session' # NoSession => session'.theme # s
             /\ \A g \in Handler : ~Carries(g, s)'
             /\ \A g \in Handler : job'[g].given = s => g = f
    BY <1>2, <1>3, <1>7 DEF Single
<1> QED BY <1>4, <1>5, <1>6, <1>7 DEF Single

\* No suggestion is anywhere yet.
LEMMA OnceInit == Init => Once
<1> SUFFICES ASSUME Init, NEW s \in Suggestion
             PROVE  Single(s)
    BY DEF Once
<1>1. s # None
    BY NoneAssumption
<1>2. \A h \in Handler : pc[h] = "idle" /\ job[h].given = None
    BY DEF Init, NoJob
<1> QED BY <1>1, <1>2 DEF Init, Single, Carries

\* What has once been disputed remains so.
LEMMA DisputedStays == [Next]_vars => disputed \subseteq disputed'
<1> SUFFICES ASSUME [Next]_vars
             PROVE  disputed \subseteq disputed'
    OBVIOUS
<1>1. CASE UNCHANGED vars \/ InitSession \/ Expire
    BY <1>1 DEF vars, InitSession, Expire
<1>2. ASSUME NEW h \in Handler,
             \/ \E kind \in {"turn", "cue", "conduct"} : Begin(h, kind)
             \/ Get(h)
      PROVE  disputed \subseteq disputed'
    <2>1. ASSUME NEW j, GetState(h, j)
          PROVE  disputed \subseteq disputed'
        BY <2>1 DEF GetState
    <2> QED BY <1>2, <2>1 DEF Begin, Get
<1>3. ASSUME NEW h \in Handler,
             \E answer \in {"no", "yes", "other"} : JudgeTurn(h, answer)
      PROVE  disputed \subseteq disputed'
    BY <1>3 DEF JudgeTurn
<1>4. ASSUME NEW h \in Handler,
             \/ Create(h) \/ JudgeCue(h) \/ IgnoreCue(h) \/ Store(h)
             \/ Start(h) \/ \E s \in Suggestion : Think(h, s)
      PROVE  disputed \subseteq disputed'
    BY <1>4 DEF Create, JudgeCue, IgnoreCue, Store, Start, Think
<1>5. ASSUME NEW h \in Handler,
             \/ Suggest(h) \/ SuggestUnconfirmed(h) \/ Fail(h) \/ End(h)
             \/ BeginTool(h) \/ Patch(h)
      PROVE  disputed \subseteq disputed'
    BY <1>5 DEF Suggest, SuggestUnconfirmed, Fail, End, BeginTool, Patch
<1> QED BY <1>1, <1>2, <1>3, <1>4, <1>5 DEF Next

\* Every step leaves a suggestion that is not disputed in one place.
LEMMA OnceStep == Types /\ Types' /\ Once /\ [Next]_vars => Once'
<1> SUFFICES ASSUME Types, Types', Once, [Next]_vars,
                    NEW s \in Suggestion, s \notin disputed', s \notin disputed
             PROVE  Single(s)'
    BY DisputedStays DEF Once
<1> USE DEF Types, TypeOK
<1>0. Single(s) /\ s # None
    BY NoneAssumption DEF Once
<1>1. CASE UNCHANGED vars
    BY <1>0, <1>1 DEF vars, Single, Carries
<1>2. CASE InitSession \/ Expire
    <2>1. session' # NoSession => session'.theme # s
        BY <1>0, <1>2 DEF InitSession, Expire, Fresh
    <2>2. UNCHANGED <<pc, job, judged, again>>
        BY <1>2 DEF InitSession, Expire, memory
    <2> QED BY <1>0, <2>1, <2>2 DEF Single, Carries
<1>3. ASSUME NEW h \in Handler, NEW kind \in {"turn", "cue", "conduct"},
             Begin(h, kind)
      PROVE  Single(s)'
    <2> DEFINE j == [NoJob EXCEPT !.kind = kind]
    <2>1. /\ j \in Job /\ j.given = None /\ j.taken = None
          /\ Resume(j) \in {"start", "judge"}
        BY NoJobType DEF Job, NoJob, Resume
    <2>2. /\ UNCHANGED <<session, judged, again>>
          /\ GetState(h, j) /\ pc[h] = "idle"
        BY <1>3 DEF Begin, memory
    <2>3. CASE pc'[h] = "create"
        <3>1. /\ pc' = [pc EXCEPT ![h] = pc'[h]]
              /\ job' = [job EXCEPT ![h] = job'[h]]
              /\ job'[h].given = None
            <4>1. PICK place, state :
                      /\ pc' = [pc EXCEPT ![h] = place]
                      /\ job' = [job EXCEPT ![h] = [j EXCEPT !.state = state]]
                BY <2>2 DEF GetState, Goto
            <4>2. [j EXCEPT !.state = state].given = None
                BY <2>1 DEF Job
            <4> QED BY <4>1, <4>2
        <3>2. ~Carries(h, s)'
            BY <2>3 DEF Carries
        <3> QED BY <1>0, <2>2, <2>3, <3>1, <3>2, SingleOfStep DEF Single
    <2>4. CASE pc'[h] # "create"
        <3>1. /\ session # NoSession
              /\ job' = [job EXCEPT ![h] = [j EXCEPT !.state = session]]
              /\ pc' = [pc EXCEPT ![h] = Resume(j)]
              /\ s = session.theme => \A g \in Handler \ {h} : ~Carries(g, s)
            BY <1>0, <2>1, <2>2, <2>4 DEF GetState, Goto
        <3>2. /\ job'[h].state = session /\ job'[h].given = None
              /\ job'[h].taken = None
              /\ job' = [job EXCEPT ![h] = job'[h]]
              /\ pc' = [pc EXCEPT ![h] = pc'[h]]
            BY <2>1, <3>1 DEF Job
        <3>3. CASE session.theme # s
            <4>1. ~Carries(h, s)'
                BY <1>0, <3>2, <3>3 DEF Carries
            <4> QED BY <1>0, <2>2, <3>1, <3>2, <3>3, <4>1, SingleOfStep
        <3>4. CASE session.theme = s
            <4>1. s \notin judged
                BY <1>0, <2>2, <3>1, <3>4 DEF Single, Carries
            <4>2. \A g \in Handler : job[g].given # s
                BY <1>0, <3>1, <3>4 DEF Single
            <4>3. ASSUME NEW g \in Handler, g # h
                  PROVE  ~Carries(g, s)' /\ job'[g] = job[g]
                BY <3>1, <3>4, <4>3 DEF Carries
            <4>4. \A g \in Handler : job'[g].given # s
                BY <1>0, <3>2, <4>2, <4>3
            <4> QED BY <1>0, <2>2, <4>1, <4>3, <4>4 DEF Single
        <3> QED BY <3>3, <3>4
    <2> QED BY <2>3, <2>4
<1>4. ASSUME NEW h \in Handler, Create(h)
      PROVE  Single(s)'
    <2>1. job[h].state = Fresh /\ job[h].taken = None
        BY <1>4 DEF Create, Known, Placed
    <2>2. Fresh.theme # s
        BY <1>0 DEF Fresh
    <2>3. ~Carries(h, s)'
        BY <1>0, <1>4, <2>1, <2>2 DEF Create, Carries
    <2> QED BY <1>0, <1>4, <2>1, <2>2, <2>3, SingleOfStep
            DEF Create, Put, Goto, memory
<1>5. ASSUME NEW h \in Handler, NEW verdict \in Suggestion \cup {None},
             pc[h] = "judge", pc' = [pc EXCEPT ![h] = "store"],
             job' = [job EXCEPT ![h] = job'[h]],
             verdict \in {None, job[h].state.theme},
             job'[h].state.theme \in {None, job[h].state.theme},
             verdict # None => job'[h].state.theme = None,
             job'[h].taken = verdict,
             job'[h].given = job[h].given,
             Track(verdict), UNCHANGED session
      PROVE  Single(s)'
    <2>1. CASE s # verdict
        <3>1. /\ s \in judged' <=> s \in judged
              /\ s \in again' <=> s \in again
            BY <1>5, <2>1 DEF Track
        <3>2. /\ Carries(h, s)' => Carries(h, s)
              /\ job'[h].state.theme # s \/ s \notin judged
            BY <1>0, <1>5, <2>1 DEF Carries, Single
        <3>3. session # NoSession /\ session.theme = s /\ s \notin judged =>
                  \A g \in Handler : job'[g].given # s
            BY <1>0, <1>5 DEF Single
        <3> QED BY <1>0, <1>5, <2>1, <3>1, <3>2, <3>3, SingleOfStep
    <2>2. CASE s = verdict
        <3>1. Carries(h, s) /\ job[h].state.theme = s
            BY <1>0, <1>5, <2>2 DEF Carries
        <3>2. s \notin judged /\ s \notin again'
            BY <1>0, <1>5, <3>1 DEF Single, Track
        <3>3. ASSUME NEW g \in Handler, g # h
              PROVE  /\ pc'[g] = pc[g] /\ job'[g] = job[g]
                     /\ ~Carries(g, s)'
            BY <1>0, <1>5, <3>1, <3>3 DEF Single, Carries
        <3>4. /\ pc'[h] = "store" /\ job'[h].taken = s
              /\ job'[h].state.theme # s
            BY <1>0, <1>5, <2>2
        <3>5. \A g \in Handler : job'[g].given # s
            BY <1>0, <1>5, <3>1, <3>3 DEF Single
        <3>6. \A g \in Handler :
                  pc'[g] \in {"judge", "start", "store"} =>
                      job'[g].state.theme # s
            BY <1>0, <3>3, <3>4 DEF Carries
        <3> QED BY <3>2, <3>3, <3>4, <3>5, <3>6 DEF Single
    <2> QED BY <2>1, <2>2
<1>6. ASSUME NEW h \in Handler, NEW answer \in {"no", "yes", "other"},
             JudgeTurn(h, answer)
      PROVE  Single(s)'
    <2> DEFINE state == job[h].state
               verdict == Verdict(state.theme, answer)
    <2>1. job[h] \in Job /\ state \in State
        BY DEF Job
    <2>2. /\ job' = [job EXCEPT ![h] = job'[h]]
          /\ job'[h].state = Answered(state, answer)
          /\ job'[h].taken = verdict
          /\ job'[h].given = job[h].given
        BY <1>6, <2>1 DEF JudgeTurn, Job
    <2>3. /\ verdict \in {None, state.theme}
          /\ verdict \in Suggestion \cup {None}
          /\ Answered(state, answer).theme \in {None, state.theme}
          /\ verdict # None => Answered(state, answer).theme = None
        BY <2>1, AnsweredState DEF Verdict, Remaining, State
    <2> QED BY <1>5, <1>6, <2>2, <2>3 DEF JudgeTurn, Goto
<1>7. ASSUME NEW h \in Handler, JudgeCue(h)
      PROVE  Single(s)'
    <2> DEFINE state == job[h].state
    <2>1. job[h] \in Job /\ state \in State
        BY DEF Job
    <2>2. /\ job' = [job EXCEPT ![h] = job'[h]]
          /\ job'[h].state = Credited(state)
          /\ job'[h].taken = state.theme
          /\ job'[h].given = job[h].given
        BY <1>7, <2>1 DEF JudgeCue, Job
    <2>3. state.theme \in Suggestion /\ Credited(state).theme = None
        BY <1>7, <2>1, CreditedState DEF JudgeCue, State
    <2> QED BY <1>5, <1>7, <2>2, <2>3 DEF JudgeCue, Goto
<1>8. ASSUME NEW h \in Handler, IgnoreCue(h) \/ End(h)
      PROVE  Single(s)'
    <2>1. ~(pc[h] = "store" /\ job[h].taken = s)
        BY <1>0, <1>8 DEF IgnoreCue, End
    <2>2. Return(h) /\ UNCHANGED <<session, judged, again>>
        BY <1>8 DEF IgnoreCue, End, memory
    <2>3. ~Carries(h, s)'
        BY <2>2, ReturnCopy DEF Carries
    <2>4. session # NoSession /\ session.theme = s => \A g \in Handler : job[g].given # s
        BY <1>0 DEF Single
    <2> QED BY <1>0, <2>1, <2>2, <2>3, <2>4, ReturnCopy, SingleOfStep
<1>9. ASSUME NEW h \in Handler, Store(h)
      PROVE  Single(s)'
    <2> DEFINE state == job[h].state
    <2>1. job[h] \in Job /\ job[h].given = None
        BY <1>9 DEF Store, Known, Placed
    <2>2. /\ job' = [job EXCEPT ![h] = job'[h]]
          /\ job'[h].given = None
          /\ pc' = [pc EXCEPT ![h] = pc'[h]]
          /\ pc'[h] \in {"idle", "think"}
        BY <1>9, <2>1, ReturnCopy DEF Store, Job, Goto
    <2>3. state.theme = s =>
              /\ s \notin judged
              /\ job[h].taken # s
              /\ \A g \in Handler : job[g].given # s
        BY <1>0, <1>9 DEF Store, Single, Carries, Known, Placed
    <2>4. session' = state /\ UNCHANGED <<judged, again>>
        BY <1>9 DEF Store, Put, memory
    <2>5. state.theme = s => \A g \in Handler : job'[g].given # s
        BY <1>0, <2>2, <2>3
    <2>6. ~Carries(h, s)'
        BY <2>2 DEF Carries
    <2> QED BY <1>0, <2>2, <2>3, <2>4, <2>5, <2>6, SingleOfStep
<1>10. ASSUME NEW h \in Handler, Start(h)
       PROVE  Single(s)'
    <2> DEFINE state == job[h].state
    <2>1. job[h] \in Job /\ state \in State /\ pc[h] = "start"
        BY <1>10 DEF Start, Job
    <2>2. /\ job' = [job EXCEPT ![h] = job'[h]]
          /\ job'[h].given = job[h].given
          /\ pc' = [pc EXCEPT ![h] = "think"]
          /\ UNCHANGED <<judged, again>>
        BY <1>10, <2>1 DEF Start, Job, Goto, memory
    <2>3. session' = session \/ session'.theme = state.theme
        BY <1>10, <2>1 DEF Start, Put, State
    <2>4. state.theme = s =>
              s \notin judged /\ \A g \in Handler : job[g].given # s
        BY <1>0, <2>1 DEF Single, Carries
    <2>5. state.theme = s => \A g \in Handler : job'[g].given # s
        BY <2>2, <2>4
    <2>6. ~Carries(h, s)'
        BY <2>2 DEF Carries
    <2> QED BY <1>0, <2>1, <2>2, <2>3, <2>4, <2>5, <2>6, SingleOfStep
<1>11. ASSUME NEW h \in Handler, NEW given \in Suggestion, Think(h, given)
       PROVE  Single(s)'
    <2>1. job[h] \in Job /\ pc[h] = "think"
        BY <1>11 DEF Think
    <2>2. /\ job' = [job EXCEPT ![h] = job'[h]]
          /\ job'[h].given = given
          /\ pc' = [pc EXCEPT ![h] = "get"]
          /\ UNCHANGED <<session, judged, again>>
        BY <1>11, <2>1 DEF Think, Job, Goto
    <2>3. ~Carries(h, s)'
        BY <2>2 DEF Carries
    <2>4. CASE given = s => job[h].given = s
        <3>1. /\ pc' = [pc EXCEPT ![h] = pc'[h]]
              /\ pc'[h] = "get"
              /\ job'[h].given = s => job[h].given = s
            BY <2>2, <2>4
        <3> QED BY ONLY Types, <1>0, <2>1, <2>2, <2>3, <3>1, SingleOfStep
    <2>5. CASE given = s /\ job[h].given # s
        <3>1. s \notin offered
            BY <1>0, <1>11, <2>5 DEF Think
        <3>2. /\ s \notin judged /\ s \notin again
              /\ session # NoSession => session.theme # s
              /\ \A g \in Handler : job[g].given # s /\ ~Carries(g, s)
            BY <1>0, <3>1 DEF Known, Fits, Carries
        <3>3. ASSUME NEW g \in Handler
              PROVE  /\ ~Carries(g, s)'
                     /\ job'[g].given = s => g = h
            BY <2>2, <2>3, <3>2 DEF Carries
        <3> QED BY <2>2, <3>2, <3>3 DEF Single
    <2> QED BY <2>4, <2>5
<1>12. ASSUME NEW h \in Handler, Get(h)
       PROVE  Single(s)'
    <2>1. /\ job[h] \in Job /\ job[h].given # None
          /\ Resume(job[h]) = "suggest"
        BY <1>12 DEF Get, Known, Placed, Resume
    <2>2. /\ job' = [job EXCEPT ![h] = job'[h]]
          /\ job'[h].given = job[h].given
          /\ pc' = [pc EXCEPT ![h] = pc'[h]]
          /\ pc'[h] \in {"suggest", "create"}
          /\ UNCHANGED <<session, judged, again>>
          /\ pc[h] = "get"
        BY <1>12, <2>1 DEF Get, GetState, Goto, Job, memory
    <2>3. ~Carries(h, s)'
        BY <2>2 DEF Carries
    <2> QED BY <1>0, <2>2, <2>3, SingleOfStep DEF Single
<1>13. ASSUME NEW h \in Handler, Suggest(h) \/ SuggestUnconfirmed(h)
       PROVE  Single(s)'
    <2>1. /\ job[h] \in Job /\ job[h].state \in State
          /\ pc[h] = "suggest"
        BY <1>13 DEF Job, Suggest, SuggestUnconfirmed
    <2>2. /\ session'.theme = job[h].given
          /\ UNCHANGED <<judged, again>>
        BY <1>13, <2>1 DEF Suggest, SuggestUnconfirmed, Put, WithTheme, State,
                           memory
    <2>3. /\ job' = [job EXCEPT ![h] = job'[h]]
          /\ job'[h].given \in {None, job[h].given}
          /\ pc' = [pc EXCEPT ![h] = pc'[h]]
          /\ pc'[h] \in {"idle", "think"}
        BY <1>13, ReturnCopy, RetryCopy DEF Suggest, SuggestUnconfirmed
    <2>4. job[h].given = s =>
              s \notin judged /\ \A g \in Handler : job[g].given = s => g = h
        BY <1>0 DEF Single
    <2>5. job[h].given = s => job'[h].given # s
        BY <1>0, <1>13, ReturnCopy DEF Suggest, SuggestUnconfirmed
    <2>6. job[h].given = s => \A g \in Handler : job'[g].given # s
        BY <2>3, <2>4, <2>5
    <2>7. ~Carries(h, s)'
        BY <2>3 DEF Carries
    <2> QED BY <1>0, <2>1, <2>2, <2>3, <2>4, <2>6, <2>7, SingleOfStep
<1>14. ASSUME NEW h \in Handler, Fail(h)
       PROVE  Single(s)'
    <2>1. /\ pc[h] # "store" /\ Retry(h)
          /\ UNCHANGED <<session, judged, again>>
        BY <1>14 DEF Fail, memory
    <2>2. /\ job' = [job EXCEPT ![h] = job'[h]]
          /\ job'[h].given \in {None, job[h].given}
          /\ pc' = [pc EXCEPT ![h] = pc'[h]]
          /\ pc'[h] \in {"idle", "think"}
        BY <2>1, RetryCopy
    <2>3. ~Carries(h, s)'
        BY <2>2 DEF Carries
    <2> QED BY <1>0, <2>1, <2>2, <2>3, SingleOfStep
<1>15. ASSUME NEW h \in Handler, BeginTool(h)
       PROVE  Single(s)'
    <2>1. [NoJob EXCEPT !.kind = "tool", !.state = session].given = None
        BY NoJobType DEF Job, NoJob
    <2>2. /\ job' = [job EXCEPT ![h] = job'[h]]
          /\ job'[h].given = None
          /\ pc' = [pc EXCEPT ![h] = "patch"]
          /\ pc[h] = "idle"
          /\ UNCHANGED <<session, judged, again>>
        BY <1>15, <2>1 DEF BeginTool, Goto, memory
    <2>3. ~Carries(h, s)'
        BY <2>2 DEF Carries
    <2> QED BY <1>0, <2>2, <2>3, SingleOfStep
<1>16. ASSUME NEW h \in Handler, Patch(h)
       PROVE  Single(s)'
    <2>1. /\ pc[h] = "patch" /\ Return(h)
          /\ session # NoSession /\ session'.theme = session.theme
          /\ UNCHANGED <<judged, again>>
        BY <1>16 DEF Patch, Put, State, memory
    <2>2. ~Carries(h, s)'
        BY <2>1, ReturnCopy DEF Carries
    <2> QED BY <1>0, <2>1, <2>2, ReturnCopy, SingleOfStep
<1> QED
    BY <1>1, <1>2, <1>3, <1>4, <1>6, <1>7, <1>8, <1>9, <1>10, <1>11, <1>12,
       <1>13, <1>14, <1>15, <1>16 DEF Next

-----------------------------------------------------------------------------
(* Preferences                                                             *)

\* The memory forgets nothing, and a preference enters it with a suggestion.
LEMMA MemoryGrows ==
    ASSUME [Next]_vars
    PROVE  /\ offered \subseteq offered'
           /\ rejected \subseteq rejected'
           /\ preferred' \subseteq preferred \/ \E h \in Handler : Suggest(h)
<1> USE DEF memory
<1>1. CASE UNCHANGED vars \/ InitSession \/ Expire
    BY <1>1 DEF vars, InitSession, Expire
<1>2. ASSUME NEW h \in Handler,
             \/ \E kind \in {"turn", "cue", "conduct"} : Begin(h, kind)
             \/ Get(h) \/ Create(h)
             \/ \E answer \in {"no", "yes", "other"} : JudgeTurn(h, answer)
      PROVE  offered' = offered /\ rejected \subseteq rejected'
             /\ preferred' = preferred
    BY <1>2 DEF Begin, Get, Create, JudgeTurn
<1>3. ASSUME NEW h \in Handler,
             \/ JudgeCue(h) \/ IgnoreCue(h) \/ Store(h)
             \/ Start(h) \/ \E s \in Suggestion : Think(h, s)
      PROVE  offered \subseteq offered' /\ rejected' = rejected
             /\ preferred' = preferred
    BY <1>3 DEF JudgeCue, IgnoreCue, Store, Start, Think
<1>4. ASSUME NEW h \in Handler,
             \/ SuggestUnconfirmed(h) \/ Fail(h) \/ End(h)
             \/ BeginTool(h) \/ Patch(h)
      PROVE  UNCHANGED memory
    BY <1>4 DEF SuggestUnconfirmed, Fail, End, BeginTool, Patch
<1>5. ASSUME NEW h \in Handler, Suggest(h)
      PROVE  offered' = offered /\ rejected' = rejected
    BY <1>5 DEF Suggest
<1> QED BY <1>1, <1>2, <1>3, <1>4, <1>5 DEF Next

\* A step enters a preference only for a suggestion after another was rejected.
LEMMA PreferenceStep ==
    Types /\ PreferenceBacked /\ [Next]_vars => PreferenceBacked'
<1> SUFFICES ASSUME Types, PreferenceBacked, [Next]_vars,
                    NEW p \in preferred'
             PROVE  p[1] \in offered' /\ p[2] \in rejected' /\ p[1] # p[2]
    BY DEF PreferenceBacked
<1>1. CASE p \in preferred
    BY <1>1, MemoryGrows DEF PreferenceBacked
<1>2. CASE p \notin preferred
    <2>1. PICK h \in Handler : Suggest(h)
        BY <1>2, MemoryGrows
    <2>2. p = Pair(h) /\ Pair(h) \in Suggestion \X Suggestion
        BY <1>2, <2>1 DEF Suggest
    <2>3. p[1] = job[h].given /\ p[2] = job[h].rejected
        BY <2>2 DEF Pair
    <2>4. job[h].rejected # None
        BY <2>2, NoneAssumption DEF Pair
    <2>5. /\ job[h].given \in offered
          /\ job[h].rejected \in rejected
          /\ job[h].given # job[h].rejected
        BY <2>1, <2>4 DEF Suggest, Types, Known, Fits, Placed
    <2> QED BY <2>3, <2>5, MemoryGrows
<1> QED BY <1>1, <1>2

-----------------------------------------------------------------------------
(* What a write loses                                                      *)

\* A copy that is not behind is the session, or goes on from it.
Current(h) ==
    h \notin behind =>
        /\ pc[h] = "create" => session = NoSession
        /\ pc[h] \in {"judge", "start", "suggest", "patch"} =>
               session # NoSession /\ job[h].state = session
        /\ pc[h] = "store" =>
               session # NoSession /\ GoesOn(session, job[h].state)

Copies == \A h \in Handler : Current(h)

\* A step of one handler, which reads or overtakes every other copy.
LEMMA CopiesOfStep ==
    ASSUME Types, Copies, NEW h \in Handler,
           pc' = [pc EXCEPT ![h] = pc'[h]],
           job' = [job EXCEPT ![h] = job'[h]],
           judged \subseteq judged',
           \/ session' = session /\ behind \ {h} \subseteq behind'
           \/ behind' = {g \in Handler \ {h} : Holds(g)},
           Current(h)'
    PROVE  Copies'
<1> SUFFICES ASSUME NEW g \in Handler, g # h
             PROVE  Current(g)'
    BY DEF Copies
<1>1. pc'[g] = pc[g] /\ job'[g] = job[g]
    BY DEF Types, TypeOK
<1>2. CASE session' = session /\ behind \ {h} \subseteq behind'
    <2>1. GoesOn(session, job[g].state) => GoesOn(session, job[g].state)'
        BY <1>1, <1>2 DEF GoesOn
    <2> QED BY <1>1, <1>2, <2>1 DEF Copies, Current
<1>3. CASE behind' = {f \in Handler \ {h} : Holds(f)}
    BY <1>1, <1>3 DEF Current, Holds
<1> QED BY <1>2, <1>3

\* A handler that lets go of its copy.
LEMMA CopiesOfReturn ==
    ASSUME Types, Copies, NEW h \in Handler,
           pc' = [pc EXCEPT ![h] = pc'[h]],
           pc'[h] \in {"idle", "think", "get"},
           job' = [job EXCEPT ![h] = job'[h]],
           judged \subseteq judged',
           \/ session' = session /\ behind \ {h} \subseteq behind'
           \/ behind' = {g \in Handler \ {h} : Holds(g)}
    PROVE  Copies'
BY CopiesOfStep DEF Current

\* A handler that reads the session.
LEMMA CopiesOfGet ==
    ASSUME Types, Copies, NEW h \in Handler, NEW j \in Job, GetState(h, j),
           UNCHANGED <<session, memory>>
    PROVE  Copies'
<1> USE DEF Types, TypeOK
<1>1. CASE /\ session # NoSession
           /\ job' = [job EXCEPT ![h] = [j EXCEPT !.state = session]]
           /\ Goto(h, Resume(j))
           /\ behind' = behind \ {h}
    <2>1. /\ pc' = [pc EXCEPT ![h] = pc'[h]]
          /\ pc'[h] \in {"judge", "start", "suggest"}
        BY <1>1, ResumeType DEF Goto
    <2>2. [j EXCEPT !.state = session].state = session
        BY DEF Job
    <2>3. job' = [job EXCEPT ![h] = job'[h]] /\ job'[h].state = session
        BY <1>1, <2>2
    <2>4. Current(h)'
        BY <1>1, <2>1, <2>3 DEF Current
    <2> QED BY <1>1, <2>1, <2>3, <2>4, CopiesOfStep DEF memory
<1>2. CASE /\ job' = [job EXCEPT ![h] = [j EXCEPT !.state = Fresh]]
           /\ Goto(h, "create")
           /\ behind' = IF session = NoSession THEN behind \ {h}
                                               ELSE behind \cup {h}
    <2>1. Current(h)'
        BY <1>2 DEF Current, Goto
    <2> QED BY <1>2, <2>1, CopiesOfStep DEF Goto, memory
<1> QED BY <1>1, <1>2 DEF GetState

\* Nobody holds a copy yet.
LEMMA CopiesInit == Init => Copies
BY DEF Init, Copies, Current

\* Every step marks the copies that it overtakes, or leaves them current.
LEMMA CopiesStep == Types /\ Copies /\ [Next]_vars => Copies'
<1> SUFFICES ASSUME Types, Copies, [Next]_vars
             PROVE  Copies'
    OBVIOUS
<1> USE DEF Types, TypeOK
<1>1. CASE UNCHANGED vars
    BY <1>1 DEF vars, Copies, Current, GoesOn
<1>2. CASE InitSession \/ Expire
    BY <1>2 DEF InitSession, Expire, Copies, Current, Holds
<1>3. ASSUME NEW h \in Handler, NEW kind \in {"turn", "cue", "conduct"},
             Begin(h, kind)
      PROVE  Copies'
    <2>1. [NoJob EXCEPT !.kind = kind] \in Job
        BY NoJobType DEF Job
    <2> QED BY <1>3, <2>1, CopiesOfGet DEF Begin
<1>4. ASSUME NEW h \in Handler, Create(h)
      PROVE  Copies'
    <2>1. /\ job' = job /\ job[h].state = Fresh /\ session' = Fresh
          /\ Fresh # NoSession
        BY <1>4, FreshType, NoSessionAssumption
           DEF Create, Put, Known, Placed
    <2>2. /\ pc' = [pc EXCEPT ![h] = pc'[h]]
          /\ pc'[h] \in {"judge", "start", "suggest"}
        BY <1>4, ResumeType DEF Create, Goto
    <2>3. Current(h)'
        BY <2>1, <2>2 DEF Current
    <2> QED BY <1>4, <2>1, <2>2, <2>3, CopiesOfStep DEF Create, Put, memory
<1>5. ASSUME NEW h \in Handler, NEW answer \in {"no", "yes", "other"},
             JudgeTurn(h, answer)
      PROVE  Copies'
    <2> DEFINE state == job[h].state
    <2>1. job[h] \in Job /\ state \in State
        BY DEF Job
    <2>2. /\ job' = [job EXCEPT ![h] = job'[h]]
          /\ job'[h].state = Answered(state, answer)
          /\ pc' = [pc EXCEPT ![h] = "store"] /\ pc[h] = "judge"
          /\ UNCHANGED <<session, behind>>
          /\ judged' = judged \cup ({Verdict(state.theme, answer)} \ {None})
        BY <1>5, <2>1 DEF JudgeTurn, Goto, Track, Job
    <2>3. ASSUME h \notin behind
          PROVE  session = state /\ state # NoSession
        BY <2>2, <2>3 DEF Copies, Current
    <2>4. /\ Answered(state, answer) # NoSession
          /\ Answered(state, answer).started = state.started
          /\ Answered(state, answer).interactions >= state.interactions
          /\ Answered(state, answer).interventions >= state.interventions
          /\ state.theme \in {None, Answered(state, answer).theme} \cup judged'
        BY <2>1, <2>2, AnsweredState, NoSessionAssumption
           DEF State, Remaining, Verdict
    <2>5. h \notin behind => GoesOn(session, job[h].state)'
        BY <2>1, <2>2, <2>3, <2>4, AnsweredState DEF GoesOn, State
    <2>6. Current(h)'
        BY <2>2, <2>3, <2>5 DEF Current
    <2> QED BY <2>2, <2>6, CopiesOfStep
<1>6. ASSUME NEW h \in Handler, JudgeCue(h)
      PROVE  Copies'
    <2> DEFINE state == job[h].state
    <2>1. job[h] \in Job /\ state \in State
        BY DEF Job
    <2>2. /\ job' = [job EXCEPT ![h] = job'[h]]
          /\ job'[h].state = Credited(state)
          /\ pc' = [pc EXCEPT ![h] = "store"] /\ pc[h] = "judge"
          /\ UNCHANGED <<session, behind>>
          /\ judged' = judged \cup ({state.theme} \ {None})
        BY <1>6, <2>1 DEF JudgeCue, Goto, Track, Job
    <2>3. ASSUME h \notin behind
          PROVE  session = state /\ state # NoSession
        BY <2>2, <2>3 DEF Copies, Current
    <2>4. h \notin behind => GoesOn(session, job[h].state)'
        BY <2>1, <2>2, <2>3, CreditedState, NoSessionAssumption
           DEF GoesOn, State
    <2>5. Current(h)'
        BY <2>2, <2>3, <2>4 DEF Current
    <2> QED BY <2>2, <2>5, CopiesOfStep
<1>7. ASSUME NEW h \in Handler, IgnoreCue(h) \/ End(h)
      PROVE  Copies'
    BY <1>7, ReturnCopy, CopiesOfReturn DEF IgnoreCue, End, memory
<1>8. ASSUME NEW h \in Handler, Store(h)
      PROVE  Copies'
    <2>1. job[h] \in Job
        OBVIOUS
    <2>2. /\ job' = [job EXCEPT ![h] = job'[h]]
          /\ pc' = [pc EXCEPT ![h] = pc'[h]]
          /\ pc'[h] \in {"idle", "think"}
        BY <1>8, <2>1, ReturnCopy DEF Store, Goto
    <2> QED BY <1>8, <2>2, CopiesOfReturn DEF Store, Put, memory
<1>9. ASSUME NEW h \in Handler, Start(h)
      PROVE  Copies'
    <2>1. /\ job' = [job EXCEPT ![h] = job'[h]]
          /\ pc' = [pc EXCEPT ![h] = pc'[h]] /\ pc'[h] = "think"
        BY <1>9 DEF Start, Goto
    <2> QED BY <1>9, <2>1, CopiesOfReturn DEF Start, Put, memory
<1>10. ASSUME NEW h \in Handler, NEW s \in Suggestion, Think(h, s)
       PROVE  Copies'
    <2>1. /\ job' = [job EXCEPT ![h] = job'[h]]
          /\ pc' = [pc EXCEPT ![h] = pc'[h]] /\ pc'[h] = "get"
        BY <1>10 DEF Think, Goto
    <2> QED BY <1>10, <2>1, CopiesOfReturn DEF Think
<1>11. ASSUME NEW h \in Handler, Get(h)
       PROVE  Copies'
    <2>1. job[h] \in Job
        OBVIOUS
    <2> QED BY <1>11, <2>1, CopiesOfGet DEF Get
<1>12. ASSUME NEW h \in Handler, Suggest(h) \/ SuggestUnconfirmed(h)
       PROVE  Copies'
    <2>1. Return(h) \/ Retry(h)
        BY <1>12 DEF Suggest, SuggestUnconfirmed
    <2>2. /\ judged' = judged
          /\ behind' = {g \in Handler \ {h} : Holds(g)}
        BY <1>12 DEF Suggest, SuggestUnconfirmed, Put, memory
    <2> QED BY <2>1, <2>2, ReturnCopy, RetryCopy, CopiesOfReturn
<1>13. ASSUME NEW h \in Handler, Fail(h)
       PROVE  Copies'
    BY <1>13, RetryCopy, CopiesOfReturn DEF Fail, memory
<1>14. ASSUME NEW h \in Handler, BeginTool(h)
       PROVE  Copies'
    <2>1. [NoJob EXCEPT !.kind = "tool", !.state = session].state = session
        BY NoJobType DEF Job
    <2>2. /\ job' = [job EXCEPT ![h] = job'[h]] /\ job'[h].state = session
          /\ pc' = [pc EXCEPT ![h] = "patch"]
        BY <1>14, <2>1 DEF BeginTool, Goto
    <2>3. Current(h)'
        BY <1>14, <2>2 DEF BeginTool, Current
    <2> QED BY <1>14, <2>2, <2>3, CopiesOfStep DEF BeginTool, memory
<1>15. ASSUME NEW h \in Handler, Patch(h)
       PROVE  Copies'
    BY <1>15, ReturnCopy, CopiesOfReturn DEF Patch, Put, memory
<1> QED
    BY <1>1, <1>2, <1>3, <1>4, <1>5, <1>6, <1>7, <1>8, <1>9, <1>10, <1>11,
       <1>12, <1>13, <1>14, <1>15 DEF Next

\* A write keeps what the handler's copy has, and the copy is the session's.
LEMMA LossStep ==
    ASSUME Types, Copies, [Next]_vars,
           session # NoSession, ~GoesOn(session, session'), pc' # pc
    PROVE  \E h \in Handler :
               /\ pc'[h] # pc[h]
               /\ \/ h \in behind
                  \/ /\ pc[h] = "suggest"
                     /\ GoesOn([session EXCEPT !.theme = None], session')
<1> USE DEF Types, TypeOK
<1>1. GoesOn(session, session)
    BY DEF GoesOn, State
<1>2. session' # session
    BY <1>1 DEF GoesOn
<1>3. CASE UNCHANGED vars \/ InitSession \/ Expire
    BY <1>2, <1>3 DEF vars, InitSession, Expire
<1>4. ASSUME NEW h \in Handler, NEW kind \in {"turn", "cue", "conduct"},
             Begin(h, kind)
      PROVE  FALSE
    BY <1>2, <1>4 DEF Begin
<1>5. ASSUME NEW h \in Handler,
             NEW answer \in {"no", "yes", "other"}, JudgeTurn(h, answer)
      PROVE  FALSE
    BY <1>2, <1>5 DEF JudgeTurn
<1>6. ASSUME NEW h \in Handler, NEW s \in Suggestion, Think(h, s)
      PROVE  FALSE
    BY <1>2, <1>6 DEF Think
<1>7. ASSUME NEW h \in Handler,
             \/ JudgeCue(h) \/ IgnoreCue(h) \/ Get(h) \/ Fail(h) \/ End(h)
             \/ BeginTool(h)
      PROVE  FALSE
    BY <1>2, <1>7 DEF JudgeCue, IgnoreCue, Get, Fail, End, BeginTool
<1>8. ASSUME NEW h \in Handler, Create(h)
      PROVE  h \in behind /\ pc'[h] # pc[h]
    <2>1. h \in behind
        BY <1>8 DEF Create, Copies, Current
    <2>2. pc'[h] # pc[h]
        BY <1>8, ResumeType DEF Create, Goto
    <2> QED BY <2>1, <2>2
<1>9. ASSUME NEW h \in Handler, Store(h)
      PROVE  h \in behind /\ pc'[h] # pc[h]
    <2>1. h \in behind
        BY <1>9 DEF Store, Put, Copies, Current
    <2>2. pc'[h] # pc[h]
        BY <1>9 DEF Store, Return, Goto
    <2> QED BY <2>1, <2>2
<1>10. ASSUME NEW h \in Handler, Start(h)
       PROVE  h \in behind /\ pc'[h] # pc[h]
    <2> DEFINE state == job[h].state
               new == [state EXCEPT !.started = TRUE,
                                    !.phase = Transition(@, "START")]
    <2>1. /\ pc[h] = "start" /\ pc'[h] = "think" /\ session' = new
        BY <1>2, <1>10 DEF Start, Put, Goto
    <2>2. ASSUME h \notin behind
          PROVE  FALSE
        <3>1. state = session /\ session \in State
            BY <2>1, <2>2 DEF Copies, Current
        <3>2. /\ new.started = TRUE /\ new.theme = state.theme
              /\ new.interactions = state.interactions
              /\ new.interventions = state.interventions
              /\ Transition(state.phase, "START") \in Phase
            BY <3>1, TransitionType DEF State
        <3>3. new \in State
            BY <3>1, <3>2 DEF State
        <3>4. /\ new # NoSession
              /\ session.interactions \in Nat /\ session.interventions \in Nat
            BY <3>1, <3>3, NoSessionAssumption DEF State
        <3> HIDE DEF new
        <3>5. GoesOn(session, new)
            BY <3>1, <3>2, <3>4 DEF GoesOn
        <3> QED BY <2>1, <3>5
    <2> QED BY <2>1, <2>2
<1>11. ASSUME NEW h \in Handler, Suggest(h) \/ SuggestUnconfirmed(h)
       PROVE  /\ pc'[h] # pc[h] /\ pc[h] = "suggest"
              /\ h \in behind \/ GoesOn([session EXCEPT !.theme = None], session')
    <2>1. /\ pc[h] = "suggest" /\ pc'[h] \in {"idle", "think"}
          /\ session' = WithTheme(job[h].state, job[h].given)
        BY <1>11, ReturnCopy, RetryCopy DEF Suggest, SuggestUnconfirmed, Put
    <2>2. ASSUME h \notin behind
          PROVE  GoesOn([session EXCEPT !.theme = None], session')
        <3>1. job[h].state = session /\ session \in State
            BY <2>1, <2>2 DEF Copies, Current
        <3>2. job[h].given \in Suggestion \cup {None}
            BY DEF Job
        <3>3. /\ session' \in State
              /\ session'.started = session.started
              /\ session'.interactions = session.interactions
              /\ session'.interventions = session.interventions
            BY <2>1, <3>1, <3>2 DEF State, WithTheme
        <3> DEFINE old == [session EXCEPT !.theme = None]
        <3>4. /\ old.started = session.started /\ old.theme = None
              /\ old.interactions = session.interactions
              /\ old.interventions = session.interventions
              /\ session.interactions \in Nat /\ session.interventions \in Nat
            BY <3>1 DEF State
        <3> HIDE DEF old
        <3>5. GoesOn(old, session')
            BY <3>3, <3>4, NoSessionAssumption DEF GoesOn
        <3> QED BY <3>5 DEF old
    <2> QED BY <2>1, <2>2
<1>12. ASSUME NEW h \in Handler, Patch(h)
       PROVE  h \in behind /\ pc'[h] # pc[h]
    <2>1. /\ pc[h] = "patch" /\ pc'[h] = "idle"
          /\ session' = [session EXCEPT
                             !.interactions = job[h].state.interactions,
                             !.interventions = job[h].state.interventions]
        BY <1>12, ReturnCopy DEF Patch, Put
    <2>2. ASSUME h \notin behind
          PROVE  FALSE
        <3>1. job[h].state = session /\ session \in State
            BY <2>1, <2>2 DEF Copies, Current
        <3> QED BY <1>2, <2>1, <3>1 DEF State
    <2> QED BY <2>1, <2>2
<1> QED
    BY <1>3, <1>4, <1>5, <1>6, <1>7, <1>8, <1>9, <1>10, <1>11, <1>12 DEF Next

-----------------------------------------------------------------------------
(* Theorems                                                                *)

\* Session, copies and memory keep their types, and what a handler carries is
\* where its place in the code says.
THEOREM TypeCorrect == Spec => [](TypeOK /\ Known)
<1>1. Types => TypeOK /\ Known
    BY DEF Types
<1> QED BY InitTypes, StepTypes, <1>1, PTL DEF Spec

\* The types, and what is known, hold in every reachable state.
LEMMA AllTypes == Spec => []Types
BY InitTypes, StepTypes, PTL DEF Spec

\* So does what backs the counters.
LEMMA AllCounted == Spec => []Counted
BY AllTypes, CountedInit, CountedStep, PTL DEF Spec

\* So do the single places of suggestions.
LEMMA AllOnce == Spec => []Once
BY AllTypes, OnceInit, OnceStep, PTL DEF Spec

\* However many turns, cues and stories of a session overlap, a suggestion
\* with the outcomes of two handlers was with both at one time, or its set or
\* the storing of its verdict was cut short.
THEOREM SuggestionsJudgedOnce == Spec => []JudgedOnce
<1>1. Types /\ Once => JudgedOnce
    BY DEF Types, TypeOK, Once, Single, JudgedOnce
<1> QED BY AllTypes, AllOnce, <1>1, PTL

\* The counters the quality gate divides are backed by the memory in every
\* session stored, by whichever handler.
THEOREM InterventionsAlwaysBacked == Spec => []InterventionsBacked
<1>1. Counted => InterventionsBacked
    BY DEF Counted, Sound, InterventionsBacked
<1> QED BY AllCounted, <1>1, PTL

\* No write brings a session into a phase of a story.
THEOREM PhasesFollowStart == Spec => []PhaseFollowsStart
<1>1. Counted => PhaseFollowsStart
    BY DEF Counted, Sound, PhaseFollowsStart
<1> QED BY AllCounted, <1>1, PTL

\* A preference is one of an offered suggestion over another, rejected one.
THEOREM PreferencesBacked == Spec => []PreferenceBacked
<1>1. Init => PreferenceBacked
    BY DEF Init, PreferenceBacked
<1> QED BY AllTypes, <1>1, PreferenceStep, PTL DEF Spec

\* The copies are current or behind in every reachable state.
LEMMA AllCopies == Spec => []Copies
BY AllTypes, CopiesInit, CopiesStep, PTL DEF Spec

\* No handler alone with the session loses anything of it, whatever it awaits.
THEOREM LossesAlwaysExplained == Spec => LossesExplained
<1>1. Types /\ Copies /\ [Next]_vars =>
          [session # NoSession /\ ~GoesOn(session, session') =>
              \/ pc' = pc
              \/ \E h \in Handler :
                    /\ pc'[h] # pc[h]
                    /\ \/ h \in behind
                       \/ /\ pc[h] = "suggest"
                          /\ GoesOn([session EXCEPT !.theme = None],
                                    session')]_vars
    BY LossStep
<1> QED BY AllTypes, AllCopies, <1>1, PTL DEF Spec, LossesExplained
=============================================================================

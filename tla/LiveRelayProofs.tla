--------------------------- MODULE LiveRelayProofs ---------------------------
(***************************************************************************)
(* The relay's safety for any sessions, buffer cap and bounds.             *)
(*                                                                         *)
(* ListensWhileUp speaks of the starts in their await, so the proof has to *)
(* know that each of them is a session of its own whose socket is still    *)
(* connecting (Starts); LeaksExplained, that no start outlives the client. *)
(***************************************************************************)
EXTENDS LiveRelay, SequenceTheorems, FiniteSetTheorems, TLAPS

Starts ==
    /\ \A m, n \in DOMAIN starting :
          m # n /\ starting[m] # NoBridge => starting[m] # starting[n]
    /\ \A u \in Awaited : u # NoBridge => bridge[u] = "connecting"
    /\ clientWs = "closed" => starting = <<>>

IInv == RelayTypeOK /\ Starts /\ ListensWhileUp /\ LeaksExplained

-----------------------------------------------------------------------------
(* The starts in their await                                               *)

\* A setup adds its session to the starts.
LEMMA AwaitedAppend ==
    ASSUME IInv, NEW u \in Bridge \cup {NoBridge}, u \notin Awaited \/ u = NoBridge,
           starting' = Append(starting, u)
    PROVE  /\ starting' \in Seq(Bridge \cup {NoBridge})
           /\ Awaited' = Awaited \cup {u}
           /\ (\A m, n \in DOMAIN starting :
                 m # n /\ starting[m] # NoBridge => starting[m] # starting[n])'
  <1>1. starting \in Seq(Bridge \cup {NoBridge}) /\ Len(starting) \in Nat
    BY DEF IInv, RelayTypeOK
  <1>2. /\ starting' \in Seq(Bridge \cup {NoBridge})
        /\ DOMAIN starting' = 1 .. Len(starting) + 1
        /\ DOMAIN starting = 1 .. Len(starting)
        /\ starting'[Len(starting) + 1] = u
        /\ \A n \in 1 .. Len(starting) : starting'[n] = starting[n]
    BY <1>1
  <1>3. \A n \in 1 .. Len(starting) + 1 : n \in 1 .. Len(starting) \/ n = Len(starting) + 1
    BY <1>1
  <1>4. \A n \in 1 .. Len(starting) : n \in 1 .. Len(starting) + 1 /\ n # Len(starting) + 1
    BY <1>1
  <1>5. Len(starting) + 1 \in 1 .. Len(starting) + 1
    BY <1>1
  <1>6. Awaited' = Awaited \cup {u}
    BY <1>2, <1>3, <1>4, <1>5, Zenon DEF Awaited
  <1>7. \A n \in DOMAIN starting : starting[n] # NoBridge => starting[n] # u
    BY DEF Awaited
  <1>8. \A m, n \in DOMAIN starting' :
           m # n /\ starting'[m] # NoBridge => starting'[m] # starting'[n]
    <2> SUFFICES ASSUME NEW m \in DOMAIN starting', NEW n \in DOMAIN starting', m # n,
                        starting'[m] # NoBridge
                 PROVE  starting'[m] # starting'[n]
      OBVIOUS
    <2>1. CASE m \in 1 .. Len(starting) /\ n \in 1 .. Len(starting)
      BY <2>1, <1>2 DEF IInv, Starts
    <2>2. CASE m = Len(starting) + 1 /\ n \in 1 .. Len(starting)
      BY <2>2, <1>2, <1>7
    <2>3. CASE n = Len(starting) + 1 /\ m \in 1 .. Len(starting)
      BY <2>3, <1>2, <1>7
    <2> QED BY <2>1, <2>2, <2>3, <1>2, <1>3
  <1> QED BY <1>2, <1>6, <1>8

\* The oldest start leaves the starts when its await is over.
LEMMA AwaitedTail ==
    ASSUME IInv, starting # <<>>, starting' = Tail(starting)
    PROVE  /\ Head(starting) \in Bridge \cup {NoBridge}
           /\ starting' \in Seq(Bridge \cup {NoBridge})
           /\ Awaited = Awaited' \cup {Head(starting)}
           /\ Head(starting) # NoBridge => Head(starting) \notin Awaited'
           /\ (\A m, n \in DOMAIN starting :
                 m # n /\ starting[m] # NoBridge => starting[m] # starting[n])'
  <1>1. starting \in Seq(Bridge \cup {NoBridge}) /\ Len(starting) \in Nat
    BY DEF IInv, RelayTypeOK
  <1>2. /\ Head(starting) \in Bridge \cup {NoBridge}
        /\ starting' \in Seq(Bridge \cup {NoBridge})
        /\ Len(starting') = Len(starting) - 1
        /\ \A n \in 1 .. Len(starting') : starting'[n] = starting[n + 1]
    BY <1>1, HeadTailProperties
  <1>3. /\ DOMAIN starting = 1 .. Len(starting)
        /\ DOMAIN starting' = 1 .. Len(starting) - 1
        /\ Len(starting) # 0 /\ Head(starting) = starting[1]
    BY <1>1, <1>2
  <1>4. /\ \A n \in 1 .. Len(starting) - 1 : n + 1 \in 1 .. Len(starting) /\ n + 1 # 1
        /\ \A n \in 1 .. Len(starting) : n = 1 \/ (n - 1 \in 1 .. Len(starting) - 1 /\ (n - 1) + 1 = n)
        /\ 1 \in 1 .. Len(starting)
        /\ \A m, n \in 1 .. Len(starting) - 1 : m # n => m + 1 # n + 1
    BY <1>1, <1>3
  <1>5. \A n \in DOMAIN starting' : starting'[n] = starting[n + 1]
    BY <1>2, <1>3
  <1>6. Awaited = Awaited' \cup {Head(starting)}
    <2>1. Awaited \subseteq Awaited' \cup {Head(starting)}
      <3> SUFFICES ASSUME NEW n \in DOMAIN starting, n # 1
                   PROVE  starting[n] \in Awaited'
        BY <1>3 DEF Awaited
      <3>1. n - 1 \in DOMAIN starting' /\ starting'[n - 1] = starting[n]
        BY <1>3, <1>4, <1>5
      <3> QED BY <3>1 DEF Awaited
    <2>2. Awaited' \subseteq Awaited
      BY <1>3, <1>4, <1>5 DEF Awaited
    <2>3. Head(starting) \in Awaited
      BY <1>3, <1>4 DEF Awaited
    <2> QED BY <2>1, <2>2, <2>3
  <1>7. Head(starting) # NoBridge => Head(starting) \notin Awaited'
    <2> SUFFICES ASSUME Head(starting) # NoBridge, NEW n \in DOMAIN starting'
                 PROVE  starting'[n] # Head(starting)
      BY DEF Awaited
    <2>1. n + 1 \in DOMAIN starting /\ n + 1 # 1 /\ 1 \in DOMAIN starting
      BY <1>3, <1>4
    <2> QED BY <2>1, <1>3, <1>5 DEF IInv, Starts
  <1>8. \A m, n \in DOMAIN starting' :
           m # n /\ starting'[m] # NoBridge => starting'[m] # starting'[n]
    BY <1>3, <1>4, <1>5 DEF IInv, Starts
  <1> QED BY <1>2, <1>6, <1>7, <1>8
\* The buffer stays within its cap.
LEMMA BufferedType ==
    ASSUME NEW queue \in Seq(1 .. MaxChunks), Len(queue) <= Cap,
           NEW chunk \in 1 .. MaxChunks
    PROVE  /\ Buffered(queue, chunk) \in Seq(1 .. MaxChunks)
           /\ Len(Buffered(queue, chunk)) <= Cap
  <1> DEFINE longer == Append(queue, chunk)
  <1>1. /\ longer \in Seq(1 .. MaxChunks) /\ longer # <<>>
        /\ Len(longer) = Len(queue) + 1 /\ Len(queue) \in Nat
    BY AppendProperties
  <1> HIDE DEF longer
  <1>2. Tail(longer) \in Seq(1 .. MaxChunks) /\ Len(Tail(longer)) = Len(longer) - 1
    BY <1>1, HeadTailProperties
  <1>3. Cap \in Nat
    BY RelayBoundAssumption
  <1>4. Buffered(queue, chunk) = IF Len(longer) > Cap THEN Tail(longer) ELSE longer
    BY DEF Buffered, longer
  <1>5. CASE Len(longer) > Cap
    <2>1. Len(Tail(longer)) = Len(queue)
      BY <1>1, <1>2
    <2> QED BY <1>2, <1>4, <1>5, <2>1
  <1>6. CASE ~(Len(longer) > Cap)
    BY <1>1, <1>3, <1>4, <1>6
  <1> QED BY <1>5, <1>6

-----------------------------------------------------------------------------
(* One lemma per action                                                    *)

\* A setup starts a session that connects and is awaited.
LEMMA SetupStep == ASSUME IInv, NEW u \in Bridge, Setup(u) PROVE IInv'
  <1>1. u \notin Awaited /\ u # NoBridge
    BY BridgeAssumption DEF Setup, IInv, Starts
  <1>2. starting' = Append(starting, u) /\ clientWs # "closed"
    BY DEF Setup, Frames
  <1>3. /\ starting' \in Seq(Bridge \cup {NoBridge})
        /\ Awaited' = Awaited \cup {u}
        /\ (\A m, n \in DOMAIN starting :
              m # n /\ starting[m] # NoBridge => starting[m] # starting[n])'
    BY <1>1, <1>2, AwaitedAppend
  <1>4. /\ bridge' = [bridge EXCEPT ![u] = "connecting"]
        /\ bridge[u] = "none" /\ setups < MaxSetups /\ setups' = setups + 1
        /\ UNCHANGED <<clientWs, liveSession, isSessionActive, audioBufferQueue, subs,
                       heard, sent, toldCues, paced, early>>
    BY DEF Setup
  <1>5. RelayTypeOK'
    BY <1>3, <1>4, RelayBoundAssumption DEF IInv, RelayTypeOK
  <1>6. Starts'
    BY <1>2, <1>3, <1>4 DEF IInv, RelayTypeOK, Starts
  <1>7. ListensWhileUp'
    BY <1>3, <1>4 DEF IInv, RelayTypeOK, ListensWhileUp
  <1>8. LeaksExplained'
    BY <1>2, <1>4 DEF LeaksExplained
  <1> QED BY <1>5, <1>6, <1>7, <1>8 DEF IInv

\* A start that fails has no session.
LEMMA SetupFailsStep == ASSUME IInv, SetupFails PROVE IInv'
  <1>1. /\ starting' = Append(starting, NoBridge) /\ clientWs # "closed"
        /\ setups < MaxSetups /\ setups' = setups + 1
        /\ UNCHANGED <<clientWs, liveSession, isSessionActive, audioBufferQueue,
                       bridge, subs, heard, sent, toldCues, paced, early>>
    BY DEF SetupFails, Frames
  <1>2. /\ starting' \in Seq(Bridge \cup {NoBridge})
        /\ Awaited' = Awaited \cup {NoBridge}
        /\ (\A m, n \in DOMAIN starting :
              m # n /\ starting[m] # NoBridge => starting[m] # starting[n])'
    BY <1>1, AwaitedAppend
  <1>3. RelayTypeOK'
    BY <1>1, <1>2, RelayBoundAssumption DEF IInv, RelayTypeOK
  <1>4. Starts'
    BY <1>1, <1>2 DEF IInv, Starts
  <1>5. ListensWhileUp'
    BY <1>1, <1>2, BridgeAssumption DEF IInv, ListensWhileUp
  <1>6. LeaksExplained'
    BY <1>1 DEF LeaksExplained
  <1> QED BY <1>3, <1>4, <1>5, <1>6 DEF IInv

\* Audio is sent or kept, and the buffer stays in its cap.
LEMMA AudioStep == ASSUME IInv, Audio PROVE IInv'
  <1>1. heard' \in 1 .. MaxChunks /\ heard' \in 0 .. MaxChunks
    BY RelayBoundAssumption DEF Audio, IInv, RelayTypeOK
  <1>2. sent' \in Seq(1 .. MaxChunks)
    <2>1. sent' = sent \/ sent' = Append(sent, heard')
      BY DEF Audio
    <2>2. sent \in Seq(1 .. MaxChunks)
      BY DEF IInv, RelayTypeOK
    <2>3. \A c \in 1 .. MaxChunks : Append(sent, c) \in Seq(1 .. MaxChunks)
      BY <2>2, AppendProperties
    <2> QED BY <1>1, <2>1, <2>2, <2>3
  <1>3. audioBufferQueue' \in Seq(1 .. MaxChunks) /\ Len(audioBufferQueue') <= Cap
    <2>1. \/ audioBufferQueue' = audioBufferQueue
          \/ audioBufferQueue' = Buffered(audioBufferQueue, heard')
      BY DEF Audio
    <2> QED BY <1>1, <2>1, BufferedType DEF IInv, RelayTypeOK
  <1>4. UNCHANGED <<clientWs, setups, starting, liveSession, isSessionActive, bridge,
                    subs, toldCues, paced, early>>
    BY DEF Audio
  <1> QED BY <1>1, <1>2, <1>3, <1>4
          DEF IInv, RelayTypeOK, Starts, Awaited, ListensWhileUp, LeaksExplained

\* A session listens from the end of its start.
LEMMA StartedStep == ASSUME IInv, Started PROVE IInv'
  <1> DEFINE u == Head(starting)
  <1>1. /\ starting # <<>> /\ u # NoBridge /\ starting' = Tail(starting)
        /\ liveSession' = u /\ subs' = subs \cup {u} /\ isSessionActive' = TRUE
        /\ audioBufferQueue' = <<>>
        /\ sent' = (IF Sendable(u) THEN sent \o audioBufferQueue ELSE sent)
        /\ UNCHANGED <<setups, clientWs, bridge, heard, toldCues, paced, early>>
    BY DEF Started, Settled
  <1>2. /\ u \in Bridge \cup {NoBridge}
        /\ starting' \in Seq(Bridge \cup {NoBridge})
        /\ Awaited = Awaited' \cup {u}
        /\ u \notin Awaited'
        /\ (\A m, n \in DOMAIN starting :
              m # n /\ starting[m] # NoBridge => starting[m] # starting[n])'
    BY <1>1, AwaitedTail
  <1>3. bridge[u] = "connecting" /\ clientWs # "closed"
    BY <1>1, <1>2 DEF IInv, Starts
  <1> HIDE DEF u
  <1>4. RelayTypeOK'
    <2>1. sent' = sent
      BY <1>1, <1>3 DEF Sendable
    <2>2. audioBufferQueue' \in Seq(1 .. MaxChunks) /\ Len(audioBufferQueue') <= Cap
      BY <1>1, RelayBoundAssumption
    <2> QED BY <1>1, <1>2, <2>1, <2>2 DEF IInv, RelayTypeOK
  <1>5. Starts'
    BY <1>1, <1>2, <1>3 DEF IInv, Starts
  <1>6. ListensWhileUp'
    BY <1>1, <1>2, <1>3 DEF IInv, ListensWhileUp
  <1>7. LeaksExplained'
    BY <1>1, <1>3 DEF LeaksExplained
  <1> QED BY <1>4, <1>5, <1>6, <1>7 DEF IInv

\* A failed start closes the client and touches no session.
LEMMA StartFailedStep == ASSUME IInv, StartFailed PROVE IInv'
  <1>1. /\ starting # <<>> /\ Head(starting) = NoBridge /\ starting' = Tail(starting)
        /\ clientWs' = Closing
        /\ UNCHANGED <<setups, liveSession, isSessionActive, audioBufferQueue,
                       bridge, subs, heard, sent, toldCues, paced, early>>
    BY DEF StartFailed, Settled
  <1>2. /\ starting' \in Seq(Bridge \cup {NoBridge})
        /\ Awaited = Awaited' \cup {NoBridge}
        /\ (\A m, n \in DOMAIN starting :
              m # n /\ starting[m] # NoBridge => starting[m] # starting[n])'
    BY <1>1, AwaitedTail
  <1>3. clientWs # "closed" /\ clientWs' # "closed"
    BY <1>1 DEF IInv, Starts, Closing
  <1>4. RelayTypeOK'
    BY <1>1, <1>2 DEF IInv, RelayTypeOK, Closing
  <1>5. Starts'
    BY <1>1, <1>2, <1>3 DEF IInv, Starts
  <1>6. ListensWhileUp'
    BY <1>1, <1>2, BridgeAssumption DEF IInv, ListensWhileUp
  <1>7. LeaksExplained'
    BY <1>3 DEF LeaksExplained
  <1> QED BY <1>4, <1>5, <1>6, <1>7 DEF IInv

\* A session that opens was connecting, and listens as before.
LEMMA BridgeOpensStep == ASSUME IInv, NEW u \in Bridge, BridgeOpens(u) PROVE IInv'
  <1>1. /\ starting = <<>> /\ bridge[u] = "connecting"
        /\ bridge' = [bridge EXCEPT ![u] = "open"]
        /\ UNCHANGED <<setups, clientWs, starting, liveSession, isSessionActive,
                       audioBufferQueue, subs, heard, sent, toldCues, paced, early>>
    BY DEF BridgeOpens, Settled
  <1>2. Awaited = {} /\ Awaited' = {}
    BY <1>1 DEF Awaited
  <1> QED BY <1>1, <1>2 DEF IInv, RelayTypeOK, Starts, ListensWhileUp, LeaksExplained

\* A session that closes stops listening, and it alone.
LEMMA BridgeClosesStep == ASSUME IInv, NEW u \in Bridge, BridgeCloses(u) PROVE IInv'
  <1>1. /\ starting = <<>>
        /\ bridge' = [bridge EXCEPT ![u] = "closed"]
        /\ subs' = subs \ {u} /\ clientWs' = Closing
        /\ UNCHANGED <<setups, starting, liveSession, isSessionActive,
                       audioBufferQueue, heard, sent, toldCues, paced, early>>
    BY DEF BridgeCloses, Settled, Unsubscribed, Ended
  <1>2. Awaited = {} /\ Awaited' = {}
    BY <1>1 DEF Awaited
  <1> QED BY <1>1, <1>2 DEF IInv, RelayTypeOK, Starts, ListensWhileUp, LeaksExplained, Closing

\* A cue changes neither sockets nor subscriptions.
LEMMA SleepCueStep == ASSUME IInv, SleepCue PROVE IInv'
  <1>1. toldCues' \in Nat
    <2>1. Cardinality(subs) \in Nat
      BY BridgeAssumption, FS_Subset, FS_CardinalityType DEF IInv, RelayTypeOK
    <2> QED BY <2>1 DEF SleepCue, IInv, RelayTypeOK
  <1>2. paced' \in SUBSET Bridge
    BY DEF SleepCue, Sendable, IInv, RelayTypeOK
  <1>3. UNCHANGED <<setups, clientWs, starting, liveSession, isSessionActive,
                    audioBufferQueue, bridge, subs, heard, sent, early>>
    BY DEF SleepCue
  <1> QED BY <1>1, <1>2, <1>3
          DEF IInv, RelayTypeOK, Starts, Awaited, ListensWhileUp, LeaksExplained

\* disconnect() touches the socket of the live session only, when it is open.
LEMMA DisconnectedType ==
    ASSUME IInv
    PROVE  /\ Disconnected \in [Bridge -> {"none", "connecting", "open", "closing", "closed"}]
           /\ \A u \in Bridge :
                 IF u = liveSession /\ bridge[u] = "open"
                 THEN Disconnected[u] = "closing"
                 ELSE Disconnected[u] = bridge[u]
  BY BridgeAssumption DEF IInv, RelayTypeOK, Disconnected

\* An error of the client's socket disconnects the session referred to.
LEMMA ClientErrorStep == ASSUME IInv, ClientError PROVE IInv'
  <1>1. /\ starting = <<>> /\ clientWs' = "failed" /\ bridge' = Disconnected
        /\ UNCHANGED <<setups, starting, liveSession, isSessionActive,
                       audioBufferQueue, subs, heard, sent, toldCues, paced, early>>
    BY DEF ClientError, Settled
  <1>2. Awaited = {} /\ Awaited' = {}
    BY <1>1 DEF Awaited
  <1> QED BY <1>1, <1>2, DisconnectedType
          DEF IInv, RelayTypeOK, Starts, ListensWhileUp, LeaksExplained

\* The close of it does so too, and notes what was still connecting.
LEMMA ClientClosesStep == ASSUME IInv, ClientCloses PROVE IInv'
  <1>1. /\ starting = <<>> /\ clientWs' = "closed" /\ bridge' = Disconnected
        /\ early' = {u \in Bridge : bridge[u] = "connecting"}
        /\ UNCHANGED <<setups, starting, liveSession, isSessionActive,
                       audioBufferQueue, subs, heard, sent, toldCues, paced>>
    BY DEF ClientCloses, Settled
  <1>2. Awaited = {} /\ Awaited' = {}
    BY <1>1 DEF Awaited
  <1> QED BY <1>1, <1>2, DisconnectedType
          DEF IInv, RelayTypeOK, Starts, ListensWhileUp, LeaksExplained

\* A new connection has no session.
LEMMA Start == RelayInit => IInv
  <1> SUFFICES ASSUME RelayInit PROVE IInv
    OBVIOUS
  <1>1. Awaited = {}
    BY DEF RelayInit, Awaited
  <1>2. 0 \in 0 .. MaxSetups /\ 0 \in 0 .. MaxChunks /\ Cap >= 0
    BY RelayBoundAssumption
  <1>3. RelayTypeOK
    <2>1. /\ <<>> \in Seq(Bridge \cup {NoBridge})
          /\ <<>> \in Seq(1 .. MaxChunks) /\ Len(<<>>) <= Cap
      BY <1>2
    <2> QED BY <1>2, <2>1 DEF RelayInit, RelayTypeOK
  <1> QED BY <1>1, <1>3 DEF RelayInit, IInv, Starts, ListensWhileUp, LeaksExplained

\* The invariant holds in every reachable state.
LEMMA Invariance == RelaySpec => []IInv
  <1>1. IInv /\ [RelayNext]_relayVars => IInv'
    <2> SUFFICES ASSUME IInv, [RelayNext]_relayVars PROVE IInv'
      OBVIOUS
    <2>1. CASE UNCHANGED relayVars
      BY <2>1 DEF relayVars, IInv, RelayTypeOK, Starts, Awaited, ListensWhileUp, LeaksExplained
    <2>2. CASE RelayNext
      BY <2>2, SetupStep, SetupFailsStep, AudioStep, StartedStep, StartFailedStep,
         BridgeOpensStep, BridgeClosesStep, SleepCueStep, ClientErrorStep,
         ClientClosesStep DEF RelayNext
    <2> QED BY <2>1, <2>2
  <1> QED BY Start, <1>1, PTL DEF RelaySpec

\* Sockets, buffers and counters keep their types; the buffer its cap.
THEOREM TypeCorrect == RelaySpec => []RelayTypeOK
  <1>1. IInv => RelayTypeOK
    BY DEF IInv
  <1> QED BY Invariance, <1>1, PTL

\* A session listens for sleep cues exactly while its socket is not closed,
\* from the end of its start on.
THEOREM SessionsListenWhileUp == RelaySpec => []ListensWhileUp
  <1>1. IInv => ListensWhileUp
    BY DEF IInv
  <1> QED BY Invariance, <1>1, PTL

\* A session that outlives its client unasked was still connecting, or had been
\* replaced by a second setup.
THEOREM EveryLeakExplained == RelaySpec => []LeaksExplained
  <1>1. IInv => LeaksExplained
    BY DEF IInv
  <1> QED BY Invariance, <1>1, PTL

\* Audio reaches Gemini as it arrives or never: the flush of the early audio
\* sends none, for the session has only begun to connect.
THEOREM NeverCatchesUp == RelaySpec => NoCatchUp
  <1>1. IInv /\ [RelayNext]_relayVars =>
          [sent' # sent => heard' = heard + 1 /\ sent' = Append(sent, heard')]_relayVars
    <2> SUFFICES ASSUME IInv, RelayNext, sent' # sent
                 PROVE  heard' = heard + 1 /\ sent' = Append(sent, heard')
      BY DEF relayVars
    <2>1. ASSUME Started PROVE sent' = sent
      <3>1. Head(starting) # NoBridge /\ starting # <<>>
        BY <2>1 DEF Started, Settled
      <3>2. Head(starting) \in Awaited
        <4>1. 1 \in DOMAIN starting /\ Head(starting) = starting[1]
          BY <3>1 DEF IInv, RelayTypeOK
        <4> QED BY <4>1 DEF Awaited
      <3>3. ~Sendable(Head(starting))
        BY <3>1, <3>2 DEF IInv, Starts, Sendable
      <3> QED BY <2>1, <3>3 DEF Started
    <2>2. ASSUME Audio PROVE heard' = heard + 1 /\ (sent' = sent \/ sent' = Append(sent, heard'))
      BY <2>2 DEF Audio
    <2>3. Started \/ Audio
      BY DEF RelayNext, Setup, SetupFails, StartFailed, BridgeOpens, BridgeCloses,
             SleepCue, ClientError, ClientCloses
    <2> QED BY <2>1, <2>2, <2>3
  <1> QED BY Invariance, <1>1, PTL DEF RelaySpec, NoCatchUp

-----------------------------------------------------------------------------
(* What EndsWithSession rests on: the safety half of it.                   *)

\* The end of a session, and a start that failed, leave the client's socket
\* closing, failed or closed, and it never opens again; ws answers the rest.
EndsPassedOn ==
    \A u \in Bridge : bridge[u] = "closed" => clientWs # "open"

\* Whichever session ends, of any number that setups have started and whether
\* the connection still refers to it or not, the client's socket is on its way
\* to its end.  With the fairness of `close` this is what EndsWithSession says
\* of sessions.
THEOREM EndsAlwaysPassedOn == RelaySpec => []EndsPassedOn
  <1>1. RelayInit => EndsPassedOn
    BY DEF RelayInit, EndsPassedOn
  <1>2. RelayTypeOK /\ EndsPassedOn /\ [RelayNext]_relayVars => EndsPassedOn'
    <2> SUFFICES ASSUME RelayTypeOK, EndsPassedOn, [RelayNext]_relayVars, NEW u \in Bridge,
                        bridge'[u] = "closed"
                 PROVE  clientWs' # "open"
      BY DEF EndsPassedOn
    <2>1. clientWs = "open" \/ clientWs' # "open"
      BY DEF RelayNext, relayVars, Setup, SetupFails, Audio, Started, StartFailed, Closing,
             BridgeOpens, BridgeCloses, Ended, SleepCue, ClientError, ClientCloses
    <2>2. CASE bridge[u] = "closed"
      BY <2>1, <2>2 DEF EndsPassedOn
    <2>3. CASE bridge[u] # "closed"
      <3>1. ASSUME NEW w \in Bridge, BridgeCloses(w) PROVE clientWs' # "open"
        BY <3>1 DEF BridgeCloses, Ended, Closing
      <3>2. ASSUME NEW w \in Bridge, Setup(w) \/ BridgeOpens(w) PROVE FALSE
        BY <2>3, <3>2 DEF Setup, BridgeOpens, RelayTypeOK
      <3>3. ASSUME ClientError \/ ClientCloses PROVE FALSE
        <4>1. bridge'[u] \in {bridge[u], "closing"}
          BY <3>3 DEF ClientError, ClientCloses, Disconnected, RelayTypeOK
        <4> QED BY <2>3, <4>1
      <3>4. ASSUME UNCHANGED bridge PROVE FALSE
        BY <2>3, <3>4
      <3> QED BY <3>1, <3>2, <3>3, <3>4
              DEF RelayNext, relayVars, SetupFails, Audio, Started, StartFailed, SleepCue
    <2> QED BY <2>2, <2>3
  <1> QED BY <1>1, <1>2, TypeCorrect, PTL DEF RelaySpec
=============================================================================

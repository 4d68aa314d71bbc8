------------------------------ MODULE LiveRelay ------------------------------
(***************************************************************************)
(* GeminiLiveRelay.handleConnection: one client connection, bridged to     *)
(* upstream sessions (GeminiLiveSession) at Gemini.                        *)
(*                                                                         *)
(* A setup frame starts a session and awaits it; the await is over before  *)
(* the event loop reads from any socket, so only frames of the same read   *)
(* come in between - a second setup among them, for `isSessionActive` is   *)
(* set after the await.  Everything else waits until `starting` is empty.  *)
(*                                                                         *)
(* Text and tool frames only pass through and are left out, as is what the *)
(* client is told on an error.                                             *)
(***************************************************************************)
EXTENDS Naturals, Sequences, FiniteSets

CONSTANTS Bridge,    \* the upstream sessions that may be started
          NoBridge,  \* no session; a start that fails
          Cap,       \* 50: early audio kept
          MaxChunks, MaxSetups, MaxTold  \* bounds

ASSUME BridgeAssumption == NoBridge \notin Bridge /\ IsFiniteSet(Bridge)
ASSUME RelayBoundAssumption == {Cap, MaxChunks, MaxSetups, MaxTold} \subseteq Nat

VARIABLES clientWs,  \* the client's socket
          starting,  \* startSession calls in their await
          setups,    \* setup frames so far
          liveSession, isSessionActive,
          audioBufferQueue,
          bridge,    \* Bridge -> the state of the session's socket
          subs,      \* sessions subscribed to sleep cues
          heard,     \* chunks of audio received from the client
          sent,      \* chunks sent upstream
          toldCues,  \* sleep cues told to the client, each with an analysis
          paced,     \* sessions that were given the pacing instruction
          early      \* sessions still connecting when the client had gone

relayVars == <<clientWs, starting, setups, liveSession, isSessionActive,
               audioBufferQueue, bridge, subs, heard, sent, toldCues, paced, early>>

RelayTypeOK ==
    /\ clientWs \in {"open", "closing", "failed", "closed"}
    /\ starting \in Seq(Bridge \cup {NoBridge})
    /\ setups \in 0 .. MaxSetups
    /\ liveSession \in Bridge \cup {NoBridge}
    /\ isSessionActive \in BOOLEAN
    /\ audioBufferQueue \in Seq(1 .. MaxChunks) /\ Len(audioBufferQueue) <= Cap
    /\ bridge \in [Bridge -> {"none", "connecting", "open", "closing", "closed"}]
    /\ subs \in SUBSET Bridge
    /\ heard \in 0 .. MaxChunks
    /\ sent \in Seq(1 .. MaxChunks)
    /\ toldCues \in Nat
    /\ paced \in SUBSET Bridge
    /\ early \in SUBSET Bridge

RelayInit ==
    /\ clientWs = "open"
    /\ starting = <<>>
    /\ setups = 0
    /\ liveSession = NoBridge
    /\ isSessionActive = FALSE
    /\ audioBufferQueue = <<>>
    /\ bridge = [u \in Bridge |-> "none"]
    /\ subs = {}
    /\ heard = 0
    /\ sent = <<>>
    /\ toldCues = 0
    /\ paced = {}
    /\ early = {}

Settled == starting = <<>>

\* ws: frames still arrive while the server's close is being answered.
Frames == clientWs \in {"open", "closing"}

\* close() on the client's socket
Closing == IF clientWs = "open" THEN "closing" ELSE clientWs

\* sendAudio, sendText: nothing before the session is open, and the socket
\* takes nothing once it is closing.
Sendable(u) == u # NoBridge /\ bridge[u] = "open"

-----------------------------------------------------------------------------
(* The client's frames                                                     *)

\* startSession up to its await: the upstream socket is made at once.
Setup(u) ==
    /\ Frames /\ ~isSessionActive
    /\ bridge[u] = "none"
    /\ setups < MaxSetups
    /\ setups' = setups + 1
    /\ starting' = Append(starting, u)
    /\ bridge' = [bridge EXCEPT ![u] = "connecting"]
    /\ UNCHANGED <<clientWs, liveSession, isSessionActive, audioBufferQueue, subs,
                   heard, sent, toldCues, paced, early>>

\* startLiveSession throws: there is no API key.
SetupFails ==
    /\ Frames /\ ~isSessionActive
    /\ setups < MaxSetups
    /\ setups' = setups + 1
    /\ starting' = Append(starting, NoBridge)
    /\ UNCHANGED <<clientWs, liveSession, isSessionActive, audioBufferQueue,
                   bridge, subs, heard, sent, toldCues, paced, early>>

\* Mutation: the oldest chunk is not shifted out.
BufferedUncapped(queue, chunk) == Append(queue, chunk)

\* push, and above the cap shift
Buffered(queue, chunk) ==
    LET longer == Append(queue, chunk) IN
    IF Len(longer) > Cap THEN Tail(longer) ELSE longer

Audio ==
    /\ Frames
    /\ heard < MaxChunks
    /\ heard' = heard + 1
    /\ IF isSessionActive /\ liveSession # NoBridge
       THEN /\ sent' = IF Sendable(liveSession) THEN Append(sent, heard') ELSE sent
            /\ UNCHANGED audioBufferQueue
       ELSE /\ audioBufferQueue' = Buffered(audioBufferQueue, heard')
            /\ UNCHANGED sent
    /\ UNCHANGED <<clientWs, setups, starting, liveSession, isSessionActive, bridge,
                   subs, toldCues, paced, early>>

-----------------------------------------------------------------------------
(* startSession after its await                                            *)

\* The sentinel and the bridge are attached, the cues subscribed to, and the
\* buffered audio is flushed: handed to the session, and no longer kept.
Started ==
    LET u == Head(starting) IN
    /\ ~Settled
    /\ u # NoBridge
    /\ starting' = Tail(starting)
    /\ liveSession' = u
    /\ subs' = subs \cup {u}
    /\ isSessionActive' = TRUE
    /\ sent' = IF Sendable(u) THEN sent \o audioBufferQueue ELSE sent
    /\ audioBufferQueue' = <<>>
    /\ UNCHANGED <<setups, clientWs, bridge, heard, toldCues, paced, early>>

StartFailed ==
    /\ ~Settled
    /\ Head(starting) = NoBridge
    /\ starting' = Tail(starting)
    /\ clientWs' = Closing
    /\ UNCHANGED <<setups, liveSession, isSessionActive, audioBufferQueue, bridge, subs,
                   heard, sent, toldCues, paced, early>>

-----------------------------------------------------------------------------
(* The upstream's socket                                                   *)

BridgeOpens(u) ==
    /\ Settled
    /\ bridge[u] = "connecting"
    /\ bridge' = [bridge EXCEPT ![u] = "open"]
    /\ UNCHANGED <<setups, clientWs, starting, liveSession, isSessionActive,
                   audioBufferQueue, subs, heard, sent, toldCues, paced, early>>

\* Mutation: one variable holds the unsubscribe function of the last session.
UnsubscribedLast(u) == subs \ {liveSession}

\* if (unsubscribeSleep) unsubscribeSleep()
Unsubscribed(u) == subs \ {u}

\* Mutation: only the last session's end closes the client.
EndedOfLast(u) == IF u = liveSession THEN Closing ELSE clientWs

\* clientWs.close(1000, 'Session ended')
Ended(u) == Closing

\* The connection fails, Gemini ends it, or our close is answered: onClose.
BridgeCloses(u) ==
    /\ Settled
    /\ bridge[u] \in {"connecting", "open", "closing"}
    /\ bridge' = [bridge EXCEPT ![u] = "closed"]
    /\ subs' = Unsubscribed(u)
    /\ clientWs' = Ended(u)
    /\ UNCHANGED <<setups, starting, liveSession, isSessionActive, audioBufferQueue,
                   heard, sent, toldCues, paced, early>>

-----------------------------------------------------------------------------
(* Sleep cues                                                              *)

\* sleepHandler of every subscription, for a cue of this session and user:
\* the client is told, and the last session is given the pacing instruction.
\* Two subscriptions tell it twice; cues of others change nothing.
SleepCue ==
    /\ Settled
    /\ subs # {} /\ clientWs = "open"
    /\ toldCues < MaxTold
    /\ toldCues' = toldCues + Cardinality(subs)
    /\ paced' = IF Sendable(liveSession) THEN paced \cup {liveSession} ELSE paced
    /\ UNCHANGED <<setups, clientWs, starting, liveSession, isSessionActive,
                   audioBufferQueue, bridge, subs, heard, sent, early>>

-----------------------------------------------------------------------------
(* The client's socket                                                     *)

\* Mutation: the session was still null when the handler was registered.
DisconnectedNull == bridge

\* if (liveSession) liveSession.disconnect(), which closes an OPEN socket.
Disconnected ==
    IF liveSession # NoBridge /\ bridge[liveSession] = "open"
    THEN [bridge EXCEPT ![liveSession] = "closing"]
    ELSE bridge

\* 'error': the socket reads no more frames, 'close' follows.
ClientError ==
    /\ Settled
    /\ Frames
    /\ clientWs' = "failed"
    /\ bridge' = Disconnected
    /\ UNCHANGED <<setups, starting, liveSession, isSessionActive, audioBufferQueue, subs,
                   heard, sent, toldCues, paced, early>>

\* 'close'
ClientCloses ==
    /\ Settled
    /\ clientWs # "closed"
    /\ clientWs' = "closed"
    /\ bridge' = Disconnected
    /\ early' = {u \in Bridge : bridge[u] = "connecting"}
    /\ UNCHANGED <<setups, starting, liveSession, isSessionActive, audioBufferQueue, subs,
                   heard, sent, toldCues, paced>>

RelayNext ==
    \/ \E u \in Bridge : Setup(u) \/ BridgeOpens(u) \/ BridgeCloses(u)
    \/ SetupFails
    \/ Audio
    \/ Started
    \/ StartFailed
    \/ SleepCue
    \/ ClientError
    \/ ClientCloses

RelaySpec == RelayInit /\ [][RelayNext]_relayVars

\* Awaits end, a connection attempt succeeds or fails, and a close is answered
\* or timed out by ws.  Nobody has to close an open session or to leave an open
\* connection.
RelayFairness ==
    /\ WF_relayVars(Started \/ StartFailed)
    /\ \A u \in Bridge :
          /\ WF_relayVars(bridge[u] = "connecting" /\ (BridgeOpens(u) \/ BridgeCloses(u)))
          /\ WF_relayVars(bridge[u] = "closing" /\ BridgeCloses(u))
    /\ WF_relayVars(clientWs \in {"closing", "failed"} /\ ClientCloses)
RelayFairSpec == RelaySpec /\ RelayFairness

-----------------------------------------------------------------------------
(* Properties                                                              *)

Awaited == {starting[n] : n \in DOMAIN starting}

\* A session listens for sleep cues from the end of its start until its socket
\* is closed, no longer and no shorter, whatever other sessions the connection
\* started and however they end.
ListensWhileUp ==
    subs = {u \in Bridge : bridge[u] \in {"connecting", "open", "closing"}}
              \ Awaited

\* When the client is gone, a session that nobody is closing is one that was
\* still connecting, or one that a second setup had replaced.
LeaksExplained ==
    clientWs = "closed" =>
        \A u \in Bridge : bridge[u] \in {"connecting", "open"} =>
            u \in early \/ u # liveSession

Chunks(queue) == {queue[n] : n \in DOMAIN queue}

\* "Buffer early audio if client sends it before setup", "Flush buffered audio":
\* a chunk leaves the buffer only to be sent, or for a later one at the cap.
EarlyAudioFlushed ==
    [][\A chunk \in Chunks(audioBufferQueue) \ Chunks(audioBufferQueue') :
          chunk \in Chunks(sent') \/ Len(audioBufferQueue) = Cap]_relayVars

\* Why it is not: the flush finds its session still connecting, always.  A chunk
\* reaches Gemini as it arrives, or not at all (Started).
NoCatchUp ==
    [][sent' # sent => heard' = heard + 1 /\ sent' = Append(sent, heard')]_relayVars

\* The end of any of its sessions, and a failed start, end the connection.
EndsWithSession ==
    NoBridge \in Awaited \/ (\E u \in Bridge : bridge[u] = "closed")
        ~> clientWs = "closed"
=============================================================================

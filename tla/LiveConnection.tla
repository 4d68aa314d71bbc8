--------------------------- MODULE LiveConnection ---------------------------
(***************************************************************************)
(* One page with a live session from end to end: the hook useGeminiLive,   *)
(* the ticket of each connect, the Cloudflare worker that relays it and    *)
(* the socket to Gemini.                                                   *)
(*                                                                         *)
(* An Attempt is one call of connect: its init request, its ticket, its    *)
(* socket and the worker's relay for that socket.  The hook keeps one      *)
(* reference to a socket, so that a second connect, made while the first   *)
(* is not shown as connected yet, replaces it.  JavaScript runs one        *)
(* callback at a time: a callback is a step, an await ends it.             *)
(***************************************************************************)
EXTENDS Naturals, Sequences

CONSTANTS Attempts,  \* how often connect is called
          QueueSize, \* frames the worker keeps before Gemini is open
          MaxMore,   \* bound: frames sent after the first two of a socket
          None       \* no socket, no frame

ASSUME BoundsAssumption ==
    Attempts \in Nat /\ QueueSize \in Nat \ {0} /\ MaxMore \in Nat
ASSUME NoneAssumption == None \notin {"setup", "content", "more"}

Attempt == 1 .. Attempts
ASSUME NoAttemptAssumption == None \notin Attempt

Frame == {"setup", "content", "more"}

\* A socket of the page: "closing" after close(), "aborting" when it was
\* still connecting; "told" when the worker has closed it.
Client == {"idle", "init", "failed", "connecting", "open", "closing", "aborting",
           "closed", "lost", "told"}
Over == {"closed", "lost", "told"}

VARIABLES mounted, \* the page is there
          shown,   \* isConnected
          wsRef,   \* attempt whose socket the hook refers to
          client,  \* Attempt -> its socket in the page
          wire,    \* Attempt -> frames on the way to the worker
          more,    \* frames sent after the first two of a socket
          relay,   \* Attempt -> its ticket, then what the worker made of it
          up,      \* Attempt -> socket to Gemini; geminiOpen is "open"
          closing, \* Attempt -> isClosing
          told,    \* Attempt -> the worker has closed the page's socket
          queue,   \* Attempt -> frames kept until Gemini is open
          first,   \* history: Attempt -> first frame that Gemini got
          gap,     \* history: Attempt -> a frame was dropped or refused
          stuck,   \* history: Attempt -> a close was refused for its code
          astray   \* history: sockets out of the hook's reach

page == <<mounted, shown>>
sockets == <<client, wire, more>>
upstream == <<up, closing, told, queue, first, gap, stuck>>
connectionVars == <<mounted, shown, wsRef, client, wire, more, relay, up, closing, told,
          queue, first, gap, stuck, astray>>

PageTyped ==
    /\ mounted \in BOOLEAN /\ shown \in BOOLEAN
    /\ wsRef \in Attempt \cup {None}
    /\ astray \subseteq Attempt

SocketsTyped ==
    /\ client \in [Attempt -> Client]
    /\ wire \in [Attempt -> Seq(Frame)]
    /\ more \in 0 .. MaxMore

RelaysTyped ==
    /\ relay \in [Attempt -> {"none", "issued", "refused", "up", "over"}]
    /\ up \in [Attempt -> {"none", "connecting", "open", "gone"}]
    /\ queue \in [Attempt -> Seq(Frame)]
    /\ \A a \in Attempt : Len(queue[a]) <= QueueSize
    /\ first \in [Attempt -> Frame \cup {None}]

FlagsTyped ==
    /\ closing \in [Attempt -> BOOLEAN]
    /\ told \in [Attempt -> BOOLEAN]
    /\ gap \in [Attempt -> BOOLEAN]
    /\ stuck \in [Attempt -> BOOLEAN]

ConnectionTypeOK == PageTyped /\ SocketsTyped /\ RelaysTyped /\ FlagsTyped

ConnectionInit ==
    /\ mounted = TRUE /\ shown = FALSE
    /\ wsRef = None /\ astray = {}
    /\ client = [a \in Attempt |-> "idle"]
    /\ wire = [a \in Attempt |-> <<>>]
    /\ more = 0
    /\ relay = [a \in Attempt |-> "none"]
    /\ up = [a \in Attempt |-> "none"]
    /\ closing = [a \in Attempt |-> FALSE]
    /\ told = [a \in Attempt |-> FALSE]
    /\ queue = [a \in Attempt |-> <<>>]
    /\ first = [a \in Attempt |-> None]
    /\ gap = [a \in Attempt |-> FALSE]
    /\ stuck = [a \in Attempt |-> FALSE]

-----------------------------------------------------------------------------
(* useGeminiLive                                                           *)

\* Mutation: only a socket that is open is closed.
RefClosedIfOpen ==
    [a \in Attempt |-> IF a = wsRef /\ client[a] = "open" THEN "closing" ELSE client[a]]

\* What close() does to the socket the hook refers to.
RefClosed ==
    [a \in Attempt |-> CASE a = wsRef /\ client[a] = "open" -> "closing"
                         [] a = wsRef /\ client[a] = "connecting" -> "aborting"
                         [] OTHER -> client[a]]

\* connect: the button calls it whenever nothing is shown as connected.
Connect(a) ==
    /\ mounted /\ ~ shown
    /\ client[a] = "idle"
    /\ \A b \in 1 .. a - 1 : client[b] # "idle"
    /\ client' = [client EXCEPT ![a] = "init"]
    /\ UNCHANGED <<page, wsRef, astray, wire, more, relay, upstream>>

InitFails(a) ==
    /\ client[a] = "init"
    /\ client' = [client EXCEPT ![a] = "failed"]
    /\ shown' = FALSE
    /\ UNCHANGED <<mounted, wsRef, astray, wire, more, relay, upstream>>

\* The init is answered with a ticket, whether the page is still there or
\* not; the socket made before is referred to no more.
InitDone(a) ==
    /\ client[a] = "init"
    /\ client' = [client EXCEPT ![a] = "connecting"]
    /\ wsRef' = a
    /\ astray' = IF wsRef = None THEN astray ELSE astray \cup {wsRef}
    /\ relay' = [relay EXCEPT ![a] = "issued"]
    /\ UNCHANGED <<page, wire, more, upstream>>

\* onopen: two frames at once.
Opens(a) ==
    /\ client[a] = "connecting"
    /\ relay[a] \in {"up", "over"}
    /\ client' = [client EXCEPT ![a] = "open"]
    /\ wire' = [wire EXCEPT ![a] = <<"setup", "content">>]
    /\ shown' = TRUE
    /\ UNCHANGED <<mounted, wsRef, astray, more, relay, upstream>>

\* disconnect, by the button or when the page is left.
Disconnect ==
    /\ mounted
    /\ shown \/ mounted' = FALSE
    /\ mounted' \in {mounted, FALSE}
    /\ client' = RefClosed
    /\ shown' = FALSE
    /\ astray' = IF mounted' THEN astray
                 ELSE astray \cup {a \in Attempt : client[a] = "init"}
    /\ UNCHANGED <<wsRef, wire, more, relay, upstream>>

\* onclose of a socket, whether the hook still refers to it or not.
Closes(a) ==
    /\ \/ client[a] = "closing" /\ client' = [client EXCEPT ![a] = "closed"]
       \/ /\ client[a] \in {"open", "closing"} /\ told[a]
          /\ client' = [client EXCEPT ![a] = "told"]
    /\ shown' = FALSE
    /\ UNCHANGED <<mounted, wsRef, astray, wire, more, relay, upstream>>

\* onerror, which disconnects whatever the hook refers to, then onclose: a
\* refused or aborted handshake, or a connection that is lost.
Breaks(a) ==
    /\ client[a] \in {"connecting", "aborting", "open"}
    /\ client' = [RefClosed EXCEPT ![a] = "lost"]
    /\ wire' = [wire EXCEPT ![a] = <<>>]
    /\ shown' = FALSE
    /\ UNCHANGED <<mounted, wsRef, astray, more, relay, upstream>>

\* Samples of a microphone, and the answer to a tool call, of whatever
\* socket they are, go to the one that the hook refers to now.
Speak ==
    /\ wsRef # None
    /\ client[wsRef] = "open"
    /\ more < MaxMore
    /\ more' = more + 1
    /\ wire' = [wire EXCEPT ![wsRef] = Append(@, "more")]
    /\ UNCHANGED <<page, wsRef, astray, client, relay, upstream>>

-----------------------------------------------------------------------------
(* The ticket and the worker                                               *)

\* One UPDATE takes the ticket, if it is still valid, and answers its user;
\* the worker is refused too when the answer is lost or never asked for.
\* Then it accepts the page's socket and makes one to Gemini; when that
\* throws, the page's is closed and nobody listens to it.
Accept(a) ==
    /\ relay[a] = "issued"
    /\ \/ relay' = [relay EXCEPT ![a] = "refused"] /\ UNCHANGED <<up, told>>
       \/ /\ relay' = [relay EXCEPT ![a] = "up"]
          /\ up' = [up EXCEPT ![a] = "connecting"]
          /\ UNCHANGED told
       \/ /\ relay' = [relay EXCEPT ![a] = "over"]
          /\ told' = [told EXCEPT ![a] = TRUE]
          /\ UNCHANGED up
    /\ UNCHANGED <<page, wsRef, astray, sockets, closing, queue, first, gap, stuck>>

\* The socket to Gemini comes to be s; what was kept for it goes with it.
Upstream(a, s) ==
    /\ up' = [up EXCEPT ![a] = s]
    /\ queue' = IF s = "gone" THEN [queue EXCEPT ![a] = <<>>] ELSE queue

\* Mutation: only the page's side is closed.
SafeCloseOneSide(a, code, left) ==
    /\ Upstream(a, left)
    /\ closing' = [closing EXCEPT ![a] = TRUE]
    /\ told' = [told EXCEPT ![a] = @ \/ (~ closing[a] /\ code = "plain")]
    /\ stuck' = [stuck EXCEPT ![a] = @ \/ (~ closing[a] /\ code = "reserved")]

\* safeClose: the first caller closes both sides with the code it was given;
\* close() throws on a reserved code, 1005 or 1006, and the error is dropped.
\* left is the socket to Gemini if it is not closed here.
SafeClose(a, code, left) ==
    IF closing[a]
    THEN Upstream(a, left) /\ UNCHANGED <<closing, told, stuck>>
    ELSE /\ Upstream(a, IF code = "plain" THEN "gone" ELSE left)
         /\ closing' = [closing EXCEPT ![a] = TRUE]
         /\ told' = [told EXCEPT ![a] = @ \/ code = "plain"]
         /\ stuck' = [stuck EXCEPT ![a] = code = "reserved"]

\* Mutation: the trim lets one frame more stay.
KeptOneMore(q) == IF Len(q) > QueueSize + 1 THEN Tail(q) ELSE q

\* The oldest frame goes, be it the setup.
Kept(q) == IF Len(q) > QueueSize THEN Tail(q) ELSE q

Hear(a, frame) ==
    first' = [first EXCEPT ![a] = IF @ = None THEN frame ELSE @]

\* A frame of the page: dropped when closing; refused, for its size or their
\* rate, by a close that does not set isClosing; else sent on or kept.
HandleFrame(a) ==
    /\ relay[a] = "up"
    /\ wire[a] # <<>>
    /\ wire' = [wire EXCEPT ![a] = IF closing[a] THEN <<>> ELSE Tail(@)]
    /\ \/ /\ closing[a]
          /\ UNCHANGED <<told, queue, first, gap>>
       \/ /\ ~ closing[a]
          /\ told' = [told EXCEPT ![a] = TRUE]
          /\ gap' = [gap EXCEPT ![a] = TRUE]
          /\ UNCHANGED <<queue, first>>
       \/ /\ ~ closing[a] /\ up[a] = "open"
          /\ Hear(a, Head(wire[a]))
          /\ UNCHANGED <<told, queue, gap>>
       \/ /\ ~ closing[a] /\ up[a] # "open"
          /\ queue' = [queue EXCEPT ![a] = Kept(Append(@, Head(wire[a])))]
          /\ gap' = [gap EXCEPT ![a] = @ \/ Len(queue[a]) = QueueSize]
          /\ UNCHANGED <<told, first>>
    /\ UNCHANGED <<page, wsRef, astray, client, more, relay, up,
                   closing, stuck>>

\* Mutation: frames go on while the queue waits for the setup to be answered.
UpstreamOpensUnflushed(a) ==
    /\ up[a] = "connecting"
    /\ up' = [up EXCEPT ![a] = "open"]
    /\ UNCHANGED <<page, wsRef, astray, sockets, relay, queue, closing, told,
                   first, gap, stuck>>

\* The queue is sent, whether the relay is closing or not.
UpstreamOpens(a) ==
    /\ up[a] = "connecting"
    /\ up' = [up EXCEPT ![a] = "open"]
    /\ queue' = [queue EXCEPT ![a] = <<>>]
    /\ IF queue[a] = <<>> THEN UNCHANGED first ELSE Hear(a, Head(queue[a]))
    /\ UNCHANGED <<page, wsRef, astray, sockets, relay, closing, told, gap, stuck>>

\* Gemini closes or fails, with a code that may be reserved.
UpstreamEnds(a) ==
    /\ up[a] \in {"connecting", "open"}
    /\ \E code \in {"plain", "reserved"} : SafeClose(a, code, "gone")
    /\ UNCHANGED <<page, wsRef, astray, sockets, relay, first, gap>>

\* A message of Gemini for a page whose socket is already closed.
AnswerFails(a) ==
    /\ up[a] = "open" /\ told[a] /\ ~ closing[a]
    /\ SafeClose(a, "plain", up[a])
    /\ UNCHANGED <<page, wsRef, astray, sockets, relay, first, gap>>

\* The page's close carries no code, which the worker is told as 1005; a lost
\* connection is an error or a close with 1006; a told one answers the code.
ServerHears(a) ==
    /\ relay[a] = "up" /\ ~ closing[a]
    /\ wire[a] = <<>>
    /\ client[a] \in {"closing"} \cup Over
    /\ \E code \in {"plain", "reserved"} :
           /\ client[a] \in {"closing", "closed"} => code = "reserved"
           /\ client[a] = "told" => code = "plain"
           /\ SafeClose(a, code, up[a])
    /\ UNCHANGED <<page, wsRef, astray, sockets, relay, first, gap>>

-----------------------------------------------------------------------------
\* A handshake that was refused, or aborted by the page.
Refused(a) == Breaks(a) /\ (client[a] = "aborting" \/ relay[a] = "refused")

Page(a) == Connect(a) \/ InitFails(a) \/ InitDone(a) \/ Opens(a) \/ Closes(a)
              \/ Breaks(a)

Worker(a) == Accept(a) \/ HandleFrame(a)
                \/ UpstreamOpens(a) \/ UpstreamEnds(a) \/ AnswerFails(a)
                \/ ServerHears(a)

ConnectionNext ==
    \/ Disconnect \/ Speak
    \/ \E a \in Attempt : Page(a) \/ Worker(a)

ConnectionSpec == ConnectionInit /\ [][ConnectionNext]_connectionVars

\* The runtimes deliver what happened: the answer to a handshake, frames in
\* order, and the end of a connection to both of its ends.  Nothing else is
\* sure: neither that Gemini answers nor that anybody disconnects.
ConnectionFairness ==
    \A a \in Attempt : /\ WF_connectionVars(Opens(a))
                       /\ WF_connectionVars(Refused(a))
                       /\ WF_connectionVars(Closes(a))
                       /\ WF_connectionVars(HandleFrame(a))
                       /\ WF_connectionVars(ServerHears(a))

-----------------------------------------------------------------------------
(* Properties                                                              *)

\* Gemini hears the setup first, unless the worker dropped or refused a
\* frame: the page sends it in onopen, and whatever the hook refers to and
\* whichever socket opens first, no sample or answer gets ahead of it.
SetupFirst ==
    \A a \in Attempt : gap[a] \/ first[a] \in {None, "setup"}

\* When the page is left, a socket that is still there, or comes up later,
\* was in its init, or another connect had replaced the reference to it
\* (disconnect closes wsRef.current, and no init is ever cancelled).
LeftExplained ==
    ~ mounted => \A a \in Attempt : client[a] \in {"connecting", "open"} => a \in astray

\* One end of a relayed session is gone, and an end stays gone.
OneEnded(a) == relay[a] = "up" /\ (client[a] \in Over \/ up[a] = "gone")

\* When one end of a relayed session is gone, so is the other in the end,
\* unless the close of it was refused for its code (safeClose).
EndsTogether ==
    <>[](\A a \in Attempt :
            OneEnded(a) => stuck[a] \/ (client[a] \in Over /\ up[a] = "gone"))
=============================================================================

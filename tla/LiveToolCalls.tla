--------------------------- MODULE LiveToolCalls ---------------------------
(***************************************************************************)
(* Tool calls of a live session against the session state they share with  *)
(* the conductor.                                                          *)
(*                                                                         *)
(* POST /live/tool reads the session, refuses a call id it has already     *)
(* processed, records the id by patching the context it read back into the *)
(* session, and only then runs the tool.  The conductor, on a turn of the  *)
(* conversation, reads the session too and sets the whole state back with  *)
(* its own changes.  Neither holds a lock between its read and its write,  *)
(* and requests to several API instances interleave.  A Request is one of  *)
(* them in flight.                                                         *)
(*                                                                         *)
(* Of a session only context.processedToolCallIds is kept here.  The store *)
(* is RedisSessionState as its callers see it: each call of it is one step *)
(* (SessionStore has its steps).  A request refused with 403 or 409, and a *)
(* call without an id, change nothing here.  The audit log is left out: it *)
(* is written once per call, never read, and swallows its errors.          *)
(***************************************************************************)
EXTENDS Naturals, Sequences

CONSTANTS User,         \* authenticated users, the demo user among them
          Session,      \* session ids: several users may pick the same
          Request,      \* requests in flight
          ToolId,       \* tool call ids
          None,         \* no session, no lookup, no id
          MaxProcessed, \* 200: ids a session remembers
          Watched       \* calls whose history is kept: all of them, or fewer
                        \* to make a run smaller

ASSUME NoneAssumption == None \notin User \cup ToolId \cup Seq(ToolId)
ASSUME MaxProcessedAssumption == MaxProcessed \in Nat \ {0}

Key == User \X Session
Call == Key \X ToolId

ASSUME WatchedAssumption == Watched \in SUBSET Call

VARIABLES processed,   \* Key -> the ids the session remembers, or None
          lookup,      \* Session -> the user its lookup names, or None
          pc,          \* Request -> where the request is
          job,         \* Request -> what it carries from step to step
          executed,    \* calls whose tool has had its effect
          repeated,    \* calls whose tool has had its effect again
          overlapped,  \* calls recorded while a twin had passed the check
          forgotten,   \* calls whose id has left the list of the session
          seen         \* Session -> the users that have had the session

session == <<processed, lookup, forgotten, seen>>
effects == <<executed, repeated>>
vars == <<processed, lookup, pc, job, executed, repeated, overlapped,
          forgotten, seen>>

\* owner: the user in the state that was read, and will be set again.
Job == [user : User, session : Session, id : ToolId \cup {None},
        owner : User, snap : Seq(ToolId)]

TypeOK ==
    /\ processed \in [Key -> Seq(ToolId) \cup {None}]
    /\ lookup \in [Session -> User \cup {None}]
    /\ pc \in [Request -> {"idle", "record", "execute", "create", "store"}]
    /\ job \in [Request -> Job \cup {None}]
    /\ \A r \in Request : /\ pc[r] # "idle" => job[r] \in Job
                          /\ pc[r] \in {"record", "execute"} =>
                                 job[r].id \in ToolId
    /\ executed \in SUBSET Watched
    /\ repeated \in SUBSET executed
    /\ overlapped \in SUBSET Watched
    /\ forgotten \in SUBSET Watched
    /\ seen \in [Session -> SUBSET User]

Init ==
    /\ processed = [k \in Key |-> None]
    /\ lookup = [s \in Session |-> None]
    /\ pc = [r \in Request |-> "idle"]
    /\ job = [r \in Request |-> None]
    /\ executed = {}
    /\ repeated = {}
    /\ overlapped = {}
    /\ forgotten = {}
    /\ seen = [s \in Session |-> {}]

-----------------------------------------------------------------------------
(* The session store                                                       *)

Ids(list) == IF list = None THEN {} ELSE {list[i] : i \in DOMAIN list}

\* get: what the lookup leads to.  Without a lookup it tries a legacy key, which
\* nothing in src writes.
Found(s) == lookup[s] # None /\ processed[<<lookup[s], s>>] # None
Current(s) == processed[<<lookup[s], s>>]

\* History: the ids that leave a list.
Leaving(k, list) == {<<k, id>> : id \in Ids(processed[k]) \ Ids(list)}

Put(k, list) ==
    /\ processed' = [processed EXCEPT ![k] = list]
    /\ forgotten' = forgotten \cup (Leaving(k, list) \cap Watched)

\* set: the whole state, under the key of the user the state names.
Store(u, s, list) ==
    /\ Put(<<u, s>>, list)
    /\ lookup' = [lookup EXCEPT ![s] = u]
    /\ seen' = [seen EXCEPT ![s] = @ \cup {u}]

\* POST /live/init: whatever the session held is replaced.
InitSession(u, s) ==
    /\ Store(u, s, <<>>)
    /\ UNCHANGED <<pc, job, effects, overlapped>>

\* A session key expires, and its lookup with it at the latest.
ExpireKey(u, s) ==
    /\ processed[<<u, s>>] # None
    /\ Put(<<u, s>>, None)
    /\ lookup' = [lookup EXCEPT ![s] = IF @ = u THEN None ELSE @]
    /\ UNCHANGED <<pc, job, effects, overlapped, seen>>

\* patch renews the session key only, so the lookup may expire before it.
ExpireLookup(s) ==
    /\ lookup[s] # None
    /\ lookup' = [lookup EXCEPT ![s] = None]
    /\ UNCHANGED <<processed, pc, job, effects, overlapped, forgotten, seen>>

-----------------------------------------------------------------------------
(* POST /live/tool and POST /demo/live/tool                                *)

Goto(r, place) == pc' = [pc EXCEPT ![r] = place]
Return(r) == Goto(r, "idle") /\ job' = [job EXCEPT ![r] = None]
CallOf(r) == <<<<job[r].user, job[r].session>>, job[r].id>>

\* Mutation: the owner of the session is not compared with the caller.
AuthorizedAnyone(u, s) == Found(s)

\* if (!state || state.userId !== user.id) return 403
Authorized(u, s) == Found(s) /\ lookup[s] = u

\* Mutation: the list is not searched.
DuplicateNever(s, id) == FALSE

\* if (processed.some((x) => x === toolCallId)) return 409
Duplicate(s, id) == id \in Ids(Current(s))

\* Mutation: the tool runs without the id being recorded.
ToolCallUnrecorded(r, u, s, id) ==
    /\ pc[r] = "idle"
    /\ Authorized(u, s)
    /\ ~Duplicate(s, id)
    /\ job' = [job EXCEPT ![r] = [user |-> u, session |-> s, id |-> id,
                                  owner |-> u, snap |-> Current(s)]]
    /\ Goto(r, "execute")
    /\ UNCHANGED <<session, effects, overlapped>>

ToolCall(r, u, s, id) ==
    /\ pc[r] = "idle"
    /\ Authorized(u, s)
    /\ ~Duplicate(s, id)
    /\ job' = [job EXCEPT ![r] = [user |-> u, session |-> s, id |-> id,
                                  owner |-> u, snap |-> Current(s)]]
    /\ Goto(r, "record")
    /\ UNCHANGED <<session, effects, overlapped>>

\* Mutation: one id too many is sliced off.
NewestButOne(list) ==
    IF Len(list) >= MaxProcessed
    THEN SubSeq(list, Len(list) - MaxProcessed + 2, Len(list)) ELSE list

\* slice(-200)
Newest(list) ==
    IF Len(list) > MaxProcessed
    THEN SubSeq(list, Len(list) - MaxProcessed + 1, Len(list)) ELSE list

\* patch, on the key the lookup names by now: the context read before, with
\* the id appended.  Without a session patch throws: the request ends with
\* 500 and its tool does not run.
Record(r) ==
    LET s == job[r].session IN
    /\ pc[r] = "record"
    /\ IF Found(s)
       THEN /\ Put(<<lookup[s], s>>, Newest(Append(job[r].snap, job[r].id)))
            /\ Goto(r, "execute")
            /\ job' = [job EXCEPT ![r].snap = <<>>]
            /\ UNCHANGED <<lookup, seen>>
       ELSE /\ Return(r)
            /\ UNCHANGED session
    /\ overlapped' =
           IF \E q \in Request \ {r} : pc[q] = "record" /\ CallOf(q) = CallOf(r)
           THEN overlapped \cup ({CallOf(r)} \cap Watched) ELSE overlapped
    /\ UNCHANGED effects

\* toolRouter.execute: the effect takes place, or does not because the
\* arguments are invalid or the tool failed first.  No error is retried.
Execute(r, effect) ==
    LET calls == IF effect THEN {CallOf(r)} \cap Watched ELSE {} IN
    /\ pc[r] = "execute"
    /\ executed' = executed \cup calls
    /\ repeated' = repeated \cup (calls \cap executed)
    /\ Return(r)
    /\ UNCHANGED <<session, overlapped>>

-----------------------------------------------------------------------------
(* The conductor: processTurn, and the second round of a turn that ends in *)
(* a suggestion, read the state and set it again                           *)

\* Mutation: the fresh state is not given the user.
TurnUnowned(r, u, s) ==
    /\ pc[r] = "idle"
    /\ \E found \in {FALSE, Found(s)} :
           /\ job' = [job EXCEPT ![r] =
                         [user |-> u, session |-> s, id |-> None, owner |-> lookup[s],
                          snap |-> IF found THEN Current(s) ELSE <<>>]]
           /\ Goto(r, IF found THEN "store" ELSE "create")
    /\ UNCHANGED <<session, effects, overlapped>>

\* _getOrInitState, first half: the state, whoever it belongs to.  get answers
\* null too when a call of Redis fails.
Turn(r, u, s) ==
    /\ pc[r] = "idle"
    /\ \E found \in {FALSE, Found(s)} :
           /\ job' = [job EXCEPT ![r] =
                         [user |-> u, session |-> s, id |-> None,
                          owner |-> IF found THEN lookup[s] ELSE u,
                          snap |-> IF found THEN Current(s) ELSE <<>>]]
           /\ Goto(r, IF found THEN "store" ELSE "create")
    /\ UNCHANGED <<session, effects, overlapped>>

\* _getOrInitState, second half: no state was read, so set a fresh one, over
\* whatever the session holds.
Create(r) ==
    /\ pc[r] = "create"
    /\ Store(job[r].owner, job[r].session, <<>>)
    /\ Goto(r, "store")
    /\ UNCHANGED <<job, effects, overlapped>>

\* Back goes the whole state, its list of ids as it was read.
StoreTurn(r) ==
    /\ pc[r] = "store"
    /\ Store(job[r].owner, job[r].session, job[r].snap)
    /\ Return(r)
    /\ UNCHANGED <<effects, overlapped>>

\* A call of Redis fails or the instance stops: the request ends here.
End(r) ==
    /\ pc[r] # "idle"
    /\ Return(r)
    /\ UNCHANGED <<session, effects, overlapped>>

Next ==
    \/ \E u \in User, s \in Session : InitSession(u, s) \/ ExpireKey(u, s)
    \/ \E s \in Session : ExpireLookup(s)
    \/ \E r \in Request, u \in User, s \in Session :
           Turn(r, u, s) \/ \E id \in ToolId : ToolCall(r, u, s, id)
    \/ \E r \in Request : \/ Record(r)
                          \/ \E effect \in BOOLEAN : Execute(r, effect)
                          \/ Create(r)
                          \/ StoreTurn(r)
                          \/ End(r)

Spec == Init /\ [][Next]_vars

-----------------------------------------------------------------------------
(* Properties                                                              *)

\* More than one user has had a state under the same session id.
Shared(s) == \E u, v \in seen[s] : u # v

\* Once a tool has had its effect, a retry of the call finds its id in the
\* session and is answered 409, whatever crashed, expired or raced in
\* between, until the id itself is forgotten: trimmed, expired with the
\* session, or overwritten by a request that had read the session before.
RetryRefused ==
    \A c \in executed : \/ c[2] \in Ids(processed[c[1]])
                        \/ c \in forgotten
                        \/ Shared(c[1][2])

\* A tool has its effect twice for one call id only if the id was forgotten
\* in between, if two requests passed the check before either had recorded
\* the id, or if users share the session id; never because a request died
\* between recording the id and running the tool, and never in sequence.
DuplicateExplained ==
    \A c \in repeated : c \in overlapped \cup forgotten \/ Shared(c[1][2])

\* An id leaves a session that lives on only when the session is set up
\* anew, or when a request writes back the list it has read, and there the
\* id was missing or was the oldest of MaxProcessed: whatever the requests
\* do, an id stays until every request has ended that began before it.
Survives ==
    [][\A k \in Key, id \in ToolId :
          id \in Ids(processed[k]) /\ id \notin Ids(processed'[k]) =>
              \/ processed'[k] \in {None, <<>>}
              \/ \E r \in Request :
                     LET snap == job[r].snap IN
                     /\ pc[r] \in {"record", "store"}
                     /\ pc'[r] # pc[r]
                     /\ \/ id \notin Ids(snap)
                        \/ Len(snap) = MaxProcessed /\ id = Head(snap)]_vars

\* Recording a tool call changes the caller's own session only, although
\* patch takes the session id alone and resolves the key again after the
\* ownership check, unless users share the session id.
RecordsAtHome ==
    [][\A r \in Request, k \in Key :
          pc[r] = "record" /\ pc'[r] # "record" /\ processed'[k] # processed[k] =>
              k = <<job[r].user, job[r].session>> \/ Shared(job[r].session)]_vars
=============================================================================

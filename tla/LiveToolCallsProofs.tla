------------------------ MODULE LiveToolCallsProofs ------------------------
(***************************************************************************)
(* What the run of LiveToolCalls shows for two users and two requests,     *)
(* proved for any number of users, sessions, requests and ids, whatever    *)
(* MaxProcessed is and whichever calls are watched.                        *)
(***************************************************************************)
EXTENDS LiveToolCalls, TLAPS

At(r, u, s, id, place) ==
    /\ pc[r] = place
    /\ job[r].user = u
    /\ job[r].session = s
    /\ job[r].id = id

Remembered(u, s, id) == id \in Ids(processed[<<u, s>>])
Lost(u, s, id) == <<<<u, s>>, id>> \in forgotten \/ Shared(s)
Doubtful(u, s, id) == <<<<u, s>>, id>> \in overlapped \/ Lost(u, s, id)
Ran(u, s, id) == <<<<u, s>>, id>> \in executed
Follows(u, s, id) ==
    /\ u \in User /\ s \in Session /\ id \in ToolId
    /\ <<<<u, s>>, id>> \in Watched

\* Whoever a lookup names, and whoever a tool call is for, has been seen.
SeenCovers ==
    /\ \A s \in Session : lookup[s] \in seen[s] \cup {None}
    /\ \A r \in Request :
           pc[r] \in {"record", "execute"} =>
               /\ job[r].owner = job[r].user
               /\ job[r].user \in seen[job[r].session]

\* What a request carries was in the session, and is still or was forgotten.
SnapshotsOld ==
    \A r \in Request, id \in ToolId :
        /\ pc[r] \in {"record", "create", "store"}
        /\ id \in Ids(job[r].snap)
        /\ Follows(job[r].owner, job[r].session, id)
        => \/ Remembered(job[r].owner, job[r].session, id)
           \/ <<<<job[r].owner, job[r].session>>, id>> \in forgotten

\* A call past its record is remembered, and so is one that has run.
PastRemembered ==
    \A u \in User, s \in Session, id \in ToolId :
        Follows(u, s, id) /\ ~Lost(u, s, id) =>
            /\ Ran(u, s, id) => Remembered(u, s, id)
            /\ \A r \in Request :
                   At(r, u, s, id, "execute") => Remembered(u, s, id)

\* While a call is remembered no request is about to record it.
NoneBehind ==
    \A u \in User, s \in Session, id \in ToolId, r \in Request :
        Follows(u, s, id) /\ ~Doubtful(u, s, id) /\ Remembered(u, s, id) =>
            ~At(r, u, s, id, "record")

\* A call that has run is not about to run, and no two requests are about
\* to run the same call.
RunsOnce ==
    \A u \in User, s \in Session, id \in ToolId, r \in Request :
        Follows(u, s, id) /\ ~Doubtful(u, s, id) /\ At(r, u, s, id, "execute") =>
            /\ ~Ran(u, s, id)
            /\ \A q \in Request : At(q, u, s, id, "execute") => q = r

Inv == /\ TypeOK
       /\ SeenCovers
       /\ SnapshotsOld
       /\ PastRemembered
       /\ NoneBehind
       /\ RunsOnce
       /\ DuplicateExplained

-----------------------------------------------------------------------------
\* The newest ids of a list are a list of its ids.
LEMMA NewestType ==
    ASSUME NEW list \in Seq(ToolId)
    PROVE  /\ Newest(list) \in Seq(ToolId)
           /\ Ids(Newest(list)) \subseteq Ids(list)
<1>1. Newest(list) \in Seq(ToolId)
    BY MaxProcessedAssumption DEF Newest
<1>2. list # None /\ Newest(list) # None
    BY <1>1, NoneAssumption
<1>3. CASE Len(list) > MaxProcessed
    <2>1. Newest(list) = SubSeq(list, Len(list) - MaxProcessed + 1, Len(list))
        BY <1>3 DEF Newest
    <2>2. ASSUME NEW i \in DOMAIN Newest(list)
          PROVE  Newest(list)[i] \in Ids(list)
        <3>1. i \in 1 .. MaxProcessed
            BY <1>3, <2>1, MaxProcessedAssumption
        <3>2. Newest(list)[i] = list[Len(list) - MaxProcessed + i]
            BY <1>3, <2>1, <3>1, MaxProcessedAssumption
        <3>3. Len(list) - MaxProcessed + i \in DOMAIN list
            BY <1>3, <3>1, MaxProcessedAssumption
        <3> QED
            BY <1>2, <3>2, <3>3 DEF Ids
    <2> QED
        BY <1>1, <1>2, <2>2 DEF Ids
<1>4. CASE ~(Len(list) > MaxProcessed)
    BY <1>1, <1>4 DEF Newest
<1> QED
    BY <1>1, <1>3, <1>4

\* Recording an id remembers it, and nothing that was not there before.
LEMMA RecordedIds ==
    ASSUME NEW list \in Seq(ToolId), NEW id \in ToolId
    PROVE  LET new == Newest(Append(list, id)) IN
           /\ new \in Seq(ToolId)
           /\ id \in Ids(new)
           /\ Ids(new) \subseteq Ids(list) \cup {id}
<1> DEFINE long == Append(list, id)
           new == Newest(long)
<1>1. long \in Seq(ToolId) /\ Len(long) = Len(list) + 1
    OBVIOUS
<1>2. new \in Seq(ToolId) /\ Ids(new) \subseteq Ids(long)
    BY <1>1, NewestType
<1>3. list # None /\ long # None /\ new # None
    BY <1>1, <1>2, NoneAssumption
<1>4. Ids(long) \subseteq Ids(list) \cup {id}
    BY <1>1, <1>3 DEF Ids
<1>5. Len(new) \in DOMAIN new /\ new[Len(new)] = id
    <2>1. long[Len(long)] = id
        BY <1>1
    <2>2. CASE Len(long) > MaxProcessed
        <3>1. new = SubSeq(long, Len(long) - MaxProcessed + 1, Len(long))
            BY <2>2 DEF Newest
        <3>2. Len(new) = MaxProcessed
            BY <1>1, <2>2, <3>1, MaxProcessedAssumption
        <3>3. new[MaxProcessed] = long[Len(long) - MaxProcessed + MaxProcessed]
            BY <1>1, <2>2, <3>1, MaxProcessedAssumption
        <3> HIDE DEF long, new
        <3>4. Len(long) - MaxProcessed + MaxProcessed = Len(long)
            BY <1>1, MaxProcessedAssumption
        <3> QED
            BY <1>2, <2>1, <3>2, <3>3, <3>4, MaxProcessedAssumption
    <2>3. CASE ~(Len(long) > MaxProcessed)
        <3>1. new = long
            BY <2>3 DEF Newest
        <3> QED
            BY <1>1, <2>1, <3>1
    <2> QED
        BY <2>2, <2>3
<1> QED
    BY <1>2, <1>3, <1>4, <1>5 DEF Ids

\* Writing a list changes one session, and what leaves it is forgotten.
LEMMA PutForgets ==
    ASSUME TypeOK, NEW u \in User, NEW s \in Session,
           NEW list \in Seq(ToolId) \cup {None}, Put(<<u, s>>, list)
    PROVE  /\ processed' \in [Key -> Seq(ToolId) \cup {None}]
           /\ forgotten' \in SUBSET Watched
           /\ forgotten \subseteq forgotten'
           /\ processed'[<<u, s>>] = list
           /\ \A v \in User, t \in Session :
                  <<v, t>> # <<u, s>> =>
                      processed'[<<v, t>>] = processed[<<v, t>>]
           /\ \A v \in User, t \in Session, id \in ToolId :
                  /\ Follows(v, t, id)
                  /\ Remembered(v, t, id)
                  /\ ~Remembered(v, t, id)'
                  => <<<<v, t>>, id>> \in forgotten'
<1>1. <<u, s>> \in Key
    BY DEF Key
<1>2. /\ processed' = [processed EXCEPT ![<<u, s>>] = list]
      /\ processed \in [Key -> Seq(ToolId) \cup {None}]
    BY DEF Put, TypeOK
<1>3. ASSUME NEW v \in User, NEW t \in Session, <<v, t>> # <<u, s>>
      PROVE  processed'[<<v, t>>] = processed[<<v, t>>]
    BY <1>2, <1>3 DEF Key
<1>4. ASSUME NEW v \in User, NEW t \in Session, NEW id \in ToolId,
             Follows(v, t, id), Remembered(v, t, id), ~Remembered(v, t, id)'
      PROVE  <<<<v, t>>, id>> \in forgotten'
    <2>1. <<v, t>> = <<u, s>>
        BY <1>3, <1>4 DEF Remembered
    <2>2. id \in Ids(processed[<<u, s>>]) \ Ids(list)
        BY <1>1, <1>2, <1>4, <2>1 DEF Remembered
    <2> QED
        BY <1>4, <2>1, <2>2 DEF Put, Leaving, Follows
<1> QED
    BY <1>1, <1>2, <1>3, <1>4 DEF Put, TypeOK

-----------------------------------------------------------------------------
\* The jobs of requests past their first step.
LEMMA JobType ==
    ASSUME TypeOK, NEW r \in Request, pc[r] # "idle"
    PROVE  /\ job[r] \in Job
           /\ job[r].user \in User /\ job[r].session \in Session
           /\ job[r].owner \in User /\ job[r].snap \in Seq(ToolId)
           /\ pc[r] \in {"record", "execute"} => job[r].id \in ToolId
BY DEF TypeOK, Job

\* What a session that is found holds.
LEMMA FoundType ==
    ASSUME TypeOK, NEW s \in Session, Found(s)
    PROVE  lookup[s] \in User /\ Current(s) \in Seq(ToolId)
BY DEF TypeOK, Found, Current, Key

\* Without sessions and requests the invariant holds.
LEMMA InitInv == Init => Inv
<1> SUFFICES ASSUME Init PROVE Inv
    OBVIOUS
<1>1. TypeOK
    BY NoneAssumption DEF Init, TypeOK, Key
<1>2. SeenCovers /\ SnapshotsOld /\ DuplicateExplained /\ RunsOnce
    BY DEF Init, SeenCovers, SnapshotsOld, DuplicateExplained, RunsOnce, At
<1>3. PastRemembered /\ NoneBehind
    BY DEF Init, PastRemembered, NoneBehind, At, Ran
<1> QED
    BY <1>1, <1>2, <1>3 DEF Inv

\* A set is typed, adds its user to those seen, and makes the lookup his.
LEMMA StoreType ==
    ASSUME TypeOK, NEW u \in User, NEW s \in Session,
           NEW list \in Seq(ToolId), Store(u, s, list)
    PROVE  /\ processed' \in [Key -> Seq(ToolId) \cup {None}]
           /\ forgotten' \in SUBSET Watched
           /\ lookup' \in [Session -> User \cup {None}]
           /\ seen' \in [Session -> SUBSET User]
           /\ lookup'[s] = u /\ u \in seen'[s]
           /\ \A t \in Session : /\ seen[t] \subseteq seen'[t]
                                 /\ t # s => lookup'[t] = lookup[t]
BY PutForgets DEF Store, TypeOK

\* TypeOK is kept by every step.
LEMMA TypeStep == TypeOK /\ [Next]_vars => TypeOK'
<1> SUFFICES ASSUME TypeOK, [Next]_vars PROVE TypeOK'
    OBVIOUS
<1>1. ASSUME NEW u \in User, NEW s \in Session, InitSession(u, s)
      PROVE  TypeOK'
    <2>1. Store(u, s, <<>>) /\ <<>> \in Seq(ToolId)
        BY <1>1 DEF InitSession
    <2> QED
        BY <1>1, <2>1, StoreType DEF InitSession, TypeOK, effects
<1>2. ASSUME NEW u \in User, NEW s \in Session, ExpireKey(u, s)
      PROVE  TypeOK'
    <2>1. /\ processed' \in [Key -> Seq(ToolId) \cup {None}]
          /\ forgotten' \in SUBSET Watched
        BY <1>2, PutForgets DEF ExpireKey
    <2> QED
        BY <1>2, <2>1 DEF ExpireKey, TypeOK, effects
<1>3. ASSUME NEW s \in Session, ExpireLookup(s)
      PROVE  TypeOK'
    BY <1>3 DEF ExpireLookup, TypeOK, effects
<1>4. ASSUME NEW r \in Request, NEW u \in User, NEW s \in Session, Turn(r, u, s)
      PROVE  TypeOK'
    <2>1. PICK found \in {FALSE, Found(s)} :
              /\ job' = [job EXCEPT ![r] =
                            [user |-> u, session |-> s, id |-> None,
                             owner |-> IF found THEN lookup[s] ELSE u,
                             snap |-> IF found THEN Current(s) ELSE <<>>]]
              /\ pc' = [pc EXCEPT ![r] = IF found THEN "store" ELSE "create"]
        BY <1>4 DEF Turn, Goto
    <2>2. CASE found
        <3>1. lookup[s] \in User /\ Current(s) \in Seq(ToolId)
            BY <2>1, <2>2, FoundType
        <3> QED
            BY <1>4, <2>1, <2>2, <3>1 DEF Turn, TypeOK, Job, effects, session
    <2>3. CASE ~found
        <3>1. pc' = [pc EXCEPT ![r] = "create"]
            BY <2>1, <2>3
        <3>2. job' = [job EXCEPT ![r] = [user |-> u, session |-> s, id |-> None,
                                         owner |-> u, snap |-> <<>>]]
            BY <2>1, <2>3
        <3>3. [user |-> u, session |-> s, id |-> None, owner |-> u, snap |-> <<>>]
                  \in Job
            BY DEF Job
        <3> QED
            BY <1>4, <3>1, <3>2, <3>3 DEF Turn, TypeOK, effects, session
    <2> QED
        BY <2>2, <2>3
<1>5. ASSUME NEW r \in Request, NEW u \in User, NEW s \in Session,
             NEW id \in ToolId, ToolCall(r, u, s, id)
      PROVE  TypeOK'
    <2>1. job'[r] \in Job /\ job'[r].id \in ToolId /\ pc'[r] = "record"
        BY <1>5, FoundType DEF ToolCall, Authorized, Goto, TypeOK, Job
    <2> QED
        BY <1>5, <2>1 DEF ToolCall, Goto, TypeOK, effects, session
<1>6. ASSUME NEW r \in Request, Record(r)
      PROVE  TypeOK'
    <2>1. pc[r] = "record" /\ job[r] \in Job /\ job[r].id \in ToolId
        BY <1>6, JobType DEF Record
    <2>2. overlapped' \in SUBSET Watched /\ UNCHANGED effects
        BY <1>6 DEF Record, TypeOK
    <2>3. CASE Found(job[r].session)
        <3> DEFINE s == job[r].session
                   new == Newest(Append(job[r].snap, job[r].id))
        <3>1. lookup[s] \in User /\ s \in Session /\ new \in Seq(ToolId)
            BY <2>1, <2>3, FoundType, RecordedIds DEF Job
        <3>2. /\ Put(<<lookup[s], s>>, new) /\ Goto(r, "execute")
              /\ job' = [job EXCEPT ![r].snap = <<>>]
              /\ UNCHANGED <<lookup, seen>>
            BY <1>6, <2>3 DEF Record
        <3>3. /\ processed' \in [Key -> Seq(ToolId) \cup {None}]
              /\ forgotten' \in SUBSET Watched
            BY <3>1, <3>2, PutForgets
        <3>4. job'[r] \in Job /\ job'[r].id \in ToolId /\ pc'[r] = "execute"
            <4> HIDE DEF new
            <4>1. job'[r] = [job[r] EXCEPT !.snap = <<>>] /\ pc'[r] = "execute"
                BY <3>2 DEF TypeOK, Goto
            <4>2. <<>> \in Seq(ToolId)
                OBVIOUS
            <4> QED
                BY <2>1, <4>1, <4>2 DEF Job
        <3>5. /\ pc' \in [Request -> {"idle", "record", "execute", "create",
                                      "store"}]
              /\ job' \in [Request -> Job \cup {None}]
            BY <2>1, <3>2, <3>4 DEF TypeOK, Goto
        <3>6. ASSUME NEW q \in Request
              PROVE  /\ pc'[q] # "idle" => job'[q] \in Job
                     /\ pc'[q] \in {"record", "execute"} => job'[q].id \in ToolId
            BY <3>2, <3>4 DEF TypeOK, Goto
        <3>7. lookup' = lookup /\ seen' = seen
            BY <3>2
        <3> HIDE DEF new
        <3> QED
            BY <2>2, <3>3, <3>5, <3>6, <3>7 DEF TypeOK, effects
    <2>4. CASE ~Found(job[r].session)
        BY <1>6, <2>2, <2>4 DEF Record, TypeOK, Return, Goto, effects, session
    <2> QED
        BY <2>3, <2>4
<1>7. ASSUME NEW r \in Request, NEW effect \in BOOLEAN, Execute(r, effect)
      PROVE  TypeOK'
    BY <1>7 DEF Execute, TypeOK, Return, Goto, session
<1>8. ASSUME NEW r \in Request, Create(r)
      PROVE  TypeOK'
    <2>1. /\ job[r].owner \in User /\ job[r].session \in Session
          /\ <<>> \in Seq(ToolId)
        BY <1>8, JobType DEF Create
    <2>2. Store(job[r].owner, job[r].session, <<>>)
        BY <1>8 DEF Create
    <2> QED
        BY <1>8, <2>1, <2>2, StoreType DEF Create, TypeOK, Goto, effects
<1>9. ASSUME NEW r \in Request, StoreTurn(r)
      PROVE  TypeOK'
    <2>1. /\ job[r].owner \in User /\ job[r].session \in Session
          /\ job[r].snap \in Seq(ToolId)
        BY <1>9, JobType DEF StoreTurn
    <2>2. Store(job[r].owner, job[r].session, job[r].snap)
        BY <1>9 DEF StoreTurn
    <2> QED
        BY <1>9, <2>1, <2>2, StoreType
        DEF StoreTurn, TypeOK, Return, Goto, effects
<1>10. ASSUME NEW r \in Request, End(r)
       PROVE  TypeOK'
    BY <1>10 DEF End, TypeOK, Return, Goto, effects, session
<1>11. CASE UNCHANGED vars
    BY <1>11 DEF vars, TypeOK
<1> QED
    BY <1>1, <1>2, <1>3, <1>4, <1>5, <1>6, <1>7, <1>8, <1>9, <1>10, <1>11
    DEF Next

-----------------------------------------------------------------------------
\* What every step does to the histories: nothing is ever unseen or
\* remembered as forgotten no longer.
Grows == /\ forgotten \subseteq forgotten'
         /\ \A s \in Session : seen[s] \subseteq seen'[s]

\* Every id a session loses is forgotten; every id it gains was forgotten.
Leaves == \A u \in User, s \in Session, id \in ToolId :
              Follows(u, s, id) /\ Remembered(u, s, id) /\ ~Remembered(u, s, id)'
              => <<<<u, s>>, id>> \in forgotten'
Enters == \A u \in User, s \in Session, id \in ToolId :
              Follows(u, s, id) /\ Remembered(u, s, id)' /\ ~Remembered(u, s, id)
              => <<<<u, s>>, id>> \in forgotten

\* A request in a place was already there with the same job.
Stays(r) == pc'[r] = pc[r] /\ job'[r] = job[r]

\* The steps that neither record an id nor run a tool.
Quiet ==
    /\ Grows /\ Leaves /\ Enters
    /\ UNCHANGED <<executed, repeated, overlapped>>
    /\ \A r \in Request : pc'[r] = "execute" => Stays(r)
    /\ \A r \in Request :
           pc'[r] = "record" =>
               \/ Stays(r)
               \/ /\ job'[r].id \notin Ids(processed'[<<job'[r].owner, job'[r].session>>])
                  /\ Ids(job'[r].snap) \subseteq
                         Ids(processed'[<<job'[r].owner, job'[r].session>>])
                  /\ job'[r].owner = job'[r].user
                  /\ job'[r].user \in seen'[job'[r].session]
    /\ \A r \in Request :
           pc'[r] \in {"create", "store"} =>
               \/ pc[r] \in {"create", "store"} /\ job'[r] = job[r]
               \/ \A id \in Ids(job'[r].snap) :
                      id \in Ids(processed'[<<job'[r].owner, job'[r].session>>])

\* A step that moves no request and no id keeps the invariant.
LEMMA QuietInv ==
    ASSUME Inv, TypeOK', Quiet,
           \A s \in Session : lookup'[s] \in seen'[s] \cup {None}
    PROVE  Inv'
<1>1. \A u \in User, s \in Session, id \in ToolId :
          /\ Lost(u, s, id) => Lost(u, s, id)'
          /\ Doubtful(u, s, id) => Doubtful(u, s, id)'
    BY DEF Quiet, Grows, Lost, Doubtful, Shared
<1>2. SeenCovers'
    <2> SUFFICES ASSUME NEW r \in Request, pc'[r] \in {"record", "execute"}
                 PROVE  /\ job'[r].owner = job'[r].user
                        /\ job'[r].user \in seen'[job'[r].session]
        BY DEF SeenCovers
    <2>1. CASE Stays(r)
        BY <2>1, JobType DEF Inv, SeenCovers, Stays, Quiet, Grows
    <2>2. CASE ~Stays(r)
        BY <2>2 DEF Quiet
    <2> QED
        BY <2>1, <2>2
<1>3. SnapshotsOld'
    <2> SUFFICES ASSUME NEW r \in Request, NEW id \in ToolId,
                        pc'[r] \in {"record", "create", "store"},
                        id \in Ids(job'[r].snap),
                        Follows(job[r].owner, job[r].session, id)'
                 PROVE  \/ Remembered(job[r].owner, job[r].session, id)'
                        \/ <<<<job'[r].owner, job'[r].session>>, id>> \in forgotten'
        BY DEF SnapshotsOld, Follows
    <2>1. CASE /\ pc[r] \in {"record", "create", "store"}
               /\ job'[r] = job[r]
        BY <2>1 DEF Inv, SnapshotsOld, Quiet, Grows, Leaves, Follows, Remembered
    <2>2. CASE ~(/\ pc[r] \in {"record", "create", "store"}
                 /\ job'[r] = job[r])
        BY <2>2 DEF Quiet, Stays, Remembered
    <2> QED
        BY <2>1, <2>2
<1>4. PastRemembered'
    <2> SUFFICES ASSUME NEW u \in User, NEW s \in Session, NEW id \in ToolId,
                        Follows(u, s, id), ~Lost(u, s, id)'
                 PROVE  /\ Ran(u, s, id)' => Remembered(u, s, id)'
                        /\ \A r \in Request :
                               At(r, u, s, id, "execute")' => Remembered(u, s, id)'
        BY DEF PastRemembered, Follows
    <2>1. ~Lost(u, s, id)
        BY <1>1
    <2>2. Remembered(u, s, id) => Remembered(u, s, id)'
        BY DEF Quiet, Leaves, Lost
    <2>3. \A r \in Request : At(r, u, s, id, "execute")' => At(r, u, s, id, "execute")
        BY DEF Quiet, Stays, At
    <2> QED
        BY <2>1, <2>2, <2>3 DEF Inv, PastRemembered, Quiet, Ran
<1>5. NoneBehind'
    <2> SUFFICES ASSUME NEW u \in User, NEW s \in Session, NEW id \in ToolId,
                        NEW r \in Request, Follows(u, s, id),
                        ~Doubtful(u, s, id)', Remembered(u, s, id)',
                        At(r, u, s, id, "record")'
                 PROVE  FALSE
        BY DEF NoneBehind, Follows
    <2>1. Remembered(u, s, id) /\ ~Doubtful(u, s, id)
        BY <1>1 DEF Quiet, Enters, Doubtful, Lost
    <2>2. CASE Stays(r)
        BY <2>1, <2>2 DEF Inv, NoneBehind, Stays, At
    <2>3. CASE ~Stays(r)
        BY <2>3 DEF Quiet, At, Remembered
    <2> QED
        BY <2>2, <2>3
<1>6. RunsOnce'
    <2> SUFFICES ASSUME NEW u \in User, NEW s \in Session, NEW id \in ToolId,
                        NEW r \in Request, Follows(u, s, id),
                        ~Doubtful(u, s, id)', At(r, u, s, id, "execute")'
                 PROVE  /\ ~Ran(u, s, id)'
                        /\ \A q \in Request :
                               At(q, u, s, id, "execute")' => q = r
        BY DEF RunsOnce, Follows
    <2>1. \A q \in Request : At(q, u, s, id, "execute")' => At(q, u, s, id, "execute")
        BY DEF Quiet, Stays, At
    <2> QED
        BY <1>1, <2>1 DEF Inv, RunsOnce, Ran, Quiet
<1>7. DuplicateExplained'
    <2> SUFFICES ASSUME NEW c \in repeated
                 PROVE  c \in overlapped \cup forgotten' \/ Shared(c[1][2])'
        BY DEF DuplicateExplained, Quiet
    <2>1. c \in Call
        BY WatchedAssumption DEF Inv, TypeOK
    <2>2. c[1][2] \in Session
        BY <2>1 DEF Call, Key
    <2> QED
        BY <2>2 DEF Inv, DuplicateExplained, Quiet, Grows, Shared
<1> QED
    BY <1>2, <1>3, <1>4, <1>5, <1>6, <1>7 DEF Inv

-----------------------------------------------------------------------------
\* A set whose ids were in the session, or forgotten, is quiet.
LEMMA StoreQuiet ==
    ASSUME Inv, NEW u \in User, NEW s \in Session, NEW list \in Seq(ToolId),
           Store(u, s, list),
           \A id \in Ids(list) :
               Follows(u, s, id) =>
                   Remembered(u, s, id) \/ <<<<u, s>>, id>> \in forgotten
    PROVE  /\ Grows /\ Leaves /\ Enters
           /\ \A t \in Session : lookup'[t] \in seen'[t] \cup {None}
<1>1. Put(<<u, s>>, list) /\ TypeOK
    BY DEF Store, Inv
<1>2. Grows /\ Leaves
    BY <1>1, PutForgets, StoreType DEF Grows, Leaves
<1>3. Enters
    <2> SUFFICES ASSUME NEW v \in User, NEW t \in Session, NEW id \in ToolId,
                        Follows(v, t, id), Remembered(v, t, id)',
                        ~Remembered(v, t, id)
                 PROVE  <<<<v, t>>, id>> \in forgotten
        BY DEF Enters
    <2>a. /\ processed'[<<u, s>>] = list
          /\ <<v, t>> # <<u, s>> => processed'[<<v, t>>] = processed[<<v, t>>]
        BY <1>1, PutForgets
    <2>1. <<v, t>> = <<u, s>> /\ processed'[<<u, s>>] = list
        BY <2>a DEF Remembered
    <2>2. v = u /\ t = s /\ id \in Ids(list)
        BY <2>1 DEF Remembered
    <2> QED
        BY <2>2
<1>4. \A t \in Session : lookup'[t] \in seen'[t] \cup {None}
    BY <1>1, StoreType DEF Inv, SeenCovers
<1> QED
    BY <1>2, <1>3, <1>4

\* A step that leaves the sessions alone.
LEMMA SameSessionQuiet ==
    ASSUME Inv, UNCHANGED session
    PROVE  /\ Grows /\ Leaves /\ Enters
           /\ \A t \in Session : lookup'[t] \in seen'[t] \cup {None}
BY DEF Inv, SeenCovers, session, Grows, Leaves, Enters, Remembered

\* So does a session that is set up anew.
LEMMA InitSessionInv ==
    ASSUME Inv, TypeOK', NEW u \in User, NEW s \in Session, InitSession(u, s)
    PROVE  Inv'
<1>1. Store(u, s, <<>>) /\ <<>> \in Seq(ToolId) /\ Ids(<<>>) = {}
    BY DEF InitSession, Ids
<1>2. /\ Grows /\ Leaves /\ Enters
      /\ \A t \in Session : lookup'[t] \in seen'[t] \cup {None}
    BY <1>1, StoreQuiet
<1>3. Quiet
    BY <1>2 DEF InitSession, Quiet, Stays, effects
<1> QED
    BY <1>2, <1>3, QuietInv

\* So does a session that expires.
LEMMA ExpireKeyInv ==
    ASSUME Inv, TypeOK', NEW u \in User, NEW s \in Session, ExpireKey(u, s)
    PROVE  Inv'
<1>1. Put(<<u, s>>, None) /\ Ids(None) = {} /\ TypeOK
    BY DEF ExpireKey, Ids, Inv
<1>2. Grows /\ Leaves
    BY <1>1, PutForgets DEF ExpireKey, Grows, Leaves
<1>3. Enters
    <2> SUFFICES ASSUME NEW v \in User, NEW t \in Session, NEW id \in ToolId,
                        Remembered(v, t, id)', ~Remembered(v, t, id)
                 PROVE  FALSE
        BY DEF Enters
    <2>1. None \in Seq(ToolId) \cup {None}
        OBVIOUS
    <2>2. /\ processed'[<<u, s>>] = None
          /\ <<v, t>> # <<u, s>> => processed'[<<v, t>>] = processed[<<v, t>>]
        BY <1>1, <2>1, PutForgets
    <2>3. <<v, t>> = <<u, s>>
        BY <2>2 DEF Remembered
    <2> QED
        BY <1>1, <2>2, <2>3 DEF Remembered
<1>4. Quiet
    BY <1>2, <1>3 DEF ExpireKey, Quiet, Stays, effects
<1>5. \A t \in Session : lookup'[t] \in seen'[t] \cup {None}
    BY <1>1 DEF ExpireKey, Inv, SeenCovers, TypeOK
<1> QED
    BY <1>4, <1>5, QuietInv

\* So does a lookup that expires.
LEMMA ExpireLookupInv ==
    ASSUME Inv, TypeOK', NEW s \in Session, ExpireLookup(s)
    PROVE  Inv'
<1>1. Quiet
    BY DEF ExpireLookup, Quiet, Grows, Leaves, Enters, Remembered, Stays, effects
<1>2. \A t \in Session : lookup'[t] \in seen'[t] \cup {None}
    BY DEF ExpireLookup, Inv, SeenCovers, TypeOK
<1> QED
    BY <1>1, <1>2, QuietInv

\* So does a tool call, up to its checks.
LEMMA ToolCallInv ==
    ASSUME Inv, TypeOK', NEW r \in Request, NEW u \in User, NEW s \in Session,
           NEW id \in ToolId, ToolCall(r, u, s, id)
    PROVE  Inv'
<1>1. /\ Grows /\ Leaves /\ Enters
      /\ \A t \in Session : lookup'[t] \in seen'[t] \cup {None}
    BY SameSessionQuiet DEF ToolCall
<1>2. /\ lookup[s] = u /\ u \in seen[s]
      /\ id \notin Ids(processed[<<u, s>>])
    BY NoneAssumption
    DEF ToolCall, Authorized, Duplicate, Current, Inv, SeenCovers
<1>3. /\ job'[r] = [user |-> u, session |-> s, id |-> id, owner |-> u,
                    snap |-> processed[<<u, s>>]]
      /\ pc'[r] = "record"
    BY <1>2 DEF ToolCall, Goto, Current, Inv, TypeOK
<1>4. \A q \in Request : q # r => Stays(q)
    BY DEF ToolCall, Goto, Stays, Inv, TypeOK
<1>5. Quiet
    <2>1. ASSUME NEW q \in Request, pc'[q] \in {"create", "store"}
          PROVE  pc[q] \in {"create", "store"} /\ job'[q] = job[q]
        BY <1>3, <1>4, <2>1 DEF Stays
    <2>2. UNCHANGED <<processed, seen, executed, repeated, overlapped>>
        BY DEF ToolCall, session, effects
    <2> QED
        BY <1>1, <1>2, <1>3, <1>4, <2>1, <2>2 DEF Quiet
<1> QED
    BY <1>1, <1>5, QuietInv

\* So does a turn that reads the session.
LEMMA TurnInv ==
    ASSUME Inv, TypeOK', NEW r \in Request, NEW u \in User, NEW s \in Session,
           Turn(r, u, s)
    PROVE  Inv'
<1>1. /\ Grows /\ Leaves /\ Enters
      /\ \A t \in Session : lookup'[t] \in seen'[t] \cup {None}
    BY SameSessionQuiet DEF Turn
<1>2. pc'[r] \in {"create", "store"}
    BY DEF Turn, Goto, Inv, TypeOK
<1>3. \A q \in Request : q # r => Stays(q)
    BY DEF Turn, Goto, Stays, Inv, TypeOK
<1>4. \A id \in Ids(job'[r].snap) :
          id \in Ids(processed[<<job'[r].owner, job'[r].session>>])
    <2>1. PICK found \in {FALSE, Found(s)} :
              job'[r] = [user |-> u, session |-> s, id |-> None,
                         owner |-> IF found THEN lookup[s] ELSE u,
                         snap |-> IF found THEN Current(s) ELSE <<>>]
        BY DEF Turn, Inv, TypeOK
    <2>2. CASE found
        BY <2>1, <2>2 DEF Current
    <2>3. CASE ~found
        BY <2>1, <2>3 DEF Ids
    <2> QED
        BY <2>2, <2>3
<1>5. Quiet
    <2>1. UNCHANGED <<processed, seen, executed, repeated, overlapped>>
        BY DEF Turn, session, effects
    <2>2. ASSUME NEW q \in Request, q # r, pc'[q] \in {"create", "store"}
          PROVE  pc[q] \in {"create", "store"} /\ job'[q] = job[q]
        BY <1>3, <2>2 DEF Stays
    <2> QED
        BY <1>1, <1>2, <1>3, <1>4, <2>1, <2>2 DEF Quiet
<1> QED
    BY <1>1, <1>5, QuietInv

\* So does a turn that makes a new one.
LEMMA CreateInv ==
    ASSUME Inv, TypeOK', NEW r \in Request, Create(r)
    PROVE  Inv'
<1>1. /\ job[r].owner \in User /\ job[r].session \in Session
      /\ Store(job[r].owner, job[r].session, <<>>)
      /\ <<>> \in Seq(ToolId) /\ Ids(<<>>) = {}
    BY JobType DEF Create, Inv, Ids
<1>2. /\ Grows /\ Leaves /\ Enters
      /\ \A t \in Session : lookup'[t] \in seen'[t] \cup {None}
    BY <1>1, StoreQuiet
<1>3. /\ pc[r] = "create" /\ pc'[r] = "store" /\ job' = job
      /\ \A q \in Request : q # r => Stays(q)
    BY DEF Create, Goto, Stays, Inv, TypeOK
<1>4. Quiet
    BY <1>2, <1>3 DEF Create, Quiet, Stays, effects
<1> QED
    BY <1>2, <1>4, QuietInv

\* So does a turn that writes its copy back.
LEMMA StoreTurnInv ==
    ASSUME Inv, TypeOK', NEW r \in Request, StoreTurn(r)
    PROVE  Inv'
<1>1. /\ job[r].owner \in User /\ job[r].session \in Session
      /\ Store(job[r].owner, job[r].session, job[r].snap)
      /\ job[r].snap \in Seq(ToolId) /\ pc[r] = "store"
    BY JobType DEF StoreTurn, Inv
<1>2. \A id \in Ids(job[r].snap) :
          Follows(job[r].owner, job[r].session, id) =>
              \/ Remembered(job[r].owner, job[r].session, id)
              \/ <<<<job[r].owner, job[r].session>>, id>> \in forgotten
    BY <1>1 DEF Inv, SnapshotsOld, Follows
<1>3. /\ Grows /\ Leaves /\ Enters
      /\ \A t \in Session : lookup'[t] \in seen'[t] \cup {None}
    BY <1>1, <1>2, StoreQuiet
<1>4. /\ pc'[r] = "idle"
      /\ \A q \in Request : q # r => Stays(q)
    BY DEF StoreTurn, Return, Goto, Stays, Inv, TypeOK
<1>5. Quiet
    BY <1>3, <1>4 DEF StoreTurn, Quiet, Stays, effects
<1> QED
    BY <1>3, <1>5, QuietInv

\* So does a request that ends or dies anywhere.
LEMMA EndInv ==
    ASSUME Inv, TypeOK', NEW r \in Request, End(r)
    PROVE  Inv'
<1>1. /\ Grows /\ Leaves /\ Enters
      /\ \A t \in Session : lookup'[t] \in seen'[t] \cup {None}
    BY SameSessionQuiet DEF End
<1>2. /\ pc'[r] = "idle"
      /\ \A q \in Request : q # r => Stays(q)
    BY DEF End, Return, Goto, Stays, Inv, TypeOK
<1>3. Quiet
    BY <1>1, <1>2 DEF End, Quiet, Stays, effects
<1> QED
    BY <1>1, <1>3, QuietInv

-----------------------------------------------------------------------------
\* Running a tool: nobody else was about to run the same call, and it had
\* not run, unless the call is doubtful.
LEMMA ExecuteInv ==
    ASSUME Inv, TypeOK', NEW r \in Request, NEW effect \in BOOLEAN,
           Execute(r, effect)
    PROVE  Inv'
<1> DEFINE calls == IF effect THEN {CallOf(r)} \cap Watched ELSE {}
<1>1. /\ pc[r] = "execute" /\ pc'[r] = "idle"
      /\ \A q \in Request : q # r => Stays(q)
    BY DEF Execute, Return, Goto, Stays, Inv, TypeOK
<1>2. UNCHANGED session /\ overlapped' = overlapped
    BY DEF Execute
<1>3. executed' = executed \cup calls /\ repeated' = repeated \cup (calls \cap executed)
    BY DEF Execute
<1>4. \A u \in User, s \in Session, id \in ToolId :
          /\ Lost(u, s, id)' <=> Lost(u, s, id)
          /\ Doubtful(u, s, id)' <=> Doubtful(u, s, id)
          /\ Remembered(u, s, id)' <=> Remembered(u, s, id)
    BY <1>2 DEF session, Lost, Doubtful, Shared, Remembered
<1>5. \A u, s, id : <<<<u, s>>, id>> \in calls => At(r, u, s, id, "execute")
    BY <1>1 DEF CallOf, At
<1>6. SeenCovers' /\ SnapshotsOld'
    BY <1>1, <1>2 DEF Inv, SeenCovers, SnapshotsOld, session, Stays, Remembered,
                      Follows
<1>7. \A q \in Request : \A u, s, id, place :
          place # "idle" /\ At(q, u, s, id, place)' =>
              At(q, u, s, id, place) /\ q # r
    BY <1>1 DEF At, Stays
<1>8. PastRemembered'
    BY <1>3, <1>4, <1>5, <1>7 DEF Inv, PastRemembered, Ran, Follows
<1>9. NoneBehind'
    BY <1>4, <1>7 DEF Inv, NoneBehind, Follows
<1>10. RunsOnce'
    BY <1>3, <1>4, <1>5, <1>7 DEF Inv, RunsOnce, Ran, Follows
<1>11. DuplicateExplained'
    <2> SUFFICES ASSUME NEW c \in repeated'
                 PROVE  c \in overlapped \cup forgotten \/ Shared(c[1][2])
        BY <1>2 DEF DuplicateExplained, session, Shared
    <2>1. CASE c \in repeated
        BY <2>1 DEF Inv, DuplicateExplained
    <2>2. CASE c \in calls \cap executed
        <3>1. c = <<<<job[r].user, job[r].session>>, job[r].id>> /\ c \in Watched
            BY <2>2 DEF CallOf
        <3>2. /\ job[r].user \in User /\ job[r].session \in Session
              /\ job[r].id \in ToolId
            BY <1>1, JobType DEF Inv
        <3>3. /\ At(r, job[r].user, job[r].session, job[r].id, "execute")
              /\ Ran(job[r].user, job[r].session, job[r].id)
              /\ Follows(job[r].user, job[r].session, job[r].id)
            BY <1>1, <2>2, <3>1, <3>2 DEF At, Ran, Follows
        <3>4. Doubtful(job[r].user, job[r].session, job[r].id)
            BY <3>2, <3>3 DEF Inv, RunsOnce
        <3> QED
            BY <3>1, <3>4 DEF Doubtful, Lost
    <2> QED
        BY <1>3, <2>1, <2>2
<1> QED
    BY <1>6, <1>8, <1>9, <1>10, <1>11 DEF Inv

-----------------------------------------------------------------------------
\* Recording an id: the call was not remembered, so it had not run and
\* nobody was about to run it, unless it is doubtful; from now on it is
\* remembered, and a twin that still has to record it makes it doubtful.
LEMMA RecordInv ==
    ASSUME Inv, TypeOK', NEW r \in Request, Record(r)
    PROVE  Inv'
<1>0. PICK u \in User, s \in Session, id \in ToolId :
          u = job[r].user /\ s = job[r].session /\ id = job[r].id
    BY JobType DEF Record, Inv
<1> DEFINE new == Newest(Append(job[r].snap, id))
           twin == \E q \in Request \ {r} : pc[q] = "record" /\ CallOf(q) = CallOf(r)
<1>1. /\ pc[r] = "record" /\ job[r] \in Job /\ u \in User /\ s \in Session
      /\ id \in ToolId /\ job[r].owner = u /\ u \in seen[s]
      /\ job[r].snap \in Seq(ToolId)
      /\ job[r].user = u /\ job[r].session = s /\ job[r].id = id
    BY <1>0, JobType DEF Record, Inv, SeenCovers
<1>2. /\ UNCHANGED <<executed, repeated, lookup, seen>>
      /\ overlapped' = IF twin THEN overlapped \cup ({CallOf(r)} \cap Watched)
                               ELSE overlapped
      /\ \A q \in Request : q # r => Stays(q)
      /\ pc'[r] \in {"execute", "idle"}
      /\ pc'[r] = "execute" =>
             /\ Found(s) /\ Put(<<lookup[s], s>>, new)
             /\ job'[r] = [job[r] EXCEPT !.snap = <<>>]
      /\ pc'[r] = "idle" => UNCHANGED session
    BY <1>0 DEF Record, Return, Goto, Stays, effects, session, Inv, TypeOK
<1>3. pc'[r] = "execute" => job'[r].user = u /\ job'[r].session = s
                            /\ job'[r].id = id /\ job'[r].owner = u
    BY <1>1, <1>2 DEF Job
<1>4. Grows /\ Leaves
    <2>1. CASE pc'[r] = "execute"
        <3>1. lookup[s] \in User /\ new \in Seq(ToolId) /\ TypeOK
            BY <1>1, <1>2, <2>1, FoundType, RecordedIds DEF Inv
        <3> HIDE DEF new
        <3>2. /\ forgotten \subseteq forgotten'
              /\ \A v \in User, t \in Session, i \in ToolId :
                     Follows(v, t, i) /\ Remembered(v, t, i) /\ ~Remembered(v, t, i)'
                     => <<<<v, t>>, i>> \in forgotten'
            BY <1>1, <1>2, <2>1, <3>1, PutForgets
        <3> QED
            BY <1>2, <3>2 DEF Grows, Leaves
    <2>2. CASE pc'[r] = "idle"
        BY <1>2, <2>2, SameSessionQuiet
    <2> QED
        BY <1>2, <2>1, <2>2
<1>5. \A v \in User, t \in Session, i \in ToolId :
          /\ Lost(v, t, i) => Lost(v, t, i)'
          /\ Doubtful(v, t, i) => Doubtful(v, t, i)'
    BY <1>2, <1>4 DEF Grows, Lost, Doubtful, Shared
<1>6. pc'[r] = "execute" /\ ~Shared(s)' => lookup[s] = u
    BY <1>1, <1>2 DEF Shared, Found, Inv, SeenCovers
<1>7. ASSUME pc'[r] = "execute", ~Shared(s)'
      PROVE  Remembered(u, s, id)'
    <2>1. lookup[s] = u /\ new \in Seq(ToolId) /\ id \in Ids(new) /\ TypeOK
        BY <1>1, <1>6, <1>7, RecordedIds DEF Inv
    <2>2. Put(<<u, s>>, new)
        BY <1>2, <1>7, <2>1
    <2> HIDE DEF new
    <2>3. processed'[<<u, s>>] = new
        BY <1>1, <2>1, <2>2, PutForgets
    <2> QED
        BY <2>1, <2>3 DEF Remembered
<1>8. ASSUME NEW v \in User, NEW t \in Session, NEW i \in ToolId,
             Follows(v, t, i), ~Lost(v, t, i)',
             Remembered(v, t, i)', ~Remembered(v, t, i)
      PROVE  pc'[r] = "execute" /\ v = u /\ t = s /\ i = id
    <2>1. pc'[r] = "execute"
        BY <1>2, <1>8 DEF session, Remembered
    <2>2. /\ lookup[s] \in User /\ new \in Seq(ToolId) /\ TypeOK
          /\ Ids(new) \subseteq Ids(job[r].snap) \cup {id}
        BY <1>1, <1>2, <2>1, FoundType, RecordedIds DEF Inv
    <2> HIDE DEF new
    <2>3. /\ processed'[<<lookup[s], s>>] = new
          /\ <<v, t>> # <<lookup[s], s>> =>
                 processed'[<<v, t>>] = processed[<<v, t>>]
        BY <1>1, <1>2, <2>1, <2>2, PutForgets
    <2>4. v = lookup[s] /\ t = s /\ i \in Ids(new)
        BY <1>8, <2>3 DEF Remembered
    <2>5. v = u
        BY <1>6, <1>8, <2>1, <2>4 DEF Lost
    <2>6. i \notin Ids(job[r].snap)
        BY <1>1, <1>5, <1>8, <2>4, <2>5 DEF Inv, SnapshotsOld, Lost
    <2> QED
        BY <2>1, <2>2, <2>4, <2>5, <2>6
<1>9. \A q \in Request : \A v, t, i : At(q, v, t, i, "record")' =>
          q # r /\ At(q, v, t, i, "record")
    BY <1>2 DEF At, Stays
<1>10. \A q \in Request : \A v, t, i : At(q, v, t, i, "execute")' =>
           \/ q # r /\ At(q, v, t, i, "execute")
           \/ q = r /\ pc'[r] = "execute" /\ v = u /\ t = s /\ i = id
    BY <1>2, <1>3 DEF At, Stays
<1>11. SeenCovers'
    BY <1>1, <1>2, <1>3 DEF Inv, SeenCovers, Stays
<1>12. SnapshotsOld'
    <2> SUFFICES ASSUME NEW q \in Request, NEW i \in ToolId,
                        pc'[q] \in {"record", "create", "store"},
                        i \in Ids(job'[q].snap),
                        Follows(job[q].owner, job[q].session, i)'
                 PROVE  \/ Remembered(job[q].owner, job[q].session, i)'
                        \/ <<<<job'[q].owner, job'[q].session>>, i>> \in forgotten'
        BY DEF SnapshotsOld, Follows
    <2>1. Stays(q)
        BY <1>2
    <2> QED
        BY <1>4, <2>1 DEF Inv, SnapshotsOld, Grows, Leaves, Follows, Remembered,
                          Stays
<1>13. PastRemembered'
    <2> SUFFICES ASSUME NEW v \in User, NEW t \in Session, NEW i \in ToolId,
                        Follows(v, t, i), ~Lost(v, t, i)'
                 PROVE  /\ Ran(v, t, i)' => Remembered(v, t, i)'
                        /\ \A q \in Request :
                               At(q, v, t, i, "execute")' => Remembered(v, t, i)'
        BY DEF PastRemembered, Follows
    <2>1. Remembered(v, t, i) => Remembered(v, t, i)'
        BY <1>4 DEF Leaves, Lost
    <2>2. Ran(v, t, i)' => Ran(v, t, i)
        BY <1>2 DEF Ran
    <2>3. ASSUME NEW q \in Request, At(q, v, t, i, "execute")'
          PROVE  Remembered(v, t, i)'
        <3>1. CASE q = r /\ pc'[r] = "execute" /\ v = u /\ t = s /\ i = id
            BY <1>7, <3>1 DEF Lost
        <3>2. CASE At(q, v, t, i, "execute")
            BY <1>5, <2>1, <3>2 DEF Inv, PastRemembered
        <3> QED
            BY <1>10, <2>3, <3>1, <3>2
    <2> QED
        BY <1>5, <2>1, <2>2, <2>3 DEF Inv, PastRemembered
<1>14. NoneBehind'
    <2> SUFFICES ASSUME NEW v \in User, NEW t \in Session, NEW i \in ToolId,
                        NEW q \in Request, Follows(v, t, i),
                        ~Doubtful(v, t, i)', Remembered(v, t, i)',
                        At(q, v, t, i, "record")'
                 PROVE  FALSE
        BY DEF NoneBehind, Follows
    <2>1. q # r /\ At(q, v, t, i, "record")
        BY <1>9
    <2>2. ~Remembered(v, t, i)
        BY <1>5, <2>1 DEF Inv, NoneBehind
    <2>3. v = u /\ t = s /\ i = id
        BY <1>8, <2>2 DEF Doubtful
    <2>4. twin /\ CallOf(r) = <<<<v, t>>, i>>
        BY <1>1, <2>1, <2>3 DEF At, CallOf
    <2> QED
        BY <1>2, <2>4 DEF Doubtful, Follows
<1>15. RunsOnce'
    <2> SUFFICES ASSUME NEW v \in User, NEW t \in Session, NEW i \in ToolId,
                        NEW q \in Request, Follows(v, t, i),
                        ~Doubtful(v, t, i)', At(q, v, t, i, "execute")'
                 PROVE  /\ ~Ran(v, t, i)'
                        /\ \A p \in Request :
                               At(p, v, t, i, "execute")' => p = q
        BY DEF RunsOnce, Follows
    <2>1. ~Doubtful(v, t, i)
        BY <1>5
    <2>2. Ran(v, t, i)' => Ran(v, t, i)
        BY <1>2 DEF Ran
    <2>3. CASE pc'[r] = "execute" /\ v = u /\ t = s /\ i = id
        <3>1. At(r, v, t, i, "record")
            BY <1>1, <2>3 DEF At
        <3>2. ~Remembered(v, t, i)
            BY <2>1, <3>1 DEF Inv, NoneBehind
        <3>3. /\ ~Ran(v, t, i)
              /\ \A p \in Request : ~At(p, v, t, i, "execute")
            BY <2>1, <3>2 DEF Inv, PastRemembered, Doubtful
        <3>4. \A p \in Request : At(p, v, t, i, "execute")' => p = r
            BY <1>10, <3>3
        <3> QED
            BY <2>2, <3>3, <3>4
    <2>4. CASE ~(pc'[r] = "execute" /\ v = u /\ t = s /\ i = id)
        BY <1>10, <2>1, <2>2, <2>4 DEF Inv, RunsOnce
    <2> QED
        BY <2>3, <2>4
<1>16. DuplicateExplained'
    BY <1>2, <1>4 DEF Inv, DuplicateExplained, Grows, Shared
<1> QED
    BY <1>11, <1>12, <1>13, <1>14, <1>15, <1>16 DEF Inv

-----------------------------------------------------------------------------
\* Every step keeps the invariant.
LEMMA StepInv == Inv /\ [Next]_vars => Inv'
<1> SUFFICES ASSUME Inv, [Next]_vars PROVE Inv'
    OBVIOUS
<1>1. TypeOK'
    BY TypeStep DEF Inv
<1>2. CASE UNCHANGED vars
    <2>1. /\ UNCHANGED session
          /\ \A r \in Request : Stays(r)
          /\ UNCHANGED <<executed, repeated, overlapped>>
        BY <1>2 DEF vars, session, Stays
    <2>2. /\ Grows /\ Leaves /\ Enters
          /\ \A t \in Session : lookup'[t] \in seen'[t] \cup {None}
        BY <2>1, SameSessionQuiet
    <2>3. Quiet
        BY <2>1, <2>2 DEF Quiet, Stays
    <2> QED
        BY <1>1, <2>2, <2>3, QuietInv
<1>3. CASE Next
    BY <1>1, <1>3, InitSessionInv, ExpireKeyInv, ExpireLookupInv, ToolCallInv,
       TurnInv, RecordInv, ExecuteInv, CreateInv, StoreTurnInv, EndInv
    DEF Next
<1> QED
    BY <1>2, <1>3

\* It holds in every reachable state.
LEMMA InvAlways == Spec => []Inv
BY InitInv, StepInv, PTL DEF Spec

\* Every variable has its type: above all, a request past its first step
\* carries a job, and what has run twice has run.
THEOREM TypeCorrect == Spec => []TypeOK
BY InvAlways, PTL DEF Inv

\* A tool call that had its effect is refused with 409 on retry until its id
\* is forgotten, however requests race, die or outlive their session.
THEOREM RetriesRefused == Spec => []RetryRefused
<1>1. Inv => RetryRefused
    <2> SUFFICES ASSUME Inv, NEW c \in executed
                 PROVE  \/ c[2] \in Ids(processed[c[1]])
                        \/ c \in forgotten
                        \/ Shared(c[1][2])
        BY DEF RetryRefused
    <2>1. c \in Call /\ c \in Watched
        BY WatchedAssumption DEF Inv, TypeOK
    <2>2. PICK u \in User, s \in Session, id \in ToolId : c = <<<<u, s>>, id>>
        BY <2>1 DEF Call, Key
    <2> QED
        BY <2>1, <2>2 DEF Inv, PastRemembered, Follows, Ran, Lost, Remembered
<1> QED
    BY InvAlways, <1>1, PTL

\* The effect of a tool is repeated for one call id only after the id was
\* forgotten, when twins passed the check together, or when users share the
\* session id.
THEOREM DuplicatesExplained == Spec => []DuplicateExplained
BY InvAlways, PTL DEF Inv

\* The patch that records a call lands on the session whose owner the check
\* compared with the caller, unless users share the session id.
THEOREM RecordsStayHome == Spec => RecordsAtHome
<1>1. Inv /\ [Next]_vars =>
          [\A r \in Request, k \in Key :
              pc[r] = "record" /\ pc'[r] # "record" /\ processed'[k] # processed[k] =>
                  k = <<job[r].user, job[r].session>> \/ Shared(job[r].session)]_vars
    <2> SUFFICES ASSUME Inv, Next, NEW r \in Request, NEW k \in Key,
                        pc[r] = "record", pc'[r] # "record",
                        processed'[k] # processed[k]
                 PROVE  \/ k = <<job[r].user, job[r].session>>
                        \/ Shared(job[r].session)
        OBVIOUS
    <2>1. Record(r) \/ End(r)
        BY DEF Next, InitSession, ExpireKey, ExpireLookup, Turn, ToolCall, Record,
               Execute, Create, StoreTurn, End, Goto, Return, Inv, TypeOK
    <2>2. Record(r)
        BY <2>1 DEF End, session
    <2>3. /\ Found(job[r].session)
          /\ processed' = [processed EXCEPT ![<<lookup[job[r].session],
                                                job[r].session>>] =
                               Newest(Append(job[r].snap, job[r].id))]
        BY <2>2 DEF Record, session, Put
    <2>4. k = <<lookup[job[r].session], job[r].session>>
        BY <2>3 DEF Inv, TypeOK
    <2>5. job[r].session \in Session /\ job[r].user \in seen[job[r].session]
        BY JobType DEF Inv, SeenCovers
    <2>6. lookup[job[r].session] \in seen[job[r].session]
        BY <2>3, <2>5 DEF Found, Inv, SeenCovers
    <2> QED
        BY <2>4, <2>5, <2>6 DEF Shared
<1> QED
    BY InvAlways, <1>1, PTL DEF Spec, RecordsAtHome

-----------------------------------------------------------------------------
\* Neither a session nor a request carries more ids than the slice leaves.
ListTrimmed(k) == processed[k] # None => Len(processed[k]) <= MaxProcessed
SnapTrimmed(r) == pc[r] # "idle" => Len(job[r].snap) <= MaxProcessed
Trimmed == (\A k \in Key : ListTrimmed(k)) /\ (\A r \in Request : SnapTrimmed(r))

\* Recording an id drops no other id, unless the list was full, and then the
\* oldest only.
LEMMA RecordedKeeps ==
    ASSUME NEW list \in Seq(ToolId), NEW id \in ToolId, Len(list) <= MaxProcessed
    PROVE  LET new == Newest(Append(list, id)) IN
           /\ Len(new) <= MaxProcessed
           /\ \A i \in Ids(list) \ Ids(new) :
                  Len(list) = MaxProcessed /\ i = Head(list)
<1> DEFINE long == Append(list, id)
           new == Newest(long)
<1>1. /\ long \in Seq(ToolId) /\ Len(long) = Len(list) + 1
      /\ \A i \in 1 .. Len(list) : long[i] = list[i]
    OBVIOUS
<1>2. new \in Seq(ToolId)
    BY <1>1, NewestType
<1>3. list # None /\ new # None
    BY <1>2, NoneAssumption
<1>4. CASE Len(long) > MaxProcessed
    <2>1. Len(list) = MaxProcessed /\ Len(long) = MaxProcessed + 1
        BY <1>1, <1>4, MaxProcessedAssumption
    <2>2. new = SubSeq(long, 2, MaxProcessed + 1)
        <3>1. new = SubSeq(long, Len(long) - MaxProcessed + 1, Len(long))
            BY <1>4 DEF Newest
        <3>2. Len(long) - MaxProcessed + 1 = 2
            BY <2>1, MaxProcessedAssumption
        <3> HIDE DEF long, new
        <3> QED
            BY <2>1, <3>1, <3>2
    <2>3. Len(new) = MaxProcessed /\ \A i \in 1 .. MaxProcessed : new[i] = long[i + 1]
        <3> HIDE DEF long
        <3> QED
            BY <1>1, <2>1, <2>2, MaxProcessedAssumption
    <2>4. ASSUME NEW n \in DOMAIN list, n # 1
          PROVE  list[n] \in Ids(new)
        <3>1. n - 1 \in 1 .. MaxProcessed /\ n \in 1 .. Len(list)
            BY <2>1, <2>4, MaxProcessedAssumption
        <3>2. new[n - 1] = list[n]
            <4> HIDE DEF long, new
            <4> QED
                BY <1>1, <2>3, <3>1
        <3>3. n - 1 \in DOMAIN new
            <4> HIDE DEF new
            <4> QED
                BY <1>2, <2>3, <3>1
        <3> HIDE DEF new
        <3> QED
            BY <1>3, <3>2, <3>3 DEF Ids
    <2>5. Head(list) = list[1]
        BY <2>1, MaxProcessedAssumption
    <2>6. ASSUME NEW i \in Ids(list) \ Ids(new)
          PROVE  i = Head(list)
        <3>1. PICK n \in DOMAIN list : i = list[n]
            BY <1>3 DEF Ids
        <3> HIDE DEF new
        <3> QED
            BY <2>4, <2>5, <2>6, <3>1
    <2>7. Len(new) <= MaxProcessed
        <3> HIDE DEF new
        <3> QED
            BY <2>3, MaxProcessedAssumption
    <2> HIDE DEF new
    <2>8. /\ Len(new) <= MaxProcessed
          /\ \A i \in Ids(list) \ Ids(new) :
                 Len(list) = MaxProcessed /\ i = Head(list)
        BY <2>1, <2>6, <2>7
    <2> QED
        BY <2>8 DEF new
<1>5. CASE ~(Len(long) > MaxProcessed)
    <2>1. new = long
        BY <1>5 DEF Newest
    <2>2. Ids(list) \subseteq Ids(long)
        <3>1. \A n \in DOMAIN list : n \in DOMAIN long /\ long[n] = list[n]
            BY <1>1
        <3> HIDE DEF long
        <3> QED
            BY <1>3, <2>1, <3>1 DEF Ids
    <2>3. Len(new) <= MaxProcessed
        <3> HIDE DEF new, long
        <3> QED
            BY <1>1, <1>5, <2>1, MaxProcessedAssumption
    <2> QED
        BY <2>1, <2>2, <2>3
<1> QED
    BY <1>4, <1>5

\* A write that is short enough leaves every list so.
LEMMA PutTrims ==
    ASSUME TypeOK, \A k \in Key : ListTrimmed(k), NEW u \in User, NEW s \in Session,
           NEW list \in Seq(ToolId) \cup {None}, Put(<<u, s>>, list),
           list # None => Len(list) <= MaxProcessed
    PROVE  \A k \in Key : ListTrimmed(k)'
<1>1. processed' = [processed EXCEPT ![<<u, s>>] = list] /\ DOMAIN processed = Key
    BY DEF Put, TypeOK
<1> QED
    BY <1>1 DEF ListTrimmed

\* The snapshots of requests that stay where they are, or become idle.
LEMMA OthersTrimmed ==
    ASSUME Trimmed, NEW r \in Request, \A q \in Request : q # r => Stays(q),
           SnapTrimmed(r)'
    PROVE  \A q \in Request : SnapTrimmed(q)'
BY DEF Trimmed, SnapTrimmed, Stays

\* Every step keeps the lists of sessions and requests trimmed.
LEMMA TrimmedStep == ASSUME TypeOK, Trimmed, [Next]_vars PROVE Trimmed'
<1>0. <<>> \in Seq(ToolId) /\ <<>> # None /\ Len(<<>>) <= MaxProcessed
    <2>1. <<>> \in Seq(ToolId) /\ Len(<<>>) = 0
        OBVIOUS
    <2> QED
        <3>1. <<>> # None
            BY <2>1, NoneAssumption, Zenon
        <3>2. 0 <= MaxProcessed
            BY MaxProcessedAssumption
        <3> QED
            BY <2>1, <3>1, <3>2
<1>1. ASSUME UNCHANGED <<pc, job>> PROVE \A r \in Request : SnapTrimmed(r)'
    BY <1>1 DEF Trimmed, SnapTrimmed
<1>2. ASSUME UNCHANGED processed PROVE \A k \in Key : ListTrimmed(k)'
    BY <1>2 DEF Trimmed, ListTrimmed
<1>3. ASSUME NEW s \in Session, Found(s)
      PROVE  Current(s) \in Seq(ToolId) /\ Len(Current(s)) <= MaxProcessed
    <2>1. lookup[s] \in User /\ Current(s) \in Seq(ToolId)
        BY <1>3, FoundType
    <2>2. <<lookup[s], s>> \in Key
        BY <2>1 DEF Key
    <2> QED
        BY <1>3, <2>1, <2>2 DEF Trimmed, ListTrimmed, Found, Current
<1>4. ASSUME NEW r \in Request, pc[r] # "idle"
      PROVE  job[r].snap \in Seq(ToolId) /\ Len(job[r].snap) <= MaxProcessed
    BY <1>4, JobType DEF Trimmed, SnapTrimmed
<1>5. ASSUME NEW u \in User, NEW s \in Session, InitSession(u, s)
      PROVE  Trimmed'
    <2>1. Put(<<u, s>>, <<>>) /\ UNCHANGED <<pc, job>>
        BY <1>5 DEF InitSession, Store
    <2> QED
        BY <1>0, <1>1, <2>1, PutTrims DEF Trimmed
<1>6. ASSUME NEW u \in User, NEW s \in Session, ExpireKey(u, s)
      PROVE  Trimmed'
    <2>1. Put(<<u, s>>, None) /\ UNCHANGED <<pc, job>>
        BY <1>6 DEF ExpireKey
    <2> QED
        BY <1>1, <2>1, PutTrims DEF Trimmed
<1>7. ASSUME NEW s \in Session, ExpireLookup(s) PROVE Trimmed'
    BY <1>1, <1>2, <1>7 DEF ExpireLookup, Trimmed
<1>8. ASSUME NEW r \in Request, NEW u \in User, NEW s \in Session, Turn(r, u, s)
      PROVE  Trimmed'
    <2>1. /\ UNCHANGED processed
          /\ \A q \in Request : q # r => Stays(q)
        BY <1>8 DEF Turn, session, Goto, Stays, TypeOK
    <2>2. PICK found \in {FALSE, Found(s)} :
              job'[r] = [user |-> u, session |-> s, id |-> None,
                         owner |-> IF found THEN lookup[s] ELSE u,
                         snap |-> IF found THEN Current(s) ELSE <<>>]
        BY <1>8 DEF Turn, TypeOK
    <2>3. SnapTrimmed(r)'
        <3>1. CASE found
            <4>1. Found(s)
                BY <2>2, <3>1
            <4>2. job'[r].snap = Current(s)
                BY <2>2, <3>1
            <4> QED
                BY <1>3, <4>1, <4>2 DEF SnapTrimmed
        <3>2. CASE ~found
            BY <1>0, <2>2, <3>2 DEF SnapTrimmed
        <3> QED
            BY <3>1, <3>2
    <2> QED
        BY <1>2, <2>1, <2>3, OthersTrimmed DEF Trimmed
<1>9. ASSUME NEW r \in Request, NEW u \in User, NEW s \in Session,
             NEW id \in ToolId, ToolCall(r, u, s, id)
      PROVE  Trimmed'
    <2>1. /\ UNCHANGED processed
          /\ \A q \in Request : q # r => Stays(q)
          /\ job'[r].snap = Current(s) /\ Found(s)
        BY <1>9 DEF ToolCall, Authorized, session, Goto, Stays, TypeOK
    <2>2. SnapTrimmed(r)'
        BY <1>3, <2>1 DEF SnapTrimmed
    <2> QED
        BY <1>2, <2>1, <2>2, OthersTrimmed DEF Trimmed
<1>10. ASSUME NEW r \in Request, Record(r) PROVE Trimmed'
    <2> DEFINE s == job[r].session
               new == Newest(Append(job[r].snap, job[r].id))
    <2>1. pc[r] = "record" /\ s \in Session /\ job[r].id \in ToolId /\ job[r] \in Job
        BY <1>10, JobType DEF Record
    <2>2. \A q \in Request : q # r => Stays(q)
        BY <1>10 DEF Record, Return, Goto, Stays, TypeOK
    <2>3. CASE Found(s)
        <3>1. new \in Seq(ToolId) /\ Len(new) <= MaxProcessed
            BY <1>4, <2>1, RecordedIds, RecordedKeeps
        <3>2. /\ Put(<<lookup[s], s>>, new) /\ lookup[s] \in User
              /\ job'[r].snap = <<>>
            BY <1>10, <2>1, <2>3, FoundType DEF Record, TypeOK, Job
        <3> HIDE DEF new, s
        <3>3. \A k \in Key : ListTrimmed(k)'
            BY <2>1, <3>1, <3>2, PutTrims DEF Trimmed
        <3>4. SnapTrimmed(r)'
            BY <1>0, <3>2 DEF SnapTrimmed
        <3> QED
            BY <2>2, <3>3, <3>4, OthersTrimmed DEF Trimmed
    <2>4. CASE ~Found(s)
        <3>1. UNCHANGED processed /\ pc'[r] = "idle"
            BY <1>10, <2>4 DEF Record, session, Return, Goto, TypeOK
        <3> QED
            BY <1>2, <2>2, <3>1, OthersTrimmed DEF Trimmed, SnapTrimmed
    <2> QED
        BY <2>3, <2>4
<1>11. ASSUME NEW r \in Request, NEW effect \in BOOLEAN, Execute(r, effect)
       PROVE  Trimmed'
    <2>1. /\ UNCHANGED processed /\ pc'[r] = "idle"
          /\ \A q \in Request : q # r => Stays(q)
        BY <1>11 DEF Execute, session, Return, Goto, Stays, TypeOK
    <2> QED
        BY <1>2, <2>1, OthersTrimmed DEF Trimmed, SnapTrimmed
<1>12. ASSUME NEW r \in Request, Create(r) PROVE Trimmed'
    <2>1. /\ pc[r] = "create" /\ job' = job
          /\ job[r].owner \in User /\ job[r].session \in Session
        BY <1>12, JobType DEF Create
    <2>2. Put(<<job[r].owner, job[r].session>>, <<>>)
        BY <1>12 DEF Create, Store
    <2>3. \A q \in Request : q # r => Stays(q)
        BY <1>12 DEF Create, Goto, Stays, TypeOK
    <2>4. SnapTrimmed(r)'
        BY <1>4, <2>1 DEF SnapTrimmed
    <2> QED
        BY <1>0, <2>1, <2>2, <2>3, <2>4, PutTrims, OthersTrimmed DEF Trimmed
<1>13. ASSUME NEW r \in Request, StoreTurn(r) PROVE Trimmed'
    <2>1. pc[r] = "store" /\ job[r].owner \in User /\ job[r].session \in Session
        BY <1>13, JobType DEF StoreTurn
    <2>2. Put(<<job[r].owner, job[r].session>>, job[r].snap)
        BY <1>13 DEF StoreTurn, Store
    <2>3. /\ pc'[r] = "idle"
          /\ \A q \in Request : q # r => Stays(q)
        BY <1>13 DEF StoreTurn, Return, Goto, Stays, TypeOK
    <2>4. SnapTrimmed(r)'
        BY <2>3 DEF SnapTrimmed
    <2> QED
        BY <1>4, <2>1, <2>2, <2>3, <2>4, PutTrims, OthersTrimmed DEF Trimmed
<1>14. ASSUME NEW r \in Request, End(r) PROVE Trimmed'
    <2>1. /\ UNCHANGED processed /\ pc'[r] = "idle"
          /\ \A q \in Request : q # r => Stays(q)
        BY <1>14 DEF End, session, Return, Goto, Stays, TypeOK
    <2> QED
        BY <1>2, <2>1, OthersTrimmed DEF Trimmed, SnapTrimmed
<1>15. CASE UNCHANGED vars
    BY <1>1, <1>2, <1>15 DEF vars, Trimmed
<1> QED
    BY <1>5, <1>6, <1>7, <1>8, <1>9, <1>10, <1>11, <1>12, <1>13, <1>14, <1>15 DEF Next

\* They are in every reachable state.
LEMMA TrimmedAlways == Spec => []Trimmed
<1>1. Init => Trimmed
    BY DEF Init, Trimmed, ListTrimmed, SnapTrimmed
<1>2. TypeOK /\ Trimmed /\ [Next]_vars => Trimmed'
    BY TrimmedStep
<1> QED
    BY TypeCorrect, <1>1, <1>2, PTL DEF Spec

\* An id that leaves a living session was the oldest of a full list, or was
\* missing from the list that a request had read before and now writes back:
\* the slice of the last 200 and the whole-state set are the only ways out.
THEOREM IdsSurvive == Spec => Survives
<1> DEFINE Lives(k, id) ==
        id \in Ids(processed[k]) /\ id \notin Ids(processed'[k]) =>
            \/ processed'[k] \in {None, <<>>}
            \/ \E r \in Request :
                   LET snap == job[r].snap IN
                   /\ pc[r] \in {"record", "store"}
                   /\ pc'[r] # pc[r]
                   /\ \/ id \notin Ids(snap)
                      \/ Len(snap) = MaxProcessed /\ id = Head(snap)
<1>1. ASSUME TypeOK, Trimmed, Next, NEW k \in Key, NEW id \in ToolId
      PROVE  Lives(k, id)
    <2>1. ASSUME NEW u, NEW s, NEW list, Put(<<u, s>>, list)
          PROVE  processed'[k] \in {processed[k], list}
        BY <1>1, <2>1 DEF Put, TypeOK
    <2>2. ASSUME UNCHANGED processed PROVE Lives(k, id)
        BY <2>2
    <2>3. ASSUME NEW u, NEW s, NEW list \in {None, <<>>}, Put(<<u, s>>, list)
          PROVE  Lives(k, id)
        BY <1>1, <2>1, <2>3
    <2>4. ASSUME NEW r \in Request, Record(r) PROVE Lives(k, id)
        <3> DEFINE s == job[r].session
                   new == Newest(Append(job[r].snap, job[r].id))
        <3>1. /\ pc[r] = "record" /\ job[r].id \in ToolId
              /\ job[r].snap \in Seq(ToolId) /\ Len(job[r].snap) <= MaxProcessed
            BY <1>1, <2>4, JobType DEF Record, Trimmed, SnapTrimmed
        <3>2. CASE Found(s)
            <4>1. Put(<<lookup[s], s>>, new) /\ pc'[r] = "execute"
                BY <1>1, <2>4, <3>2 DEF Record, Goto, TypeOK
            <4>2. \A i \in Ids(job[r].snap) \ Ids(new) :
                      Len(job[r].snap) = MaxProcessed /\ i = Head(job[r].snap)
                BY <3>1, RecordedKeeps
            <4> HIDE DEF new, s
            <4>3. processed'[k] \in {processed[k], new}
                BY <2>1, <4>1
            <4> QED
                BY <3>1, <4>1, <4>2, <4>3
        <3>3. CASE ~Found(s)
            <4>1. UNCHANGED processed
                BY <2>4, <3>3 DEF Record, session
            <4> QED
                BY <2>2, <4>1
        <3> QED
            BY <3>2, <3>3
    <2>5. ASSUME NEW r \in Request, StoreTurn(r) PROVE Lives(k, id)
        <3>1. pc[r] = "store" /\ pc'[r] = "idle"
            BY <1>1, <2>5 DEF StoreTurn, Return, Goto, TypeOK
        <3>2. Put(<<job[r].owner, job[r].session>>, job[r].snap)
            BY <2>5 DEF StoreTurn, Store
        <3>3. processed'[k] \in {processed[k], job[r].snap}
            BY <2>1, <3>2
        <3> QED
            BY <3>1, <3>3
    <2> HIDE DEF Lives
    <2>6. ASSUME NEW u, NEW s, InitSession(u, s) \/ ExpireKey(u, s)
          PROVE  Lives(k, id)
        BY <2>3, <2>6 DEF InitSession, Store, ExpireKey
    <2>7. ASSUME NEW r \in Request, Create(r) PROVE Lives(k, id)
        BY <2>3, <2>7 DEF Create, Store
    <2> QED
        BY <1>1, <2>2, <2>4, <2>5, <2>6, <2>7
        DEF Next, ExpireLookup, Turn, ToolCall, Execute, End, session
<1>2. TypeOK /\ Trimmed /\ [Next]_vars =>
          [\A k \in Key, id \in ToolId : Lives(k, id)]_vars
    <2> HIDE DEF Lives
    <2> QED
        BY <1>1
<1> QED
    BY TypeCorrect, TrimmedAlways, <1>2, PTL DEF Spec, Survives
=============================================================================

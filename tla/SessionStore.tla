---------------------------- MODULE SessionStore ----------------------------
(***************************************************************************)
(* RedisSessionState: the live sessions of every API instance, kept in     *)
(* three kinds of Redis keys                                               *)
(*   dreamweaver:session:<user>:<session>   the state with its history     *)
(*   dreamweaver:lookup:<session>           the user the session belongs to *)
(*   dreamweaver:user:<user>:sessions       the sessions of the user       *)
(* `set` is one Lua script.  `patch` and `rollback` first resolve the      *)
(* session's key through the lookup, in a round trip of its own, and only  *)
(* then run their script; `delete` resolves and then sends a pipeline,     *)
(* which is not a transaction.  A Client is one such call in flight.       *)
(*                                                                         *)
(* A state is a member of Data: what patch merges into it is any state.    *)
(* `get` changes nothing and is modelled where its result is used.         *)
(***************************************************************************)
EXTENDS Naturals, Sequences

CONSTANTS User,        \* authenticated users
          Session,     \* session ids, chosen by the client or a random UUID
          Client,      \* calls of patch, rollback and delete in flight
          Data,        \* the states a session can be in
          Nobody,      \* stands for the user in the legacy key of a session
          MaxHistory,  \* 10 in every call of the scripts
          TTL,         \* TTL_SECONDS, in ticks
          MaxSteps     \* bound on the argument of rollback

ASSUME NobodyAssumption == Nobody \notin User
ASSUME BoundsAssumption ==
    /\ MaxHistory \in Nat \ {0}
    /\ TTL \in Nat \ {0}
    /\ MaxSteps \in Nat

StrictKey == User \X Session
\* getLegacyKey: read and patched when it exists, never created.
LegacyKey == {Nobody} \X Session
Key == StrictKey \cup LegacyKey

VARIABLES versions,     \* Key -> history and current state, <<>> if no key
          life,         \* Key -> ticks until the key expires, 0 if no key
          owner,        \* Session -> what the lookup key holds, or Nobody
          ownerLife,    \* Session -> ticks until the lookup key expires
          index,        \* User -> the user's set of session ids
          call,         \* Client -> the call in flight
          halfDeleted,  \* sessions a delete removed but whose lookup it kept
          unindexed     \* keys set again in the middle of their own delete

store == <<versions, life>>
lookup == <<owner, ownerLife>>
history == <<halfDeleted, unindexed>>
vars == <<versions, life, owner, ownerLife, index, call, halfDeleted,
          unindexed>>

Step == {"patch", "rollback", "del_key", "del_lookup", "del_index"}
Call == [step : Step, key : Key]
NoCall == [step |-> "none", key |-> <<>>]

TypeOK ==
    /\ versions \in [Key -> Seq(Data)]
    /\ life \in [Key -> 0 .. TTL]
    /\ owner \in [Session -> User \cup {Nobody}]
    /\ ownerLife \in [Session -> 0 .. TTL]
    /\ index \in [User -> SUBSET Session]
    /\ call \in [Client -> Call \cup {NoCall}]
    /\ halfDeleted \in SUBSET Session
    /\ unindexed \in SUBSET StrictKey

\* The history never holds more than MaxHistory snapshots.
HistoryBounded == \A k \in Key : Len(versions[k]) <= MaxHistory + 1

\* A session of an earlier release may still be there under its legacy key.
Init ==
    /\ versions \in [Key -> {<<>>} \cup {<<d>> : d \in Data}]
    /\ \A k \in StrictKey : versions[k] = <<>>
    /\ life = [k \in Key |-> IF versions[k] = <<>> THEN 0 ELSE TTL]
    /\ owner = [s \in Session |-> Nobody]
    /\ ownerLife = [s \in Session |-> 0]
    /\ index = [u \in User |-> {}]
    /\ call = [c \in Client |-> NoCall]
    /\ halfDeleted = {}
    /\ unindexed = {}

Live(k) == versions[k] # <<>>

-----------------------------------------------------------------------------
(* The scripts.  A key holds a stack: its last element is the state, the   *)
(* others are the state's `history`.                                       *)

\* Mutation: table.remove(history) takes the newest snapshot instead.
WithStateTrimmedAtTop(held, d) ==
    IF Len(held) > MaxHistory
    THEN Append(SubSeq(held, 1, Len(held) - 1), d) ELSE Append(held, d)

\* table.insert(history, current); if #history > maxHistory then
\* table.remove(history, 1)
WithState(held, d) ==
    IF Len(held) > MaxHistory THEN Append(Tail(held), d) ELSE Append(held, d)

\* Pops `steps` snapshots, but stops when the history is empty.
RolledBack(held, steps) ==
    SubSeq(held, 1, IF steps < Len(held) THEN Len(held) - steps ELSE 1)

\* Mutation: the script goes on with an empty state.
FoundAlways(k) == TRUE

\* if not currentJson then return 0
Found(k) == Live(k)

\* SET key json EX ttl
Write(k, stack) ==
    /\ versions' = [versions EXCEPT ![k] = stack]
    /\ life' = [life EXCEPT ![k] = TTL]

-----------------------------------------------------------------------------
(* set: UPDATE_SESSION_SCRIPT.  The whole state is replaced, the session   *)
(* is entered in the user's index and its lookup points at the user.       *)

\* Mutation: the script leaves the SADD out.
IndexedNot(u, s) == index

\* Mutation: the user is added to the index in place of the session.
IndexedUser(u, s) == [index EXCEPT ![u] = @ \cup {u}]

Indexed(u, s) == [index EXCEPT ![u] = @ \cup {s}]

\* A delete of this key has removed it and not yet reached its last command.
DeleteUnderWay(u, s) ==
    \E c \in Client : /\ call[c].step \in {"del_lookup", "del_index"}
                      /\ call[c].key = <<u, s>>

Set(u, s, d) ==
    /\ Write(<<u, s>>, WithState(versions[<<u, s>>], d))
    /\ index' = Indexed(u, s)
    /\ owner' = [owner EXCEPT ![s] = u]
    /\ ownerLife' = [ownerLife EXCEPT ![s] = TTL]
    /\ halfDeleted' = halfDeleted \ {s}
    /\ unindexed' = IF DeleteUnderWay(u, s)
                    THEN unindexed \cup {<<u, s>>}
                    ELSE unindexed \ {<<u, s>>}
    /\ UNCHANGED call

-----------------------------------------------------------------------------
(* Calls that resolve the key first.                                       *)

\* resolveKey: the owner's key, or the legacy key when no lookup is left.
ResolvedKey(s) == <<owner[s], s>>

Resolve(c, s, step) ==
    /\ call[c] = NoCall
    /\ call' = [call EXCEPT ![c] = [step |-> step, key |-> ResolvedKey(s)]]
    /\ UNCHANGED <<store, lookup, index, history>>

At(c, step) == call[c].step = step
Return(c) == call' = [call EXCEPT ![c] = NoCall]
Continue(c, step) == call' = [call EXCEPT ![c].step = step]

\* PATCH_SESSION_SCRIPT: the lookup's expiry is not refreshed.
Patch(c, d) ==
    /\ At(c, "patch")
    /\ IF Found(call[c].key)
       THEN Write(call[c].key, WithState(versions[call[c].key], d))
       ELSE UNCHANGED store
    /\ Return(c)
    /\ UNCHANGED <<lookup, index, history>>

\* ROLLBACK_SESSION_SCRIPT: nothing to do without a history or with 0 steps.
Rollback(c, steps) ==
    /\ At(c, "rollback")
    /\ IF Len(versions[call[c].key]) > 1 /\ steps > 0
       THEN Write(call[c].key, RolledBack(versions[call[c].key], steps))
       ELSE UNCHANGED store
    /\ Return(c)
    /\ UNCHANGED <<lookup, index, history>>

\* delete, first command of the pipeline: DEL session key.
DelKey(c) ==
    LET k == call[c].key IN
    /\ At(c, "del_key")
    /\ versions' = [versions EXCEPT ![k] = <<>>]
    /\ life' = [life EXCEPT ![k] = 0]
    /\ halfDeleted' = IF owner[k[2]] = k[1] THEN halfDeleted \cup {k[2]}
                                            ELSE halfDeleted
    /\ Continue(c, "del_lookup")
    /\ UNCHANGED <<lookup, index, unindexed>>

\* Mutation: the pipeline does not delete the lookup.
DelLookupForgotten(c) ==
    /\ At(c, "del_lookup")
    /\ halfDeleted' = halfDeleted \ {call[c].key[2]}
    /\ Continue(c, "del_index")
    /\ UNCHANGED <<store, lookup, index, unindexed>>

\* DEL lookup key, whoever it points at by now.
DelLookup(c) ==
    LET s == call[c].key[2] IN
    /\ At(c, "del_lookup")
    /\ owner' = [owner EXCEPT ![s] = Nobody]
    /\ ownerLife' = [ownerLife EXCEPT ![s] = 0]
    /\ halfDeleted' = halfDeleted \ {s}
    /\ Continue(c, "del_index")
    /\ UNCHANGED <<store, index, unindexed>>

\* SREM from the index of the user in the key; a legacy key names none.
DelIndex(c) ==
    LET k == call[c].key IN
    /\ At(c, "del_index")
    /\ index' = IF k \in StrictKey THEN [index EXCEPT ![k[1]] = @ \ {k[2]}]
                                   ELSE index
    /\ Return(c)
    /\ UNCHANGED <<store, lookup, history>>

\* A command fails or the process dies: patch and rollback throw, delete
\* logs and returns, and what was done stays done.
Fail(c) ==
    /\ call[c] # NoCall
    /\ Return(c)
    /\ UNCHANGED <<store, lookup, index, history>>

\* Redis expires keys; every key's clock advances together.
Tick ==
    /\ \/ \E k \in Key : life[k] > 0
       \/ \E s \in Session : ownerLife[s] > 0
    /\ life' = [k \in Key |-> IF life[k] > 0 THEN life[k] - 1 ELSE 0]
    /\ versions' = [k \in Key |-> IF life[k] > 1 THEN versions[k] ELSE <<>>]
    /\ ownerLife' = [s \in Session |->
                        IF ownerLife[s] > 0 THEN ownerLife[s] - 1 ELSE 0]
    /\ owner' = [s \in Session |->
                    IF ownerLife[s] > 1 THEN owner[s] ELSE Nobody]
    /\ UNCHANGED <<index, call, history>>

Next ==
    \/ \E u \in User, s \in Session, d \in Data : Set(u, s, d)
    \/ \E c \in Client, s \in Session :
           \E step \in {"patch", "rollback", "del_key"} : Resolve(c, s, step)
    \/ \E c \in Client, d \in Data : Patch(c, d)
    \/ \E c \in Client, n \in 0 .. MaxSteps : Rollback(c, n)
    \/ \E c \in Client : DelKey(c) \/ DelLookup(c) \/ DelIndex(c) \/ Fail(c)
    \/ Tick

Spec == Init /\ [][Next]_vars

-----------------------------------------------------------------------------
(* Properties                                                              *)

\* Every session key is a stack of versions: set, patch and rollback on the
\* shared Redis only ever push, pop or drop, through calls that hold a key
\* resolved earlier and race with each other, with deletes and with expiry.
V == INSTANCE SessionVersions WITH versions <- versions
ImplementsVersions == V!Spec

\* A session key that comes into existence can be found: its lookup and its
\* user's index name it.  A patch or a rollback that resolved its key before
\* a delete or an expiry must not bring the session back outside both.
BornReachable ==
    [][\A k \in Key : ~Live(k) /\ Live(k)' =>
          /\ owner'[k[2]] = k[1]
          /\ k \in StrictKey
          /\ k[2] \in index'[k[1]]]_vars

\* A lookup leads to a state that outlives it, so get and patch find one
\* behind every lookup, except between the commands of a delete and after
\* one that failed there.
LookupBacked ==
    \A s \in Session :
        owner[s] \in User /\ s \notin halfDeleted =>
            /\ Live(<<owner[s], s>>)
            /\ life[<<owner[s], s>>] >= ownerLife[s]

\* The index of a user lists every session the user has, unless a set fell
\* between the commands of a delete of the same session.
IndexCovers ==
    \A u \in User, s \in Session :
        Live(<<u, s>>) => s \in index[u] \/ <<u, s>> \in unindexed
=============================================================================

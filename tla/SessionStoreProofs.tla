------------------------- MODULE SessionStoreProofs -------------------------
(***************************************************************************)
(* What the runs of SessionStore show for two users, proved for any number *)
(* of users, sessions, calls in flight, history depth and expiry.          *)
(***************************************************************************)
EXTENDS SessionStore, TLAPS

\* A delete past its first command has no session left to remove from the
\* index, unless a set came in between.
DeletedIsGone ==
    \A c \in Client :
        call[c].step \in {"del_lookup", "del_index"} =>
            ~Live(call[c].key) \/ call[c].key \in unindexed \cup LegacyKey

Inv == /\ TypeOK
       /\ HistoryBounded
       /\ LookupBacked
       /\ IndexCovers
       /\ DeletedIsGone

-----------------------------------------------------------------------------
\* The key a call resolves is a strict key or a legacy key.
LEMMA ResolvedKeyType ==
    ASSUME TypeOK, NEW s \in Session
    PROVE  ResolvedKey(s) \in Key
BY DEF TypeOK, ResolvedKey, Key, StrictKey, LegacyKey

\* Pushing a state keeps the stack bounded, typed and not empty.
LEMMA WithStateType ==
    ASSUME NEW held \in Seq(Data), NEW d \in Data,
           Len(held) <= MaxHistory + 1
    PROVE  /\ WithState(held, d) \in Seq(Data)
           /\ Len(WithState(held, d)) <= MaxHistory + 1
           /\ WithState(held, d) # <<>>
BY BoundsAssumption DEF WithState

\* Rolling back leaves a shorter stack that still has a state.
LEMMA RolledBackType ==
    ASSUME NEW held \in Seq(Data), NEW n \in Nat, Len(held) > 1
    PROVE  /\ RolledBack(held, n) \in Seq(Data)
           /\ Len(RolledBack(held, n)) <= Len(held)
           /\ RolledBack(held, n) # <<>>
BY DEF RolledBack

\* A call in flight past NoCall is a member of Call.
LEMMA CallType ==
    ASSUME TypeOK, NEW c \in Client, call[c].step # "none"
    PROVE  call[c] \in Call /\ call[c].key \in Key
BY DEF TypeOK, Call, NoCall

-----------------------------------------------------------------------------
\* Inv holds of the initial states: no lookup, no call, and at most a legacy
\* session with one version.
LEMMA InitInv == Init => Inv
<1> SUFFICES ASSUME Init PROVE Inv
    OBVIOUS
<1>a. \A k \in Key : versions[k] \in Seq(Data) /\ Len(versions[k]) <= 1
    <2> SUFFICES ASSUME NEW k \in Key
                 PROVE  versions[k] \in Seq(Data) /\ Len(versions[k]) <= 1
        OBVIOUS
    <2>1. CASE versions[k] = <<>>
        BY <2>1
    <2>2. CASE \E d \in Data : versions[k] = <<d>>
        BY <2>2
    <2> QED
        BY <2>1, <2>2 DEF Init
<1>1. TypeOK
    <2>1. versions \in [Key -> Seq(Data)]
        BY <1>a DEF Init
    <2>2. life \in [Key -> 0 .. TTL] /\ ownerLife \in [Session -> 0 .. TTL]
        BY BoundsAssumption DEF Init
    <2>3. owner \in [Session -> User \cup {Nobody}]
        BY DEF Init
    <2>4. index \in [User -> SUBSET Session]
        BY DEF Init
    <2>5. call \in [Client -> Call \cup {NoCall}]
        BY DEF Init
    <2> QED
        BY <2>1, <2>2, <2>3, <2>4, <2>5 DEF Init, TypeOK
<1>2. HistoryBounded
    BY <1>a, BoundsAssumption DEF HistoryBounded
<1>3. LookupBacked
    BY NobodyAssumption DEF Init, LookupBacked
<1>4. IndexCovers
    BY DEF Init, IndexCovers, Live, StrictKey
<1>5. DeletedIsGone
    BY DEF Init, DeletedIsGone, NoCall
<1> QED
    BY <1>1, <1>2, <1>3, <1>4, <1>5 DEF Inv

\* A set keeps Inv: it makes the session live, found and indexed, and marks
\* it when a delete of the same session is between its commands.
LEMMA SetInv ==
    ASSUME Inv, NEW u \in User, NEW s \in Session, NEW d \in Data, Set(u, s, d)
    PROVE  Inv'
<1> DEFINE k == <<u, s>>
           stack == WithState(versions[k], d)
<1>1. k \in StrictKey /\ k \in Key /\ u # Nobody
    BY NobodyAssumption DEF StrictKey, Key
<1>2. stack \in Seq(Data) /\ Len(stack) <= MaxHistory + 1 /\ stack # <<>>
    BY <1>1, WithStateType DEF Inv, TypeOK, HistoryBounded
<1>3. /\ versions' = [versions EXCEPT ![k] = stack]
      /\ life' = [life EXCEPT ![k] = TTL]
    BY DEF Set, Write
<1>4. TypeOK'
    <2>1. versions' \in [Key -> Seq(Data)] /\ life' \in [Key -> 0 .. TTL]
        BY <1>1, <1>2, <1>3, BoundsAssumption DEF Inv, TypeOK
    <2>2. unindexed' \in SUBSET StrictKey
        BY <1>1 DEF Inv, TypeOK, Set
    <2> QED
        BY <2>1, <2>2, BoundsAssumption DEF Inv, TypeOK, Set, Indexed
<1>5. HistoryBounded'
    BY <1>1, <1>2, <1>3 DEF Inv, TypeOK, HistoryBounded
<1>6. LookupBacked'
    <2> SUFFICES ASSUME NEW t \in Session,
                        owner'[t] \in User, t \notin halfDeleted'
                 PROVE  /\ Live(<<owner[t], t>>)'
                        /\ life'[<<owner'[t], t>>] >= ownerLife'[t]
        BY DEF LookupBacked
    <2>1. CASE t = s
        BY <2>1, <1>1, <1>2, <1>3, BoundsAssumption
        DEF Inv, TypeOK, Set, Live
    <2>2. CASE t # s
        <3>1. owner'[t] = owner[t] /\ ownerLife'[t] = ownerLife[t]
            BY <2>2 DEF Inv, TypeOK, Set
        <3>2. <<owner[t], t>> \in Key /\ <<owner[t], t>> # k
            BY <2>2, <3>1 DEF Key, StrictKey
        <3>3. /\ versions'[<<owner[t], t>>] = versions[<<owner[t], t>>]
              /\ life'[<<owner[t], t>>] = life[<<owner[t], t>>]
            BY <3>2, <1>3 DEF Inv, TypeOK
        <3>4. t \notin halfDeleted
            BY <2>2 DEF Set
        <3> QED
            BY <3>1, <3>3, <3>4 DEF Inv, LookupBacked, Live
    <2> QED
        BY <2>1, <2>2
<1>7. IndexCovers'
    <2> SUFFICES ASSUME NEW v \in User, NEW t \in Session, Live(<<v, t>>)'
                 PROVE  t \in index'[v] \/ <<v, t>> \in unindexed'
        BY DEF IndexCovers
    <2>1. CASE v = u /\ t = s
        BY <2>1 DEF Inv, TypeOK, Set, Indexed
    <2>2. CASE ~(v = u /\ t = s)
        <3>1. <<v, t>> \in Key /\ <<v, t>> # k
            BY <2>2 DEF Key, StrictKey
        <3>2. Live(<<v, t>>)
            BY <3>1, <1>3 DEF Inv, TypeOK, Live
        <3>3. t \in index[v] \/ <<v, t>> \in unindexed
            BY <3>2 DEF Inv, IndexCovers
        <3> QED
            BY <3>1, <3>3 DEF Inv, TypeOK, Set, Indexed
    <2> QED
        BY <2>1, <2>2
<1>8. DeletedIsGone'
    <2> SUFFICES ASSUME NEW c \in Client,
                        call[c].step \in {"del_lookup", "del_index"}
                 PROVE  \/ ~Live(call[c].key)'
                        \/ call[c].key \in unindexed' \cup LegacyKey
        BY DEF DeletedIsGone, Set
    <2>1. CASE call[c].key = k
        BY <2>1 DEF Set, DeleteUnderWay
    <2>2. CASE call[c].key # k
        <3>1. call[c].key \in Key
            BY CallType DEF Inv
        <3>2. versions'[call[c].key] = versions[call[c].key]
            BY <3>1, <2>2, <1>3 DEF Inv, TypeOK
        <3> QED
            BY <2>2, <3>2 DEF Inv, DeletedIsGone, Set, Live
    <2> QED
        BY <2>1, <2>2
<1> QED
    BY <1>4, <1>5, <1>6, <1>7, <1>8 DEF Inv

\* A script that writes to a live key with a non-empty stack keeps Inv.
LEMMA WriteInv ==
    ASSUME Inv, NEW k \in Key, NEW stack \in Seq(Data),
           Len(stack) <= MaxHistory + 1, stack # <<>>, Live(k),
           Write(k, stack), NEW c \in Client, Return(c),
           UNCHANGED <<lookup, index, history>>
    PROVE  Inv'
<1>1. /\ versions' = [versions EXCEPT ![k] = stack]
      /\ life' = [life EXCEPT ![k] = TTL]
    BY DEF Write
<1>2. UNCHANGED <<owner, ownerLife, index, halfDeleted, unindexed>>
    BY DEF lookup, history
<1>3. \A j \in Key : Live(j)' <=> Live(j)
    BY <1>1 DEF Inv, TypeOK, Live
<1>4. \A j \in Key : life'[j] = life[j] \/ life'[j] = TTL
    BY <1>1 DEF Inv, TypeOK
<1>5. TypeOK'
    BY <1>1, <1>2, BoundsAssumption DEF Inv, TypeOK, Return
<1>6. HistoryBounded'
    BY <1>1 DEF Inv, TypeOK, HistoryBounded
<1>7. LookupBacked'
    <2> SUFFICES ASSUME NEW t \in Session,
                        owner[t] \in User, t \notin halfDeleted
                 PROVE  /\ Live(<<owner[t], t>>)'
                        /\ life'[<<owner[t], t>>] >= ownerLife[t]
        BY <1>2 DEF LookupBacked
    <2>1. <<owner[t], t>> \in Key
        BY DEF Key, StrictKey
    <2>2. ownerLife[t] \in 0 .. TTL
        BY DEF Inv, TypeOK
    <2>3. Live(<<owner[t], t>>) /\ life[<<owner[t], t>>] >= ownerLife[t]
        BY DEF Inv, LookupBacked
    <2>4. Live(<<owner[t], t>>)'
        BY <2>1, <2>3, <1>2, <1>3 DEF Live
    <2>5. life'[<<owner[t], t>>] >= ownerLife[t]
        BY <2>1, <2>2, <2>3, <1>4, BoundsAssumption
    <2> QED
        BY <2>4, <2>5
<1>8. IndexCovers'
    <2>1. \A v \in User, t \in Session : <<v, t>> \in Key
        BY DEF Key, StrictKey
    <2> QED
        BY <2>1, <1>2, <1>3 DEF Inv, IndexCovers
<1>9. DeletedIsGone'
    <2> SUFFICES ASSUME NEW b \in Client,
                        call'[b].step \in {"del_lookup", "del_index"}
                 PROVE  \/ ~Live(call[b].key)'
                        \/ call'[b].key \in unindexed \cup LegacyKey
        BY <1>2 DEF DeletedIsGone
    <2>1. b # c /\ call'[b] = call[b]
        BY DEF Inv, TypeOK, Return, NoCall
    <2>2. call[b].key \in Key
        BY <2>1, CallType DEF Inv
    <2>3. ~Live(call[b].key) \/ call[b].key \in unindexed \cup LegacyKey
        BY <2>1 DEF Inv, DeletedIsGone
    <2> QED
        BY <2>1, <2>2, <2>3, <1>3 DEF Live
<1> QED
    BY <1>5, <1>6, <1>7, <1>8, <1>9 DEF Inv

-----------------------------------------------------------------------------
\* The commands of a delete keep Inv: the first leaves a lookup that leads
\* nowhere (halfDeleted), the last removes from the index a session that is
\* gone or was set again in between (unindexed).
LEMMA DeleteInv ==
    ASSUME Inv, NEW c \in Client, DelKey(c) \/ DelLookup(c) \/ DelIndex(c)
    PROVE  Inv'
<1> DEFINE k == call[c].key
<1>1. k \in Key /\ call[c] \in Call
    BY CallType DEF Inv, DelKey, DelLookup, DelIndex, At
<1>2. CASE DelKey(c)
    <2>1. /\ versions' = [versions EXCEPT ![k] = <<>>]
          /\ life' = [life EXCEPT ![k] = 0]
          /\ call' = [call EXCEPT ![c].step = "del_lookup"]
          /\ UNCHANGED <<owner, ownerLife, index, unindexed>>
        BY <1>2 DEF DelKey, Continue, lookup
    <2>2. TypeOK'
        <3>1. [call[c] EXCEPT !.step = "del_lookup"] \in Call
            BY <1>1 DEF Call, Step
        <3>2. k[2] \in Session
            BY <1>1 DEF Key, StrictKey, LegacyKey
        <3> QED
            BY <1>1, <1>2, <2>1, <3>1, <3>2, BoundsAssumption
            DEF Inv, TypeOK, DelKey
    <2>3. HistoryBounded'
        BY <1>1, <2>1, BoundsAssumption DEF Inv, TypeOK, HistoryBounded
    <2>4. LookupBacked'
        <3> SUFFICES ASSUME NEW t \in Session,
                            owner[t] \in User, t \notin halfDeleted'
                     PROVE  /\ Live(<<owner[t], t>>)'
                            /\ life'[<<owner[t], t>>] >= ownerLife[t]
            BY <2>1 DEF LookupBacked
        <3>1. <<owner[t], t>> \in Key
            BY DEF Key, StrictKey
        <3>2. <<owner[t], t>> # k /\ t \notin halfDeleted
            BY <1>2 DEF DelKey
        <3> QED
            BY <3>1, <3>2, <2>1 DEF Inv, TypeOK, LookupBacked, Live
    <2>5. IndexCovers'
        <3>1. \A v \in User, t \in Session : <<v, t>> \in Key
            BY DEF Key, StrictKey
        <3> QED
            BY <3>1, <2>1 DEF Inv, TypeOK, IndexCovers, Live
    <2>6. DeletedIsGone'
        <3> SUFFICES ASSUME NEW b \in Client,
                            call'[b].step \in {"del_lookup", "del_index"}
                     PROVE  \/ ~Live(call[b].key)'
                            \/ call'[b].key \in unindexed \cup LegacyKey
            BY <2>1 DEF DeletedIsGone
        <3>1. call'[b].key \in Key
            BY <2>2, CallType DEF TypeOK, Call, NoCall
        <3>2. CASE call'[b].key = k
            BY <1>1, <3>2, <2>1 DEF Inv, TypeOK, Live
        <3>3. CASE call'[b].key # k
            <4>1. b # c
                BY <3>3, <2>1, <1>1 DEF Inv, TypeOK, Call
            <4>2. call'[b] = call[b]
                BY <4>1, <2>1 DEF Inv, TypeOK
            <4>3. versions'[call[b].key] = versions[call[b].key]
                BY <3>1, <3>3, <4>2, <2>1 DEF Inv, TypeOK
            <4> QED
                BY <4>2, <4>3 DEF Inv, DeletedIsGone, Live
        <3> QED
            BY <3>2, <3>3
    <2> QED
        BY <2>2, <2>3, <2>4, <2>5, <2>6 DEF Inv
<1>3. CASE DelLookup(c)
    <2> DEFINE s == k[2]
    <2>1. /\ owner' = [owner EXCEPT ![s] = Nobody]
          /\ ownerLife' = [ownerLife EXCEPT ![s] = 0]
          /\ halfDeleted' = halfDeleted \ {s}
          /\ call' = [call EXCEPT ![c].step = "del_index"]
          /\ UNCHANGED <<versions, life, index, unindexed>>
        BY <1>3 DEF DelLookup, Continue, store
    <2>2. s \in Session
        BY <1>1 DEF Key, StrictKey, LegacyKey
    <2>3. TypeOK'
        <3>1. [call[c] EXCEPT !.step = "del_index"] \in Call
            BY <1>1 DEF Call, Step
        <3> QED
            BY <2>1, <2>2, <3>1, BoundsAssumption DEF Inv, TypeOK
    <2>4. HistoryBounded' /\ IndexCovers'
        BY <2>1 DEF Inv, HistoryBounded, IndexCovers, Live
    <2>5. LookupBacked'
        BY <2>1, <2>2, NobodyAssumption DEF Inv, TypeOK, LookupBacked, Live
    <2>6. DeletedIsGone'
        <3> SUFFICES ASSUME NEW b \in Client,
                            call'[b].step \in {"del_lookup", "del_index"}
                     PROVE  \/ ~Live(call[b].key)'
                            \/ call'[b].key \in unindexed \cup LegacyKey
            BY <2>1 DEF DeletedIsGone
        <3>1. call'[b].key = call[b].key
            BY <1>1, <2>1 DEF Inv, TypeOK, Call
        <3>2. call[b].step \in {"del_lookup", "del_index"}
            BY <1>3, <2>1 DEF Inv, TypeOK, DelLookup, At
        <3> QED
            BY <3>1, <3>2, <2>1 DEF Inv, DeletedIsGone, Live
    <2> QED
        BY <2>3, <2>4, <2>5, <2>6 DEF Inv
<1>4. CASE DelIndex(c)
    <2>1. /\ index' = IF k \in StrictKey
                      THEN [index EXCEPT ![k[1]] = @ \ {k[2]}] ELSE index
          /\ call' = [call EXCEPT ![c] = NoCall]
          /\ UNCHANGED <<versions, life, owner, ownerLife, halfDeleted,
                         unindexed>>
        BY <1>4 DEF DelIndex, Return, store, lookup, history
    <2>2. TypeOK'
        BY <1>1, <2>1 DEF Inv, TypeOK, StrictKey
    <2>3. HistoryBounded' /\ LookupBacked'
        BY <2>1 DEF Inv, HistoryBounded, LookupBacked, Live
    <2>4. IndexCovers'
        <3> SUFFICES ASSUME NEW v \in User, NEW t \in Session,
                            Live(<<v, t>>)'
                     PROVE  t \in index'[v] \/ <<v, t>> \in unindexed'
            BY DEF IndexCovers
        <3>1. Live(<<v, t>>) /\ (t \in index[v] \/ <<v, t>> \in unindexed)
            BY <2>1 DEF Inv, IndexCovers, Live
        <3>2. CASE k = <<v, t>>
            <4>1. k \notin LegacyKey
                BY <3>2, NobodyAssumption DEF LegacyKey
            <4>2. k \in unindexed
                BY <1>4, <3>1, <3>2, <4>1
                DEF Inv, DeletedIsGone, DelIndex, At
            <4> QED
                BY <3>2, <4>2, <2>1
        <3>3. CASE k # <<v, t>>
            <4>1. t \in index[v] => t \in index'[v]
                BY <3>3, <2>1 DEF Inv, TypeOK, StrictKey
            <4> QED
                BY <4>1, <3>1, <2>1
        <3> QED
            BY <3>2, <3>3
    <2>5. DeletedIsGone'
        BY <2>1 DEF Inv, TypeOK, DeletedIsGone, Live, NoCall
    <2> QED
        BY <2>2, <2>3, <2>4, <2>5 DEF Inv
<1> QED
    BY <1>2, <1>3, <1>4

-----------------------------------------------------------------------------
\* Expiry keeps Inv: a lookup lapses no later than the state it leads to.
LEMMA TickInv ==
    ASSUME Inv, Tick
    PROVE  Inv'
<1>1. /\ life' = [k \in Key |-> IF life[k] > 0 THEN life[k] - 1 ELSE 0]
      /\ versions' = [k \in Key |-> IF life[k] > 1 THEN versions[k] ELSE <<>>]
      /\ ownerLife' = [s \in Session |->
                          IF ownerLife[s] > 0 THEN ownerLife[s] - 1 ELSE 0]
      /\ owner' = [s \in Session |->
                      IF ownerLife[s] > 1 THEN owner[s] ELSE Nobody]
      /\ UNCHANGED <<index, call, halfDeleted, unindexed>>
    BY DEF Tick, history
<1>2. TypeOK'
    <2>1. \A k \in Key : /\ life[k] \in 0 .. TTL
                         /\ versions[k] \in Seq(Data)
                         /\ life'[k] \in 0 .. TTL
                         /\ versions'[k] \in Seq(Data)
        BY <1>1, BoundsAssumption DEF Inv, TypeOK
    <2>2. \A s \in Session : /\ ownerLife'[s] \in 0 .. TTL
                             /\ owner'[s] \in User \cup {Nobody}
        BY <1>1, BoundsAssumption DEF Inv, TypeOK
    <2> QED
        BY <1>1, <2>1, <2>2 DEF Inv, TypeOK
<1>3. HistoryBounded'
    BY <1>1, BoundsAssumption DEF Inv, TypeOK, HistoryBounded
<1>4. LookupBacked'
    <2> SUFFICES ASSUME NEW t \in Session,
                        owner'[t] \in User, t \notin halfDeleted
                 PROVE  /\ Live(<<owner[t], t>>)'
                        /\ life'[<<owner'[t], t>>] >= ownerLife'[t]
        BY <1>1 DEF LookupBacked
    <2>1. ownerLife[t] > 1 /\ owner'[t] = owner[t] /\ owner[t] \in User
        BY <1>1, NobodyAssumption DEF Inv, TypeOK
    <2>2. Live(<<owner[t], t>>) /\ life[<<owner[t], t>>] >= ownerLife[t]
        BY <2>1 DEF Inv, LookupBacked
    <2>3. <<owner[t], t>> \in Key
        BY <2>1 DEF Key, StrictKey
    <2>4. life[<<owner[t], t>>] \in Nat /\ ownerLife[t] \in Nat
        BY <2>3, BoundsAssumption DEF Inv, TypeOK
    <2> QED
        BY <1>1, <2>1, <2>2, <2>3, <2>4 DEF Live
<1>5. IndexCovers'
    <2>1. \A v \in User, t \in Session : <<v, t>> \in Key
        BY DEF Key, StrictKey
    <2> QED
        BY <2>1, <1>1 DEF Inv, IndexCovers, Live
<1>6. DeletedIsGone'
    <2> SUFFICES ASSUME NEW c \in Client,
                        call[c].step \in {"del_lookup", "del_index"}
                 PROVE  \/ ~Live(call[c].key)'
                        \/ call[c].key \in unindexed \cup LegacyKey
        BY <1>1 DEF DeletedIsGone
    <2>1. call[c].key \in Key
        BY CallType DEF Inv
    <2> QED
        BY <2>1, <1>1 DEF Inv, DeletedIsGone, Live
<1> QED
    BY <1>2, <1>3, <1>4, <1>5, <1>6 DEF Inv

\* A step that only starts or ends a call outside a delete keeps Inv.
LEMMA CallInv ==
    ASSUME Inv, NEW c \in Client, UNCHANGED <<store, lookup, index, history>>,
           \/ Return(c)
           \/ \E s \in Session, step \in {"patch", "rollback", "del_key"} :
                  Resolve(c, s, step)
    PROVE  Inv'
<1>1. UNCHANGED <<versions, life, owner, ownerLife, index, halfDeleted,
                  unindexed>>
    BY DEF store, lookup, history
<1>2. \E rec \in Call \cup {NoCall} :
          /\ call' = [call EXCEPT ![c] = rec]
          /\ rec.step \notin {"del_lookup", "del_index"}
    <2>1. CASE Return(c)
        <3>1. NoCall.step = "none"
            BY DEF NoCall
        <3> QED
            BY <2>1, <3>1 DEF Return
    <2>2. CASE \E s \in Session, step \in {"patch", "rollback", "del_key"} :
                   Resolve(c, s, step)
        <3>1. PICK s \in Session, step \in {"patch", "rollback", "del_key"} :
                  Resolve(c, s, step)
            BY <2>2
        <3>2. [step |-> step, key |-> ResolvedKey(s)] \in Call
            BY ResolvedKeyType DEF Inv, Call, Step
        <3>3. [step |-> step, key |-> ResolvedKey(s)].step \notin
                  {"del_lookup", "del_index"}
            OBVIOUS
        <3> QED
            BY <3>1, <3>2, <3>3 DEF Resolve
    <2> QED
        BY <2>1, <2>2
<1>3. TypeOK'
    BY <1>1, <1>2 DEF Inv, TypeOK
<1>4. HistoryBounded' /\ LookupBacked' /\ IndexCovers'
    BY <1>1 DEF Inv, HistoryBounded, LookupBacked, IndexCovers, Live
<1>5. DeletedIsGone'
    BY <1>1, <1>2 DEF Inv, TypeOK, DeletedIsGone, Live
<1> QED
    BY <1>3, <1>4, <1>5 DEF Inv

\* Every step keeps Inv.
LEMMA StepInv ==
    ASSUME Inv, [Next]_vars
    PROVE  Inv'
<1>1. ASSUME NEW u \in User, NEW s \in Session, NEW d \in Data, Set(u, s, d)
      PROVE  Inv'
    BY <1>1, SetInv
<1>2. ASSUME NEW c \in Client, NEW s \in Session,
             NEW step \in {"patch", "rollback", "del_key"}, Resolve(c, s, step)
      PROVE  Inv'
    BY <1>2, CallInv DEF Resolve
<1>3. ASSUME NEW c \in Client, NEW d \in Data, Patch(c, d)
      PROVE  Inv'
    <2>1. call[c].key \in Key
        BY <1>3, CallType DEF Inv, Patch, At
    <2>2. CASE Found(call[c].key)
        <3>1. versions[call[c].key] \in Seq(Data)
              /\ Len(versions[call[c].key]) <= MaxHistory + 1
            BY <2>1 DEF Inv, TypeOK, HistoryBounded
        <3>2. /\ WithState(versions[call[c].key], d) \in Seq(Data)
              /\ Len(WithState(versions[call[c].key], d)) <= MaxHistory + 1
              /\ WithState(versions[call[c].key], d) # <<>>
            BY <3>1, WithStateType
        <3> QED
            BY <1>3, <2>1, <2>2, <3>2, WriteInv DEF Patch, Found
    <2>3. CASE ~Found(call[c].key)
        BY <1>3, <2>3, CallInv DEF Patch
    <2> QED
        BY <2>2, <2>3
<1>4. ASSUME NEW c \in Client, NEW n \in 0 .. MaxSteps, Rollback(c, n)
      PROVE  Inv'
    <2>1. call[c].key \in Key
        BY <1>4, CallType DEF Inv, Rollback, At
    <2>2. CASE Len(versions[call[c].key]) > 1 /\ n > 0
        <3> DEFINE held == versions[call[c].key]
        <3>1. held \in Seq(Data) /\ Len(held) <= MaxHistory + 1 /\ Len(held) > 1
            BY <2>1, <2>2 DEF Inv, TypeOK, HistoryBounded
        <3>2. /\ RolledBack(held, n) \in Seq(Data)
              /\ Len(RolledBack(held, n)) <= Len(held)
              /\ RolledBack(held, n) # <<>>
            BY <3>1, BoundsAssumption, RolledBackType
        <3>3. Len(RolledBack(held, n)) <= MaxHistory + 1
            BY <3>1, <3>2, BoundsAssumption
        <3>4. Live(call[c].key)
            BY <3>1 DEF Live
        <3> QED
            BY <1>4, <2>1, <2>2, <3>2, <3>3, <3>4, WriteInv DEF Rollback
    <2>3. CASE ~(Len(versions[call[c].key]) > 1 /\ n > 0)
        BY <1>4, <2>3, CallInv DEF Rollback
    <2> QED
        BY <2>2, <2>3
<1>5. ASSUME NEW c \in Client,
             DelKey(c) \/ DelLookup(c) \/ DelIndex(c)
      PROVE  Inv'
    BY <1>5, DeleteInv
<1>6. ASSUME NEW c \in Client, Fail(c)
      PROVE  Inv'
    BY <1>6, CallInv DEF Fail
<1>7. CASE Tick
    BY <1>7, TickInv
<1>8. CASE UNCHANGED vars
    BY <1>8 DEF vars, Inv, TypeOK, HistoryBounded, LookupBacked, IndexCovers,
                DeletedIsGone, Live
<1> QED
    BY <1>1, <1>2, <1>3, <1>4, <1>5, <1>6, <1>7, <1>8 DEF Next

-----------------------------------------------------------------------------
\* Inv holds in every reachable state.
LEMMA InvAlways == Spec => []Inv
<1>1. Init => Inv
    BY InitInv
<1>2. Inv /\ [Next]_vars => Inv'
    BY StepInv
<1> QED
    BY <1>1, <1>2, PTL DEF Spec

\* The keys, calls and indices of the store always have their types.
THEOREM TypeCorrect == Spec => []TypeOK
<1>1. Inv => TypeOK
    BY DEF Inv
<1> QED
    BY <1>1, InvAlways, PTL

\* The history of a session never exceeds MaxHistory snapshots.
THEOREM HistoryAlwaysBounded == Spec => []HistoryBounded
<1>1. Inv => HistoryBounded
    BY DEF Inv
<1> QED
    BY <1>1, InvAlways, PTL

\* resolveKey finds a state behind every lookup but that of a half-done
\* delete, whatever calls race and whenever keys expire.
THEOREM LookupAlwaysBacked == Spec => []LookupBacked
<1>1. Inv => LookupBacked
    BY DEF Inv
<1> QED
    BY <1>1, InvAlways, PTL

\* Only a set inside the same session's delete can leave a session that its
\* user's index does not list.
THEOREM IndexAlwaysCovers == Spec => []IndexCovers
<1>1. Inv => IndexCovers
    BY DEF Inv
<1> QED
    BY <1>1, InvAlways, PTL

\* Outside set, a step leaves every key without a state as it is.
LEMMA BornBySet ==
    ASSUME Inv, Next,
           ~ \E u \in User, s \in Session, d \in Data : Set(u, s, d),
           NEW k \in Key, ~Live(k)
    PROVE  ~Live(k)'
<1>1. ASSUME NEW c \in Client, NEW d \in Data, Patch(c, d)
      PROVE  versions'[k] = versions[k]
    BY <1>1 DEF Inv, TypeOK, Patch, Found, Write, store, Live
<1>2. ASSUME NEW c \in Client, NEW n \in 0 .. MaxSteps, Rollback(c, n)
      PROVE  versions'[k] = versions[k]
    BY <1>2 DEF Inv, TypeOK, Rollback, Write, store, Live
<1>3. ASSUME NEW c \in Client, DelKey(c) \/ DelLookup(c) \/ DelIndex(c)
      PROVE  ~Live(k)'
    BY <1>3 DEF Inv, TypeOK, DelKey, DelLookup, DelIndex, store, Live
<1>4. ASSUME NEW c \in Client, Fail(c)
      PROVE  ~Live(k)'
    BY <1>4 DEF Fail, store, Live
<1>5. ASSUME NEW c \in Client, NEW s \in Session,
             NEW step \in {"patch", "rollback", "del_key"}, Resolve(c, s, step)
      PROVE  ~Live(k)'
    BY <1>5 DEF Resolve, store, Live
<1>6. CASE Tick
    BY <1>6 DEF Tick, Live
<1> QED
    BY <1>1, <1>2, <1>3, <1>4, <1>5, <1>6 DEF Next, Live

\* No patch, rollback or late command brings a session back outside its
\* lookup and its user's index.
THEOREM NewSessionsReachable == Spec => BornReachable
<1> DEFINE Born == \A k \in Key : ~Live(k) /\ Live(k)' =>
                      /\ owner'[k[2]] = k[1]
                      /\ k \in StrictKey
                      /\ k[2] \in index'[k[1]]
<1>1. Inv /\ [Next]_vars => [Born]_vars
    <2> SUFFICES ASSUME Inv, Next, NEW k \in Key, ~Live(k), Live(k)'
                 PROVE  /\ owner'[k[2]] = k[1]
                        /\ k \in StrictKey
                        /\ k[2] \in index'[k[1]]
        OBVIOUS
    <2>1. PICK u \in User, s \in Session, d \in Data : Set(u, s, d)
        BY BornBySet
    <2>2. k = <<u, s>>
        BY <2>1 DEF Inv, TypeOK, Set, Write, Live
    <2> QED
        BY <2>1, <2>2 DEF Inv, TypeOK, Set, Indexed, StrictKey
<1> QED
    BY <1>1, InvAlways, PTL DEF Spec, BornReachable

-----------------------------------------------------------------------------
\* What the scripts push is what the abstract store keeps of it.
LEMMA WithStateIsNewest ==
    ASSUME NEW held \in Seq(Data), NEW d \in Data,
           Len(held) <= MaxHistory + 1
    PROVE  WithState(held, d) = V!Newest(Append(held, d), MaxHistory + 1)
<1> DEFINE all == Append(held, d)
<1>1. all \in Seq(Data) /\ Len(all) = Len(held) + 1
    OBVIOUS
<1>2. CASE Len(held) <= MaxHistory
    BY <1>1, <1>2, BoundsAssumption DEF WithState, V!Newest
<1>3. CASE Len(held) = MaxHistory + 1
    <2> DEFINE a == Append(Tail(held), d)
               b == SubSeq(all, 2, MaxHistory + 2)
    <2>1. WithState(held, d) = a
        BY <1>3, BoundsAssumption DEF WithState
    <2>2. V!Newest(all, MaxHistory + 1) = b
        BY <1>1, <1>3, BoundsAssumption DEF V!Newest
    <2>3. a \in Seq(Data) /\ Len(a) = MaxHistory + 1
        BY <1>3, BoundsAssumption
    <2>4. b \in Seq(Data) /\ Len(b) = MaxHistory + 1
        BY <1>1, <1>3, BoundsAssumption
    <2>5. ASSUME NEW i \in 1 .. MaxHistory + 1
          PROVE  a[i] = b[i]
        BY <1>1, <1>3, <2>5, BoundsAssumption
    <2>6. a = b
        BY <2>3, <2>4, <2>5, BoundsAssumption
    <2> QED
        BY <2>1, <2>2, <2>6
<1> QED
    BY <1>2, <1>3, BoundsAssumption

\* A step of the Redis store is a step of the abstract one, or none.
LEMMA StepRefines ==
    ASSUME Inv, [Next]_vars
    PROVE  [V!Next]_versions
<1>1. ASSUME NEW k \in Key, NEW d \in Data,
             versions' = [versions EXCEPT ![k] = WithState(versions[k], d)]
      PROVE  V!Next
    <2>1. versions[k] \in Seq(Data) /\ Len(versions[k]) <= MaxHistory + 1
        BY DEF Inv, TypeOK, HistoryBounded
    <2>2. WithState(versions[k], d)
              = V!Newest(Append(versions[k], d), MaxHistory + 1)
        BY <2>1, WithStateIsNewest
    <2>3. V!Push(k, d)
        BY <1>1, <2>2 DEF V!Push
    <2> QED
        BY <2>3 DEF V!Next
<1>2. ASSUME NEW u \in User, NEW s \in Session, NEW d \in Data, Set(u, s, d)
      PROVE  V!Next
    <2>1. <<u, s>> \in Key
        BY DEF Key, StrictKey
    <2>2. versions' = [versions EXCEPT
                          ![<<u, s>>] = WithState(versions[<<u, s>>], d)]
        BY <1>2 DEF Set, Write
    <2> QED
        BY <2>1, <2>2, <1>1
<1>3. ASSUME NEW c \in Client, NEW d \in Data, Patch(c, d)
      PROVE  V!Next \/ UNCHANGED versions
    <2>1. call[c].key \in Key
        BY <1>3, CallType DEF Inv, Patch, At
    <2> QED
        BY <2>1, <1>1, <1>3 DEF Patch, Write, store
<1>4. ASSUME NEW c \in Client, NEW n \in 0 .. MaxSteps, Rollback(c, n)
      PROVE  V!Next \/ UNCHANGED versions
    <2> DEFINE k == call[c].key
               held == versions[k]
    <2>1. k \in Key
        BY <1>4, CallType DEF Inv, Rollback, At
    <2>2. held \in Seq(Data) /\ Len(held) \in Nat /\ Len(held) <= MaxHistory + 1
        BY <2>1 DEF Inv, TypeOK, HistoryBounded
    <2>3. CASE Len(held) > 1 /\ n > 0
        <3>1. PICK m \in 1 .. Len(held) - 1 :
                  RolledBack(held, n) = SubSeq(held, 1, Len(held) - m)
            <4>1. CASE n < Len(held)
                BY <4>1, <2>2, <2>3, BoundsAssumption DEF RolledBack
            <4>2. CASE n >= Len(held)
                <5>1. Len(held) - 1 \in 1 .. Len(held) - 1
                    BY <2>2, <2>3
                <5>2. RolledBack(held, n)
                          = SubSeq(held, 1, Len(held) - (Len(held) - 1))
                    BY <4>2, <2>2, BoundsAssumption DEF RolledBack
                <5> QED
                    BY <5>1, <5>2
            <4> QED
                BY <4>1, <4>2, <2>2, BoundsAssumption
        <3>2. versions' = [versions EXCEPT ![k] =
                              SubSeq(held, 1, Len(held) - m)]
            BY <1>4, <2>3, <3>1 DEF Rollback, Write
        <3>3. V!Pop(k, m)
            BY <3>2 DEF V!Pop
        <3>4. m \in 1 .. MaxHistory
            BY <2>2, BoundsAssumption
        <3> QED
            BY <2>1, <3>3, <3>4 DEF V!Next
    <2>4. CASE ~(Len(held) > 1 /\ n > 0)
        BY <1>4, <2>4 DEF Rollback, store
    <2> QED
        BY <2>3, <2>4
<1>5. ASSUME NEW c \in Client, DelKey(c)
      PROVE  V!Next
    <2>1. versions' = [k \in Key |-> IF k \in {call[c].key} THEN <<>>
                                                            ELSE versions[k]]
        BY <1>5 DEF DelKey, Inv, TypeOK
    <2>2. {call[c].key} \in SUBSET Key
        BY <1>5, CallType DEF Inv, DelKey, At
    <2> QED
        BY <2>1, <2>2 DEF V!Next, V!Drop
<1>6. CASE Tick
    <2> DEFINE gone == {k \in Key : ~(life[k] > 1)}
    <2>1. versions' = [k \in Key |-> IF k \in gone THEN <<>> ELSE versions[k]]
        BY <1>6 DEF Tick
    <2> QED
        BY <2>1 DEF V!Next, V!Drop
<1>7. ASSUME NEW c \in Client,
             \/ DelLookup(c)
             \/ DelIndex(c)
             \/ Fail(c)
             \/ \E s \in Session, step \in {"patch", "rollback", "del_key"} :
                    Resolve(c, s, step)
      PROVE  UNCHANGED versions
    BY <1>7 DEF DelLookup, DelIndex, Fail, Resolve, store
<1>8. CASE UNCHANGED vars
    BY <1>8 DEF vars
<1> QED
    BY <1>2, <1>3, <1>4, <1>5, <1>6, <1>7, <1>8 DEF Next

\* RedisSessionState implements what SessionStatePort promises: stacks of
\* versions that are only pushed, popped or dropped.
THEOREM StoreImplementsVersions == Spec => ImplementsVersions
<1>1. Init => V!Init
    BY DEF Init, V!Init
<1>2. Inv /\ [Next]_vars => [V!Next]_versions
    BY StepRefines
<1> QED
    BY <1>1, <1>2, InvAlways, PTL DEF Spec, ImplementsVersions, V!Spec
=============================================================================

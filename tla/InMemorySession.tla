--------------------------- MODULE InMemorySession ---------------------------
(***************************************************************************)
(* InMemorySessionState: the SessionStatePort of tests and single          *)
(* instances, for one session.                                             *)
(*                                                                         *)
(* Unlike the Redis store it hands out the stored object itself.  Callers  *)
(* such as the conductor change that object and then `set` it, so that the *)
(* store's "previous" state is the very object they changed.  Snapshots in *)
(* the history are deep copies.                                            *)
(*                                                                         *)
(* An object is a number, and `fields` and `past` are its fields (one      *)
(* value stands for all) and its history.                                  *)
(***************************************************************************)
EXTENDS Naturals, Sequences

CONSTANTS Caller, Data,
          MaxHistory,  \* 10
          MaxObjects   \* bound: objects created

Object == 1 .. MaxObjects
Null == 0

VARIABLES fields,    \* Object -> its fields
          past,      \* Object -> its history
          created,   \* objects created so far
          stored,    \* the object in the store, or Null
          held,      \* Caller -> the object it got or made, or Null
          committed  \* the fields as the last write left them

vars == <<fields, past, created, stored, held, committed>>

Init ==
    /\ fields \in [Object -> Data]
    /\ past = [o \in Object |-> <<>>]
    /\ created = 0
    /\ stored = Null
    /\ held = [c \in Caller |-> Null]
    /\ committed \in Data

New == created + 1

Create(f, p) ==
    /\ created < MaxObjects
    /\ created' = New
    /\ fields' = [fields EXCEPT ![New] = f]
    /\ past' = [past EXCEPT ![New] = p]

\* The initial state a caller makes up when there is none.
Fresh(c) ==
    /\ stored = Null
    /\ \E d \in Data : Create(d, <<>>)
    /\ held' = [held EXCEPT ![c] = New]
    /\ UNCHANGED <<stored, committed>>

\* get: the stored object, not a copy of it.
Get(c) ==
    /\ stored # Null
    /\ held' = [held EXCEPT ![c] = stored]
    /\ UNCHANGED <<fields, past, created, stored, committed>>

\* state.lastSuggestedTheme = ..., state.activeGoals = ..., state.phase = ...
Assign(c) ==
    /\ held[c] # Null
    /\ \E d \in Data : fields' = [fields EXCEPT ![held[c]] = d]
    /\ UNCHANGED <<past, created, stored, held, committed>>

\* set: a copy of the object, whose history ends with a snapshot of the object
\* that was stored; `written` are the fields of the object as it is passed.
Write(written, history) ==
    /\ Create(written,
              IF stored = Null THEN history
              ELSE LET kept == IF Len(past[stored]) >= MaxHistory
                               THEN Tail(past[stored]) ELSE past[stored] IN
                   Append(kept, fields[stored]))
    /\ stored' = New
    /\ committed' = written

Set(c) ==
    /\ held[c] # Null
    /\ Write(fields[held[c]], past[held[c]])
    /\ UNCHANGED held

\* patch: a fresh object with the stored fields and the partial's over them.
Patch ==
    /\ stored # Null
    /\ \E d \in Data : Write(d, past[stored])
    /\ UNCHANGED held

\* rollback: beyond the history nothing happens.
Rollback(steps) ==
    /\ stored # Null
    /\ steps \in DOMAIN past[stored]
    /\ LET h == past[stored]
           target == h[Len(h) - steps + 1] IN
       /\ Create(target, SubSeq(h, 1, Len(h) - steps))
       /\ committed' = target
    /\ stored' = New
    /\ UNCHANGED held

Delete ==
    /\ stored # Null
    /\ stored' = Null
    /\ UNCHANGED <<fields, past, created, held, committed>>

Next ==
    \/ \E c \in Caller : Fresh(c) \/ Get(c) \/ Assign(c) \/ Set(c)
    \/ Patch
    \/ \E steps \in 1 .. MaxHistory : Rollback(steps)
    \/ Delete

Spec == Init /\ [][Next]_vars

\* "Implementations should automatically append the previous state to 'history'
\* before overwriting": the last entry of the history after a set or a patch is
\* the state as the write before left it.
PreviousStateKept ==
    [][stored # Null /\ stored' # stored /\ stored' # Null
          /\ Len(past'[stored']) >= Len(past[stored])
          => past'[stored'][Len(past'[stored'])] = committed]_vars
=============================================================================

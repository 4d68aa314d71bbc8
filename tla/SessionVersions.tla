-------------------------- MODULE SessionVersions --------------------------
(***************************************************************************)
(* What SessionStatePort promises of one store, whatever implements it:    *)
(* every session is a stack of versions whose top is the current state.    *)
(* `set` and `patch` push the new state on the previous one, `rollback`    *)
(* pops, `delete` and expiry drop the stack, and at most MaxHistory        *)
(* superseded versions are kept.  No operation rewrites a version.         *)
(***************************************************************************)
EXTENDS Naturals, Sequences

CONSTANTS Key,        \* where sessions are kept
          Data,       \* the states a session can be in
          MaxHistory  \* how many superseded versions a session keeps

VARIABLE versions     \* [Key -> Seq(Data)], oldest first; <<>> is no session

\* The newest n elements of a sequence, or all of them.
Newest(seq, n) ==
    IF Len(seq) > n THEN SubSeq(seq, Len(seq) - n + 1, Len(seq)) ELSE seq

\* set and patch: the previous state becomes history.
Push(k, d) ==
    versions' = [versions EXCEPT ![k] = Newest(Append(@, d), MaxHistory + 1)]

\* rollback: the n newest versions go, an older one is current again.
Pop(k, n) ==
    /\ n \in 1 .. Len(versions[k]) - 1
    /\ versions' = [versions EXCEPT ![k] = SubSeq(@, 1, Len(@) - n)]

Init == versions \in [Key -> {<<>>} \cup {<<d>> : d \in Data}]

\* delete drops one session; several may expire in the same instant.
Drop(gone) ==
    versions' = [k \in Key |-> IF k \in gone THEN <<>> ELSE versions[k]]

Next ==
    \/ \E k \in Key, d \in Data : Push(k, d)
    \/ \E k \in Key, n \in 1 .. MaxHistory : Pop(k, n)
    \/ \E gone \in SUBSET Key : Drop(gone)

Spec == Init /\ [][Next]_versions
=============================================================================

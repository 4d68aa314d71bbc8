--------------------------- MODULE EventBusProofs ---------------------------
(***************************************************************************)
(* The safety of SupabaseEventBus for any instances, events, batch size    *)
(* and trim bounds.                                                        *)
(*                                                                         *)
(* HandledOnce is not inductive: a publish that fills a batch calls its    *)
(* subscribers only after the answer to its INSERT, and the feed may bring *)
(* the row before that: the proof must know that an event such a publish   *)
(* still holds is remembered, and has not been handed out meanwhile        *)
(* (Waiting).                                                              *)
(*                                                                         *)
(* That an event reaches every instance needs fairness; what is proved of  *)
(* it is that no event comes to rest on its way (NoneStranded).            *)
(***************************************************************************)
EXTENDS EventBus, SequenceTheorems, TLAPS

\* What an instance handed out or is about to hand out, it remembers, unless
\* it has been trimmed; and two INSERTs do not wait for the same event.
Remembered ==
    \A i \in Instance :
        /\ handled[i] \subseteq Ids(processed[i]) \cup trimmed[i]
        /\ \A b \in inserting[i] :
              b.waiting \subseteq Ids(processed[i]) \cup trimmed[i]

Waiting ==
    \A i \in Instance : \A b \in inserting[i] :
        /\ b.waiting \cap handled[i] \subseteq trimmed[i]
        /\ \A c \in inserting[i] :
              b # c => b.waiting \cap c.waiting \subseteq trimmed[i]

IInv == TypeOK /\ Remembered /\ Waiting /\ HandledOnce

-----------------------------------------------------------------------------
(* Sequences of ids                                                        *)

\* The ids of a list of rows are events.
LEMMA IdsType == ASSUME NEW s \in Seq(Event)
                 PROVE  Ids(s) \subseteq Event
  BY DEF Ids

\* eventQueue.push and processedEventIds.add add one id.
LEMMA IdsAppend == ASSUME NEW s \in Seq(Event), NEW e \in Event
                   PROVE  /\ Append(s, e) \in Seq(Event)
                          /\ Ids(Append(s, e)) = Ids(s) \cup {e}
  <1>1. Append(s, e) \in Seq(Event) /\ Len(Append(s, e)) = Len(s) + 1
    OBVIOUS
  <1>2. Ids(Append(s, e)) \subseteq Ids(s) \cup {e}
    <2> SUFFICES ASSUME NEW n \in DOMAIN Append(s, e)
                 PROVE  Append(s, e)[n] \in Ids(s) \cup {e}
      BY DEF Ids
    <2> QED BY DEF Ids
  <1>3. \A n \in DOMAIN s : n \in DOMAIN Append(s, e) /\ Append(s, e)[n] = s[n]
    OBVIOUS
  <1>4. Len(s) + 1 \in DOMAIN Append(s, e) /\ Append(s, e)[Len(s) + 1] = e
    OBVIOUS
  <1> QED BY <1>1, <1>2, <1>3, <1>4 DEF Ids

\* Remembering an id trims from the old end only: the new id is kept, nothing
\* is invented, and an id that goes was one of the Trim oldest.
LEMMA RememberKeeps ==
    ASSUME TypeOK, NEW i \in Instance, NEW e \in Event
    PROVE  /\ Remember(i, e) \in Seq(Event)
           /\ e \in Ids(Remember(i, e))
           /\ Ids(Remember(i, e)) \subseteq Ids(processed[i]) \cup {e}
           /\ \A d \in Ids(processed[i]) \ Ids(Remember(i, e)) :
                 /\ Len(processed[i]) >= MaxIds
                 /\ \E n \in 1 .. Trim : processed[i][n] = d
  <1> DEFINE s == processed[i]
             ids == Append(s, e)
             kept == SubSeq(ids, Trim + 1, Len(ids))
  <1>1. s \in Seq(Event)
    BY DEF TypeOK
  <1>2. /\ ids \in Seq(Event)
        /\ Ids(ids) = Ids(s) \cup {e}
    BY <1>1, IdsAppend
  <1>3. /\ Len(ids) = Len(s) + 1 /\ Len(s) \in Nat
        /\ ids[Len(s) + 1] = e
        /\ \A n \in 1 .. Len(s) : ids[n] = s[n]
    BY <1>1
  <1>4. Trim \in Nat /\ MaxIds \in Nat /\ Trim <= MaxIds /\ Trim > 0
    BY BoundsAssumption
  <1>5. CASE Len(ids) > MaxIds
    <2>1. Remember(i, e) = kept
      BY <1>5 DEF Remember
    <2> HIDE DEF ids
    <2>2. Len(ids) \in Nat /\ Trim + 1 \in Nat /\ Len(ids) - Trim \in Nat
      BY <1>3, <1>4, <1>5
    <2>3. /\ kept \in Seq(Event)
          /\ Len(kept) = Len(ids) - Trim
          /\ \A n \in 1 .. Len(ids) - Trim : kept[n] = ids[n + Trim]
      <3> DEFINE m == Trim + 1
                 n == Len(ids)
      <3>1. m \in Int /\ n \in Int /\ m <= n /\ n - m + 1 = Len(ids) - Trim
        BY <2>2, <1>3, <1>4, <1>5
      <3>2. \A x \in m .. n : ids[x] \in Event
        BY <1>2, <1>4
      <3> HIDE DEF m, n
      <3>3. /\ SubSeq(ids, m, n) \in Seq(Event)
            /\ Len(SubSeq(ids, m, n)) = IF m <= n THEN n - m + 1 ELSE 0
            /\ \A x \in 1 .. n - m + 1 : SubSeq(ids, m, n)[x] = ids[m + x - 1]
        BY <3>1, <3>2, SubSeqProperties
      <3>4. /\ SubSeq(ids, m, n) \in Seq(Event)
            /\ Len(SubSeq(ids, m, n)) = Len(ids) - Trim
            /\ \A x \in 1 .. Len(ids) - Trim : SubSeq(ids, m, n)[x] = ids[m + x - 1]
        BY <3>1, <3>3
      <3>5. \A x \in 1 .. Len(ids) - Trim : m + x - 1 = x + Trim
        BY <1>4, <2>2 DEF m
      <3> QED BY <3>4, <3>5 DEF m, n
    <2> HIDE DEF kept
    <2>4. DOMAIN kept = 1 .. Len(ids) - Trim /\ DOMAIN ids = 1 .. Len(ids)
      BY <1>2, <2>3
    <2>5. \A n \in Trim + 1 .. Len(ids) : ids[n] \in Ids(kept)
      <3> SUFFICES ASSUME NEW n \in Trim + 1 .. Len(ids)
                   PROVE  ids[n] \in Ids(kept)
        OBVIOUS
      <3>1. n - Trim \in 1 .. Len(ids) - Trim /\ (n - Trim) + Trim = n
        BY <2>2, <1>4
      <3> QED BY <3>1, <2>3, <2>4 DEF Ids
    <2>6. e \in Ids(kept)
      BY <2>5, <1>3, <1>4, <1>5
    <2>7. Ids(kept) \subseteq Ids(ids)
      <3> SUFFICES ASSUME NEW n \in 1 .. Len(ids) - Trim
                   PROVE  kept[n] \in Ids(ids)
        BY <2>4 DEF Ids
      <3>1. n + Trim \in 1 .. Len(ids)
        BY <2>2, <1>4
      <3> QED BY <3>1, <2>3, <2>4 DEF Ids
    <2>8. \A d \in Ids(s) \ Ids(kept) :
              Len(s) >= MaxIds /\ \E n \in 1 .. Trim : s[n] = d
      <3> SUFFICES ASSUME NEW n \in 1 .. Len(s), s[n] \notin Ids(kept)
                   PROVE  Len(s) >= MaxIds /\ \E m \in 1 .. Trim : s[m] = s[n]
        BY <1>1 DEF Ids
      <3>1. ids[n] = s[n] /\ n \in 1 .. Len(ids)
        BY <1>3
      <3>2. n \in 1 .. Trim
        BY <3>1, <2>5, <1>3, <1>4
      <3> QED BY <3>2, <1>3, <1>4, <1>5
    <2> QED BY <2>1, <2>3, <2>6, <2>7, <2>8, <1>2
  <1>6. CASE ~(Len(ids) > MaxIds)
    BY <1>2, <1>6 DEF Remember
  <1> QED BY <1>5, <1>6
-----------------------------------------------------------------------------
(* Type correctness                                                        *)

\* Handing events out keeps the records of what was handed out well typed.
LEMMA NotifyType ==
    ASSUME TypeOK, NEW i \in Instance, NEW E \in SUBSET Event, Notify(i, E)
    PROVE  /\ handled' \in [Instance -> SUBSET Event]
           /\ again' \in [Instance -> SUBSET Event]
  BY DEF TypeOK, Notify

\* Sending an INSERT keeps the records of what was sent well typed.
LEMMA SentType ==
    ASSUME TypeOK, NEW i \in Instance, NEW rows \in Seq(Event),
           NEW E \in SUBSET Event, Sent(i, rows, E)
    PROVE  /\ inserting' \in [Instance -> SUBSET Batch]
           /\ requests' \in [Instance -> SUBSET Seq(Event)]
  <1>1. [rows |-> rows, waiting |-> E] \in Batch
    BY DEF Batch
  <1> QED BY <1>1 DEF TypeOK, Sent

\* publish keeps the type invariant.
LEMMA PublishType ==
    ASSUME TypeOK, NEW i \in Instance, NEW e \in Event, Publish(i, e)
    PROVE  TypeOK'
  <1> DEFINE rows == Append(queue[i], e)
             full == Len(rows) >= BatchSize
  <1>1. queue[i] \in Seq(Event) /\ rows \in Seq(Event) /\ <<>> \in Seq(Event)
    BY IdsAppend DEF TypeOK
  <1>2. Remember(i, e) \in Seq(Event) /\ Ids(processed[i]) \subseteq Event
    BY RememberKeeps, IdsType DEF TypeOK
  <1> HIDE DEF rows, full
  <1>3. processed' \in [Instance -> Seq(Event)]
    BY <1>2 DEF TypeOK, Publish
  <1>4. queue' \in [Instance -> Seq(Event)]
    <2>1. queue' = [queue EXCEPT ![i] = IF full THEN <<>> ELSE rows]
      BY DEF Publish, rows, full
    <2> QED BY <2>1, <1>1 DEF TypeOK
  <1>5. timer' \in [Instance -> BOOLEAN]
    <2>1. timer' = [timer EXCEPT ![i] = ~full /\ Scheduled(i)]
      BY DEF Publish, rows, full
    <2>2. (~full /\ Scheduled(i)) \in BOOLEAN
      OBVIOUS
    <2> HIDE DEF full
    <2> QED BY <2>1, <2>2, Zenon DEF TypeOK
  <1>6. /\ inserting' \in [Instance -> SUBSET Batch]
        /\ requests' \in [Instance -> SUBSET Seq(Event)]
    <2>1. IF full THEN Sent(i, rows, {e}) ELSE UNCHANGED <<inserting, requests>>
      BY DEF Publish, rows, full
    <2> QED BY <2>1, <1>1, SentType DEF TypeOK
  <1>7. trimmed' \in [Instance -> SUBSET Event]
    BY <1>2 DEF TypeOK, Publish
  <1>8. /\ handled' \in [Instance -> SUBSET Event]
        /\ again' \in [Instance -> SUBSET Event]
    <2>1. Notify(i, IF full THEN {} ELSE {e})
      BY DEF Publish, rows, full
    <2> QED BY <2>1, NotifyType
  <1>9. published' \in SUBSET (Instance \X Event)
    BY DEF TypeOK, Publish
  <1>10. UNCHANGED <<table, feed, lost, missed, crashed, failures>>
    BY DEF Publish
  <1> QED BY <1>3, <1>4, <1>5, <1>6, <1>7, <1>8, <1>9, <1>10 DEF TypeOK

\* The timer's flush keeps the type invariant.
LEMMA FlushType ==
    ASSUME TypeOK, NEW i \in Instance, Flush(i)
    PROVE  TypeOK'
  <1>1. queue[i] \in Seq(Event) /\ Sent(i, queue[i], {})
    BY DEF TypeOK, Flush
  <1>2. /\ inserting' \in [Instance -> SUBSET Batch]
        /\ requests' \in [Instance -> SUBSET Seq(Event)]
    BY <1>1, SentType
  <1>3. queue' \in [Instance -> Seq(Event)] /\ timer' \in [Instance -> BOOLEAN]
    BY DEF TypeOK, Flush
  <1> QED BY <1>2, <1>3 DEF TypeOK, Flush, history

\* The answer to an INSERT keeps the bus well typed.
LEMMA AnsweredType ==
    ASSUME TypeOK, NEW i \in Instance, NEW b \in inserting[i], Answered(i, b)
    PROVE  /\ inserting' \in [Instance -> SUBSET Batch]
           /\ handled' \in [Instance -> SUBSET Event]
           /\ again' \in [Instance -> SUBSET Event]
           /\ Ids(b.rows) \subseteq Event /\ b.rows \in Seq(Event)
  <1>1. b.waiting \in SUBSET Event /\ b.rows \in Seq(Event)
    BY DEF TypeOK, Batch
  <1>2. Notify(i, b.waiting)
    BY DEF Answered
  <1> QED BY <1>1, <1>2, NotifyType, IdsType DEF TypeOK, Answered

\* An INSERT that Postgres accepts or refuses keeps the type invariant.
LEMMA ExecuteType ==
    ASSUME TypeOK, NEW i \in Instance, NEW rows \in requests[i], Execute(i, rows)
    PROVE  TypeOK'
  <1>1. rows \in Seq(Event) /\ Ids(rows) \subseteq Event
    BY IdsType DEF TypeOK
  <1>2. table' \in SUBSET Event /\ lost' \in SUBSET Event
    BY <1>1 DEF TypeOK, Execute
  <1>3. feed' \in [Instance -> Seq(Event)]
    <2>1. \A j \in Instance : feed[j] \o rows \in Seq(Event)
      BY <1>1 DEF TypeOK
    <2>2. CASE Accepted(rows)
      <3>1. feed' = [j \in Instance |-> feed[j] \o rows]
        BY <2>2 DEF Execute
      <3> QED BY <2>1, <3>1
    <2>3. CASE ~Accepted(rows)
      BY <2>3 DEF TypeOK, Execute
    <2> QED BY <2>2, <2>3
  <1>4. requests' \in [Instance -> SUBSET Seq(Event)]
    BY DEF TypeOK, Execute
  <1> QED BY <1>2, <1>3, <1>4 DEF TypeOK, Execute, bus

\* The answer of an INSERT that was worked on keeps the type invariant.
LEMMA AnswerType ==
    ASSUME TypeOK, NEW i \in Instance, NEW b \in inserting[i], Answer(i, b)
    PROVE  TypeOK'
  <1>1. Answered(i, b)
    BY DEF Answer
  <1> QED BY <1>1, AnsweredType DEF TypeOK, Answer, Answered

\* An await that ends with an error keeps the type invariant.
LEMMA OutageType ==
    ASSUME TypeOK, NEW i \in Instance, NEW b \in inserting[i], Outage(i, b)
    PROVE  TypeOK'
  <1>1. Answered(i, b)
    BY DEF Outage
  <1>2. lost' \in SUBSET Event /\ requests' \in [Instance -> SUBSET Seq(Event)]
    BY <1>1, AnsweredType DEF TypeOK, Outage
  <1>3. failures' \in 0 .. MaxFailures
    BY BoundsAssumption DEF TypeOK, Outage
  <1> QED BY <1>1, <1>2, <1>3, AnsweredType DEF TypeOK, Outage, Answered

\* The row at the head of an instance's feed is an event.
LEMMA FeedHead ==
    ASSUME TypeOK, NEW i \in Instance, feed[i] # <<>>
    PROVE  Head(feed[i]) \in Event /\ Tail(feed[i]) \in Seq(Event)
  BY HeadTailProperties DEF TypeOK

\* A row the feed brings keeps the type invariant.
LEMMA DeliverType ==
    ASSUME TypeOK, NEW i \in Instance, Deliver(i)
    PROVE  TypeOK'
  <1> DEFINE e == Head(feed[i])
  <1>1. e \in Event /\ Tail(feed[i]) \in Seq(Event)
    BY FeedHead DEF Deliver
  <1>2. feed' \in [Instance -> Seq(Event)]
    BY <1>1 DEF TypeOK, Deliver
  <1>3. /\ processed' \in [Instance -> Seq(Event)]
        /\ trimmed' \in [Instance -> SUBSET Event]
        /\ handled' \in [Instance -> SUBSET Event]
        /\ again' \in [Instance -> SUBSET Event]
    <2>1. CASE New(i, e)
      <3>1. Notify(i, {e})
        BY <2>1 DEF Deliver
      <3>2. Append(processed[i], e) \in Seq(Event)
        BY <1>1, IdsAppend DEF TypeOK
      <3> QED BY <1>1, <2>1, <3>1, <3>2, NotifyType DEF TypeOK, Deliver
    <2>2. CASE ~New(i, e)
      BY <2>2 DEF TypeOK, Deliver
    <2> QED BY <2>1, <2>2
  <1> QED BY <1>2, <1>3 DEF TypeOK, Deliver

\* A row the feed misses keeps the type invariant.
LEMMA MissType ==
    ASSUME TypeOK, NEW i \in Instance, Miss(i)
    PROVE  TypeOK'
  <1>1. Head(feed[i]) \in Event /\ Tail(feed[i]) \in Seq(Event)
    BY FeedHead DEF Miss
  <1>2. failures' \in 0 .. MaxFailures
    BY BoundsAssumption DEF TypeOK, Miss
  <1>3. /\ feed' \in [Instance -> Seq(Event)]
        /\ missed' \in [Instance -> SUBSET Event]
    BY <1>1 DEF TypeOK, Miss
  <1> QED BY <1>2, <1>3 DEF TypeOK, Miss, bus

\* A crash and restart keeps the type invariant.
LEMMA CrashType ==
    ASSUME TypeOK, NEW i \in Instance, Crash(i)
    PROVE  TypeOK'
  <1>1. failures' \in 0 .. MaxFailures
    BY BoundsAssumption DEF TypeOK, Crash
  <1>2. <<>> \in Seq(Event)
    OBVIOUS
  <1> QED BY <1>1, <1>2 DEF TypeOK, Crash

\* No step of the bus leaves the types.
LEMMA StepType == TypeOK /\ [Next]_vars => TypeOK'
  <1> SUFFICES ASSUME TypeOK, [Next]_vars PROVE TypeOK'
    OBVIOUS
  <1>1. CASE Next
    BY <1>1, PublishType, FlushType, ExecuteType, AnswerType, OutageType,
       DeliverType, MissType, CrashType DEF Next
  <1>2. CASE UNCHANGED vars
    BY <1>2 DEF vars, TypeOK
  <1> QED BY <1>1, <1>2

\* A bus that starts is well typed.
LEMMA InitType == Init => TypeOK
  <1> SUFFICES ASSUME Init PROVE TypeOK
    OBVIOUS
  <1>1. <<>> \in Seq(Event) /\ 0 \in 0 .. MaxFailures
    BY BoundsAssumption
  <1> QED BY <1>1 DEF Init, TypeOK

\* Every variable keeps its type: the queues, the feeds and the remembered ids
\* hold events only, whatever publish, the timers and the feed do.
THEOREM TypeCorrect == Spec => []TypeOK
  <1> QED BY InitType, StepType, PTL DEF Spec
-----------------------------------------------------------------------------
(* Events are handed out once                                              *)

\* The three facts about one instance j, so that a step of instance i only
\* has to look at j = i.
Tidy(j) ==
    /\ handled[j] \subseteq Ids(processed[j]) \cup trimmed[j]
    /\ \A b \in inserting[j] : b.waiting \subseteq Ids(processed[j]) \cup trimmed[j]
    /\ \A b \in inserting[j] : b.waiting \cap handled[j] \subseteq trimmed[j]
    /\ \A b, c \in inserting[j] :
          b # c => b.waiting \cap c.waiting \subseteq trimmed[j]
    /\ again[j] \subseteq trimmed[j]

\* Taken for every instance, Tidy is the invariant without its types.
LEMMA TidyIsIInv == (\A j \in Instance : Tidy(j)) <=> Remembered /\ Waiting /\ HandledOnce
  BY DEF Tidy, Remembered, Waiting, HandledOnce

\* Another instance's step leaves an instance as it is.
LEMMA TidyKept ==
    ASSUME NEW j \in Instance, Tidy(j),
           processed'[j] = processed[j], inserting'[j] = inserting[j],
           handled'[j] = handled[j], again'[j] = again[j],
           trimmed'[j] = trimmed[j]
    PROVE  Tidy(j)'
  BY DEF Tidy, Ids

\* publish: the id is new, so it was neither handed out nor is it waiting,
\* unless it has been trimmed.
LEMMA PublishTidy ==
    ASSUME TypeOK, TypeOK', \A j \in Instance : Tidy(j),
           NEW i \in Instance, NEW e \in Event, Publish(i, e)
    PROVE  Tidy(i)'
  <1> DEFINE rows == Append(queue[i], e)
             full == Len(rows) >= BatchSize
             known == Ids(processed[i]) \cup trimmed[i]
  <1>1. /\ processed'[i] = Remember(i, e)
        /\ trimmed'[i] = trimmed[i] \cup (Ids(processed[i]) \ Ids(Remember(i, e)))
    BY DEF Publish, TypeOK
  <1>2. /\ e \in Ids(processed'[i])
        /\ known \cup {e} \subseteq Ids(processed'[i]) \cup trimmed'[i]
        /\ trimmed[i] \subseteq trimmed'[i]
    BY <1>1, RememberKeeps
  <1>3. e \in known => e \in trimmed[i]
    BY DEF Publish, New
  <1>4. Tidy(i)
    OBVIOUS
  <1>5. CASE full
    <2>1. Notify(i, {}) /\ Sent(i, rows, {e})
      BY <1>5 DEF Publish
    <2>2. handled'[i] = handled[i] /\ again'[i] = again[i]
      BY <2>1 DEF Notify, TypeOK
    <2>3. PICK new : /\ new.waiting = {e}
                     /\ inserting'[i] = inserting[i] \cup {new}
      <3>1. inserting'[i] = inserting[i] \cup {[rows |-> rows, waiting |-> {e}]}
        <4> HIDE DEF rows, full
        <4> QED BY <2>1 DEF Sent, TypeOK
      <3> QED BY <3>1
    <2> HIDE DEF full, rows
    <2> QED BY <1>1, <1>2, <1>3, <1>4, <2>2, <2>3 DEF Tidy
  <1>6. CASE ~full
    <2>1. Notify(i, {e})
      BY <1>6 DEF Publish
    <2>2. /\ handled'[i] = handled[i] \cup {e}
          /\ again'[i] = again[i] \cup ({e} \cap handled[i])
      BY <2>1 DEF Notify, TypeOK
    <2>3. inserting'[i] = inserting[i]
      BY <1>6 DEF Publish
    <2> HIDE DEF full, rows
    <2> QED BY <1>1, <1>2, <1>3, <1>4, <2>2, <2>3 DEF Tidy
  <1> QED BY <1>5, <1>6

\* The timer's batch waits for nothing.
LEMMA FlushTidy ==
    ASSUME TypeOK, \A j \in Instance : Tidy(j), NEW i \in Instance, Flush(i)
    PROVE  Tidy(i)'
  <1>1. PICK new : new.waiting = {} /\ inserting'[i] = inserting[i] \cup {new}
    <2>1. inserting'[i] = inserting[i] \cup {[rows |-> queue[i], waiting |-> {}]}
      BY DEF Flush, Sent, TypeOK
    <2> QED BY <2>1
  <1>2. UNCHANGED <<processed, handled, again, trimmed>>
    BY DEF Flush, history
  <1>3. Tidy(i)
    OBVIOUS
  <1> QED BY <1>1, <1>2, <1>3 DEF Tidy, Ids

\* An answered INSERT hands out what waited for it: nothing that had been
\* handed out since, and nothing another INSERT still holds.
LEMMA AnsweredTidy ==
    ASSUME TypeOK, \A j \in Instance : Tidy(j),
           NEW i \in Instance, NEW b \in inserting[i], Answered(i, b)
    PROVE  Tidy(i)'
  <1>1. inserting'[i] = inserting[i] \ {b}
    BY DEF Answered, TypeOK
  <1>2. /\ handled'[i] = handled[i] \cup b.waiting
        /\ again'[i] = again[i] \cup (b.waiting \cap handled[i])
    BY DEF Answered, Notify, TypeOK
  <1>3. processed' = processed /\ trimmed' = trimmed
    BY DEF Answered
  <1>4. Tidy(i)
    OBVIOUS
  <1> QED BY <1>1, <1>2, <1>3, <1>4 DEF Tidy, Ids

\* A row of the feed is handed out only when its id is not remembered.
LEMMA DeliverTidy ==
    ASSUME TypeOK, \A j \in Instance : Tidy(j), NEW i \in Instance, Deliver(i)
    PROVE  Tidy(i)'
  <1> DEFINE e == Head(feed[i])
  <1>1. e \in Event
    BY FeedHead DEF Deliver
  <1>2. Tidy(i) /\ inserting' = inserting /\ trimmed' = trimmed
    BY DEF Deliver
  <1>3. CASE New(i, e)
    <2>1. Ids(processed'[i]) = Ids(processed[i]) \cup {e}
      <3>1. processed'[i] = Append(processed[i], e)
        BY <1>3 DEF Deliver, TypeOK
      <3>2. processed[i] \in Seq(Event)
        BY DEF TypeOK
      <3> QED BY <3>1, <3>2, <1>1, IdsAppend
    <2>2. Notify(i, {e})
      BY <1>3 DEF Deliver
    <2>3. /\ handled'[i] = handled[i] \cup {e}
          /\ again'[i] = again[i] \cup ({e} \cap handled[i])
      BY <2>2 DEF Notify, TypeOK
    <2>4. e \notin Ids(processed[i])
      BY <1>3 DEF New
    <2> HIDE DEF e
    <2> QED BY <1>2, <2>1, <2>3, <2>4 DEF Tidy
  <1>4. CASE ~New(i, e)
    <2>1. UNCHANGED <<processed, handled, again>>
      BY <1>4 DEF Deliver
    <2> QED BY <1>2, <2>1 DEF Tidy, Ids
  <1> QED BY <1>3, <1>4
\* Every step of the bus keeps every instance tidy.
LEMMA StepTidy == IInv /\ [Next]_vars => IInv'
  <1> SUFFICES ASSUME IInv, [Next]_vars PROVE IInv'
    OBVIOUS
  <1>1. TypeOK /\ TypeOK' /\ \A j \in Instance : Tidy(j)
    BY StepType, TidyIsIInv DEF IInv
  <1>2. SUFFICES \A j \in Instance : Tidy(j)'
    <2>1. (\A j \in Instance : Tidy(j))' <=> (Remembered /\ Waiting /\ HandledOnce)'
      BY DEF Tidy, Remembered, Waiting, HandledOnce
    <2> QED BY <1>1, <1>2, <2>1 DEF IInv
  <1> SUFFICES ASSUME NEW j \in Instance PROVE Tidy(j)'
    OBVIOUS
  <1>3. ASSUME NEW i \in Instance, NEW e \in Event, Publish(i, e) PROVE Tidy(j)'
    <2>1. CASE i = j
      BY <1>1, <1>3, <2>1, PublishTidy
    <2>2. CASE i # j
      <3>1. /\ processed'[j] = processed[j] /\ inserting'[j] = inserting[j]
            /\ handled'[j] = handled[j] /\ again'[j] = again[j]
            /\ trimmed'[j] = trimmed[j]
        BY <1>1, <1>3, <2>2 DEF Publish, Sent, Notify, TypeOK
      <3> QED BY <3>1, <1>1, TidyKept
    <2> QED BY <2>1, <2>2
  <1>4. ASSUME NEW i \in Instance, Flush(i) PROVE Tidy(j)'
    <2>1. CASE i = j
      BY <1>1, <1>4, <2>1, FlushTidy
    <2>2. CASE i # j
      <3>1. /\ processed'[j] = processed[j] /\ inserting'[j] = inserting[j]
            /\ handled'[j] = handled[j] /\ again'[j] = again[j]
            /\ trimmed'[j] = trimmed[j]
        BY <1>1, <1>4, <2>2 DEF Flush, Sent, history, TypeOK
      <3> QED BY <3>1, <1>1, TidyKept
    <2> QED BY <2>1, <2>2
  <1>5. ASSUME NEW i \in Instance, NEW b \in inserting[i], Answer(i, b) \/ Outage(i, b)
        PROVE  Tidy(j)'
    <2>1. Answered(i, b)
      BY <1>5 DEF Answer, Outage
    <2>2. CASE i = j
      BY <1>1, <2>1, <2>2, AnsweredTidy
    <2>3. CASE i # j
      <3>1. /\ processed'[j] = processed[j] /\ inserting'[j] = inserting[j]
            /\ handled'[j] = handled[j] /\ again'[j] = again[j]
            /\ trimmed'[j] = trimmed[j]
        BY <1>1, <2>1, <2>3 DEF Answered, Notify, TypeOK
      <3> QED BY <3>1, <1>1, TidyKept
    <2> QED BY <2>2, <2>3
  <1>10. ASSUME NEW i \in Instance, NEW rows \in requests[i], Execute(i, rows)
         PROVE  Tidy(j)'
    BY <1>1, <1>10, TidyKept DEF Execute, bus
  <1>6. ASSUME NEW i \in Instance, Deliver(i) PROVE Tidy(j)'
    <2>1. CASE i = j
      BY <1>1, <1>6, <2>1, DeliverTidy
    <2>2. CASE i # j
      <3>1. /\ processed'[j] = processed[j] /\ inserting'[j] = inserting[j]
            /\ handled'[j] = handled[j] /\ again'[j] = again[j]
            /\ trimmed'[j] = trimmed[j]
        BY <1>1, <1>6, <2>2 DEF Deliver, Notify, TypeOK
      <3> QED BY <3>1, <1>1, TidyKept
    <2> QED BY <2>1, <2>2
  <1>7. ASSUME NEW i \in Instance, Miss(i) PROVE Tidy(j)'
    BY <1>1, <1>7, TidyKept DEF Miss, bus
  <1>8. ASSUME NEW i \in Instance, Crash(i) PROVE Tidy(j)'
    <2>1. CASE i = j
      <3>1. inserting'[j] = {} /\ handled'[j] = {} /\ again'[j] = {}
        BY <1>1, <1>8, <2>1 DEF Crash, TypeOK
      <3> QED BY <3>1 DEF Tidy
    <2>2. CASE i # j
      <3>1. /\ processed'[j] = processed[j] /\ inserting'[j] = inserting[j]
            /\ handled'[j] = handled[j] /\ again'[j] = again[j]
            /\ trimmed'[j] = trimmed[j]
        BY <1>1, <1>8, <2>2 DEF Crash, TypeOK
      <3> QED BY <3>1, <1>1, TidyKept
    <2> QED BY <2>1, <2>2
  <1>9. ASSUME UNCHANGED vars PROVE Tidy(j)'
    BY <1>1, <1>9, TidyKept DEF vars
  <1> QED BY <1>3, <1>4, <1>5, <1>6, <1>7, <1>8, <1>9, <1>10 DEF Next

\* A bus that starts has handed nothing out.
LEMMA InitTidy == Init => IInv
  BY InitType DEF Init, IInv, Remembered, Waiting, HandledOnce

\* The subscribers of an instance are given no event twice, whether the feed
\* brings its own rows before or after the answer to their INSERT, or after an
\* error or a restart, except an id that trimming has made the instance forget.
THEOREM EventsHandledOnce == Spec => []HandledOnce
  <1>1. IInv => HandledOnce
    BY DEF IInv
  <1> QED BY InitTidy, StepTidy, <1>1, PTL DEF Spec

-----------------------------------------------------------------------------
(* Trimming                                                                *)

\* A step of the bus trims the oldest ids only, and keeps what it publishes.
LEMMA StepKeepsYoungest ==
    ASSUME TypeOK, Next, NEW i \in Instance
    PROVE  /\ \A e \in Ids(processed[i]) \ Ids(processed'[i]) :
                 \/ i \in crashed'
                 \/ /\ Len(processed[i]) >= MaxIds
                    /\ \E n \in 1 .. Trim : processed[i][n] = e
           /\ \A p \in published' \ published :
                 p[1] = i => p[2] \in Ids(processed'[i])
  <1> DEFINE Goal ==
          /\ \A e \in Ids(processed[i]) \ Ids(processed'[i]) :
                \/ i \in crashed'
                \/ /\ Len(processed[i]) >= MaxIds
                   /\ \E n \in 1 .. Trim : processed[i][n] = e
          /\ \A p \in published' \ published :
                p[1] = i => p[2] \in Ids(processed'[i])
  <1>1. ASSUME processed'[i] = processed[i], published' = published PROVE Goal
    BY <1>1
  <1>2. ASSUME NEW j \in Instance, NEW e \in Event, Publish(j, e) PROVE Goal
    <2>1. published' = published \cup {<<j, e>>}
      BY <1>2 DEF Publish
    <2>2. CASE j = i
      <3>1. processed'[i] = Remember(i, e)
        BY <1>2, <2>2 DEF Publish, TypeOK
      <3> QED BY <2>1, <2>2, <3>1, RememberKeeps
    <2>3. CASE j # i
      <3>1. processed'[i] = processed[i]
        BY <1>2, <2>3 DEF Publish, TypeOK
      <3> QED BY <2>1, <2>3, <3>1
    <2> QED BY <2>2, <2>3
  <1>3. ASSUME NEW j \in Instance, Deliver(j) PROVE Goal
    <2>1. published' = published
      BY <1>3 DEF Deliver
    <2>2. Ids(processed[i]) \subseteq Ids(processed'[i])
      <3>1. Head(feed[j]) \in Event /\ processed[i] \in Seq(Event)
        BY <1>3, FeedHead DEF Deliver, TypeOK
      <3>2. \/ processed'[i] = processed[i]
            \/ processed'[i] = Append(processed[i], Head(feed[j]))
        BY <1>3 DEF Deliver, TypeOK
      <3> QED BY <3>1, <3>2, IdsAppend
    <2> QED BY <2>1, <2>2
  <1>4. ASSUME NEW j \in Instance, Crash(j) PROVE Goal
    <2>1. published' = published /\ (i = j => i \in crashed')
      BY <1>4 DEF Crash
    <2>2. i # j => processed'[i] = processed[i]
      BY <1>4 DEF Crash, TypeOK
    <2> QED BY <2>1, <2>2
  <1>5. ASSUME NEW j \in Instance, Flush(j) \/ Miss(j) PROVE Goal
    BY <1>1, <1>5 DEF Flush, Miss, history, bus
  <1>6. ASSUME NEW j \in Instance, NEW b \in inserting[j], Answer(j, b) \/ Outage(j, b)
        PROVE  Goal
    BY <1>1, <1>6 DEF Answer, Outage, Answered
  <1>7. ASSUME NEW j \in Instance, NEW rows \in requests[j], Execute(j, rows) PROVE Goal
    BY <1>1, <1>7 DEF Execute, bus
  <1> QED BY <1>2, <1>3, <1>4, <1>5, <1>6, <1>7 DEF Next

\* An instance forgets only ids among its Trim oldest, when it remembers at
\* least MaxIds, and never the id it is publishing.
THEOREM TrimsTheOldest == Spec => YoungestKept
  <1>1. TypeOK /\ [Next]_vars =>
          [\A i \in Instance :
              /\ \A e \in Ids(processed[i]) \ Ids(processed'[i]) :
                    \/ i \in crashed'
                    \/ /\ Len(processed[i]) >= MaxIds
                       /\ \E n \in 1 .. Trim : processed[i][n] = e
              /\ \A p \in published' \ published :
                    p[1] = i => p[2] \in Ids(processed'[i])]_vars
    BY StepKeepsYoungest
  <1> QED BY <1>1, TypeCorrect, PTL DEF Spec, YoungestKept

-----------------------------------------------------------------------------
(* Losses                                                                  *)

\* Where a published event is.
Traced(p) ==
    \/ p[2] \in table \cup lost
    \/ p[1] \in crashed
    \/ p[2] \in Ids(queue[p[1]])
    \/ \E rows \in requests[p[1]] : p[2] \in Ids(rows)

\* A step moves an event along the queue, the INSERT and the table, or loses it
\* with its batch or its instance.
LEMMA StepTraced ==
    ASSUME TypeOK, Next, LossExplained, NEW p \in published'
    PROVE  Traced(p)'
  <1>1. p \in published => Traced(p) /\ p[1] \in Instance
    BY DEF LossExplained, Traced, TypeOK
  <1>0. \/ p[2] \in table' \cup lost'
        \/ p[1] \in crashed'
        \/ p[2] \in Ids(queue'[p[1]])
        \/ \E rows \in requests'[p[1]] : p[2] \in Ids(rows)
        => Traced(p)'
    BY DEF Traced, Ids
  <1>2. ASSUME NEW i \in Instance, NEW e \in Event, Publish(i, e) PROVE Traced(p)'
    <2> DEFINE batch == Append(queue[i], e)
    <2>1. Ids(batch) = Ids(queue[i]) \cup {e}
      BY IdsAppend DEF TypeOK
    <2>2. \/ p \in published
          \/ p[1] = i /\ p[2] = e
      BY <1>2 DEF Publish
    <2>3. table' = table /\ lost' = lost /\ crashed' = crashed
      BY <1>2 DEF Publish
    <2>4. /\ \A j \in Instance : requests[j] \subseteq requests'[j]
          /\ \A j \in Instance : j # i => queue'[j] = queue[j]
      BY <1>2 DEF Publish, Sent, TypeOK
    <2>5. queue'[i] = batch \/ batch \in requests'[i]
      <3>1. CASE Len(batch) >= BatchSize
        <4>1. Sent(i, batch, {e})
          BY <1>2, <3>1 DEF Publish
        <4> HIDE DEF batch
        <4> QED BY <4>1 DEF Sent, TypeOK
      <3>2. CASE ~(Len(batch) >= BatchSize)
        <4>1. queue' = [queue EXCEPT ![i] = batch]
          BY <1>2, <3>2 DEF Publish
        <4> HIDE DEF batch
        <4> QED BY <4>1 DEF TypeOK
      <3> QED BY <3>1, <3>2
    <2> HIDE DEF batch
    <2>6. CASE p \in published
      BY <2>6, <1>0, <1>1, <2>1, <2>3, <2>4, <2>5 DEF Traced
    <2>7. CASE p[1] = i /\ p[2] = e
      BY <2>7, <1>0, <2>1, <2>5
    <2> QED BY <2>2, <2>6, <2>7
  <1>3. ASSUME NEW i \in Instance, Flush(i) PROVE Traced(p)'
    <2>1. /\ \A j \in Instance : j # i => queue'[j] = queue[j] /\ requests'[j] = requests[j]
          /\ requests'[i] = requests[i] \cup {queue[i]}
      BY <1>3 DEF Flush, Sent, TypeOK
    <2>2. UNCHANGED <<table, lost, crashed, published>>
      BY <1>3 DEF Flush, history
    <2> QED BY <1>0, <1>1, <2>1, <2>2 DEF Traced
  <1>4. ASSUME NEW i \in Instance, NEW rows \in requests[i], Execute(i, rows)
        PROVE  Traced(p)'
    <2>1. /\ Ids(rows) \cup table \cup lost \subseteq table' \cup lost'
          /\ UNCHANGED <<queue, published, crashed>>
      BY <1>4 DEF Execute, bus
    <2>2. \A j \in Instance : \A r \in requests[j] : r = rows \/ r \in requests'[j]
      BY <1>4 DEF Execute, TypeOK
    <2> QED BY <1>0, <1>1, <2>1, <2>2 DEF Traced
  <1>5. ASSUME NEW i \in Instance, NEW b \in inserting[i], Answer(i, b) \/ Outage(i, b)
        PROVE  Traced(p)'
    <2>1. UNCHANGED <<queue, published, crashed, table>>
      BY <1>5 DEF Answer, Outage, Answered
    <2>2. /\ lost \subseteq lost'
          /\ \A j \in Instance : \A r \in requests[j] :
                r \in requests'[j] \/ Ids(r) \subseteq lost'
      BY <1>5 DEF Answer, Outage, TypeOK
    <2> QED BY <1>0, <1>1, <2>1, <2>2 DEF Traced
  <1>6. ASSUME NEW i \in Instance, Deliver(i) \/ Miss(i) PROVE Traced(p)'
    <2>1. UNCHANGED <<table, lost, crashed, published, queue, requests>>
      BY <1>6 DEF Deliver, Miss, bus
    <2> QED BY <1>0, <1>1, <2>1 DEF Traced
  <1>7. ASSUME NEW i \in Instance, Crash(i) PROVE Traced(p)'
    <2>1. /\ UNCHANGED <<table, lost, published>>
          /\ crashed' = crashed \cup {i}
          /\ \A j \in Instance : j # i => queue'[j] = queue[j] /\ requests'[j] = requests[j]
      BY <1>7 DEF Crash, TypeOK
    <2> QED BY <1>0, <1>1, <2>1 DEF Traced
  <1> QED BY <1>2, <1>3, <1>4, <1>5, <1>6, <1>7 DEF Next

\* A published event is in the table, in the queue, in an INSERT under way, or
\* was lost with a refused batch or a crashed instance.
THEOREM LossesExplained == Spec => []LossExplained
  <1>1. Init => LossExplained
    BY DEF Init, LossExplained
  <1>2. TypeOK /\ LossExplained /\ [Next]_vars => LossExplained'
    <2> SUFFICES ASSUME TypeOK, LossExplained, [Next]_vars PROVE LossExplained'
      OBVIOUS
    <2>1. CASE Next
      <3>1. \A p \in published' : Traced(p)'
        BY <2>1, StepTraced
      <3> QED BY <3>1 DEF LossExplained, Traced
    <2>2. CASE UNCHANGED vars
      BY <2>2 DEF vars, LossExplained, Ids
    <2> QED BY <2>1, <2>2
  <1> QED BY <1>1, <1>2, TypeCorrect, PTL DEF Spec

-----------------------------------------------------------------------------
(* What ReachesAll rests on: the safety half of it, for any instances.     *)

\* A queue that holds something has its timer; what an instance remembers was
\* handed out or is about to be, by a publish that awaits its INSERT.
Covered(j) ==
    /\ queue[j] # <<>> => timer[j]
    /\ \A e \in Ids(processed[j]) :
          e \in handled[j] \/ \E b \in inserting[j] : e \in b.waiting

\* The reasons for which an event of i may never reach the subscribers of j.
Excused(i, j, e) ==
    e \in lost \cup missed[j] \/ i \in crashed \/ j \in crashed

\* A timer, an INSERT, a row or an answer is due that takes an event of i on to j.
Underway(i, j, e) ==
    \/ timer[i] /\ e \in Ids(queue[i])
    \/ \E rows \in requests[i] : e \in Ids(rows)
    \/ e \in Ids(feed[j])
    \/ \E b \in inserting[j] : e \in b.waiting

Reached(i, j, e) == e \in handled[j] \/ Excused(i, j, e) \/ Underway(i, j, e)

\* No event comes to rest on its way: as long as an instance's subscribers have
\* not been given it, and nothing excuses that, a step is due that moves it.
NoneStranded ==
    \A i, j \in Instance, e \in Event :
        <<i, e>> \in published => Reached(i, j, e)

\* The rows of an INSERT are put behind those on their way.
LEMMA IdsConcat == ASSUME NEW s \in Seq(Event), NEW t \in Seq(Event)
                   PROVE  Ids(s) \cup Ids(t) \subseteq Ids(s \o t)
  <1>1. /\ Len(s \o t) = Len(s) + Len(t) /\ DOMAIN (s \o t) = 1 .. Len(s) + Len(t)
        /\ DOMAIN s = 1 .. Len(s) /\ DOMAIN t = 1 .. Len(t)
        /\ Len(s) \in Nat /\ Len(t) \in Nat
    OBVIOUS
  <1>2. \A n \in 1 .. Len(s) : (s \o t)[n] = s[n] /\ n \in DOMAIN (s \o t)
    BY <1>1
  <1>3. \A n \in 1 .. Len(t) :
            (s \o t)[Len(s) + n] = t[n] /\ Len(s) + n \in DOMAIN (s \o t)
    BY <1>1
  <1> DEFINE u == s \o t
  <1> HIDE DEF u
  <1> QED BY <1>1, <1>2, <1>3, Zenon DEF Ids, u

\* A row that is delivered or missed is the only one to leave the feed.
LEMMA IdsTail == ASSUME NEW s \in Seq(Event), s # <<>>
                 PROVE  Ids(s) \subseteq {Head(s)} \cup Ids(Tail(s))
  <1> SUFFICES ASSUME NEW n \in DOMAIN s
               PROVE  s[n] \in {Head(s)} \cup Ids(Tail(s))
    BY DEF Ids
  <1>1. CASE n = 1
    BY <1>1
  <1>2. CASE n # 1
    <2>1. n - 1 \in DOMAIN Tail(s) /\ Tail(s)[n - 1] = s[n]
      BY <1>2
    <2> QED BY <2>1 DEF Ids
  <1> QED BY <1>1, <1>2

\* What a step has to do for an instance to stay covered.
LEMMA CoveredGrows ==
    ASSUME NEW j \in Instance, Covered(j),
           queue'[j] # <<>> => timer'[j],
           handled[j] \subseteq handled'[j],
           \A e \in Ids(processed'[j]) :
              \/ e \in Ids(processed[j]) \cup handled'[j]
              \/ \E b \in inserting'[j] : e \in b.waiting,
           \A b \in inserting[j] : b \in inserting'[j] \/ b.waiting \subseteq handled'[j]
    PROVE  Covered(j)'
  <1>1. \A e \in Ids(processed'[j]) :
           e \in handled'[j] \/ \E b \in inserting'[j] : e \in b.waiting
    BY DEF Covered
  <1> QED BY <1>1 DEF Covered, Ids

\* publish sets the timer of a queue that stays, and calls the subscribers now
\* or with the answer to the INSERT.
LEMMA PublishFacts ==
    ASSUME TypeOK, NEW i \in Instance, NEW e \in Event, Publish(i, e)
    PROVE  /\ queue'[i] # <<>> => timer'[i]
           /\ e \in handled'[i] \/ \E b \in inserting'[i] : e \in b.waiting
           /\ \/ timer'[i] /\ Ids(queue'[i]) = Ids(queue[i]) \cup {e}
              \/ \E rows \in requests'[i] : Ids(rows) = Ids(queue[i]) \cup {e}
           /\ \A j \in Instance : /\ inserting[j] \subseteq inserting'[j]
                                  /\ requests[j] \subseteq requests'[j]
                                  /\ handled[j] \subseteq handled'[j]
           /\ \A j \in Instance \ {i} :
                 /\ queue'[j] = queue[j] /\ timer'[j] = timer[j]
                 /\ processed'[j] = processed[j]
           /\ processed'[i] = Remember(i, e)
           /\ published' = published \cup {<<i, e>>}
           /\ UNCHANGED <<feed, lost, missed, crashed>>
  <1> DEFINE batch == Append(queue[i], e)
             full == Len(batch) >= BatchSize
             new == [rows |-> batch, waiting |-> {e}]
  <1>1. Ids(batch) = Ids(queue[i]) \cup {e}
    BY IdsAppend DEF TypeOK
  <1>2. /\ processed' = [processed EXCEPT ![i] = Remember(i, e)]
        /\ queue' = [queue EXCEPT ![i] = IF full THEN <<>> ELSE batch]
        /\ timer' = [timer EXCEPT ![i] = ~full /\ Scheduled(i)]
        /\ IF full THEN /\ inserting' = [inserting EXCEPT ![i] = @ \cup {new}]
                        /\ requests' = [requests EXCEPT ![i] = @ \cup {batch}]
                   ELSE inserting' = inserting /\ requests' = requests
        /\ Notify(i, IF full THEN {} ELSE {e})
        /\ published' = published \cup {<<i, e>>}
        /\ UNCHANGED <<feed, lost, missed, crashed>>
    BY DEF Publish, Sent
  <1>3. new.waiting = {e}
    OBVIOUS
  <1> HIDE DEF new, full, batch
  <1>4. \A j \in Instance \ {i} :
                 /\ queue'[j] = queue[j] /\ timer'[j] = timer[j]
                 /\ processed'[j] = processed[j]
    BY <1>2 DEF TypeOK
  <1>5. processed'[i] = Remember(i, e)
    BY <1>2 DEF TypeOK
  <1>6. CASE full
    <2>1. queue'[i] = <<>> /\ new \in inserting'[i] /\ batch \in requests'[i]
      BY <1>2, <1>6 DEF TypeOK
    <2>2. \A j \in Instance : /\ inserting[j] \subseteq inserting'[j]
                              /\ requests[j] \subseteq requests'[j]
                              /\ handled'[j] = handled[j]
      BY <1>2, <1>6 DEF TypeOK, Notify
    <2> QED BY <1>1, <1>2, <1>3, <1>4, <1>5, <2>1, <2>2
  <1>7. CASE ~ full
    <2>1. queue'[i] = batch
      BY <1>2, <1>7 DEF TypeOK
    <2>2. timer'[i]
      <3>1. timer' = [timer EXCEPT ![i] = TRUE]
        BY <1>2, <1>7, Zenon DEF Scheduled
      <3> QED BY <3>1 DEF TypeOK
    <2>3. /\ inserting' = inserting /\ requests' = requests
          /\ \A j \in Instance : handled[j] \subseteq handled'[j]
          /\ e \in handled'[i]
      BY <1>2, <1>7 DEF TypeOK, Notify
    <2> QED BY <1>1, <1>2, <1>4, <1>5, <2>1, <2>2, <2>3
  <1> QED BY <1>6, <1>7

\* An answered INSERT hands out what waits for it and nothing else goes.
LEMMA AnsweredFacts ==
    ASSUME TypeOK, NEW i \in Instance, NEW b \in inserting[i], Answered(i, b)
    PROVE  /\ \A j \in Instance :
                 /\ handled[j] \subseteq handled'[j]
                 /\ \A c \in inserting[j] :
                       \/ c \in inserting'[j]
                       \/ j = i /\ c = b /\ c.waiting \subseteq handled'[j]
           /\ UNCHANGED <<processed, queue, timer, published, missed, crashed>>
  BY DEF Answered, Notify, TypeOK

\* A row that is delivered was handed out before, is now, or is about to be.
LEMMA DeliverFacts ==
    ASSUME TypeOK, NEW i \in Instance, Deliver(i)
    PROVE  /\ \A j \in Instance : handled[j] \subseteq handled'[j]
           /\ \A j \in Instance \ {i} : processed'[j] = processed[j] /\ feed'[j] = feed[j]
           /\ Ids(processed'[i]) \subseteq Ids(processed[i]) \cup handled'[i]
           /\ Head(feed[i]) \in Ids(processed[i]) \cup handled'[i]
           /\ Ids(feed[i]) \subseteq {Head(feed[i])} \cup Ids(feed'[i])
           /\ UNCHANGED <<queue, timer, inserting, requests, published, lost, missed, crashed>>
  <1> DEFINE e == Head(feed[i])
  <1>1. feed[i] # <<>> /\ feed'[i] = Tail(feed[i]) /\ feed[i] \in Seq(Event)
    BY DEF Deliver, TypeOK
  <1>2. Ids(feed[i]) \subseteq {e} \cup Ids(feed'[i])
    BY <1>1, IdsTail
  <1>3. /\ UNCHANGED <<queue, timer, inserting, requests, published, lost, missed, crashed>>
        /\ \A j \in Instance \ {i} : feed'[j] = feed[j]
    BY DEF Deliver, TypeOK
  <1>4. e \in Event /\ processed[i] \in Seq(Event)
    BY <1>1, FeedHead DEF TypeOK
  <1>5. CASE New(i, e)
    <2>1. processed' = [processed EXCEPT ![i] = Append(@, e)] /\ Notify(i, {e})
      BY <1>5 DEF Deliver
    <2>2. Ids(processed'[i]) = Ids(processed[i]) \cup {e}
      BY <2>1, <1>4, IdsAppend DEF TypeOK
    <2>3. \A j \in Instance : handled[j] \subseteq handled'[j]
      BY <2>1 DEF Notify, TypeOK
    <2>4. e \in handled'[i]
      BY <2>1 DEF Notify, TypeOK
    <2>5. \A j \in Instance \ {i} : processed'[j] = processed[j]
      BY <2>1 DEF TypeOK
    <2> HIDE DEF e
    <2> QED BY <1>2, <1>3, <2>2, <2>3, <2>4, <2>5 DEF e
  <1>6. CASE ~ New(i, e)
    <2>1. UNCHANGED <<processed, handled>> /\ e \in Ids(processed[i])
      BY <1>6 DEF Deliver, New
    <2> QED BY <1>2, <1>3, <2>1
  <1> QED BY <1>5, <1>6

\* Every step keeps every instance covered.
LEMMA StepCovered ==
    ASSUME TypeOK, [Next]_vars, NEW j \in Instance, Covered(j)
    PROVE  Covered(j)'
  <1>1. ASSUME NEW i \in Instance, NEW e \in Event, Publish(i, e) PROVE Covered(j)'
    <2>1. CASE i = j
      <3>1. Ids(processed'[j]) \subseteq Ids(processed[j]) \cup {e}
        BY <1>1, <2>1, PublishFacts, RememberKeeps
      <3>2. /\ queue'[j] # <<>> => timer'[j]
            /\ handled[j] \subseteq handled'[j]
            /\ inserting[j] \subseteq inserting'[j]
            /\ e \in handled'[j] \/ \E b \in inserting'[j] : e \in b.waiting
        BY <1>1, <2>1, PublishFacts
      <3> QED BY <3>1, <3>2, CoveredGrows
    <2>2. CASE i # j
      <3>1. /\ queue'[j] = queue[j] /\ timer'[j] = timer[j]
            /\ processed'[j] = processed[j]
            /\ handled[j] \subseteq handled'[j]
            /\ inserting[j] \subseteq inserting'[j]
        BY <1>1, <2>2, PublishFacts
      <3> QED BY <3>1, CoveredGrows DEF Covered
    <2> QED BY <2>1, <2>2
  <1>2. ASSUME NEW i \in Instance, Flush(i) PROVE Covered(j)'
    <2>1. /\ queue'[j] # <<>> => queue'[j] = queue[j] /\ timer'[j] = timer[j]
          /\ processed' = processed /\ handled' = handled
          /\ inserting[j] \subseteq inserting'[j]
      BY <1>2 DEF Flush, Sent, TypeOK
    <2> QED BY <2>1, CoveredGrows DEF Covered
  <1>3. ASSUME NEW i \in Instance, NEW b \in inserting[i], Answer(i, b) \/ Outage(i, b)
        PROVE  Covered(j)'
    <2>1. Answered(i, b)
      BY <1>3 DEF Answer, Outage
    <2>2. /\ processed' = processed /\ queue' = queue /\ timer' = timer
          /\ handled[j] \subseteq handled'[j]
          /\ \A c \in inserting[j] : c \in inserting'[j] \/ c.waiting \subseteq handled'[j]
      BY <2>1, AnsweredFacts
    <2> QED BY <2>2, CoveredGrows DEF Covered
  <1>4. ASSUME NEW i \in Instance, Deliver(i) PROVE Covered(j)'
    <2>1. /\ Ids(processed'[j]) \subseteq Ids(processed[j]) \cup handled'[j]
          /\ handled[j] \subseteq handled'[j]
          /\ queue' = queue /\ timer' = timer /\ inserting' = inserting
      BY <1>4, DeliverFacts
    <2> QED BY <2>1, CoveredGrows DEF Covered
  <1>5. ASSUME NEW i \in Instance, Miss(i) PROVE Covered(j)'
    BY <1>5 DEF Miss, bus, Covered, Ids
  <1>6. ASSUME NEW i \in Instance, Crash(i) PROVE Covered(j)'
    <2>1. CASE i = j
      <3>1. processed'[j] = <<>> /\ queue'[j] = <<>>
        BY <1>6, <2>1 DEF Crash, TypeOK
      <3>2. Ids(processed'[j]) = {}
        BY <3>1 DEF Ids
      <3> QED BY <3>1, <3>2 DEF Covered, Ids
    <2>2. CASE i # j
      <3>1. /\ processed'[j] = processed[j] /\ queue'[j] = queue[j]
            /\ timer'[j] = timer[j] /\ handled'[j] = handled[j]
            /\ inserting'[j] = inserting[j]
        BY <1>6, <2>2 DEF Crash, TypeOK
      <3> QED BY <3>1 DEF Covered, Ids
    <2> QED BY <2>1, <2>2
  <1>7. ASSUME NEW i \in Instance, NEW rows \in requests[i], Execute(i, rows)
        PROVE  Covered(j)'
    BY <1>7 DEF Execute, bus, Covered, Ids
  <1>8. CASE UNCHANGED vars
    BY <1>8 DEF vars, Covered, Ids
  <1> QED BY <1>1, <1>2, <1>3, <1>4, <1>5, <1>6, <1>7, <1>8 DEF Next

\* What a step has to do for an event to be on its way still.
LEMMA ReachedGrows ==
    ASSUME NEW i \in Instance, NEW j \in Instance, NEW e \in Event,
           \/ e \in handled'[j]
           \/ e \in lost' \cup missed'[j] \/ i \in crashed' \/ j \in crashed'
           \/ timer'[i] /\ e \in Ids(queue'[i])
           \/ \E rows \in requests'[i] : e \in Ids(rows)
           \/ e \in Ids(feed'[j])
           \/ \E b \in inserting'[j] : e \in b.waiting
    PROVE  Reached(i, j, e)'
  BY DEF Reached, Excused, Underway, Ids

\* Every step takes an event on, from the queue to an INSERT, from there to the
\* feed of every instance, and from the feed to the subscribers, or excuses it.
LEMMA StepReached ==
    ASSUME TypeOK, Next, \A j \in Instance : Covered(j),
           NEW i \in Instance, NEW j \in Instance, NEW e \in Event,
           <<i, e>> \in published', <<i, e>> \in published => Reached(i, j, e)
    PROVE  Reached(i, j, e)'
  <1>1. ASSUME NEW k \in Instance, NEW d \in Event, Publish(k, d) PROVE Reached(i, j, e)'
    <2>1. CASE <<i, e>> \in published
      <3>1. \/ e \in handled[j] \/ Excused(i, j, e)
            \/ e \in Ids(feed[j]) \/ \E b \in inserting[j] : e \in b.waiting
            \/ \E rows \in requests[i] : e \in Ids(rows)
            => Reached(i, j, e)'
        BY <1>1, PublishFacts, ReachedGrows DEF Excused
      <3>2. timer[i] /\ e \in Ids(queue[i]) => Reached(i, j, e)'
        BY <1>1, PublishFacts, ReachedGrows
      <3> QED BY <2>1, <3>1, <3>2 DEF Reached, Underway
    <2>2. CASE <<i, e>> \notin published
      <3>1. i = k /\ e = d
        BY <1>1, <2>2, PublishFacts
      <3> QED BY <1>1, <3>1, PublishFacts, ReachedGrows
    <2> QED BY <2>1, <2>2
  <1>2. ASSUME NEW k \in Instance, Flush(k) PROVE Reached(i, j, e)'
    <2>1. /\ \A l \in Instance \ {k} : queue'[l] = queue[l] /\ timer'[l] = timer[l]
          /\ UNCHANGED <<feed, handled, published, lost, missed, crashed>>
      BY <1>2 DEF Flush, TypeOK, history
    <2>2. /\ queue[k] \in requests'[k]
          /\ \A l \in Instance : /\ requests[l] \subseteq requests'[l]
                                 /\ inserting[l] \subseteq inserting'[l]
      BY <1>2 DEF Flush, Sent, TypeOK
    <2>3. Reached(i, j, e)
      BY <2>1
    <2> QED BY <2>1, <2>2, <2>3, ReachedGrows DEF Reached, Excused, Underway
  <1>3. ASSUME NEW k \in Instance, NEW b \in inserting[k], Answer(k, b) \/ Outage(k, b)
        PROVE  Reached(i, j, e)'
    <2>1. Answered(k, b)
      BY <1>3 DEF Answer, Outage
    <2>2. /\ feed' = feed /\ lost \subseteq lost'
          /\ \A r \in requests[i] : r \in requests'[i] \/ Ids(r) \subseteq lost'
      BY <1>3 DEF Answer, Outage, TypeOK
    <2>3. /\ UNCHANGED <<queue, timer, published, missed, crashed>>
          /\ handled[j] \subseteq handled'[j]
          /\ \A c \in inserting[j] : c \in inserting'[j] \/ c.waiting \subseteq handled'[j]
      BY <2>1, AnsweredFacts
    <2>4. Reached(i, j, e)
      BY <2>3
    <2> QED BY <2>2, <2>3, <2>4, ReachedGrows DEF Reached, Excused, Underway
  <1>7. ASSUME NEW k \in Instance, NEW rows \in requests[k], Execute(k, rows)
        PROVE  Reached(i, j, e)'
    <2>1. /\ lost \subseteq lost'
          /\ Ids(feed[j]) \subseteq Ids(feed'[j])
          /\ Ids(rows) \subseteq lost' \cup Ids(feed'[j])
      <3>1. rows \in Seq(Event) /\ feed[j] \in Seq(Event)
        BY DEF TypeOK
      <3>2. CASE feed' = [l \in Instance |-> feed[l] \o rows] /\ lost' = lost
        <4>1. feed'[j] = feed[j] \o rows
          BY <3>2
        <4> QED BY <3>1, <3>2, <4>1, IdsConcat
      <3>3. CASE feed' = feed /\ lost' = lost \cup Ids(rows)
        BY <3>3
      <3> QED BY <1>7, <3>2, <3>3 DEF Execute
    <2>2. /\ UNCHANGED <<queue, timer, inserting, handled, published, missed, crashed>>
          /\ \A r \in requests[i] : r \in requests'[i] \/ r = rows
      BY <1>7 DEF Execute, bus, TypeOK
    <2>3. Reached(i, j, e)
      BY <2>2
    <2> QED BY <2>1, <2>2, <2>3, ReachedGrows DEF Reached, Excused, Underway
  <1>4. ASSUME NEW k \in Instance, Deliver(k) PROVE Reached(i, j, e)'
    <2>1. /\ UNCHANGED <<queue, timer, inserting, requests, published, lost, missed, crashed>>
          /\ handled[j] \subseteq handled'[j]
      BY <1>4, DeliverFacts
    <2>2. e \in Ids(feed[j]) =>
            \/ e \in Ids(feed'[j]) \cup handled'[j]
            \/ \E b \in inserting'[j] : e \in b.waiting
      <3>1. CASE j = k
        <4>1. /\ Ids(feed[j]) \subseteq {Head(feed[j])} \cup Ids(feed'[j])
              /\ Head(feed[j]) \in Ids(processed[j]) \cup handled'[j]
          BY <1>4, <3>1, DeliverFacts
        <4>2. Covered(j)
          OBVIOUS
        <4> QED BY <2>1, <4>1, <4>2 DEF Covered
      <3>2. CASE j # k
        BY <1>4, <3>2, DeliverFacts
      <3> QED BY <3>1, <3>2
    <2>3. Reached(i, j, e)
      BY <2>1
    <2> QED BY <2>1, <2>2, <2>3, ReachedGrows DEF Reached, Excused, Underway
  <1>5. ASSUME NEW k \in Instance, Miss(k) PROVE Reached(i, j, e)'
    <2>1. UNCHANGED <<queue, timer, inserting, requests, published, handled, lost, crashed>>
      BY <1>5 DEF Miss, bus
    <2>2. /\ e \in Ids(feed[j]) => e \in Ids(feed'[j]) \cup missed'[j]
          /\ missed[j] \subseteq missed'[j]
      <3>1. CASE j = k
        <4>1. /\ feed[j] # <<>> /\ feed[j] \in Seq(Event)
              /\ feed'[j] = Tail(feed[j])
              /\ missed'[j] = missed[j] \cup {Head(feed[j])}
          BY <1>5, <3>1 DEF Miss, TypeOK
        <4> QED BY <4>1, IdsTail
      <3>2. CASE j # k
        BY <1>5, <3>2 DEF Miss, TypeOK
      <3> QED BY <3>1, <3>2
    <2>3. Reached(i, j, e)
      BY <2>1
    <2> QED BY <2>1, <2>2, <2>3, ReachedGrows DEF Reached, Excused, Underway
  <1>6. ASSUME NEW k \in Instance, Crash(k) PROVE Reached(i, j, e)'
    <2>1. crashed' = crashed \cup {k} /\ UNCHANGED <<published, lost, missed>>
      BY <1>6 DEF Crash
    <2>2. CASE k \in {i, j}
      BY <2>1, <2>2, ReachedGrows
    <2>3. CASE k \notin {i, j}
      <3>1. \A l \in {i, j} :
               /\ queue'[l] = queue[l] /\ timer'[l] = timer[l] /\ feed'[l] = feed[l]
               /\ inserting'[l] = inserting[l] /\ handled'[l] = handled[l]
               /\ requests'[l] = requests[l]
        BY <1>6, <2>3 DEF Crash, TypeOK
      <3>2. Reached(i, j, e)
        BY <2>1
      <3> QED BY <2>1, <3>1, <3>2, ReachedGrows DEF Reached, Excused, Underway
    <2> QED BY <2>2, <2>3
  <1> QED BY <1>1, <1>2, <1>3, <1>4, <1>5, <1>6, <1>7 DEF Next

\* Wherever a published event is, the bus is about to take it further: no event
\* is forgotten between queue, timer, INSERT, feed and the processed ids of an
\* instance, for any number of instances and events.  With the fairness of
\* those steps this is what ReachesAll says.
THEOREM NothingStranded == Spec => []NoneStranded
  <1> DEFINE Inv == (\A j \in Instance : Covered(j)) /\ NoneStranded
  <1>1. Init => Inv
    BY DEF Init, Covered, NoneStranded, Ids
  <1>2. TypeOK /\ Inv /\ [Next]_vars => Inv'
    <2> SUFFICES ASSUME TypeOK, Inv, [Next]_vars PROVE Inv'
      OBVIOUS
    <2>1. \A j \in Instance : Covered(j)'
      BY StepCovered
    <2>2. CASE Next
      <3>1. \A i, j \in Instance, e \in Event :
               <<i, e>> \in published' => Reached(i, j, e)'
        BY <2>2, StepReached DEF NoneStranded
      <3> QED BY <2>1, <3>1 DEF NoneStranded
    <2>3. CASE UNCHANGED vars
      BY <2>1, <2>3 DEF vars, NoneStranded, Reached, Excused, Underway, Ids
    <2> QED BY <2>2, <2>3
  <1>3. Inv => NoneStranded
    OBVIOUS
  <1> HIDE DEF Inv
  <1> QED BY <1>1, <1>2, <1>3, TypeCorrect, PTL DEF Spec
=============================================================================

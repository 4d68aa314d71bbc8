------------------------------ MODULE EventBus ------------------------------
(***************************************************************************)
(* SupabaseEventBus: one bus per API instance, joined through the table    *)
(* domain_events and its Realtime feed.                                    *)
(*                                                                         *)
(* `publish` notifies the instance's own subscribers and queues the event; *)
(* a full queue, or a timer, sends the queue to the table as one INSERT.   *)
(* The feed brings every inserted row to every instance, the publisher's   *)
(* own included, and each instance skips the ids it has processed.  That   *)
(* set is trimmed to the youngest ids.  A refused INSERT is only logged.   *)
(*                                                                         *)
(* The table, the feed and their failures are what the bus talks to: an    *)
(* INSERT is all or nothing, `domain_events.id` is a UUID and a primary    *)
(* key, and the feed keeps the order of the rows but may miss some.  The   *)
(* feed does not wait for the answer to an INSERT: an instance may be      *)
(* brought its own rows while it still awaits that answer.                 *)
(***************************************************************************)
EXTENDS Naturals, Sequences

CONSTANTS Instance,    \* API instances
          Event,       \* event ids
          Unfit,       \* ids the column's type UUID refuses: sleep cues, whose
                       \* id is `sentinel_<ms>`, and story beats, whose id is
                       \* `<storyId>_beat_<i>`
          BatchSize,   \* 25
          MaxIds,      \* 2000: the processed ids above which publish trims
          Trim,        \* 500: how many of the oldest ids it drops
          MaxFailures  \* bound on outages, missed rows and crashes together

ASSUME UnfitAssumption == Unfit \in SUBSET Event
ASSUME BoundsAssumption ==
    /\ BatchSize \in Nat \ {0}
    /\ MaxIds \in Nat /\ Trim \in Nat \ {0} /\ Trim <= MaxIds
    /\ MaxFailures \in Nat

VARIABLES processed,  \* Instance -> processedEventIds, oldest first
          queue,      \* Instance -> eventQueue
          timer,      \* Instance -> is a flush scheduled?
          inserting,  \* Instance -> INSERTs whose answer is awaited
          requests,   \* Instance -> rows sent and not yet worked on by Postgres
          table,      \* the ids in domain_events
          feed,       \* Instance -> rows on their way to the instance
          published,  \* who has published what
          handled,    \* Instance -> ids its subscribers were given
          again,      \* Instance -> ids they were given again
          trimmed,    \* Instance -> ids dropped from processed
          lost,       \* ids of refused or failed INSERTs
          missed,     \* Instance -> rows the feed did not bring
          crashed,    \* instances that have crashed
          failures    \* outages, missed rows and crashes so far

bus == <<processed, queue, timer, inserting>>
history == <<published, trimmed, lost, missed, crashed>>
vars == <<processed, queue, timer, inserting, requests, table, feed, published,
          handled, again, trimmed, lost, missed, crashed, failures>>

\* waiting: the event publish has yet to give to the local subscribers,
\* because it awaits this INSERT first.
Batch == [rows : Seq(Event), waiting : SUBSET Event]

TypeOK ==
    /\ processed \in [Instance -> Seq(Event)]
    /\ queue \in [Instance -> Seq(Event)]
    /\ timer \in [Instance -> BOOLEAN]
    /\ inserting \in [Instance -> SUBSET Batch]
    /\ requests \in [Instance -> SUBSET Seq(Event)]
    /\ table \in SUBSET Event
    /\ feed \in [Instance -> Seq(Event)]
    /\ published \in SUBSET (Instance \X Event)
    /\ handled \in [Instance -> SUBSET Event]
    /\ again \in [Instance -> SUBSET Event]
    /\ trimmed \in [Instance -> SUBSET Event]
    /\ lost \in SUBSET Event
    /\ missed \in [Instance -> SUBSET Event]
    /\ crashed \in SUBSET Instance
    /\ failures \in 0 .. MaxFailures

Init ==
    /\ processed = [i \in Instance |-> <<>>]
    /\ queue = [i \in Instance |-> <<>>]
    /\ timer = [i \in Instance |-> FALSE]
    /\ inserting = [i \in Instance |-> {}]
    /\ requests = [i \in Instance |-> {}]
    /\ table = {}
    /\ feed = [i \in Instance |-> <<>>]
    /\ published = {}
    /\ handled = [i \in Instance |-> {}]
    /\ again = [i \in Instance |-> {}]
    /\ trimmed = [i \in Instance |-> {}]
    /\ lost = {}
    /\ missed = [i \in Instance |-> {}]
    /\ crashed = {}
    /\ failures = 0

Ids(seq) == {seq[n] : n \in DOMAIN seq}

\* notifyLocalSubscribers
Notify(i, events) ==
    /\ handled' = [handled EXCEPT ![i] = @ \cup events]
    /\ again' = [again EXCEPT ![i] = @ \cup (events \cap handled[i])]

-----------------------------------------------------------------------------
(* publish and flushEvents                                                 *)

\* Mutation: an id is new until the subscribers have been called.
NewUntilHandled(i, e) == e \notin handled[i]

\* if (this.processedEventIds.has(event.id)) return
New(i, e) == e \notin Ids(processed[i])

\* Mutation: the youngest ids are trimmed.
RememberOldest(i, e) ==
    LET ids == Append(processed[i], e) IN
    IF Len(ids) > MaxIds THEN SubSeq(ids, 1, Len(ids) - Trim) ELSE ids

\* if (size > 2000) processedEventIds = new Set(ids.slice(500))
Remember(i, e) ==
    LET ids == Append(processed[i], e) IN
    IF Len(ids) > MaxIds THEN SubSeq(ids, Trim + 1, Len(ids)) ELSE ids

\* Mutation: the timer is left to a flush that is still awaiting its answer.
ScheduledUnlessFlushing(i) == timer[i] \/ inserting[i] = {}

\* else if (!this.flushTimer) this.flushTimer = setTimeout(...): a timer that
\* runs is left running and a missing one is set, so that one always runs.
Scheduled(i) == TRUE

\* await client.from('domain_events').insert(rows), sent
Sent(i, rows, waiting) ==
    /\ inserting' = [inserting EXCEPT ![i] =
                        @ \cup {[rows |-> rows, waiting |-> waiting]}]
    /\ requests' = [requests EXCEPT ![i] = @ \cup {rows}]

\* A UUID is published once; two instances can make the same sentinel id.
\* A queue that is not full yet waits for the timer and the subscribers are
\* called now; a full one is sent, and they are called after the answer.
Publish(i, e) ==
    LET rows == Append(queue[i], e)
        full == Len(rows) >= BatchSize IN
    /\ <<i, e>> \notin published
    /\ e \in Unfit \/ \A j \in Instance : <<j, e>> \notin published
    /\ New(i, e)
    /\ processed' = [processed EXCEPT ![i] = Remember(i, e)]
    /\ trimmed' = [trimmed EXCEPT ![i] =
                      @ \cup (Ids(processed[i]) \ Ids(Remember(i, e)))]
    /\ queue' = [queue EXCEPT ![i] = IF full THEN <<>> ELSE rows]
    /\ timer' = [timer EXCEPT ![i] = ~full /\ Scheduled(i)]
    /\ IF full THEN Sent(i, rows, {e}) ELSE UNCHANGED <<inserting, requests>>
    /\ Notify(i, IF full THEN {} ELSE {e})
    /\ published' = published \cup {<<i, e>>}
    /\ UNCHANGED <<table, feed, lost, missed, crashed, failures>>

\* The timer: the queue is emptied before the INSERT is answered.
Flush(i) ==
    /\ timer[i]
    /\ timer' = [timer EXCEPT ![i] = FALSE]
    /\ queue' = [queue EXCEPT ![i] = <<>>]
    /\ Sent(i, queue[i], {})
    /\ UNCHANGED <<processed, table, feed, handled, again, history, failures>>

\* Mutation: the queue is emptied after the await, not before it.
AnsweredThenCleared(i, b) ==
    /\ inserting' = [inserting EXCEPT ![i] = @ \ {b}]
    /\ queue' = [queue EXCEPT ![i] = <<>>]
    /\ Notify(i, b.waiting)
    /\ UNCHANGED <<processed, timer, published, trimmed, missed, crashed>>

\* Mutation: the subscribers are given the whole batch as their event.
AnsweredWithBatch(i, b) ==
    /\ inserting' = [inserting EXCEPT ![i] = @ \ {b}]
    /\ Notify(i, {b})
    /\ UNCHANGED <<processed, queue, timer, published, trimmed, missed, crashed>>

\* The INSERT is answered: a publish that awaits it calls the subscribers.
Answered(i, b) ==
    /\ inserting' = [inserting EXCEPT ![i] = @ \ {b}]
    /\ Notify(i, b.waiting)
    /\ UNCHANGED <<processed, queue, timer, published, trimmed, missed, crashed>>

\* A row of the wrong type, or an id the table has, and no row is inserted.
Accepted(rows) == Ids(rows) \cap (Unfit \cup table) = {}

\* Postgres works on an INSERT.  Its rows are in the feeds at once, whether its
\* instance still awaits the answer, has given up, or has restarted.
Execute(i, rows) ==
    /\ rows \in requests[i]
    /\ requests' = [requests EXCEPT ![i] = @ \ {rows}]
    /\ IF Accepted(rows)
       THEN /\ table' = table \cup Ids(rows)
            /\ feed' = [j \in Instance |-> feed[j] \o rows]
            /\ UNCHANGED lost
       ELSE /\ lost' = lost \cup Ids(rows)
            /\ UNCHANGED <<table, feed>>
    /\ UNCHANGED <<bus, published, handled, again, trimmed, missed, crashed, failures>>

\* The await of an INSERT that was worked on ends: with its answer, with its
\* error, or with the error of an answer that got lost.  An error is logged.
Answer(i, b) ==
    /\ b \in inserting[i] /\ b.rows \notin requests[i]
    /\ Answered(i, b)
    /\ UNCHANGED <<requests, table, feed, lost, failures>>

\* The await ends with an error before Postgres has worked on the INSERT: the
\* request is gone, and the batch with it, or it arrives later all the same.
Outage(i, b) ==
    /\ b \in inserting[i] /\ b.rows \in requests[i]
    /\ failures < MaxFailures
    /\ failures' = failures + 1
    /\ \/ /\ requests' = [requests EXCEPT ![i] = @ \ {b.rows}]
          /\ lost' = lost \cup Ids(b.rows)
       \/ UNCHANGED <<requests, lost>>
    /\ Answered(i, b)
    /\ UNCHANGED <<table, feed>>

-----------------------------------------------------------------------------
(* The Realtime subscription                                               *)

\* Skipped when processed; else remembered, without a trim, and handed on.
Deliver(i) ==
    LET e == Head(feed[i]) IN
    /\ feed[i] # <<>>
    /\ feed' = [feed EXCEPT ![i] = Tail(@)]
    /\ IF New(i, e)
       THEN /\ processed' = [processed EXCEPT ![i] = Append(@, e)]
            /\ trimmed' = trimmed
            /\ Notify(i, {e})
       ELSE UNCHANGED <<processed, trimmed, handled, again>>
    /\ UNCHANGED <<queue, timer, inserting, requests, table, published, lost,
                   missed, crashed, failures>>

\* The channel is down while the row goes by: nobody reads it later.
Miss(i) ==
    /\ feed[i] # <<>>
    /\ failures < MaxFailures
    /\ failures' = failures + 1
    /\ feed' = [feed EXCEPT ![i] = Tail(@)]
    /\ missed' = [missed EXCEPT ![i] = @ \cup {Head(feed[i])}]
    /\ UNCHANGED <<bus, requests, table, published, handled, again, trimmed,
                   lost, crashed>>

\* A crash and restart: queue, pending rows and processed ids are gone, and
\* the subscribers start from nothing.  INSERTs already sent may yet arrive.
Crash(i) ==
    /\ failures < MaxFailures
    /\ failures' = failures + 1
    /\ processed' = [processed EXCEPT ![i] = <<>>]
    /\ queue' = [queue EXCEPT ![i] = <<>>]
    /\ timer' = [timer EXCEPT ![i] = FALSE]
    /\ inserting' = [inserting EXCEPT ![i] = {}]
    /\ \E arriving \in SUBSET requests[i] :
          requests' = [requests EXCEPT ![i] = arriving]
    /\ feed' = [feed EXCEPT ![i] = <<>>]
    /\ handled' = [handled EXCEPT ![i] = {}]
    /\ again' = [again EXCEPT ![i] = {}]
    /\ trimmed' = [trimmed EXCEPT ![i] = {}]
    /\ crashed' = crashed \cup {i}
    /\ UNCHANGED <<table, published, lost, missed>>

Next ==
    \E i \in Instance :
        \/ \E e \in Event : Publish(i, e)
        \/ Flush(i)
        \/ \E rows \in requests[i] : Execute(i, rows)
        \/ \E b \in inserting[i] : Answer(i, b) \/ Outage(i, b)
        \/ Deliver(i)
        \/ Miss(i)
        \/ Crash(i)

Spec == Init /\ [][Next]_vars

\* Timers fire, the database works and answers, and the feed moves.
Fairness ==
    \A i \in Instance : /\ WF_vars(Flush(i))
                        /\ WF_vars(\E rows \in requests[i] : Execute(i, rows))
                        /\ WF_vars(\E b \in inserting[i] : Answer(i, b))
                        /\ WF_vars(Deliver(i))
FairSpec == Spec /\ Fairness

-----------------------------------------------------------------------------
(* Properties                                                              *)

\* The subscribers of an instance are given an event once, by publish or by
\* the feed, although the instance is brought its own rows too: before the
\* answer for which their publish waits to call the subscribers, after it, or
\* after an error that said they were not stored.  Only an id that has been
\* trimmed from the processed ones can come again.
HandledOnce == \A i \in Instance : again[i] \subseteq trimmed[i]

\* Trimming takes only the oldest ids, and never the id whose publish trims:
\* the rows of the last batches, still on their way back through the feed, are
\* recognised when they arrive.
YoungestKept ==
    [][\A i \in Instance :
          /\ \A e \in Ids(processed[i]) \ Ids(processed'[i]) :
                \/ i \in crashed'
                \/ /\ Len(processed[i]) >= MaxIds
                   /\ \E n \in 1 .. Trim : processed[i][n] = e
          /\ \A p \in published' \ published :
                p[1] = i => p[2] \in Ids(processed'[i])]_vars

\* An event leaves its instance's queue only with an INSERT, which brings it to
\* the table, or is refused or lost as a whole, or in a crash: no event falls
\* between the queue a flush empties and the INSERT it sends.
LossExplained ==
    \A p \in published :
        \/ p[2] \in table \cup lost
        \/ p[1] \in crashed
        \/ p[2] \in Ids(queue[p[1]])
        \/ \E rows \in requests[p[1]] : p[2] \in Ids(rows)

\* Every instance's subscribers have been given every published event, unless
\* its INSERT was refused or lost, its row missed, or one of the two instances
\* crashed.
AllReached ==
    \A i, j \in Instance, e \in Event :
        <<i, e>> \in published =>
            e \in handled[j] \cup lost \cup missed[j] \/ i \in crashed \/ j \in crashed

\* So it is in the end, however publishes, timers, answers and rows overlap: no
\* event waits for a timer that was not set again or a flush that forgot it.
ReachesAll == <>[]AllReached

\* The eventing docs say domain_events are persisted in Postgres: without an
\* outage or a crash, no published event is lost on the way to the table.
EveryEventPersisted == lost = {}
=============================================================================

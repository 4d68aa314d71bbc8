---------------------------- MODULE StoryPromise ----------------------------
(***************************************************************************)
(* What GenerateStoryUseCase promises the client and the listeners of its  *)
(* events: the words of a story are heard while it is made up, its beats   *)
(* when it is on the shelf, in order and to the last, and only then is it  *)
(* told to who asked for it.                                               *)
(***************************************************************************)
EXTENDS Naturals

CONSTANTS Story,  \* the stories that may be asked for
          Body,   \* what the text of a story may be
          None,   \* no text
          Beats   \* paragraphs of a story

VARIABLES shelf,  \* Story -> its stored text
          chunks, \* Story -> number of chunks heard
          events, \* Story -> number of beats heard, and the completion
          end     \* Story -> "open", "told" or "failed"

vars == <<shelf, chunks, events, end>>

Init ==
    /\ shelf = [s \in Story |-> None]
    /\ chunks = [s \in Story |-> 0]
    /\ events = [s \in Story |-> 0]
    /\ end = [s \in Story |-> "open"]

Chunk(s) ==
    /\ end[s] = "open"
    /\ shelf[s] = None
    /\ chunks' = [chunks EXCEPT ![s] = @ + 1]
    /\ UNCHANGED <<shelf, events, end>>

Shelve(s) ==
    /\ end[s] = "open"
    /\ shelf[s] = None
    /\ \E b \in Body : shelf' = [shelf EXCEPT ![s] = b]
    /\ UNCHANGED <<chunks, events, end>>

\* The beats one after the other, the completion of the story after them.
Event(s) ==
    /\ end[s] = "open"
    /\ shelf[s] # None
    /\ events[s] <= Beats
    /\ events' = [events EXCEPT ![s] = @ + 1]
    /\ UNCHANGED <<shelf, chunks, end>>

Tell(s) ==
    /\ end[s] = "open"
    /\ events[s] = Beats + 1
    /\ end' = [end EXCEPT ![s] = "told"]
    /\ UNCHANGED <<shelf, chunks, events>>

GiveUp(s) ==
    /\ end[s] = "open"
    /\ end' = [end EXCEPT ![s] = "failed"]
    /\ UNCHANGED <<shelf, chunks, events>>

Next ==
    \E s \in Story : Chunk(s) \/ Shelve(s) \/ Event(s) \/ Tell(s) \/ GiveUp(s)

Spec == Init /\ [][Next]_vars
=============================================================================

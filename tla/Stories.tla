------------------------------ MODULE Stories ------------------------------
(***************************************************************************)
(* GenerateStoryUseCase and CheckUnlockUseCase for one user.  Several      *)
(* stories of the user are made at a time: the page that asks for a story  *)
(* asks for it twice, as a stream and as an answer, and each is an         *)
(* execution with a story of its own (StoryRequestPage, story.ts).         *)
(*                                                                         *)
(* A Story is one execution and the id it generates.  Every query is a     *)
(* step, so is every event; the companions are checked before a story is   *)
(* made and after it was saved, each time by counting the stories, listing *)
(* the unlocked and the blocked companions and unlocking what is due.      *)
(***************************************************************************)
EXTENDS Naturals, FiniteSets

CONSTANTS Story, Companion,
          Threshold, \* Companion -> number of stories that unlocks it
          Beats,     \* paragraphs of a story
          MaxChunks, \* bound: chunks of a stream
          None       \* no text yet

ASSUME StoryAssumption == IsFiniteSet(Story)
ASSUME ThresholdAssumption == Threshold \in [Companion -> Nat]
ASSUME BoundsAssumption == Beats \in Nat \ {0} /\ MaxChunks \in Nat

\* What a model may make up: a story, with thoughts left in it or nothing
\* but those, blank, or with words that a pattern of the guardian finds.
Text == {"plain", "tagged", "thought", "blank", "banned"}

\* What is kept of it; "raw" is a text that sanitizing would have emptied.
Body == {"checked", "sanitized", "raw", "fallback"}

ASSUME NoneAssumption == None \notin Text \cup Body

Unlocking == {"count", "unlocked", "blocked", "unlock"}
Place == {"new", "stream", "again", "check", "save", "events", "told", "failed"}
             \cup Unlocking

VARIABLES shelf,     \* Story -> its row in the database
          unlocked,  \* rows of companion_unlocks of the user
          blocked,   \* companions that moderation has blocked
          at,        \* Story -> where its execution is
          round,     \* Story -> the check is "before" or "after" the story
          text,      \* Story -> what was made up, then what is kept of it
          counted,   \* Story -> stories that the check has counted
          known,     \* Story -> companions that it takes to be unlocked
          barred,    \* Story -> companions that it takes to be blocked
          had,       \* Story -> companions before the story
          news,      \* Story -> companions that it reports as new
          chunks,    \* Story -> chunks published
          events,    \* Story -> beats published, then the completion
          rank,      \* history: Story -> stories there were with it
          earlier    \* history: Story -> stories told before it began

tables == <<shelf, unlocked, blocked>>
checking == <<counted, known, barred>>
results == <<had, news>>
published == <<chunks, events>>
history == <<rank, earlier>>
vars == <<shelf, unlocked, blocked, at, round, text, counted, known, barred,
          had, news, chunks, events, rank, earlier>>

Shelved == {s \in Story : shelf[s] # None}

TablesTyped ==
    /\ shelf \in [Story -> Body \cup {None}]
    /\ unlocked \subseteq Companion
    /\ blocked \subseteq Companion

ExecutionsTyped ==
    /\ at \in [Story -> Place]
    /\ round \in [Story -> {"before", "after"}]
    /\ text \in [Story -> Text \cup Body \cup {None}]
    /\ chunks \in [Story -> 0 .. MaxChunks]
    /\ events \in [Story -> 0 .. Beats + 1]

CheckTyped ==
    /\ counted \in [Story -> Nat]
    /\ known \in [Story -> SUBSET Companion]
    /\ barred \in [Story -> SUBSET Companion]
    /\ had \in [Story -> SUBSET Companion]
    /\ news \in [Story -> SUBSET Companion]

HistoryTyped ==
    /\ rank \in [Story -> Nat]
    /\ earlier \in [Story -> SUBSET Story]

TypeOK == TablesTyped /\ ExecutionsTyped /\ CheckTyped /\ HistoryTyped

Init ==
    /\ shelf = [s \in Story |-> None]
    /\ unlocked = {}
    /\ blocked = {}
    /\ at = [s \in Story |-> "new"]
    /\ round = [s \in Story |-> "before"]
    /\ text = [s \in Story |-> None]
    /\ counted = [s \in Story |-> 0]
    /\ known = [s \in Story |-> {}]
    /\ barred = [s \in Story |-> {}]
    /\ had = [s \in Story |-> {}]
    /\ news = [s \in Story |-> {}]
    /\ chunks = [s \in Story |-> 0]
    /\ events = [s \in Story |-> 0]
    /\ rank = [s \in Story |-> 0]
    /\ earlier = [s \in Story |-> {}]

-----------------------------------------------------------------------------
Goto(s, place) == at' = [at EXCEPT ![s] = place]

Begin(s) ==
    /\ at[s] = "new"
    /\ Goto(s, "count")
    /\ earlier' = [earlier EXCEPT ![s] = {r \in Story : at[r] = "told"}]
    /\ UNCHANGED <<tables, round, text, checking, results, published, rank>>

\* An error that is not caught, or a crash: the client is told, or nobody;
\* what was stored and published stays.
Fail(s) ==
    /\ at[s] \notin {"new", "told", "failed"}
    /\ Goto(s, "failed")
    /\ UNCHANGED <<tables, round, text, checking, results, published, history>>

-----------------------------------------------------------------------------
(* CheckUnlockUseCase.execute                                              *)

CountStories(s) ==
    /\ at[s] = "count"
    /\ Goto(s, "unlocked")
    /\ counted' = [counted EXCEPT ![s] = Cardinality(Shelved)]
    /\ UNCHANGED <<tables, round, text, known, barred, results, published, history>>

ListUnlocked(s) ==
    /\ at[s] = "unlocked"
    /\ Goto(s, "blocked")
    /\ known' = [known EXCEPT ![s] = unlocked]
    /\ UNCHANGED <<tables, round, text, counted, barred, results, published, history>>

ListBlocked(s) ==
    /\ at[s] = "blocked"
    /\ Goto(s, "unlock")
    /\ barred' = [barred EXCEPT ![s] = blocked]
    /\ UNCHANGED <<tables, round, text, counted, known, results, published, history>>

\* Mutation: the threshold itself is not enough.
DueAbove(s) == {c \in Companion : /\ c \notin barred[s]
                                  /\ Threshold[c] < counted[s]
                                  /\ c \notin known[s]}

\* What the loop still has to unlock.
Due(s) == {c \in Companion : /\ c \notin barred[s]
                             /\ Threshold[c] <= counted[s]
                             /\ c \notin known[s]}

\* The upsert is tried again when its answer is lost, and comes to the same.
Unlock(s) ==
    /\ at[s] = "unlock"
    /\ \E c \in Due(s) :
           /\ unlocked' = unlocked \cup {c}
           /\ known' = [known EXCEPT ![s] = @ \cup {c}] \/ UNCHANGED known
    /\ UNCHANGED <<shelf, blocked, at, round, text, counted, barred, results,
                   published, history>>

\* The companions of the user: before the story for its prompt, after it
\* for what is new.
Unlocked(s) == known[s] \ barred[s]

\* Mutation: all that is unlocked is reported as new.
NewWithoutDiff(s) == Unlocked(s)

New(s) == Unlocked(s) \ had[s]

\* The variables of the check end with it.
EndCheck(s) ==
    /\ at[s] = "unlock"
    /\ Due(s) = {}
    /\ \/ /\ round[s] = "before"
          /\ had' = [had EXCEPT ![s] = Unlocked(s)]
          /\ Goto(s, "stream")
          /\ UNCHANGED news
       \/ /\ round[s] = "after"
          /\ news' = [news EXCEPT ![s] = New(s)]
          /\ Goto(s, "events")
          /\ UNCHANGED had
    /\ counted' = [counted EXCEPT ![s] = 0]
    /\ known' = [known EXCEPT ![s] = {}]
    /\ barred' = [barred EXCEPT ![s] = {}]
    /\ UNCHANGED <<tables, round, text, published, history>>

-----------------------------------------------------------------------------
(* GenerateStoryUseCase.execute                                            *)

\* A chunk is published as it comes.
Chunk(s) ==
    /\ at[s] = "stream"
    /\ chunks[s] < MaxChunks
    /\ chunks' = [chunks EXCEPT ![s] = @ + 1]
    /\ UNCHANGED <<tables, at, round, text, checking, results, events, history>>

StreamEnds(s) ==
    /\ at[s] = "stream"
    /\ Goto(s, "check")
    /\ \E t \in Text : text' = [text EXCEPT ![s] = t]
    /\ UNCHANGED <<tables, round, checking, results, published, history>>

StreamBreaks(s) ==
    /\ at[s] = "stream"
    /\ Goto(s, "again")
    /\ UNCHANGED <<tables, round, text, checking, results, published, history>>

\* Another story, not the one whose chunks are out.
Generate(s) ==
    /\ at[s] = "again"
    /\ Goto(s, "check")
    /\ \E t \in Text : text' = [text EXCEPT ![s] = t]
    /\ UNCHANGED <<tables, round, checking, results, published, history>>

\* The text that is kept of one that the guardian finds safe.
Kept == [t \in {"plain", "tagged", "thought"} |->
            CASE t = "plain" -> "checked"
              [] t = "tagged" -> "sanitized"
              [] OTHER -> "raw"]

\* The guardian blocks what a pattern finds, what the model finds unsafe and
\* everything when the model fails; a blank story that it lets pass is an
\* error.  Speech is optional and changes nothing.
CheckContent(s) ==
    /\ at[s] = "check"
    /\ \E safe \in BOOLEAN :
           /\ safe => text[s] # "banned"
           /\ IF safe /\ text[s] = "blank"
              THEN Goto(s, "failed") /\ UNCHANGED text
              ELSE /\ Goto(s, "save")
                   /\ text' = [text EXCEPT ![s] =
                                  IF safe THEN Kept[text[s]] ELSE "fallback"]
    /\ UNCHANGED <<tables, round, checking, results, published, history>>

\* Mutation: an error of the upsert is not thrown.
SaveUnchecked(s) ==
    /\ at[s] = "save"
    /\ shelf' = [shelf EXCEPT ![s] = text[s]] \/ UNCHANGED shelf
    /\ rank' = [rank EXCEPT ![s] = Cardinality(Shelved) + 1]
    /\ Goto(s, "count")
    /\ round' = [round EXCEPT ![s] = "after"]
    /\ UNCHANGED <<unlocked, blocked, text, checking, results, published, earlier>>

\* The upsert by id; when its answer is lost it is made again.
Save(s) ==
    /\ at[s] = "save"
    /\ shelf' = [shelf EXCEPT ![s] = text[s]]
    /\ rank' = [rank EXCEPT ![s] = IF shelf[s] = None THEN Cardinality(Shelved) + 1
                                                      ELSE @]
    /\ \/ Goto(s, "count") /\ round' = [round EXCEPT ![s] = "after"]
       \/ UNCHANGED <<at, round>>
    /\ UNCHANGED <<unlocked, blocked, text, checking, results, published, earlier>>

\* Mutation: the completion is published again and again.
PublishEventEndless(s) ==
    /\ at[s] = "events"
    /\ events' = [events EXCEPT ![s] = @ + 1]
    /\ UNCHANGED <<tables, at, round, text, checking, results, chunks, history>>

\* The beats, their number and order known from the text, then the completion.
PublishEvent(s) ==
    /\ at[s] = "events"
    /\ events[s] <= Beats
    /\ events' = [events EXCEPT ![s] = @ + 1]
    /\ UNCHANGED <<tables, at, round, text, checking, results, chunks, history>>

Answer(s) ==
    /\ at[s] = "events"
    /\ events[s] = Beats + 1
    /\ Goto(s, "told")
    /\ UNCHANGED <<tables, round, text, checking, results, published, history>>

-----------------------------------------------------------------------------
\* Moderation blocks a companion; nothing unblocks it.
Block(c) ==
    /\ c \notin blocked
    /\ blocked' = blocked \cup {c}
    /\ UNCHANGED <<shelf, unlocked, at, round, text, checking, results,
                   published, history>>

-----------------------------------------------------------------------------
Check(s) == CountStories(s) \/ ListUnlocked(s) \/ ListBlocked(s) \/ Unlock(s)
               \/ EndCheck(s)

Make(s) == Chunk(s) \/ StreamEnds(s) \/ StreamBreaks(s) \/ Generate(s)
              \/ CheckContent(s) \/ Save(s) \/ PublishEvent(s) \/ Answer(s)

Next ==
    \/ \E s \in Story : Begin(s) \/ Fail(s) \/ Check(s) \/ Make(s)
    \/ \E c \in Companion : Block(c)

Spec == Init /\ [][Next]_vars

-----------------------------------------------------------------------------
(* Properties                                                              *)

\* How an execution has ended, for who waits for it.
Outcome == [s \in Story |-> IF at[s] \in {"told", "failed"} THEN at[s] ELSE "open"]

P == INSTANCE StoryPromise WITH end <- Outcome

\* The use case keeps its promise: chunks only before the story is stored,
\* its events only after it, in order, and an answer only after them all
\* (GenerateStoryUseCase.execute).
ImplementsPromise == P!Spec

\* Who is told a story has every companion that it was due, whatever was
\* counted or unlocked by others in the meantime: the check reads the count,
\* the unlocked and the blocked in turn (CheckUnlockUseCase.execute).
DueAreUnlocked ==
    \A s \in Story : at[s] = "told" =>
        \A c \in Companion : Threshold[c] <= rank[s] => c \in unlocked \cup blocked

\* A companion is reported as new by two stories only if one was begun
\* before the other was told (the diff of CheckUnlockUseCase's two results).
NoDoubleReport ==
    \A s \in Story : \A r \in earlier[s] : news[s] \cap news[r] = {}
=============================================================================

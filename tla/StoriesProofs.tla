--------------------------- MODULE StoriesProofs ---------------------------
(***************************************************************************)
(* What holds of the making of stories for any number of stories and       *)
(* companions and any thresholds.                                          *)
(***************************************************************************)
EXTENDS Stories, FiniteSetTheorems, TLAPS

USE StoryAssumption, ThresholdAssumption, BoundsAssumption, NoneAssumption

\* Where a story is not yet on the shelf, and where it is.
Making == {"new", "stream", "again", "check"}
Telling == {"events", "told"}

\* The shelf is where the execution takes it to be.
ShelfFits ==
    \A s \in Story :
        /\ at[s] \in Making => shelf[s] = None /\ round[s] = "before"
        /\ at[s] \in Unlocking => ((round[s] = "before") <=> (shelf[s] = None))
        /\ at[s] = "check" => text[s] \in Text
        /\ at[s] = "save" => /\ text[s] \in Body
                             /\ shelf[s] \in {None, text[s]}
                             /\ round[s] = "before"
        /\ at[s] \in Telling => shelf[s] # None

\* What an execution takes for unlocked or blocked still is.
ReadsHold ==
    \A s \in Story : known[s] \subseteq unlocked /\ barred[s] \subseteq blocked

DueOf(s) == {c \in Companion : Threshold[c] <= rank[s]}

\* A story has its rank from the shelf, its check counts at least as many,
\* and what it is due is unlocked when the check has ended.
DueGranted ==
    \A s \in Story :
        /\ rank[s] <= Cardinality(Shelved)
        /\ at[s] \in Unlocking \ {"count"} /\ round[s] = "after" => rank[s] <= counted[s]
        /\ at[s] \in Telling => DueOf(s) \subseteq unlocked \cup blocked

Past == {"stream", "again", "check", "save"}

\* What an earlier story has reported is among what this one has found
\* before it was made, unless it was blocked in the meantime.
\* One conjunct for each step of the two checks.
EarlierFound(s, r) ==
    /\ at[r] = "told"
    /\ news[r] \subseteq unlocked
    /\ at[s] \in {"blocked", "unlock"} /\ round[s] = "before" => news[r] \subseteq known[s]
    /\ at[s] \in Past \/ (at[s] \in Unlocking /\ round[s] = "after")
           => news[r] \subseteq had[s] \cup blocked
    /\ at[s] = "unlock" /\ round[s] = "after" => news[r] \subseteq had[s] \cup barred[s]
    /\ news[s] \cap news[r] = {}

ReportsApart ==
    /\ \A s \in Story : /\ at[s] \in Making \cup Past \cup Unlocking => news[s] = {}
                        /\ news[s] \subseteq unlocked
    /\ \A s \in Story : \A r \in earlier[s] : EarlierFound(s, r)

Inv == TypeOK /\ ShelfFits /\ ReadsHold /\ DueGranted /\ ReportsApart

-----------------------------------------------------------------------------
(* Types                                                                   *)

\* The shelf holds finitely many stories.
LEMMA ShelvedFinite == IsFiniteSet(Shelved) /\ Cardinality(Shelved) \in Nat
BY FS_Subset, FS_CardinalityType DEF Shelved

\* Without stories everything is well typed.
LEMMA TypeInit == Init => TypeOK
BY DEF Init, TypeOK, TablesTyped, ExecutionsTyped, CheckTyped, HistoryTyped, Place

\* A text that is neither banned nor blank has a body after sanitizing.
LEMMA KeptInBody == \A t \in Text : t \notin {"banned", "blank"} => Kept[t] \in Body
BY DEF Kept, Text, Body

\* Every step keeps the types.
LEMMA TypeStep == TypeOK /\ ShelfFits /\ [Next]_vars => TypeOK'
<1> SUFFICES ASSUME TypeOK /\ ShelfFits, [Next]_vars PROVE TypeOK'
    OBVIOUS
<1> USE DEF TypeOK, TablesTyped, ExecutionsTyped, CheckTyped, HistoryTyped, Place, Unlocking
<1>1. CASE \E s \in Story : Begin(s)
      BY <1>1 DEF Begin, Goto, tables, checking, results, published, history
<1>2. CASE \E s \in Story : Fail(s)
      BY <1>2 DEF Fail, Goto, tables, checking, results, published, history
<1>3. CASE \E s \in Story : CountStories(s)
      BY <1>3, ShelvedFinite DEF CountStories, Goto, tables, checking, results, published, history
<1>4. CASE \E s \in Story : ListUnlocked(s)
      BY <1>4 DEF ListUnlocked, Goto, tables, checking, results, published, history
<1>5. CASE \E s \in Story : ListBlocked(s)
      BY <1>5 DEF ListBlocked, Goto, tables, checking, results, published, history
<1>6. CASE \E s \in Story : Unlock(s)
  <2>1. PICK s \in Story : Unlock(s)
        BY <1>6
  <2>2. PICK c \in Due(s) :
                            /\ unlocked' = unlocked \cup {c}
                            /\ known' = [known EXCEPT ![s] = @ \cup {c}] \/ known' = known
        BY <2>1 DEF Unlock
  <2>3. c \in Companion
        BY DEF Due
  <2>4. UNCHANGED <<shelf, blocked, at, round, text, counted, barred, had, news,
                    chunks, events, rank, earlier>>
        BY <2>1 DEF Unlock, results, published, history
  <2>5. TablesTyped'
        BY <2>2, <2>3, <2>4
  <2>6. ExecutionsTyped' /\ HistoryTyped'
        BY <2>4
  <2>7. CheckTyped'
        BY <2>2, <2>3, <2>4
  <2> QED BY <2>5, <2>6, <2>7
<1>7. CASE \E s \in Story : EndCheck(s)
      BY <1>7 DEF EndCheck, New, Unlocked, Goto, tables, checking, results, published, history
<1>8. CASE \E s \in Story : Chunk(s)
      BY <1>8 DEF Chunk, Goto, tables, checking, results, published, history
<1>9. CASE \E s \in Story : StreamEnds(s)
      BY <1>9 DEF StreamEnds, Goto, tables, checking, results, published, history
<1>10. CASE \E s \in Story : StreamBreaks(s)
      BY <1>10 DEF StreamBreaks, Goto, tables, checking, results, published, history
<1>11. CASE \E s \in Story : Generate(s)
      BY <1>11 DEF Generate, Goto, tables, checking, results, published, history
<1>12. CASE \E s \in Story : CheckContent(s)
      BY <1>12, KeptInBody, ShelfFits DEF CheckContent, ShelfFits, Goto, tables, checking, results, published, history, Body
<1>13. CASE \E s \in Story : Save(s)
      BY <1>13, ShelvedFinite DEF Save, ShelfFits, Goto, tables, checking, results, published, history
<1>14. CASE \E s \in Story : PublishEvent(s)
      BY <1>14 DEF PublishEvent, Goto, tables, checking, results, published, history
<1>15. CASE \E s \in Story : Answer(s)
      BY <1>15 DEF Answer, Goto, tables, checking, results, published, history
<1>16. CASE \E c \in Companion : Block(c)
      BY <1>16 DEF Block, checking, results, published, history
<1>17. CASE UNCHANGED vars
      BY <1>17 DEF vars
<1> QED BY <1>1, <1>2, <1>3, <1>4, <1>5, <1>6, <1>7, <1>8, <1>9, <1>10, <1>11, <1>12, <1>13, <1>14, <1>15, <1>16, <1>17 DEF Next, Check, Make

-----------------------------------------------------------------------------
(* The shelf and the reads                                                 *)

\* A story that is being made is not on the shelf, one that is told is.
LEMMA ShelfStep == TypeOK /\ ShelfFits /\ [Next]_vars => ShelfFits'
<1> SUFFICES ASSUME TypeOK /\ ShelfFits, [Next]_vars PROVE ShelfFits'
    OBVIOUS
<1> USE DEF TypeOK, TablesTyped, ExecutionsTyped, CheckTyped, HistoryTyped, ShelfFits, Place, Making, Telling, Unlocking, Text
<1>1. CASE \E s \in Story : Begin(s)
      BY <1>1 DEF Begin, Goto, tables, checking, results, published, history
<1>2. CASE \E s \in Story : Fail(s)
      BY <1>2 DEF Fail, Goto, tables, checking, results, published, history
<1>3. CASE \E s \in Story : CountStories(s)
      BY <1>3 DEF CountStories, Goto, tables, checking, results, published, history
<1>4. CASE \E s \in Story : ListUnlocked(s)
      BY <1>4 DEF ListUnlocked, Goto, tables, checking, results, published, history
<1>5. CASE \E s \in Story : ListBlocked(s)
      BY <1>5 DEF ListBlocked, Goto, tables, checking, results, published, history
<1>6. CASE \E s \in Story : Unlock(s)
      BY <1>6 DEF Unlock, Goto, tables, checking, results, published, history
<1>7. CASE \E s \in Story : EndCheck(s)
      BY <1>7 DEF EndCheck, Goto, tables, checking, results, published, history
<1>8. CASE \E s \in Story : Chunk(s)
      BY <1>8 DEF Chunk, Goto, tables, checking, results, published, history
<1>9. CASE \E s \in Story : StreamEnds(s)
      BY <1>9 DEF StreamEnds, Goto, tables, checking, results, published, history
<1>10. CASE \E s \in Story : StreamBreaks(s)
      BY <1>10 DEF StreamBreaks, Goto, tables, checking, results, published, history
<1>11. CASE \E s \in Story : Generate(s)
      BY <1>11 DEF Generate, Goto, tables, checking, results, published, history
<1>12. CASE \E s \in Story : CheckContent(s)
      BY <1>12, KeptInBody DEF CheckContent, Goto, tables, checking, results, published, history, Body
<1>13. CASE \E s \in Story : Save(s)
      BY <1>13 DEF Save, Goto, tables, checking, results, published, history
<1>14. CASE \E s \in Story : PublishEvent(s)
      BY <1>14 DEF PublishEvent, Goto, tables, checking, results, published, history
<1>15. CASE \E s \in Story : Answer(s)
      BY <1>15 DEF Answer, Goto, tables, checking, results, published, history
<1>16. CASE \E c \in Companion : Block(c)
      BY <1>16 DEF Block, checking, results, published, history
<1>17. CASE UNCHANGED vars
      BY <1>17 DEF vars
<1> QED BY <1>1, <1>2, <1>3, <1>4, <1>5, <1>6, <1>7, <1>8, <1>9, <1>10, <1>11, <1>12, <1>13, <1>14, <1>15, <1>16, <1>17 DEF Next, Check, Make

\* Nothing is locked again and nothing unblocked.
LEMMA ReadsStep == TypeOK /\ ReadsHold /\ [Next]_vars => ReadsHold'
<1> SUFFICES ASSUME TypeOK /\ ReadsHold, [Next]_vars PROVE ReadsHold'
    OBVIOUS
<1> USE DEF TypeOK, TablesTyped, ExecutionsTyped, CheckTyped, HistoryTyped, ReadsHold
<1>1. CASE \E s \in Story : Begin(s)
      BY <1>1 DEF Begin, Goto, tables, checking, results, published, history
<1>2. CASE \E s \in Story : Fail(s)
      BY <1>2 DEF Fail, Goto, tables, checking, results, published, history
<1>3. CASE \E s \in Story : CountStories(s)
      BY <1>3 DEF CountStories, Goto, tables, checking, results, published, history
<1>4. CASE \E s \in Story : ListUnlocked(s)
      BY <1>4 DEF ListUnlocked, Goto, tables, checking, results, published, history
<1>5. CASE \E s \in Story : ListBlocked(s)
      BY <1>5 DEF ListBlocked, Goto, tables, checking, results, published, history
<1>6. CASE \E s \in Story : Unlock(s)
      BY <1>6 DEF Unlock, Goto, tables, checking, results, published, history
<1>7. CASE \E s \in Story : EndCheck(s)
      BY <1>7 DEF EndCheck, Goto, tables, checking, results, published, history
<1>8. CASE \E s \in Story : Chunk(s)
      BY <1>8 DEF Chunk, Goto, tables, checking, results, published, history
<1>9. CASE \E s \in Story : StreamEnds(s)
      BY <1>9 DEF StreamEnds, Goto, tables, checking, results, published, history
<1>10. CASE \E s \in Story : StreamBreaks(s)
      BY <1>10 DEF StreamBreaks, Goto, tables, checking, results, published, history
<1>11. CASE \E s \in Story : Generate(s)
      BY <1>11 DEF Generate, Goto, tables, checking, results, published, history
<1>12. CASE \E s \in Story : CheckContent(s)
      BY <1>12 DEF CheckContent, Goto, tables, checking, results, published, history
<1>13. CASE \E s \in Story : Save(s)
      BY <1>13 DEF Save, Goto, tables, checking, results, published, history
<1>14. CASE \E s \in Story : PublishEvent(s)
      BY <1>14 DEF PublishEvent, Goto, tables, checking, results, published, history
<1>15. CASE \E s \in Story : Answer(s)
      BY <1>15 DEF Answer, Goto, tables, checking, results, published, history
<1>16. CASE \E c \in Companion : Block(c)
      BY <1>16 DEF Block, checking, results, published, history
<1>17. CASE UNCHANGED vars
      BY <1>17 DEF vars
<1> QED BY <1>1, <1>2, <1>3, <1>4, <1>5, <1>6, <1>7, <1>8, <1>9, <1>10, <1>11, <1>12, <1>13, <1>14, <1>15, <1>16, <1>17 DEF Next, Check, Make

-----------------------------------------------------------------------------
(* What is due and what is reported                                        *)

\* Without a save the stories on the shelf are the same.
LEMMA SameShelf ==
    ASSUME shelf' = shelf
    PROVE  Shelved' = Shelved
BY DEF Shelved

\* A story that is saved for the first time is one more.
LEMMA OneMore ==
    ASSUME TypeOK, ShelfFits, NEW s \in Story, Save(s)
    PROVE  /\ Cardinality(Shelved) <= Cardinality(Shelved')
           /\ shelf[s] = None => Cardinality(Shelved') = Cardinality(Shelved) + 1
<1>1. text[s] \in Body /\ text[s] # None /\ shelf' = [shelf EXCEPT ![s] = text[s]]
      BY DEF Save, ShelfFits
<1>2. Shelved' = Shelved \cup {s}
      BY <1>1 DEF Shelved, TypeOK, TablesTyped
<1>3. CASE shelf[s] = None
  <2>1. s \notin Shelved
        BY <1>3 DEF Shelved
  <2>2. Cardinality(Shelved') = Cardinality(Shelved) + 1
        BY <1>2, <2>1, ShelvedFinite, FS_AddElement
  <2> QED BY <2>2, ShelvedFinite
<1>4. CASE shelf[s] # None
  <2>1. Shelved' = Shelved
        BY <1>2, <1>4 DEF Shelved
  <2> QED BY <1>4, <2>1, ShelvedFinite
<1> QED BY <1>3, <1>4

\* The count of the check after a story includes it, and grows to no less.
LEMMA DueStep == TypeOK /\ ShelfFits /\ ReadsHold /\ DueGranted /\ [Next]_vars => DueGranted'
<1> SUFFICES ASSUME TypeOK /\ ShelfFits /\ ReadsHold /\ DueGranted, [Next]_vars PROVE DueGranted'
    OBVIOUS
<1> USE DEF TypeOK, TablesTyped, ExecutionsTyped, CheckTyped, HistoryTyped, ReadsHold, DueGranted, DueOf, Telling, Unlocking
<1>1. CASE \E s \in Story : Begin(s)
      BY <1>1, SameShelf DEF Begin, Goto, tables, checking, results, published, history
<1>2. CASE \E s \in Story : Fail(s)
      BY <1>2, SameShelf DEF Fail, Goto, tables, checking, results, published, history
<1>3. CASE \E s \in Story : CountStories(s)
      BY <1>3, SameShelf, ShelvedFinite DEF CountStories, Goto, tables, checking, results, published, history
<1>4. CASE \E s \in Story : ListUnlocked(s)
      BY <1>4, SameShelf DEF ListUnlocked, Goto, tables, checking, results, published, history
<1>5. CASE \E s \in Story : ListBlocked(s)
      BY <1>5, SameShelf DEF ListBlocked, Goto, tables, checking, results, published, history
<1>6. CASE \E s \in Story : Unlock(s)
      BY <1>6, SameShelf DEF Unlock, Goto, tables, checking, results, published, history
<1>7. CASE \E s \in Story : EndCheck(s)
  <2>1. PICK s \in Story : EndCheck(s)
        BY <1>7
  <2>2. Shelved' = Shelved /\ UNCHANGED <<unlocked, blocked, round, rank>>
        BY <2>1, SameShelf DEF EndCheck, tables, history
  <2>3. at[s] = "unlock" /\ \A r \in Story : r # s => at'[r] = at[r] /\ counted'[r] = counted[r]
        BY <2>1 DEF EndCheck, Goto
  <2>4. /\ at'[s] \in {"stream", "events"}
        /\ at'[s] = "events" => round[s] = "after"
        BY <2>1 DEF EndCheck, Goto
  <2>5. round[s] = "after" => DueOf(s) \subseteq unlocked \cup blocked
    <3>1. Due(s) = {}
          BY <2>1 DEF EndCheck
    <3> QED BY <2>3, <3>1 DEF Due
  <2>6. DueOf(s)' = DueOf(s)
        BY <2>2
  <2> QED BY <2>2, <2>3, <2>4, <2>5, <2>6
<1>8. CASE \E s \in Story : Chunk(s)
      BY <1>8, SameShelf DEF Chunk, Goto, tables, checking, results, published, history
<1>9. CASE \E s \in Story : StreamEnds(s)
      BY <1>9, SameShelf DEF StreamEnds, Goto, tables, checking, results, published, history
<1>10. CASE \E s \in Story : StreamBreaks(s)
      BY <1>10, SameShelf DEF StreamBreaks, Goto, tables, checking, results, published, history
<1>11. CASE \E s \in Story : Generate(s)
      BY <1>11, SameShelf DEF Generate, Goto, tables, checking, results, published, history
<1>12. CASE \E s \in Story : CheckContent(s)
      BY <1>12, SameShelf DEF CheckContent, Goto, tables, checking, results, published, history
<1>13. CASE \E s \in Story : Save(s)
  <2>1. PICK s \in Story : Save(s)
        BY <1>13
  <2>2. \A r \in Story : rank'[r] <= Cardinality(Shelved')
    <3>1. /\ Cardinality(Shelved) <= Cardinality(Shelved')
          /\ shelf[s] = None => Cardinality(Shelved') = Cardinality(Shelved) + 1
          BY <2>1, OneMore
    <3>2. rank' = [rank EXCEPT ![s] = IF shelf[s] = None THEN Cardinality(Shelved) + 1
                                                         ELSE rank[s]]
          BY <2>1 DEF Save
    <3>3. Cardinality(Shelved) \in Nat /\ Cardinality(Shelved') \in Nat
          BY ShelvedFinite, FS_Subset, FS_CardinalityType DEF Shelved
    <3> QED BY <3>1, <3>2, <3>3
  <2>3. \A r \in Story : /\ at'[r] \in Unlocking \ {"count"} => at'[r] = at[r]
                         /\ at'[r] \in Telling => at'[r] = at[r]
                         /\ r # s => rank'[r] = rank[r] /\ round'[r] = round[r]
        BY <2>1 DEF Save, Goto
  <2>4. at[s] = "save" /\ UNCHANGED <<unlocked, blocked, counted>>
        BY <2>1 DEF Save, checking
  <2> QED BY <2>2, <2>3, <2>4
<1>14. CASE \E s \in Story : PublishEvent(s)
      BY <1>14, SameShelf DEF PublishEvent, Goto, tables, checking, results, published, history
<1>15. CASE \E s \in Story : Answer(s)
      BY <1>15, SameShelf DEF Answer, Goto, tables, checking, results, published, history
<1>16. CASE \E c \in Companion : Block(c)
      BY <1>16, SameShelf DEF Block, checking, results, published, history
<1>17. CASE UNCHANGED vars
      BY <1>17, SameShelf DEF vars
<1> QED BY <1>1, <1>2, <1>3, <1>4, <1>5, <1>6, <1>7, <1>8, <1>9, <1>10, <1>11, <1>12, <1>13, <1>14, <1>15, <1>16, <1>17 DEF Next, Check, Make

\* What was reported stays unlocked: later checks list it before their stories.
LEMMA ReportStep == TypeOK /\ ShelfFits /\ ReadsHold /\ ReportsApart /\ [Next]_vars => ReportsApart'
<1> SUFFICES ASSUME TypeOK /\ ShelfFits /\ ReadsHold /\ ReportsApart, [Next]_vars PROVE ReportsApart'
    OBVIOUS
<1> USE DEF TypeOK, TablesTyped, ExecutionsTyped, CheckTyped, HistoryTyped, ShelfFits, ReadsHold, ReportsApart, EarlierFound, Making, Telling, Past, Unlocking, New, Unlocked
<1>1. CASE \E s \in Story : Begin(s)
      BY <1>1 DEF Begin, Goto, tables, checking, results, published, history
<1>2. CASE \E s \in Story : Fail(s)
      BY <1>2 DEF Fail, Goto, tables, checking, results, published, history
<1>3. CASE \E s \in Story : CountStories(s)
      BY <1>3 DEF CountStories, Goto, tables, checking, results, published, history
<1>4. CASE \E s \in Story : ListUnlocked(s)
      BY <1>4 DEF ListUnlocked, Goto, tables, checking, results, published, history
<1>5. CASE \E s \in Story : ListBlocked(s)
      BY <1>5 DEF ListBlocked, Goto, tables, checking, results, published, history
<1>6. CASE \E s \in Story : Unlock(s)
      BY <1>6 DEF Unlock, Goto, tables, checking, results, published, history
<1>7. CASE \E s \in Story : EndCheck(s)
      BY <1>7 DEF EndCheck, Goto, tables, checking, results, published, history
<1>8. CASE \E s \in Story : Chunk(s)
      BY <1>8 DEF Chunk, Goto, tables, checking, results, published, history
<1>9. CASE \E s \in Story : StreamEnds(s)
      BY <1>9 DEF StreamEnds, Goto, tables, checking, results, published, history
<1>10. CASE \E s \in Story : StreamBreaks(s)
      BY <1>10 DEF StreamBreaks, Goto, tables, checking, results, published, history
<1>11. CASE \E s \in Story : Generate(s)
      BY <1>11 DEF Generate, Goto, tables, checking, results, published, history
<1>12. CASE \E s \in Story : CheckContent(s)
      BY <1>12 DEF CheckContent, Goto, tables, checking, results, published, history
<1>13. CASE \E s \in Story : Save(s)
      BY <1>13 DEF Save, Goto, tables, checking, results, published, history
<1>14. CASE \E s \in Story : PublishEvent(s)
      BY <1>14 DEF PublishEvent, Goto, tables, checking, results, published, history
<1>15. CASE \E s \in Story : Answer(s)
      BY <1>15 DEF Answer, Goto, tables, checking, results, published, history
<1>16. CASE \E c \in Companion : Block(c)
      BY <1>16 DEF Block, checking, results, published, history
<1>17. CASE UNCHANGED vars
      BY <1>17 DEF vars
<1> QED BY <1>1, <1>2, <1>3, <1>4, <1>5, <1>6, <1>7, <1>8, <1>9, <1>10, <1>11, <1>12, <1>13, <1>14, <1>15, <1>16, <1>17 DEF Next, Check, Make

-----------------------------------------------------------------------------
(* The promise                                                             *)

\* A step that ends no execution leaves the outcomes.
LEMMA SameOutcome ==
    ASSUME NEW s \in Story, NEW p, Goto(s, p), TypeOK,
           p \notin {"told", "failed"}, at[s] \notin {"told", "failed"}
    PROVE  Outcome' = Outcome
BY DEF Goto, Outcome, TypeOK, ExecutionsTyped

\* An execution that ends changes its own outcome only.
LEMMA EndOutcome ==
    ASSUME NEW s \in Story, NEW p \in {"told", "failed"}, Goto(s, p), TypeOK
    PROVE  Outcome' = [Outcome EXCEPT ![s] = p]
BY DEF Goto, Outcome, TypeOK, ExecutionsTyped

\* Nothing is promised before the first story.
LEMMA PromiseInit == Init => P!Init
BY DEF Init, P!Init, Outcome

\* Every step is one of the promise or changes nothing of it.
LEMMA PromiseStep == TypeOK /\ ShelfFits /\ [Next]_vars => [P!Next]_P!vars
<1> SUFFICES ASSUME TypeOK, ShelfFits, [Next]_vars PROVE [P!Next]_P!vars
    OBVIOUS
<1>1. CASE \E s \in Story : Begin(s)
  <2>1. PICK s \in Story : Begin(s)
        BY <1>1
  <2> QED BY <2>1, SameOutcome DEF Begin, P!vars, tables, published
<1>2. CASE \E s \in Story : Fail(s)
  <2>1. PICK s \in Story : Fail(s)
        BY <1>2
  <2>2. P!GiveUp(s)
        BY <2>1, EndOutcome DEF Fail, P!GiveUp, Outcome, tables, published
  <2> QED BY <2>2 DEF P!Next
<1>3. CASE \E s \in Story : CountStories(s)
  <2>1. PICK s \in Story : CountStories(s)
        BY <1>3
  <2> QED BY <2>1, SameOutcome DEF CountStories, P!vars, tables, published
<1>4. CASE \E s \in Story : ListUnlocked(s)
  <2>1. PICK s \in Story : ListUnlocked(s)
        BY <1>4
  <2> QED BY <2>1, SameOutcome DEF ListUnlocked, P!vars, tables, published
<1>5. CASE \E s \in Story : ListBlocked(s)
  <2>1. PICK s \in Story : ListBlocked(s)
        BY <1>5
  <2> QED BY <2>1, SameOutcome DEF ListBlocked, P!vars, tables, published
<1>6. CASE \E s \in Story : Unlock(s)
      BY <1>6 DEF Unlock, P!vars, Outcome, published
<1>7. CASE \E s \in Story : EndCheck(s)
  <2>1. PICK s \in Story : EndCheck(s)
        BY <1>7
  <2> QED BY <2>1, SameOutcome DEF EndCheck, P!vars, tables, published
<1>8. CASE \E s \in Story : Chunk(s)
  <2>1. PICK s \in Story : Chunk(s)
        BY <1>8
  <2>2. P!Chunk(s)
        BY <2>1 DEF Chunk, P!Chunk, Outcome, ShelfFits, Making, tables
  <2> QED BY <2>2 DEF P!Next
<1>9. CASE \E s \in Story : StreamEnds(s)
  <2>1. PICK s \in Story : StreamEnds(s)
        BY <1>9
  <2> QED BY <2>1, SameOutcome DEF StreamEnds, P!vars, tables, published
<1>10. CASE \E s \in Story : StreamBreaks(s)
  <2>1. PICK s \in Story : StreamBreaks(s)
        BY <1>10
  <2> QED BY <2>1, SameOutcome DEF StreamBreaks, P!vars, tables, published
<1>11. CASE \E s \in Story : Generate(s)
  <2>1. PICK s \in Story : Generate(s)
        BY <1>11
  <2> QED BY <2>1, SameOutcome DEF Generate, P!vars, tables, published
<1>12. CASE \E s \in Story : CheckContent(s)
  <2>1. PICK s \in Story : CheckContent(s)
        BY <1>12
  <2>2. UNCHANGED <<shelf, chunks, events>> /\ at[s] = "check"
        BY <2>1 DEF CheckContent, tables, published
  <2>3. CASE Goto(s, "save")
        BY <2>2, <2>3, SameOutcome DEF P!vars
  <2>4. CASE Goto(s, "failed")
    <3>1. P!GiveUp(s)
          BY <2>2, <2>4, EndOutcome DEF P!GiveUp, Outcome
    <3> QED BY <3>1 DEF P!Next
  <2> QED BY <2>1, <2>3, <2>4 DEF CheckContent
<1>13. CASE \E s \in Story : Save(s)
  <2>1. PICK s \in Story : Save(s)
        BY <1>13
  <2>2. /\ at[s] = "save" /\ text[s] \in Body /\ shelf[s] \in {None, text[s]}
        /\ shelf' = [shelf EXCEPT ![s] = text[s]]
        /\ UNCHANGED <<chunks, events>>
        BY <2>1 DEF Save, ShelfFits, published
  <2>3. Outcome' = Outcome
        BY <2>1, <2>2, SameOutcome DEF Save, Outcome
  <2>4. CASE shelf[s] = None
    <3>1. P!Shelve(s)
          BY <2>2, <2>3, <2>4 DEF P!Shelve, Outcome
    <3> QED BY <3>1 DEF P!Next
  <2>5. CASE shelf[s] = text[s]
        BY <2>2, <2>3, <2>5 DEF P!vars, TypeOK, TablesTyped
  <2> QED BY <2>2, <2>4, <2>5
<1>14. CASE \E s \in Story : PublishEvent(s)
  <2>1. PICK s \in Story : PublishEvent(s)
        BY <1>14
  <2>2. P!Event(s)
        BY <2>1 DEF PublishEvent, P!Event, Outcome, ShelfFits, Telling, tables
  <2> QED BY <2>2 DEF P!Next
<1>15. CASE \E s \in Story : Answer(s)
  <2>1. PICK s \in Story : Answer(s)
        BY <1>15
  <2>2. P!Tell(s)
        BY <2>1, EndOutcome DEF Answer, P!Tell, Outcome, tables, published
  <2> QED BY <2>2 DEF P!Next
<1>16. CASE \E c \in Companion : Block(c)
      BY <1>16 DEF Block, P!vars, Outcome, published
<1>17. CASE UNCHANGED vars
      BY <1>17 DEF vars, P!vars, Outcome
<1> QED BY <1>1, <1>2, <1>3, <1>4, <1>5, <1>6, <1>7, <1>8, <1>9, <1>10, <1>11, <1>12, <1>13, <1>14, <1>15, <1>16, <1>17 DEF Next, Check, Make

-----------------------------------------------------------------------------
(* Theorems                                                                *)

\* Without stories the invariant holds.
LEMMA InvInit == Init => Inv
<1> SUFFICES ASSUME Init PROVE Inv
    OBVIOUS
<1>1. TypeOK
      BY TypeInit
<1>2. ShelfFits /\ ReadsHold
      BY DEF Init, ShelfFits, ReadsHold, Making, Unlocking, Telling
<1>3. DueGranted
      BY ShelvedFinite DEF Init, DueGranted, Telling, Unlocking
<1>4. ReportsApart
      BY DEF Init, ReportsApart
<1> QED BY <1>1, <1>2, <1>3, <1>4 DEF Inv

\* Every step keeps the invariant.
LEMMA InvStep == Inv /\ [Next]_vars => Inv'
BY TypeStep, ShelfStep, ReadsStep, DueStep, ReportStep DEF Inv

\* It holds in every reachable state.
LEMMA Invariance == Spec => []Inv
<1> QED BY InvInit, InvStep, PTL DEF Spec

\* The database, the executions and what they report stay in their types;
\* only a body that was checked, or the fallback, is ever stored.
THEOREM TypeCorrect == Spec => []TypeOK
BY Invariance, PTL DEF Inv

\* Who is told a story has every companion it was due, whatever other
\* executions of the user did between the reads of its check.
THEOREM DueAlwaysUnlocked == Spec => []DueAreUnlocked
<1>1. Inv => DueAreUnlocked
      BY DEF Inv, DueGranted, DueAreUnlocked, DueOf, Telling
<1> QED BY <1>1, Invariance, PTL

\* A story does not report what one told before it began has reported.
THEOREM NeverReportedTwice == Spec => []NoDoubleReport
<1>1. Inv => NoDoubleReport
      BY DEF Inv, ReportsApart, EarlierFound, NoDoubleReport
<1> QED BY <1>1, Invariance, PTL

\* The use case implements the promise: chunks before the shelf, events
\* after it, in order, and an answer only after them all.
THEOREM KeepsPromise == Spec => ImplementsPromise
<1>1. Inv /\ [Next]_vars => [P!Next]_P!vars
      BY PromiseStep DEF Inv
<1> QED BY <1>1, PromiseInit, Invariance, PTL DEF Spec, ImplementsPromise, P!Spec

=============================================================================

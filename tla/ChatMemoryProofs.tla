-------------------------- MODULE ChatMemoryProofs --------------------------
(***************************************************************************)
(* The properties of ChatMemory for any turns and deletions, any number of *)
(* requests under way at once and any number of restarts.                  *)
(***************************************************************************)
EXTENDS ChatMemory, SequenceTheorems, TLAPS

-----------------------------------------------------------------------------
(* The inductive invariant *)

Unanswered == {"countMemories", "scan", "fillIn", "answer"}
TurnStages == {"idle", "ask", "countMemories", "scan", "fillIn", "answer",
               "findMemory", "createMemory", "embed", "index", "done"}
DeleterStages == {"idle", "readMemories", "deleteRows", "deleteVectors", "done"}

Types ==
  /\ vectors \subseteq Memories /\ saved \subseteq Memories
  /\ memories \subseteq Memories /\ embedded \subseteq memories
  /\ live \in BOOLEAN /\ overlapped \in BOOLEAN /\ unclean \in BOOLEAN
  /\ messages \in Seq([turn : Turns, role : Roles])
  /\ pc \in [Requests -> TurnStages \cup DeleterStages]
  /\ \A t \in Turns : pc[t] \in TurnStages
  /\ \A d \in Deleters : pc[d] \in DeleterStages
  /\ held \in [Requests -> SUBSET Memories] /\ met \in [Turns -> SUBSET Turns]
  /\ answered \subseteq Turns /\ unsaved \subseteq answered /\ unindexed \subseteq Memories
  /\ \A t \in Turns : pc[t] \in {"findMemory", "createMemory", "embed", "index"} => t \in answered
  /\ crashes \in 0..MaxCrashes

\* A turn has said what its stage is past, and once.
SaidOnce ==
  /\ \A i, j \in 1..Len(messages) : messages[i] = messages[j] => i = j
  /\ \A i \in 1..Len(messages) :
       pc[messages[i].turn] \notin {"idle", "ask"} \cup
         (IF messages[i].role = "assistant" THEN Unanswered ELSE {})
  /\ \A t \in answered : pc[t] \notin {"idle", "ask"} \cup Unanswered

HaveMet(u, t) == u = t \/ u \in met[t]

\* Turns under way together have met; whoever asked last has met the turns
\* that asked and have no answer yet; a pair has met.
OpenHaveMet ==
  /\ \A t, u \in Turns \cap Open : HaveMet(u, t)
  /\ \A t \in Turns : At(t, "idle") => met[t] = {}
LastHasMet ==
  messages # <<>> /\ messages[Len(messages)].role = "user" =>
    \A t \in Turns : pc[t] \in Unanswered => HaveMet(messages[Len(messages)].turn, t)
PairsHaveMet ==
  /\ \A i \in Paired(messages) : HaveMet(messages[i].turn, messages[i+1].turn)
  /\ \A t \in Turns : At(t, "fillIn") => \A row \in held[t] : HaveMet(row.user, row.assistant)

\* Past its memory, an answered turn is remembered.
PastIsRemembered ==
  live => \A t \in answered :
    pc[t] \in {"embed", "index", "done"} =>
      \/ \E row \in memories : row.user = t /\ row.assistant = t
      \/ t \in unsaved
      \/ \E row \in memories : t \in {row.user, row.assistant} /\ row.user # row.assistant

\* A row is made once, and what a deletion took away does not come back.
Made(row) ==
  IF row.scan THEN pc[row.by] \notin {"idle", "ask", "countMemories", "scan", "fillIn"}
              ELSE pc[row.by] \in {"embed", "index", "done"}
RowsAreMade ==
  /\ \A row \in memories : Made(row)
  /\ \A d \in Deleters : \A row \in held[d] : Made(row)
  /\ \A t \in Turns : At(t, "fillIn") => \A row \in held[t] : row.by = t /\ row.scan
DeletedIsGone == \A d \in Deleters : At(d, "deleteVectors") => held[d] \cap memories = {}

\* A memory is indexed by the turn of its answer only, and once.
IndexedOnce ==
  /\ \A row \in vectors \cup saved : pc[row.assistant] = "done"
  /\ \A t \in Turns : pc[t] \in {"embed", "index"} => \A row \in held[t] : row.assistant = t

\* Without an overlap, a deletion is alone and holds all there is to delete.
DeletionIsAlone ==
  ~overlapped =>
    /\ Open \cap Turns = {} \/ Open \cap Deleters = {}
    /\ ~live => Open \cap Turns = {} /\ messages = <<>> /\ memories = {}
    /\ \A d \in Deleters : At(d, "deleteRows") => memories \subseteq held[d]
    /\ \A t \in Turns : pc[t] \in {"embed", "index"} => held[t] \subseteq memories
FileFollows == ~unclean => saved \subseteq vectors
OrphansAreHeld ==
  ~overlapped /\ ~unclean =>
    \A row \in vectors \ memories : \E d \in Deleters : At(d, "deleteVectors") /\ row \in held[d]

IInv ==
  /\ Types /\ SaidOnce
  /\ OpenHaveMet /\ LastHasMet /\ PairsHaveMet /\ AnswerKeepsItsQuestion
  /\ PastIsRemembered
  /\ RowsAreMade /\ DeletedIsGone /\ IndexedIsSearchable
  /\ IndexedOnce /\ DeletionIsAlone /\ FileFollows /\ OrphansAreHeld

-----------------------------------------------------------------------------
LEMMA MemoryIsMemory ==
  ASSUME NEW u \in Turns, NEW a \in Turns, NEW b \in Turns, NEW s \in BOOLEAN
  PROVE  Memory(u, a, b, s) \in Memories
BY DEF Memory, Memories

LEMMA PairsAreMessages ==
  ASSUME Types, NEW i \in Paired(messages)
  PROVE  /\ i \in 1..Len(messages) /\ i+1 \in 1..Len(messages)
         /\ messages[i].turn \in Turns /\ messages[i+1].turn \in Turns
<1>1. Len(messages) \in Nat
  BY DEF Types
<1>2. i \in 1..Len(messages) /\ i+1 \in 1..Len(messages)
  BY <1>1 DEF Paired
<1>3. messages \in Seq([turn : Turns, role : Roles])
  BY DEF Types
<1>4. messages[i] \in [turn : Turns, role : Roles] /\ messages[i+1] \in [turn : Turns, role : Roles]
  BY <1>2, <1>3, ElementOfSeq
<1> QED
  BY <1>2, <1>4

\* A turn that makes its memory, or finds that its row is taken.
LEMMA CreateMemoryEffect ==
  ASSUME Types, NEW t \in Turns, CreateMemory(t)
  PROVE  /\ pc[t] = "createMemory"
         /\ UNCHANGED <<vectors, saved, live, messages, embedded, crashes, met, overlapped,
                        answered, unsaved, unindexed, unclean>>
         /\ \/ /\ pc' = [pc EXCEPT ![t] = "done"] /\ memories' = memories /\ held' = held
               /\ \E old \in memories : old.assistant = t \/ old.user = t
            \/ /\ pc' = [pc EXCEPT ![t] = "embed"]
               /\ memories' = memories \cup {Memory(t, t, t, FALSE)}
               /\ held' = [held EXCEPT ![t] = {Memory(t, t, t, FALSE)}]
<1> DEFINE mine == Memory(t, t, t, FALSE)
<1>1. /\ pc[t] = "createMemory"
      /\ UNCHANGED <<vectors, saved, live, messages, embedded, crashes, met, overlapped,
                     answered, unsaved, unindexed, unclean>>
  BY DEF CreateMemory, At, indexVars, historyVars
<1>2. CASE Known(mine) \/ QuestionTaken(mine)
  <2>1. pc' = [pc EXCEPT ![t] = "done"] /\ memories' = memories /\ held' = held
    BY <1>2 DEF CreateMemory, Goto
  <2>2. \E old \in memories : old.assistant = t \/ old.user = t
    BY <1>2 DEF Known, QuestionTaken, Memory
  <2> QED
    BY <1>1, <2>1, <2>2
<1>3. CASE ~(Known(mine) \/ QuestionTaken(mine))
  BY <1>1, <1>3 DEF CreateMemory, Goto, Hold
<1> QED
  BY <1>2, <1>3

\* A restart ends what was under way and changes no row.
LEMMA CrashEffect ==
  ASSUME Types, Crash
  PROVE  /\ pc' = [r \in Requests |-> IF pc[r] = "idle" THEN "idle" ELSE "done"]
         /\ held' = [r \in Requests |-> {}]
         /\ vectors' = saved
         /\ UNCHANGED <<saved, live, messages, memories, embedded, met, overlapped, answered,
                        unindexed>>
  BY DEF Types, Crash, Open, Reopen, rowVars

LEMMA NextTypes == Types /\ [Next]_vars => Types'
<1> SUFFICES ASSUME Types, [Next]_vars PROVE Types'
  OBVIOUS
<1> USE ChatAssumption DEF Types, Requests, TurnStages, DeleterStages, Roles
<1>1. ASSUME NEW r \in Requests, Find(r) PROVE Types'
  <2>1. overlapped' \in BOOLEAN
    BY <1>1, Zenon DEF Find
  <2>2. met' \in [Turns -> SUBSET Turns]
    BY <1>1 DEF Find, Open
  <2> QED
    BY <1>1, <2>1, <2>2 DEF Find, At, Goto, Hold, indexVars, rowVars, historyVars
<1>2. ASSUME NEW t \in Turns, Ask(t) PROVE Types'
  BY <1>2 DEF Ask, At, Goto, Hold, Message, indexVars, rowVars, historyVars
<1>3. ASSUME NEW t \in Turns, CountMemories(t) PROVE Types'
  BY <1>3 DEF CountMemories, At, Goto, Hold, indexVars, rowVars, historyVars
<1>4. ASSUME NEW t \in Turns, Scan(t) PROVE Types'
  <2>1. held' \in [Requests -> SUBSET Memories]
    <3> DEFINE found == {Memory(messages[i].turn, messages[i+1].turn, t, TRUE) : i \in Paired(messages)}
    <3>1. \A i \in Paired(messages) : messages[i].turn \in Turns /\ messages[i+1].turn \in Turns
      BY PairsAreMessages
    <3>2. found \subseteq Memories
      <4> SUFFICES ASSUME NEW i \in Paired(messages)
                   PROVE  Memory(messages[i].turn, messages[i+1].turn, t, TRUE) \in Memories
        OBVIOUS
      <4> QED
        BY <3>1, MemoryIsMemory
    <3>3. held' = [held EXCEPT ![t] = found]
      BY <1>4, Zenon DEF Scan, Hold
    <3> HIDE DEF found
    <3> QED
      BY <3>2, <3>3
  <2>2. pc' = [pc EXCEPT ![t] = "answer"] \/ pc' = [pc EXCEPT ![t] = "fillIn"]
    BY <1>4 DEF Scan, Goto
  <2> QED
    BY <1>4, <2>1, <2>2, Zenon DEF Scan, At, indexVars, rowVars, historyVars
<1>5. ASSUME NEW t \in Turns, FillIn(t) PROVE Types'
  BY <1>5 DEF FillIn, At, Goto, Hold, indexVars, rowVars, historyVars
<1>6. ASSUME NEW t \in Turns, RecallFails(t) PROVE Types'
  BY <1>6 DEF RecallFails, At, Goto, Hold, indexVars, rowVars, historyVars
<1>7. ASSUME NEW t \in Turns, CommitAnswer(t) PROVE Types'
  BY <1>7 DEF CommitAnswer, At, Goto, Hold, Message, indexVars, rowVars, historyVars
<1>8. ASSUME NEW t \in Turns, FindMemory(t) PROVE Types'
  BY <1>8 DEF FindMemory, At, Goto, Hold, indexVars, rowVars, historyVars
<1>9. ASSUME NEW t \in Turns, CreateMemory(t) PROVE Types'
  <2> DEFINE row == Memory(t, t, t, FALSE)
  <2>1. row \in Memories /\ row.user = t /\ row.assistant = t /\ row.by = t /\ row.scan = FALSE
    BY MemoryIsMemory DEF Memory
  <2>2. /\ pc[t] = "createMemory"
        /\ UNCHANGED <<vectors, saved, live, messages, embedded, crashes, met, overlapped,
                       answered, unsaved, unindexed, unclean>>
        /\ \/ /\ pc' = [pc EXCEPT ![t] = "done"] /\ memories' = memories /\ held' = held
              /\ \E old \in memories : old.assistant = t \/ old.user = t
           \/ /\ pc' = [pc EXCEPT ![t] = "embed"]
              /\ memories' = memories \cup {row} /\ held' = [held EXCEPT ![t] = {row}]
    BY <1>9, CreateMemoryEffect, Zenon
  <2> HIDE DEF row
  <2> QED
    BY <2>1, <2>2
<1>10. ASSUME NEW t \in Turns, Embed(t) PROVE Types'
  BY <1>10 DEF Embed, At, Goto, Hold, indexVars, rowVars, historyVars
<1>11. ASSUME NEW t \in Turns, Index(t) PROVE Types'
  BY <1>11 DEF Index, At, Goto, Hold, Upsert, indexVars, rowVars, historyVars
<1>12. ASSUME NEW t \in Turns, IndexFails(t) PROVE Types'
  BY <1>12 DEF IndexFails, At, Goto, Hold, UpsertFails, indexVars, rowVars, historyVars
<1>13. ASSUME NEW t \in Turns, TurnEnds(t) PROVE Types'
  BY <1>13 DEF TurnEnds, At, Goto, Hold, indexVars, rowVars, historyVars
<1>14. ASSUME NEW d \in Deleters, ReadMemories(d) PROVE Types'
  BY <1>14 DEF ReadMemories, At, Goto, Hold, indexVars, rowVars, historyVars
<1>15. ASSUME NEW d \in Deleters, DeleteRows(d) PROVE Types'
  <2>1. live' \in BOOLEAN
    BY <1>15, Zenon DEF DeleteRows
  <2>2. messages' \in Seq([turn : Turns, role : Roles])
    BY <1>15 DEF DeleteRows
  <2> QED
    BY <1>15, <2>1, <2>2 DEF DeleteRows, At, Goto, indexVars, rowVars, historyVars
<1>16. ASSUME NEW d \in Deleters, DeleteVectors(d) PROVE Types'
  BY <1>16 DEF DeleteVectors, At, Goto, Hold, Delete, indexVars, rowVars, historyVars
<1>17. ASSUME NEW d \in Deleters, DeleteVectorsFails(d) PROVE Types'
  BY <1>17 DEF DeleteVectorsFails, At, Goto, Hold, DeleteFails, indexVars, rowVars, historyVars
<1>18. ASSUME NEW d \in Deleters, DeletionEnds(d) PROVE Types'
  BY <1>18 DEF DeletionEnds, At, Goto, Hold, indexVars, rowVars, historyVars
<1>19. CASE Crash
  <2>1. unclean' \in BOOLEAN
    BY <1>19, Zenon DEF Crash
  <2>2. /\ pc' \in [Requests -> TurnStages \cup DeleterStages]
        /\ \A r \in Requests : pc'[r] \in {pc[r], "done"}
    BY <1>19 DEF Crash, Open
  <2>3. held' \in [Requests -> SUBSET Memories]
    BY <1>19 DEF Crash
  <2> QED
    BY <1>19, <2>1, <2>2, <2>3 DEF Crash, Reopen, At, indexVars, rowVars, historyVars
<1>20. CASE UNCHANGED vars
  BY <1>20 DEF vars, indexVars, rowVars, historyVars
<1> QED
  BY <1>1, <1>2, <1>3, <1>4, <1>5, <1>6, <1>7, <1>8, <1>9, <1>10, <1>11,
     <1>12, <1>13, <1>14, <1>15, <1>16, <1>17, <1>18, <1>19, <1>20
  DEF Next, TurnNext, DeleterNext

LEMMA MessagesAreOfTurns ==
  ASSUME Types, NEW i \in 1..Len(messages) PROVE messages[i].turn \in Turns
<1>1. messages \in Seq([turn : Turns, role : Roles])
  BY DEF Types
<1>2. messages[i] \in [turn : Turns, role : Roles]
  BY <1>1, ElementOfSeq
<1> QED
  BY <1>2

LEMMA NextSaidOnce == Types /\ SaidOnce /\ [Next]_vars => SaidOnce'
<1> SUFFICES ASSUME Types, SaidOnce, [Next]_vars PROVE SaidOnce'
  OBVIOUS
<1> USE ChatAssumption DEF Types, Requests, TurnStages, DeleterStages, Unanswered, Roles, SaidOnce
<1>1. ASSUME NEW r \in Requests, Find(r) PROVE SaidOnce'
  BY <1>1 DEF Find, At, Goto, Hold, indexVars, rowVars, historyVars
<1>2. ASSUME NEW t \in Turns, Ask(t) PROVE SaidOnce'
  BY <1>2 DEF Ask, At, Goto, Hold, Message, indexVars, rowVars, historyVars
<1>3. ASSUME NEW t \in Turns, CountMemories(t) PROVE SaidOnce'
  BY <1>3 DEF CountMemories, At, Goto, Hold, indexVars, rowVars, historyVars
<1>4. ASSUME NEW t \in Turns, Scan(t) PROVE SaidOnce'
  BY <1>4 DEF Scan, At, Goto, Hold, indexVars, rowVars, historyVars
<1>5. ASSUME NEW t \in Turns, FillIn(t) PROVE SaidOnce'
  BY <1>5 DEF FillIn, At, Goto, Hold, indexVars, rowVars, historyVars
<1>6. ASSUME NEW t \in Turns, RecallFails(t) PROVE SaidOnce'
  BY <1>6 DEF RecallFails, At, Goto, Hold, indexVars, rowVars, historyVars
<1>7. ASSUME NEW t \in Turns, CommitAnswer(t) PROVE SaidOnce'
  BY <1>7 DEF CommitAnswer, At, Goto, Hold, Message, indexVars, rowVars, historyVars
<1>8. ASSUME NEW t \in Turns, FindMemory(t) PROVE SaidOnce'
  BY <1>8 DEF FindMemory, At, Goto, Hold, indexVars, rowVars, historyVars
<1>9. ASSUME NEW t \in Turns, CreateMemory(t) PROVE SaidOnce'
  <2> DEFINE row == Memory(t, t, t, FALSE)
  <2>1. row \in Memories /\ row.user = t /\ row.assistant = t /\ row.by = t /\ row.scan = FALSE
    BY MemoryIsMemory DEF Memory
  <2>2. /\ pc[t] = "createMemory"
        /\ UNCHANGED <<vectors, saved, live, messages, embedded, crashes, met, overlapped,
                       answered, unsaved, unindexed, unclean>>
        /\ \/ /\ pc' = [pc EXCEPT ![t] = "done"] /\ memories' = memories /\ held' = held
              /\ \E old \in memories : old.assistant = t \/ old.user = t
           \/ /\ pc' = [pc EXCEPT ![t] = "embed"]
              /\ memories' = memories \cup {row} /\ held' = [held EXCEPT ![t] = {row}]
    BY <1>9, CreateMemoryEffect, Zenon
  <2> HIDE DEF row
  <2>3. \A i \in 1..Len(messages) : messages[i].turn \in Turns
    BY MessagesAreOfTurns
  <2> QED
    BY <2>3, <2>1, <2>2
<1>10. ASSUME NEW t \in Turns, Embed(t) PROVE SaidOnce'
  BY <1>10 DEF Embed, At, Goto, Hold, indexVars, rowVars, historyVars
<1>11. ASSUME NEW t \in Turns, Index(t) PROVE SaidOnce'
  BY <1>11 DEF Index, At, Goto, Hold, Upsert, indexVars, rowVars, historyVars
<1>12. ASSUME NEW t \in Turns, IndexFails(t) PROVE SaidOnce'
  BY <1>12 DEF IndexFails, At, Goto, Hold, UpsertFails, indexVars, rowVars, historyVars
<1>13. ASSUME NEW t \in Turns, TurnEnds(t) PROVE SaidOnce'
  BY <1>13 DEF TurnEnds, At, Goto, Hold, indexVars, rowVars, historyVars
<1>14. ASSUME NEW d \in Deleters, ReadMemories(d) PROVE SaidOnce'
  BY <1>14 DEF ReadMemories, At, Goto, Hold, indexVars, rowVars, historyVars
<1>15. ASSUME NEW d \in Deleters, DeleteRows(d) PROVE SaidOnce'
  BY <1>15 DEF DeleteRows, At, Goto, Hold, indexVars, rowVars, historyVars
<1>16. ASSUME NEW d \in Deleters, DeleteVectors(d) PROVE SaidOnce'
  BY <1>16 DEF DeleteVectors, At, Goto, Hold, Delete, indexVars, rowVars, historyVars
<1>17. ASSUME NEW d \in Deleters, DeleteVectorsFails(d) PROVE SaidOnce'
  BY <1>17 DEF DeleteVectorsFails, At, Goto, Hold, DeleteFails, indexVars, rowVars, historyVars
<1>18. ASSUME NEW d \in Deleters, DeletionEnds(d) PROVE SaidOnce'
  BY <1>18 DEF DeletionEnds, At, Goto, Hold, indexVars, rowVars, historyVars
<1>19. CASE Crash
  <2>1. /\ pc' = [r \in Requests |-> IF pc[r] = "idle" THEN "idle" ELSE "done"]
        /\ held' = [r \in Requests |-> {}]
        /\ vectors' = saved
        /\ UNCHANGED <<saved, live, messages, memories, embedded, met, overlapped, answered,
                       unindexed>>
    BY <1>19, CrashEffect
  <2>3. \A i \in 1..Len(messages) : messages[i].turn \in Turns
    BY MessagesAreOfTurns
  <2> QED
    BY <2>3, <2>1
<1>20. CASE UNCHANGED vars
  BY <1>20 DEF vars, indexVars, rowVars, historyVars
<1> QED
  BY <1>1, <1>2, <1>3, <1>4, <1>5, <1>6, <1>7, <1>8, <1>9, <1>10, <1>11,
     <1>12, <1>13, <1>14, <1>15, <1>16, <1>17, <1>18, <1>19, <1>20
  DEF Next, TurnNext, DeleterNext

LEMMA NextOpenHaveMet == Types /\ OpenHaveMet /\ [Next]_vars => OpenHaveMet'
<1> SUFFICES ASSUME Types, OpenHaveMet, [Next]_vars PROVE OpenHaveMet'
  OBVIOUS
<1> USE ChatAssumption DEF Types, Requests, TurnStages, DeleterStages, Unanswered, Roles, OpenHaveMet, HaveMet, Open, At
<1>1. ASSUME NEW r \in Requests, Find(r) PROVE OpenHaveMet'
  BY <1>1 DEF Find, At, Goto, Hold, indexVars, rowVars, historyVars
<1>2. ASSUME NEW t \in Turns, Ask(t) PROVE OpenHaveMet'
  BY <1>2 DEF Ask, At, Goto, Hold, Message, indexVars, rowVars, historyVars
<1>3. ASSUME NEW t \in Turns, CountMemories(t) PROVE OpenHaveMet'
  BY <1>3 DEF CountMemories, At, Goto, Hold, indexVars, rowVars, historyVars
<1>4. ASSUME NEW t \in Turns, Scan(t) PROVE OpenHaveMet'
  BY <1>4 DEF Scan, At, Goto, Hold, indexVars, rowVars, historyVars
<1>5. ASSUME NEW t \in Turns, FillIn(t) PROVE OpenHaveMet'
  BY <1>5 DEF FillIn, At, Goto, Hold, indexVars, rowVars, historyVars
<1>6. ASSUME NEW t \in Turns, RecallFails(t) PROVE OpenHaveMet'
  BY <1>6 DEF RecallFails, At, Goto, Hold, indexVars, rowVars, historyVars
<1>7. ASSUME NEW t \in Turns, CommitAnswer(t) PROVE OpenHaveMet'
  BY <1>7 DEF CommitAnswer, At, Goto, Hold, Message, indexVars, rowVars, historyVars
<1>8. ASSUME NEW t \in Turns, FindMemory(t) PROVE OpenHaveMet'
  BY <1>8 DEF FindMemory, At, Goto, Hold, indexVars, rowVars, historyVars
<1>9. ASSUME NEW t \in Turns, CreateMemory(t) PROVE OpenHaveMet'
  <2> DEFINE row == Memory(t, t, t, FALSE)
  <2>1. row \in Memories /\ row.user = t /\ row.assistant = t /\ row.by = t /\ row.scan = FALSE
    BY MemoryIsMemory DEF Memory
  <2>2. /\ pc[t] = "createMemory"
        /\ UNCHANGED <<vectors, saved, live, messages, embedded, crashes, met, overlapped,
                       answered, unsaved, unindexed, unclean>>
        /\ \/ /\ pc' = [pc EXCEPT ![t] = "done"] /\ memories' = memories /\ held' = held
              /\ \E old \in memories : old.assistant = t \/ old.user = t
           \/ /\ pc' = [pc EXCEPT ![t] = "embed"]
              /\ memories' = memories \cup {row} /\ held' = [held EXCEPT ![t] = {row}]
    BY <1>9, CreateMemoryEffect, Zenon
  <2> HIDE DEF row
  <2> QED
    BY <2>1, <2>2
<1>10. ASSUME NEW t \in Turns, Embed(t) PROVE OpenHaveMet'
  BY <1>10 DEF Embed, At, Goto, Hold, indexVars, rowVars, historyVars
<1>11. ASSUME NEW t \in Turns, Index(t) PROVE OpenHaveMet'
  BY <1>11 DEF Index, At, Goto, Hold, Upsert, indexVars, rowVars, historyVars
<1>12. ASSUME NEW t \in Turns, IndexFails(t) PROVE OpenHaveMet'
  BY <1>12 DEF IndexFails, At, Goto, Hold, UpsertFails, indexVars, rowVars, historyVars
<1>13. ASSUME NEW t \in Turns, TurnEnds(t) PROVE OpenHaveMet'
  BY <1>13 DEF TurnEnds, At, Goto, Hold, indexVars, rowVars, historyVars
<1>14. ASSUME NEW d \in Deleters, ReadMemories(d) PROVE OpenHaveMet'
  BY <1>14 DEF ReadMemories, At, Goto, Hold, indexVars, rowVars, historyVars
<1>15. ASSUME NEW d \in Deleters, DeleteRows(d) PROVE OpenHaveMet'
  BY <1>15 DEF DeleteRows, At, Goto, Hold, indexVars, rowVars, historyVars
<1>16. ASSUME NEW d \in Deleters, DeleteVectors(d) PROVE OpenHaveMet'
  BY <1>16 DEF DeleteVectors, At, Goto, Hold, Delete, indexVars, rowVars, historyVars
<1>17. ASSUME NEW d \in Deleters, DeleteVectorsFails(d) PROVE OpenHaveMet'
  BY <1>17 DEF DeleteVectorsFails, At, Goto, Hold, DeleteFails, indexVars, rowVars, historyVars
<1>18. ASSUME NEW d \in Deleters, DeletionEnds(d) PROVE OpenHaveMet'
  BY <1>18 DEF DeletionEnds, At, Goto, Hold, indexVars, rowVars, historyVars
<1>19. CASE Crash
  BY <1>19 DEF Crash, Reopen, At, indexVars, rowVars, historyVars
<1>20. CASE UNCHANGED vars
  BY <1>20, Zenon DEF vars, rowVars, historyVars
<1> QED
  BY <1>1, <1>2, <1>3, <1>4, <1>5, <1>6, <1>7, <1>8, <1>9, <1>10, <1>11,
     <1>12, <1>13, <1>14, <1>15, <1>16, <1>17, <1>18, <1>19, <1>20
  DEF Next, TurnNext, DeleterNext

LEMMA NextLastHasMet == Types /\ OpenHaveMet /\ LastHasMet /\ [Next]_vars => LastHasMet'
<1> SUFFICES ASSUME Types, OpenHaveMet, LastHasMet, [Next]_vars PROVE LastHasMet'
  OBVIOUS
<1> USE ChatAssumption DEF Types, Requests, TurnStages, DeleterStages, Unanswered, Roles, OpenHaveMet, LastHasMet, HaveMet, Open
<1>1. ASSUME NEW r \in Requests, Find(r) PROVE LastHasMet'
  BY <1>1 DEF Find, At, Goto, Hold, indexVars, rowVars, historyVars
<1>2. ASSUME NEW t \in Turns, Ask(t) PROVE LastHasMet'
  BY <1>2 DEF Ask, At, Goto, Hold, Message, indexVars, rowVars, historyVars
<1>3. ASSUME NEW t \in Turns, CountMemories(t) PROVE LastHasMet'
  BY <1>3 DEF CountMemories, At, Goto, Hold, indexVars, rowVars, historyVars
<1>4. ASSUME NEW t \in Turns, Scan(t) PROVE LastHasMet'
  BY <1>4 DEF Scan, At, Goto, Hold, indexVars, rowVars, historyVars
<1>5. ASSUME NEW t \in Turns, FillIn(t) PROVE LastHasMet'
  BY <1>5 DEF FillIn, At, Goto, Hold, indexVars, rowVars, historyVars
<1>6. ASSUME NEW t \in Turns, RecallFails(t) PROVE LastHasMet'
  BY <1>6 DEF RecallFails, At, Goto, Hold, indexVars, rowVars, historyVars
<1>7. ASSUME NEW t \in Turns, CommitAnswer(t) PROVE LastHasMet'
  BY <1>7 DEF CommitAnswer, At, Goto, Hold, Message, indexVars, rowVars, historyVars
<1>8. ASSUME NEW t \in Turns, FindMemory(t) PROVE LastHasMet'
  BY <1>8 DEF FindMemory, At, Goto, Hold, indexVars, rowVars, historyVars
<1>9. ASSUME NEW t \in Turns, CreateMemory(t) PROVE LastHasMet'
  <2> DEFINE row == Memory(t, t, t, FALSE)
  <2>1. row \in Memories /\ row.user = t /\ row.assistant = t /\ row.by = t /\ row.scan = FALSE
    BY MemoryIsMemory DEF Memory
  <2>2. /\ pc[t] = "createMemory"
        /\ UNCHANGED <<vectors, saved, live, messages, embedded, crashes, met, overlapped,
                       answered, unsaved, unindexed, unclean>>
        /\ \/ /\ pc' = [pc EXCEPT ![t] = "done"] /\ memories' = memories /\ held' = held
              /\ \E old \in memories : old.assistant = t \/ old.user = t
           \/ /\ pc' = [pc EXCEPT ![t] = "embed"]
              /\ memories' = memories \cup {row} /\ held' = [held EXCEPT ![t] = {row}]
    BY <1>9, CreateMemoryEffect, Zenon
  <2> HIDE DEF row
  <2> QED
    BY <2>1, <2>2
<1>10. ASSUME NEW t \in Turns, Embed(t) PROVE LastHasMet'
  BY <1>10 DEF Embed, At, Goto, Hold, indexVars, rowVars, historyVars
<1>11. ASSUME NEW t \in Turns, Index(t) PROVE LastHasMet'
  BY <1>11 DEF Index, At, Goto, Hold, Upsert, indexVars, rowVars, historyVars
<1>12. ASSUME NEW t \in Turns, IndexFails(t) PROVE LastHasMet'
  BY <1>12 DEF IndexFails, At, Goto, Hold, UpsertFails, indexVars, rowVars, historyVars
<1>13. ASSUME NEW t \in Turns, TurnEnds(t) PROVE LastHasMet'
  BY <1>13 DEF TurnEnds, At, Goto, Hold, indexVars, rowVars, historyVars
<1>14. ASSUME NEW d \in Deleters, ReadMemories(d) PROVE LastHasMet'
  BY <1>14 DEF ReadMemories, At, Goto, Hold, indexVars, rowVars, historyVars
<1>15. ASSUME NEW d \in Deleters, DeleteRows(d) PROVE LastHasMet'
  BY <1>15 DEF DeleteRows, At, Goto, Hold, indexVars, rowVars, historyVars
<1>16. ASSUME NEW d \in Deleters, DeleteVectors(d) PROVE LastHasMet'
  BY <1>16 DEF DeleteVectors, At, Goto, Hold, Delete, indexVars, rowVars, historyVars
<1>17. ASSUME NEW d \in Deleters, DeleteVectorsFails(d) PROVE LastHasMet'
  BY <1>17 DEF DeleteVectorsFails, At, Goto, Hold, DeleteFails, indexVars, rowVars, historyVars
<1>18. ASSUME NEW d \in Deleters, DeletionEnds(d) PROVE LastHasMet'
  BY <1>18 DEF DeletionEnds, At, Goto, Hold, indexVars, rowVars, historyVars
<1>19. CASE Crash
  BY <1>19 DEF Crash, Reopen, At, indexVars, rowVars, historyVars
<1>20. CASE UNCHANGED vars
  BY <1>20 DEF vars, indexVars, rowVars, historyVars
<1> QED
  BY <1>1, <1>2, <1>3, <1>4, <1>5, <1>6, <1>7, <1>8, <1>9, <1>10, <1>11,
     <1>12, <1>13, <1>14, <1>15, <1>16, <1>17, <1>18, <1>19, <1>20
  DEF Next, TurnNext, DeleterNext

\* Nobody forgets a meeting.
LEMMA MetGrows ==
  ASSUME Types, OpenHaveMet, [Next]_vars, NEW u, NEW t \in Turns, HaveMet(u, t)
  PROVE  HaveMet(u, t)'
<1>1. ASSUME NEW r \in Requests, Find(r) PROVE met[t] \subseteq met'[t]
  BY <1>1 DEF Types, OpenHaveMet, Find, Open, At
<1>2. (\E r \in Requests : Find(r)) \/ met' = met
  BY DEF Next, TurnNext, DeleterNext, Requests, Ask, CountMemories, Scan, FillIn, RecallFails, CommitAnswer,
         FindMemory, CreateMemory, Embed, Index, IndexFails, TurnEnds, ReadMemories,
         DeleteRows, DeleteVectors, DeleteVectorsFails, DeletionEnds, Crash, vars, historyVars
<1> QED
  BY <1>1, <1>2 DEF HaveMet

LEMMA NextPairsHaveMet == Types /\ OpenHaveMet /\ LastHasMet /\ PairsHaveMet /\ [Next]_vars => PairsHaveMet'
<1> SUFFICES ASSUME Types, OpenHaveMet, LastHasMet, PairsHaveMet, [Next]_vars PROVE PairsHaveMet'
  OBVIOUS
<1> USE ChatAssumption DEF Types, Requests, TurnStages, DeleterStages, Unanswered, Roles, LastHasMet, PairsHaveMet, Paired
<1>1. ASSUME NEW r \in Requests, Find(r) PROVE PairsHaveMet'
  <2>1. messages' = messages /\ held' = held /\ \A t \in Turns : pc'[t] = "fillIn" => pc[t] = "fillIn"
    BY <1>1 DEF Find, At, Goto, rowVars
  <2>2. \A t \in Turns : \A u : HaveMet(u, t) => HaveMet(u, t)'
    BY MetGrows
  <2>3. \A i \in Paired(messages) : messages[i+1].turn \in Turns
    BY PairsAreMessages
  <2>4. \A t \in Turns : \A row \in held[t] : row.assistant \in Turns
    BY DEF Memories
  <2> QED
    BY <2>1, <2>2, <2>3, <2>4 DEF At
<1>2. ASSUME NEW t \in Turns, Ask(t) PROVE PairsHaveMet'
  BY <1>2 DEF Ask, At, Goto, Hold, Message, indexVars, rowVars, historyVars, Memory, HaveMet
<1>3. ASSUME NEW t \in Turns, CountMemories(t) PROVE PairsHaveMet'
  BY <1>3 DEF CountMemories, At, Goto, Hold, indexVars, rowVars, historyVars, Memory, HaveMet
<1>4. ASSUME NEW t \in Turns, Scan(t) PROVE PairsHaveMet'
  <2>1. messages' = messages /\ met' = met
    BY <1>4 DEF Scan, rowVars, historyVars
  <2>2. \A row \in held'[t] : HaveMet(row.user, row.assistant)
    <3>1. held'[t] = {Memory(messages[i].turn, messages[i+1].turn, t, TRUE) : i \in Paired(messages)}
      BY <1>4 DEF Scan, Hold
    <3> QED
      BY <3>1 DEF Memory
  <2>3. \A s \in Turns : s # t => pc'[s] = pc[s] /\ held'[s] = held[s]
    BY <1>4 DEF Scan, Goto, Hold
  <2> QED
    BY <2>1, <2>2, <2>3 DEF At, HaveMet
<1>5. ASSUME NEW t \in Turns, FillIn(t) PROVE PairsHaveMet'
  BY <1>5 DEF FillIn, At, Goto, Hold, indexVars, rowVars, historyVars, Memory, HaveMet
<1>6. ASSUME NEW t \in Turns, RecallFails(t) PROVE PairsHaveMet'
  BY <1>6 DEF RecallFails, At, Goto, Hold, indexVars, rowVars, historyVars, Memory, HaveMet
<1>7. ASSUME NEW t \in Turns, CommitAnswer(t) PROVE PairsHaveMet'
  BY <1>7 DEF CommitAnswer, At, Goto, Hold, Message, indexVars, rowVars, historyVars, Memory, HaveMet
<1>8. ASSUME NEW t \in Turns, FindMemory(t) PROVE PairsHaveMet'
  BY <1>8 DEF FindMemory, At, Goto, Hold, indexVars, rowVars, historyVars, Memory, HaveMet
<1>9. ASSUME NEW t \in Turns, CreateMemory(t) PROVE PairsHaveMet'
  BY <1>9 DEF CreateMemory, At, Goto, Hold, indexVars, rowVars, historyVars, Memory, HaveMet
<1>10. ASSUME NEW t \in Turns, Embed(t) PROVE PairsHaveMet'
  BY <1>10 DEF Embed, At, Goto, Hold, indexVars, rowVars, historyVars, Memory, HaveMet
<1>11. ASSUME NEW t \in Turns, Index(t) PROVE PairsHaveMet'
  BY <1>11 DEF Index, At, Goto, Hold, Upsert, indexVars, rowVars, historyVars, Memory, HaveMet
<1>12. ASSUME NEW t \in Turns, IndexFails(t) PROVE PairsHaveMet'
  BY <1>12 DEF IndexFails, At, Goto, Hold, UpsertFails, indexVars, rowVars, historyVars, Memory, HaveMet
<1>13. ASSUME NEW t \in Turns, TurnEnds(t) PROVE PairsHaveMet'
  BY <1>13 DEF TurnEnds, At, Goto, Hold, indexVars, rowVars, historyVars, Memory, HaveMet
<1>14. ASSUME NEW d \in Deleters, ReadMemories(d) PROVE PairsHaveMet'
  BY <1>14 DEF ReadMemories, At, Goto, Hold, indexVars, rowVars, historyVars, Memory, HaveMet
<1>15. ASSUME NEW d \in Deleters, DeleteRows(d) PROVE PairsHaveMet'
  BY <1>15 DEF DeleteRows, At, Goto, Hold, indexVars, rowVars, historyVars, Memory, HaveMet
<1>16. ASSUME NEW d \in Deleters, DeleteVectors(d) PROVE PairsHaveMet'
  BY <1>16 DEF DeleteVectors, At, Goto, Hold, Delete, indexVars, rowVars, historyVars, Memory, HaveMet
<1>17. ASSUME NEW d \in Deleters, DeleteVectorsFails(d) PROVE PairsHaveMet'
  BY <1>17 DEF DeleteVectorsFails, At, Goto, Hold, DeleteFails, indexVars, rowVars, historyVars, Memory, HaveMet
<1>18. ASSUME NEW d \in Deleters, DeletionEnds(d) PROVE PairsHaveMet'
  BY <1>18 DEF DeletionEnds, At, Goto, Hold, indexVars, rowVars, historyVars, Memory, HaveMet
<1>19. CASE Crash
  BY <1>19 DEF Crash, Reopen, At, indexVars, rowVars, historyVars, Memory, HaveMet
<1>20. CASE UNCHANGED vars
  BY <1>20, Zenon DEF vars, rowVars, historyVars, At, HaveMet
<1> QED
  BY <1>1, <1>2, <1>3, <1>4, <1>5, <1>6, <1>7, <1>8, <1>9, <1>10, <1>11,
     <1>12, <1>13, <1>14, <1>15, <1>16, <1>17, <1>18, <1>19, <1>20
  DEF Next, TurnNext, DeleterNext

LEMMA NextAnswers == Types /\ OpenHaveMet /\ PairsHaveMet /\ AnswerKeepsItsQuestion /\ [Next]_vars => AnswerKeepsItsQuestion'
<1> SUFFICES ASSUME Types, OpenHaveMet, PairsHaveMet, AnswerKeepsItsQuestion, [Next]_vars PROVE AnswerKeepsItsQuestion'
  OBVIOUS
<1> USE ChatAssumption DEF Types, Requests, TurnStages, DeleterStages, Unanswered, Roles, PairsHaveMet, AnswerKeepsItsQuestion, HaveMet
<1>1. ASSUME NEW r \in Requests, Find(r) PROVE AnswerKeepsItsQuestion'
  <2>1. memories' = memories
    BY <1>1 DEF Find, rowVars
  <2>2. \A t \in Turns : \A u : HaveMet(u, t) => HaveMet(u, t)'
    BY MetGrows
  <2>3. \A row \in memories : row.assistant \in Turns
    BY DEF Memories
  <2> QED
    BY <2>1, <2>2, <2>3
<1>2. ASSUME NEW t \in Turns, Ask(t) PROVE AnswerKeepsItsQuestion'
  BY <1>2 DEF Ask, At, Goto, Hold, Message, indexVars, rowVars, historyVars, Memory
<1>3. ASSUME NEW t \in Turns, CountMemories(t) PROVE AnswerKeepsItsQuestion'
  BY <1>3 DEF CountMemories, At, Goto, Hold, indexVars, rowVars, historyVars, Memory
<1>4. ASSUME NEW t \in Turns, Scan(t) PROVE AnswerKeepsItsQuestion'
  BY <1>4 DEF Scan, At, Goto, Hold, indexVars, rowVars, historyVars, Memory
<1>5. ASSUME NEW t \in Turns, FillIn(t) PROVE AnswerKeepsItsQuestion'
  BY <1>5 DEF FillIn, At, Goto, Hold, indexVars, rowVars, historyVars, Memory
<1>6. ASSUME NEW t \in Turns, RecallFails(t) PROVE AnswerKeepsItsQuestion'
  BY <1>6 DEF RecallFails, At, Goto, Hold, indexVars, rowVars, historyVars, Memory
<1>7. ASSUME NEW t \in Turns, CommitAnswer(t) PROVE AnswerKeepsItsQuestion'
  BY <1>7 DEF CommitAnswer, At, Goto, Hold, Message, indexVars, rowVars, historyVars, Memory
<1>8. ASSUME NEW t \in Turns, FindMemory(t) PROVE AnswerKeepsItsQuestion'
  BY <1>8 DEF FindMemory, At, Goto, Hold, indexVars, rowVars, historyVars, Memory
<1>9. ASSUME NEW t \in Turns, CreateMemory(t) PROVE AnswerKeepsItsQuestion'
  BY <1>9 DEF CreateMemory, At, Goto, Hold, indexVars, rowVars, historyVars, Memory
<1>10. ASSUME NEW t \in Turns, Embed(t) PROVE AnswerKeepsItsQuestion'
  BY <1>10 DEF Embed, At, Goto, Hold, indexVars, rowVars, historyVars, Memory
<1>11. ASSUME NEW t \in Turns, Index(t) PROVE AnswerKeepsItsQuestion'
  BY <1>11 DEF Index, At, Goto, Hold, Upsert, indexVars, rowVars, historyVars, Memory
<1>12. ASSUME NEW t \in Turns, IndexFails(t) PROVE AnswerKeepsItsQuestion'
  BY <1>12 DEF IndexFails, At, Goto, Hold, UpsertFails, indexVars, rowVars, historyVars, Memory
<1>13. ASSUME NEW t \in Turns, TurnEnds(t) PROVE AnswerKeepsItsQuestion'
  BY <1>13 DEF TurnEnds, At, Goto, Hold, indexVars, rowVars, historyVars, Memory
<1>14. ASSUME NEW d \in Deleters, ReadMemories(d) PROVE AnswerKeepsItsQuestion'
  BY <1>14 DEF ReadMemories, At, Goto, Hold, indexVars, rowVars, historyVars, Memory
<1>15. ASSUME NEW d \in Deleters, DeleteRows(d) PROVE AnswerKeepsItsQuestion'
  BY <1>15 DEF DeleteRows, At, Goto, Hold, indexVars, rowVars, historyVars, Memory
<1>16. ASSUME NEW d \in Deleters, DeleteVectors(d) PROVE AnswerKeepsItsQuestion'
  BY <1>16 DEF DeleteVectors, At, Goto, Hold, Delete, indexVars, rowVars, historyVars, Memory
<1>17. ASSUME NEW d \in Deleters, DeleteVectorsFails(d) PROVE AnswerKeepsItsQuestion'
  BY <1>17 DEF DeleteVectorsFails, At, Goto, Hold, DeleteFails, indexVars, rowVars, historyVars, Memory
<1>18. ASSUME NEW d \in Deleters, DeletionEnds(d) PROVE AnswerKeepsItsQuestion'
  BY <1>18 DEF DeletionEnds, At, Goto, Hold, indexVars, rowVars, historyVars, Memory
<1>19. CASE Crash
  BY <1>19 DEF Crash, Reopen, At, indexVars, rowVars, historyVars, Memory
<1>20. CASE UNCHANGED vars
  BY <1>20 DEF vars, indexVars, rowVars, historyVars, Memory
<1> QED
  BY <1>1, <1>2, <1>3, <1>4, <1>5, <1>6, <1>7, <1>8, <1>9, <1>10, <1>11,
     <1>12, <1>13, <1>14, <1>15, <1>16, <1>17, <1>18, <1>19, <1>20
  DEF Next, TurnNext, DeleterNext

LEMMA NextRemembered == Types /\ SaidOnce /\ PastIsRemembered /\ [Next]_vars => PastIsRemembered'
<1> SUFFICES ASSUME Types, SaidOnce, PastIsRemembered, [Next]_vars PROVE PastIsRemembered'
  OBVIOUS
<1> USE ChatAssumption DEF Types, Requests, TurnStages, DeleterStages, Unanswered, Roles, SaidOnce, PastIsRemembered
<1>1. ASSUME NEW r \in Requests, Find(r) PROVE PastIsRemembered'
  BY <1>1 DEF Find, At, Goto, Hold, indexVars, rowVars, historyVars, Memory, Known, QuestionTaken
<1>2. ASSUME NEW t \in Turns, Ask(t) PROVE PastIsRemembered'
  BY <1>2 DEF Ask, At, Goto, Hold, Message, indexVars, rowVars, historyVars, Memory, Known, QuestionTaken
<1>3. ASSUME NEW t \in Turns, CountMemories(t) PROVE PastIsRemembered'
  BY <1>3 DEF CountMemories, At, Goto, Hold, indexVars, rowVars, historyVars, Memory, Known, QuestionTaken
<1>4. ASSUME NEW t \in Turns, Scan(t) PROVE PastIsRemembered'
  BY <1>4 DEF Scan, At, Goto, Hold, indexVars, rowVars, historyVars, Memory, Known, QuestionTaken
<1>5. ASSUME NEW t \in Turns, FillIn(t) PROVE PastIsRemembered'
  BY <1>5 DEF FillIn, At, Goto, Hold, indexVars, rowVars, historyVars, Memory, Known, QuestionTaken
<1>6. ASSUME NEW t \in Turns, RecallFails(t) PROVE PastIsRemembered'
  BY <1>6 DEF RecallFails, At, Goto, Hold, indexVars, rowVars, historyVars, Memory, Known, QuestionTaken
<1>7. ASSUME NEW t \in Turns, CommitAnswer(t) PROVE PastIsRemembered'
  BY <1>7 DEF CommitAnswer, At, Goto, Hold, Message, indexVars, rowVars, historyVars, Memory, Known, QuestionTaken
<1>8. ASSUME NEW t \in Turns, FindMemory(t) PROVE PastIsRemembered'
  BY <1>8 DEF FindMemory, At, Goto, Hold, indexVars, rowVars, historyVars, Memory, Known, QuestionTaken
<1>9. ASSUME NEW t \in Turns, CreateMemory(t) PROVE PastIsRemembered'
  <2> DEFINE row == Memory(t, t, t, FALSE)
  <2>1. row \in Memories /\ row.user = t /\ row.assistant = t /\ row.by = t /\ row.scan = FALSE
    BY MemoryIsMemory DEF Memory
  <2>2. /\ pc[t] = "createMemory"
        /\ UNCHANGED <<vectors, saved, live, messages, embedded, crashes, met, overlapped,
                       answered, unsaved, unindexed, unclean>>
        /\ \/ /\ pc' = [pc EXCEPT ![t] = "done"] /\ memories' = memories /\ held' = held
              /\ \E old \in memories : old.assistant = t \/ old.user = t
           \/ /\ pc' = [pc EXCEPT ![t] = "embed"]
              /\ memories' = memories \cup {row} /\ held' = [held EXCEPT ![t] = {row}]
    BY <1>9, CreateMemoryEffect, Zenon
  <2> HIDE DEF row
  <2> QED
    BY <2>1, <2>2
<1>10. ASSUME NEW t \in Turns, Embed(t) PROVE PastIsRemembered'
  BY <1>10 DEF Embed, At, Goto, Hold, indexVars, rowVars, historyVars, Memory, Known, QuestionTaken
<1>11. ASSUME NEW t \in Turns, Index(t) PROVE PastIsRemembered'
  BY <1>11 DEF Index, At, Goto, Hold, Upsert, indexVars, rowVars, historyVars, Memory, Known, QuestionTaken
<1>12. ASSUME NEW t \in Turns, IndexFails(t) PROVE PastIsRemembered'
  BY <1>12 DEF IndexFails, At, Goto, Hold, UpsertFails, indexVars, rowVars, historyVars, Memory, Known, QuestionTaken
<1>13. ASSUME NEW t \in Turns, TurnEnds(t) PROVE PastIsRemembered'
  BY <1>13 DEF TurnEnds, At, Goto, Hold, indexVars, rowVars, historyVars, Memory, Known, QuestionTaken
<1>14. ASSUME NEW d \in Deleters, ReadMemories(d) PROVE PastIsRemembered'
  BY <1>14 DEF ReadMemories, At, Goto, Hold, indexVars, rowVars, historyVars, Memory, Known, QuestionTaken
<1>15. ASSUME NEW d \in Deleters, DeleteRows(d) PROVE PastIsRemembered'
  BY <1>15 DEF DeleteRows, At, Goto, Hold, indexVars, rowVars, historyVars, Memory, Known, QuestionTaken
<1>16. ASSUME NEW d \in Deleters, DeleteVectors(d) PROVE PastIsRemembered'
  BY <1>16 DEF DeleteVectors, At, Goto, Hold, Delete, indexVars, rowVars, historyVars, Memory, Known, QuestionTaken
<1>17. ASSUME NEW d \in Deleters, DeleteVectorsFails(d) PROVE PastIsRemembered'
  BY <1>17 DEF DeleteVectorsFails, At, Goto, Hold, DeleteFails, indexVars, rowVars, historyVars, Memory, Known, QuestionTaken
<1>18. ASSUME NEW d \in Deleters, DeletionEnds(d) PROVE PastIsRemembered'
  BY <1>18 DEF DeletionEnds, At, Goto, Hold, indexVars, rowVars, historyVars, Memory, Known, QuestionTaken
<1>19. CASE Crash
  BY <1>19 DEF Crash, Reopen, At, indexVars, rowVars, historyVars, Memory, Known, QuestionTaken
<1>20. CASE UNCHANGED vars
  BY <1>20 DEF vars, indexVars, rowVars, historyVars, Memory, Known, QuestionTaken
<1> QED
  BY <1>1, <1>2, <1>3, <1>4, <1>5, <1>6, <1>7, <1>8, <1>9, <1>10, <1>11,
     <1>12, <1>13, <1>14, <1>15, <1>16, <1>17, <1>18, <1>19, <1>20
  DEF Next, TurnNext, DeleterNext

LEMMA NextRowsAreMade == Types /\ RowsAreMade /\ [Next]_vars => RowsAreMade'
<1> SUFFICES ASSUME Types, RowsAreMade, [Next]_vars PROVE RowsAreMade'
  OBVIOUS
<1> USE ChatAssumption DEF Types, Requests, TurnStages, DeleterStages, Unanswered, Roles, RowsAreMade, Made
<1>1. ASSUME NEW r \in Requests, Find(r) PROVE RowsAreMade'
  BY <1>1 DEF Find, At, Goto, Hold, indexVars, rowVars, historyVars, Memory, Memories
<1>2. ASSUME NEW t \in Turns, Ask(t) PROVE RowsAreMade'
  BY <1>2 DEF Ask, At, Goto, Hold, Message, indexVars, rowVars, historyVars, Memory, Memories
<1>3. ASSUME NEW t \in Turns, CountMemories(t) PROVE RowsAreMade'
  BY <1>3 DEF CountMemories, At, Goto, Hold, indexVars, rowVars, historyVars, Memory, Memories
<1>4. ASSUME NEW t \in Turns, Scan(t) PROVE RowsAreMade'
  BY <1>4 DEF Scan, At, Goto, Hold, indexVars, rowVars, historyVars, Memory, Memories
<1>5. ASSUME NEW t \in Turns, FillIn(t) PROVE RowsAreMade'
  BY <1>5 DEF FillIn, At, Goto, Hold, indexVars, rowVars, historyVars, Memory, Memories
<1>6. ASSUME NEW t \in Turns, RecallFails(t) PROVE RowsAreMade'
  BY <1>6 DEF RecallFails, At, Goto, Hold, indexVars, rowVars, historyVars, Memory, Memories
<1>7. ASSUME NEW t \in Turns, CommitAnswer(t) PROVE RowsAreMade'
  BY <1>7 DEF CommitAnswer, At, Goto, Hold, Message, indexVars, rowVars, historyVars, Memory, Memories
<1>8. ASSUME NEW t \in Turns, FindMemory(t) PROVE RowsAreMade'
  BY <1>8 DEF FindMemory, At, Goto, Hold, indexVars, rowVars, historyVars, Memory, Memories
<1>9. ASSUME NEW t \in Turns, CreateMemory(t) PROVE RowsAreMade'
  <2> DEFINE row == Memory(t, t, t, FALSE)
  <2>1. row \in Memories /\ row.user = t /\ row.assistant = t /\ row.by = t /\ row.scan = FALSE
    BY MemoryIsMemory DEF Memory
  <2>2. /\ pc[t] = "createMemory"
        /\ UNCHANGED <<vectors, saved, live, messages, embedded, crashes, met, overlapped,
                       answered, unsaved, unindexed, unclean>>
        /\ \/ /\ pc' = [pc EXCEPT ![t] = "done"] /\ memories' = memories /\ held' = held
              /\ \E old \in memories : old.assistant = t \/ old.user = t
           \/ /\ pc' = [pc EXCEPT ![t] = "embed"]
              /\ memories' = memories \cup {row} /\ held' = [held EXCEPT ![t] = {row}]
    BY <1>9, CreateMemoryEffect, Zenon
  <2> HIDE DEF row
  <2>3. \A q \in Memories : q.by \in Turns
    BY DEF Memories
  <2>4. \A q \in Memories : Made(q) => Made(q)'
    BY <2>2, <2>3
  <2>5. pc'[t] = "embed" => Made(row)'
    BY <2>1, <2>2
  <2>6. \A d \in Deleters : held'[d] = held[d]
    BY <2>2
  <2>7. \A s \in Turns : At(s, "fillIn")' => At(s, "fillIn") /\ held'[s] = held[s]
    BY <2>2 DEF At
  <2>8. memories' = memories \/ (memories' = memories \cup {row} /\ pc'[t] = "embed")
    BY <2>2
  <2> QED
    BY <2>4, <2>5, <2>6, <2>7, <2>8
<1>10. ASSUME NEW t \in Turns, Embed(t) PROVE RowsAreMade'
  BY <1>10 DEF Embed, At, Goto, Hold, indexVars, rowVars, historyVars, Memory, Memories
<1>11. ASSUME NEW t \in Turns, Index(t) PROVE RowsAreMade'
  BY <1>11 DEF Index, At, Goto, Hold, Upsert, indexVars, rowVars, historyVars, Memory, Memories
<1>12. ASSUME NEW t \in Turns, IndexFails(t) PROVE RowsAreMade'
  BY <1>12 DEF IndexFails, At, Goto, Hold, UpsertFails, indexVars, rowVars, historyVars, Memory, Memories
<1>13. ASSUME NEW t \in Turns, TurnEnds(t) PROVE RowsAreMade'
  BY <1>13 DEF TurnEnds, At, Goto, Hold, indexVars, rowVars, historyVars, Memory, Memories
<1>14. ASSUME NEW d \in Deleters, ReadMemories(d) PROVE RowsAreMade'
  BY <1>14 DEF ReadMemories, At, Goto, Hold, indexVars, rowVars, historyVars, Memory, Memories
<1>15. ASSUME NEW d \in Deleters, DeleteRows(d) PROVE RowsAreMade'
  BY <1>15 DEF DeleteRows, At, Goto, Hold, indexVars, rowVars, historyVars, Memory, Memories
<1>16. ASSUME NEW d \in Deleters, DeleteVectors(d) PROVE RowsAreMade'
  BY <1>16 DEF DeleteVectors, At, Goto, Hold, Delete, indexVars, rowVars, historyVars, Memory, Memories
<1>17. ASSUME NEW d \in Deleters, DeleteVectorsFails(d) PROVE RowsAreMade'
  BY <1>17 DEF DeleteVectorsFails, At, Goto, Hold, DeleteFails, indexVars, rowVars, historyVars, Memory, Memories
<1>18. ASSUME NEW d \in Deleters, DeletionEnds(d) PROVE RowsAreMade'
  BY <1>18 DEF DeletionEnds, At, Goto, Hold, indexVars, rowVars, historyVars, Memory, Memories
<1>19. CASE Crash
  <2>1. /\ pc' = [r \in Requests |-> IF pc[r] = "idle" THEN "idle" ELSE "done"]
        /\ held' = [r \in Requests |-> {}]
        /\ vectors' = saved
        /\ UNCHANGED <<saved, live, messages, memories, embedded, met, overlapped, answered,
                       unindexed>>
    BY <1>19, CrashEffect
  <2>2. \A q \in Memories : q.by \in Turns
    BY DEF Memories
  <2>3. \A q \in Memories : Made(q) => Made(q)'
    BY <2>1, <2>2
  <2>4. \A t \in Turns : pc'[t] # "fillIn"
    BY <2>1
  <2> QED
    BY <2>1, <2>3, <2>4 DEF At
<1>20. CASE UNCHANGED vars
  BY <1>20, Zenon DEF vars, rowVars, historyVars, At
<1> QED
  BY <1>1, <1>2, <1>3, <1>4, <1>5, <1>6, <1>7, <1>8, <1>9, <1>10, <1>11,
     <1>12, <1>13, <1>14, <1>15, <1>16, <1>17, <1>18, <1>19, <1>20
  DEF Next, TurnNext, DeleterNext

LEMMA NextDeletedIsGone == Types /\ RowsAreMade /\ DeletedIsGone /\ [Next]_vars => DeletedIsGone'
<1> SUFFICES ASSUME Types, RowsAreMade, DeletedIsGone, [Next]_vars PROVE DeletedIsGone'
  OBVIOUS
<1> USE ChatAssumption DEF Types, Requests, TurnStages, DeleterStages, Unanswered, Roles, RowsAreMade, Made, DeletedIsGone
<1>1. ASSUME NEW r \in Requests, Find(r) PROVE DeletedIsGone'
  BY <1>1 DEF Find, At, Goto, Hold, indexVars, rowVars, historyVars, Memory
<1>2. ASSUME NEW t \in Turns, Ask(t) PROVE DeletedIsGone'
  BY <1>2 DEF Ask, At, Goto, Hold, Message, indexVars, rowVars, historyVars, Memory
<1>3. ASSUME NEW t \in Turns, CountMemories(t) PROVE DeletedIsGone'
  BY <1>3 DEF CountMemories, At, Goto, Hold, indexVars, rowVars, historyVars, Memory
<1>4. ASSUME NEW t \in Turns, Scan(t) PROVE DeletedIsGone'
  BY <1>4 DEF Scan, At, Goto, Hold, indexVars, rowVars, historyVars, Memory
<1>5. ASSUME NEW t \in Turns, FillIn(t) PROVE DeletedIsGone'
  BY <1>5 DEF FillIn, At, Goto, Hold, indexVars, rowVars, historyVars, Memory
<1>6. ASSUME NEW t \in Turns, RecallFails(t) PROVE DeletedIsGone'
  BY <1>6 DEF RecallFails, At, Goto, Hold, indexVars, rowVars, historyVars, Memory
<1>7. ASSUME NEW t \in Turns, CommitAnswer(t) PROVE DeletedIsGone'
  BY <1>7 DEF CommitAnswer, At, Goto, Hold, Message, indexVars, rowVars, historyVars, Memory
<1>8. ASSUME NEW t \in Turns, FindMemory(t) PROVE DeletedIsGone'
  BY <1>8 DEF FindMemory, At, Goto, Hold, indexVars, rowVars, historyVars, Memory
<1>9. ASSUME NEW t \in Turns, CreateMemory(t) PROVE DeletedIsGone'
  BY <1>9 DEF CreateMemory, At, Goto, Hold, indexVars, rowVars, historyVars, Memory
<1>10. ASSUME NEW t \in Turns, Embed(t) PROVE DeletedIsGone'
  BY <1>10 DEF Embed, At, Goto, Hold, indexVars, rowVars, historyVars, Memory
<1>11. ASSUME NEW t \in Turns, Index(t) PROVE DeletedIsGone'
  BY <1>11 DEF Index, At, Goto, Hold, Upsert, indexVars, rowVars, historyVars, Memory
<1>12. ASSUME NEW t \in Turns, IndexFails(t) PROVE DeletedIsGone'
  BY <1>12 DEF IndexFails, At, Goto, Hold, UpsertFails, indexVars, rowVars, historyVars, Memory
<1>13. ASSUME NEW t \in Turns, TurnEnds(t) PROVE DeletedIsGone'
  BY <1>13 DEF TurnEnds, At, Goto, Hold, indexVars, rowVars, historyVars, Memory
<1>14. ASSUME NEW d \in Deleters, ReadMemories(d) PROVE DeletedIsGone'
  BY <1>14 DEF ReadMemories, At, Goto, Hold, indexVars, rowVars, historyVars, Memory
<1>15. ASSUME NEW d \in Deleters, DeleteRows(d) PROVE DeletedIsGone'
  BY <1>15 DEF DeleteRows, At, Goto, Hold, indexVars, rowVars, historyVars, Memory
<1>16. ASSUME NEW d \in Deleters, DeleteVectors(d) PROVE DeletedIsGone'
  BY <1>16 DEF DeleteVectors, At, Goto, Hold, Delete, indexVars, rowVars, historyVars, Memory
<1>17. ASSUME NEW d \in Deleters, DeleteVectorsFails(d) PROVE DeletedIsGone'
  BY <1>17 DEF DeleteVectorsFails, At, Goto, Hold, DeleteFails, indexVars, rowVars, historyVars, Memory
<1>18. ASSUME NEW d \in Deleters, DeletionEnds(d) PROVE DeletedIsGone'
  BY <1>18 DEF DeletionEnds, At, Goto, Hold, indexVars, rowVars, historyVars, Memory
<1>19. CASE Crash
  BY <1>19 DEF Crash, Reopen, At, indexVars, rowVars, historyVars, Memory
<1>20. CASE UNCHANGED vars
  BY <1>20, Zenon DEF vars, rowVars, historyVars, At
<1> QED
  BY <1>1, <1>2, <1>3, <1>4, <1>5, <1>6, <1>7, <1>8, <1>9, <1>10, <1>11,
     <1>12, <1>13, <1>14, <1>15, <1>16, <1>17, <1>18, <1>19, <1>20
  DEF Next, TurnNext, DeleterNext

LEMMA NextIndexed == Types /\ DeletedIsGone /\ IndexedIsSearchable /\ [Next]_vars => IndexedIsSearchable'
<1> SUFFICES ASSUME Types, DeletedIsGone, IndexedIsSearchable, [Next]_vars PROVE IndexedIsSearchable'
  OBVIOUS
<1> USE ChatAssumption DEF Types, Requests, TurnStages, DeleterStages, Unanswered, Roles, DeletedIsGone, IndexedIsSearchable
<1>1. ASSUME NEW r \in Requests, Find(r) PROVE IndexedIsSearchable'
  BY <1>1 DEF Find, At, Goto, Hold, indexVars, rowVars, historyVars
<1>2. ASSUME NEW t \in Turns, Ask(t) PROVE IndexedIsSearchable'
  BY <1>2 DEF Ask, At, Goto, Hold, Message, indexVars, rowVars, historyVars
<1>3. ASSUME NEW t \in Turns, CountMemories(t) PROVE IndexedIsSearchable'
  BY <1>3 DEF CountMemories, At, Goto, Hold, indexVars, rowVars, historyVars
<1>4. ASSUME NEW t \in Turns, Scan(t) PROVE IndexedIsSearchable'
  BY <1>4 DEF Scan, At, Goto, Hold, indexVars, rowVars, historyVars
<1>5. ASSUME NEW t \in Turns, FillIn(t) PROVE IndexedIsSearchable'
  BY <1>5 DEF FillIn, At, Goto, Hold, indexVars, rowVars, historyVars
<1>6. ASSUME NEW t \in Turns, RecallFails(t) PROVE IndexedIsSearchable'
  BY <1>6 DEF RecallFails, At, Goto, Hold, indexVars, rowVars, historyVars
<1>7. ASSUME NEW t \in Turns, CommitAnswer(t) PROVE IndexedIsSearchable'
  BY <1>7 DEF CommitAnswer, At, Goto, Hold, Message, indexVars, rowVars, historyVars
<1>8. ASSUME NEW t \in Turns, FindMemory(t) PROVE IndexedIsSearchable'
  BY <1>8 DEF FindMemory, At, Goto, Hold, indexVars, rowVars, historyVars
<1>9. ASSUME NEW t \in Turns, CreateMemory(t) PROVE IndexedIsSearchable'
  BY <1>9 DEF CreateMemory, At, Goto, Hold, indexVars, rowVars, historyVars
<1>10. ASSUME NEW t \in Turns, Embed(t) PROVE IndexedIsSearchable'
  BY <1>10 DEF Embed, At, Goto, Hold, indexVars, rowVars, historyVars
<1>11. ASSUME NEW t \in Turns, Index(t) PROVE IndexedIsSearchable'
  BY <1>11 DEF Index, At, Goto, Hold, Upsert, indexVars, rowVars, historyVars
<1>12. ASSUME NEW t \in Turns, IndexFails(t) PROVE IndexedIsSearchable'
  BY <1>12 DEF IndexFails, At, Goto, Hold, UpsertFails, indexVars, rowVars, historyVars
<1>13. ASSUME NEW t \in Turns, TurnEnds(t) PROVE IndexedIsSearchable'
  BY <1>13 DEF TurnEnds, At, Goto, Hold, indexVars, rowVars, historyVars
<1>14. ASSUME NEW d \in Deleters, ReadMemories(d) PROVE IndexedIsSearchable'
  BY <1>14 DEF ReadMemories, At, Goto, Hold, indexVars, rowVars, historyVars
<1>15. ASSUME NEW d \in Deleters, DeleteRows(d) PROVE IndexedIsSearchable'
  BY <1>15 DEF DeleteRows, At, Goto, Hold, indexVars, rowVars, historyVars
<1>16. ASSUME NEW d \in Deleters, DeleteVectors(d) PROVE IndexedIsSearchable'
  BY <1>16 DEF DeleteVectors, At, Goto, Hold, Delete, indexVars, rowVars, historyVars
<1>17. ASSUME NEW d \in Deleters, DeleteVectorsFails(d) PROVE IndexedIsSearchable'
  BY <1>17 DEF DeleteVectorsFails, At, Goto, Hold, DeleteFails, indexVars, rowVars, historyVars
<1>18. ASSUME NEW d \in Deleters, DeletionEnds(d) PROVE IndexedIsSearchable'
  BY <1>18 DEF DeletionEnds, At, Goto, Hold, indexVars, rowVars, historyVars
<1>19. CASE Crash
  BY <1>19 DEF Crash, Reopen, At, indexVars, rowVars, historyVars
<1>20. CASE UNCHANGED vars
  BY <1>20 DEF vars, indexVars, rowVars, historyVars
<1> QED
  BY <1>1, <1>2, <1>3, <1>4, <1>5, <1>6, <1>7, <1>8, <1>9, <1>10, <1>11,
     <1>12, <1>13, <1>14, <1>15, <1>16, <1>17, <1>18, <1>19, <1>20
  DEF Next, TurnNext, DeleterNext

LEMMA NextIndexedOnce == Types /\ IndexedOnce /\ [Next]_vars => IndexedOnce'
<1> SUFFICES ASSUME Types, IndexedOnce, [Next]_vars PROVE IndexedOnce'
  OBVIOUS
<1> USE ChatAssumption DEF Types, Requests, TurnStages, DeleterStages, Unanswered, Roles, IndexedOnce, Memories
<1>1. ASSUME NEW r \in Requests, Find(r) PROVE IndexedOnce'
  BY <1>1 DEF Find, At, Goto, Hold, indexVars, rowVars, historyVars, Memory
<1>2. ASSUME NEW t \in Turns, Ask(t) PROVE IndexedOnce'
  BY <1>2 DEF Ask, At, Goto, Hold, Message, indexVars, rowVars, historyVars, Memory
<1>3. ASSUME NEW t \in Turns, CountMemories(t) PROVE IndexedOnce'
  BY <1>3 DEF CountMemories, At, Goto, Hold, indexVars, rowVars, historyVars, Memory
<1>4. ASSUME NEW t \in Turns, Scan(t) PROVE IndexedOnce'
  BY <1>4 DEF Scan, At, Goto, Hold, indexVars, rowVars, historyVars, Memory
<1>5. ASSUME NEW t \in Turns, FillIn(t) PROVE IndexedOnce'
  BY <1>5 DEF FillIn, At, Goto, Hold, indexVars, rowVars, historyVars, Memory
<1>6. ASSUME NEW t \in Turns, RecallFails(t) PROVE IndexedOnce'
  BY <1>6 DEF RecallFails, At, Goto, Hold, indexVars, rowVars, historyVars, Memory
<1>7. ASSUME NEW t \in Turns, CommitAnswer(t) PROVE IndexedOnce'
  BY <1>7 DEF CommitAnswer, At, Goto, Hold, Message, indexVars, rowVars, historyVars, Memory
<1>8. ASSUME NEW t \in Turns, FindMemory(t) PROVE IndexedOnce'
  BY <1>8 DEF FindMemory, At, Goto, Hold, indexVars, rowVars, historyVars, Memory
<1>9. ASSUME NEW t \in Turns, CreateMemory(t) PROVE IndexedOnce'
  <2> DEFINE row == Memory(t, t, t, FALSE)
  <2>1. row \in Memories /\ row.user = t /\ row.assistant = t /\ row.by = t /\ row.scan = FALSE
    BY MemoryIsMemory DEF Memory
  <2>2. /\ pc[t] = "createMemory"
        /\ UNCHANGED <<vectors, saved, live, messages, embedded, crashes, met, overlapped,
                       answered, unsaved, unindexed, unclean>>
        /\ \/ /\ pc' = [pc EXCEPT ![t] = "done"] /\ memories' = memories /\ held' = held
              /\ \E old \in memories : old.assistant = t \/ old.user = t
           \/ /\ pc' = [pc EXCEPT ![t] = "embed"]
              /\ memories' = memories \cup {row} /\ held' = [held EXCEPT ![t] = {row}]
    BY <1>9, CreateMemoryEffect, Zenon
  <2> HIDE DEF row
  <2> QED
    BY <2>1, <2>2
<1>10. ASSUME NEW t \in Turns, Embed(t) PROVE IndexedOnce'
  BY <1>10 DEF Embed, At, Goto, Hold, indexVars, rowVars, historyVars, Memory
<1>11. ASSUME NEW t \in Turns, Index(t) PROVE IndexedOnce'
  BY <1>11 DEF Index, At, Goto, Hold, Upsert, indexVars, rowVars, historyVars, Memory
<1>12. ASSUME NEW t \in Turns, IndexFails(t) PROVE IndexedOnce'
  BY <1>12 DEF IndexFails, At, Goto, Hold, UpsertFails, indexVars, rowVars, historyVars, Memory
<1>13. ASSUME NEW t \in Turns, TurnEnds(t) PROVE IndexedOnce'
  BY <1>13 DEF TurnEnds, At, Goto, Hold, indexVars, rowVars, historyVars, Memory
<1>14. ASSUME NEW d \in Deleters, ReadMemories(d) PROVE IndexedOnce'
  BY <1>14 DEF ReadMemories, At, Goto, Hold, indexVars, rowVars, historyVars, Memory
<1>15. ASSUME NEW d \in Deleters, DeleteRows(d) PROVE IndexedOnce'
  BY <1>15 DEF DeleteRows, At, Goto, Hold, indexVars, rowVars, historyVars, Memory
<1>16. ASSUME NEW d \in Deleters, DeleteVectors(d) PROVE IndexedOnce'
  BY <1>16 DEF DeleteVectors, At, Goto, Hold, Delete, indexVars, rowVars, historyVars, Memory
<1>17. ASSUME NEW d \in Deleters, DeleteVectorsFails(d) PROVE IndexedOnce'
  BY <1>17 DEF DeleteVectorsFails, At, Goto, Hold, DeleteFails, indexVars, rowVars, historyVars, Memory
<1>18. ASSUME NEW d \in Deleters, DeletionEnds(d) PROVE IndexedOnce'
  BY <1>18 DEF DeletionEnds, At, Goto, Hold, indexVars, rowVars, historyVars, Memory
<1>19. CASE Crash
  <2>1. /\ pc' = [r \in Requests |-> IF pc[r] = "idle" THEN "idle" ELSE "done"]
        /\ held' = [r \in Requests |-> {}]
        /\ vectors' = saved
        /\ UNCHANGED <<saved, live, messages, memories, embedded, met, overlapped, answered,
                       unindexed>>
    BY <1>19, CrashEffect
  <2> QED
    BY <2>1
<1>20. CASE UNCHANGED vars
  BY <1>20 DEF vars, indexVars, rowVars, historyVars, Memory
<1> QED
  BY <1>1, <1>2, <1>3, <1>4, <1>5, <1>6, <1>7, <1>8, <1>9, <1>10, <1>11,
     <1>12, <1>13, <1>14, <1>15, <1>16, <1>17, <1>18, <1>19, <1>20
  DEF Next, TurnNext, DeleterNext

LEMMA NextDeletionIsAlone == Types /\ DeletionIsAlone /\ [Next]_vars => DeletionIsAlone'
<1> SUFFICES ASSUME Types, DeletionIsAlone, [Next]_vars PROVE DeletionIsAlone'
  OBVIOUS
<1> USE ChatAssumption DEF Types, Requests, TurnStages, DeleterStages, Unanswered, Roles, DeletionIsAlone, Open
<1>1. ASSUME NEW r \in Requests, Find(r) PROVE DeletionIsAlone'
  <2>1. /\ pc[r] = "idle" /\ live
        /\ UNCHANGED <<live, messages, memories, held>>
        /\ pc' = [pc EXCEPT ![r] = IF r \in Turns THEN "ask" ELSE "readMemories"]
    BY <1>1 DEF Find, At, Goto, rowVars
  <2>2. ~overlapped' => ~overlapped
    BY <1>1 DEF Find
  <2>3. CASE r \in Turns
    <3>1. ~overlapped' => Open \cap Deleters = {}
      BY <1>1, <2>3 DEF Find
    <3> QED
      BY <2>1, <2>2, <2>3, <3>1 DEF At
  <2>4. CASE r \in Deleters
    <3>1. ~overlapped' => Open \cap Turns = {}
      BY <1>1, <2>4 DEF Find
    <3> QED
      BY <2>1, <2>2, <2>4, <3>1 DEF At
  <2> QED
    BY <2>3, <2>4
<1>2. ASSUME NEW t \in Turns, Ask(t) PROVE DeletionIsAlone'
  BY <1>2 DEF Ask, At, Goto, Hold, Message, indexVars, rowVars, historyVars, Memory
<1>3. ASSUME NEW t \in Turns, CountMemories(t) PROVE DeletionIsAlone'
  BY <1>3 DEF CountMemories, At, Goto, Hold, indexVars, rowVars, historyVars, Memory
<1>4. ASSUME NEW t \in Turns, Scan(t) PROVE DeletionIsAlone'
  BY <1>4 DEF Scan, At, Goto, Hold, indexVars, rowVars, historyVars, Memory
<1>5. ASSUME NEW t \in Turns, FillIn(t) PROVE DeletionIsAlone'
  BY <1>5 DEF FillIn, At, Goto, Hold, indexVars, rowVars, historyVars, Memory
<1>6. ASSUME NEW t \in Turns, RecallFails(t) PROVE DeletionIsAlone'
  BY <1>6 DEF RecallFails, At, Goto, Hold, indexVars, rowVars, historyVars, Memory
<1>7. ASSUME NEW t \in Turns, CommitAnswer(t) PROVE DeletionIsAlone'
  BY <1>7 DEF CommitAnswer, At, Goto, Hold, Message, indexVars, rowVars, historyVars, Memory
<1>8. ASSUME NEW t \in Turns, FindMemory(t) PROVE DeletionIsAlone'
  BY <1>8 DEF FindMemory, At, Goto, Hold, indexVars, rowVars, historyVars, Memory
<1>9. ASSUME NEW t \in Turns, CreateMemory(t) PROVE DeletionIsAlone'
  BY <1>9 DEF CreateMemory, At, Goto, Hold, indexVars, rowVars, historyVars, Memory
<1>10. ASSUME NEW t \in Turns, Embed(t) PROVE DeletionIsAlone'
  BY <1>10 DEF Embed, At, Goto, Hold, indexVars, rowVars, historyVars, Memory
<1>11. ASSUME NEW t \in Turns, Index(t) PROVE DeletionIsAlone'
  BY <1>11 DEF Index, At, Goto, Hold, Upsert, indexVars, rowVars, historyVars, Memory
<1>12. ASSUME NEW t \in Turns, IndexFails(t) PROVE DeletionIsAlone'
  BY <1>12 DEF IndexFails, At, Goto, Hold, UpsertFails, indexVars, rowVars, historyVars, Memory
<1>13. ASSUME NEW t \in Turns, TurnEnds(t) PROVE DeletionIsAlone'
  BY <1>13 DEF TurnEnds, At, Goto, Hold, indexVars, rowVars, historyVars, Memory
<1>14. ASSUME NEW d \in Deleters, ReadMemories(d) PROVE DeletionIsAlone'
  BY <1>14 DEF ReadMemories, At, Goto, Hold, indexVars, rowVars, historyVars, Memory
<1>15. ASSUME NEW d \in Deleters, DeleteRows(d) PROVE DeletionIsAlone'
  BY <1>15 DEF DeleteRows, At, Goto, Hold, indexVars, rowVars, historyVars, Memory
<1>16. ASSUME NEW d \in Deleters, DeleteVectors(d) PROVE DeletionIsAlone'
  BY <1>16 DEF DeleteVectors, At, Goto, Hold, Delete, indexVars, rowVars, historyVars, Memory
<1>17. ASSUME NEW d \in Deleters, DeleteVectorsFails(d) PROVE DeletionIsAlone'
  BY <1>17 DEF DeleteVectorsFails, At, Goto, Hold, DeleteFails, indexVars, rowVars, historyVars, Memory
<1>18. ASSUME NEW d \in Deleters, DeletionEnds(d) PROVE DeletionIsAlone'
  BY <1>18 DEF DeletionEnds, At, Goto, Hold, indexVars, rowVars, historyVars, Memory
<1>19. CASE Crash
  BY <1>19 DEF Crash, Reopen, At, indexVars, rowVars, historyVars, Memory
<1>20. CASE UNCHANGED vars
  BY <1>20, Zenon DEF vars, rowVars, historyVars, At
<1> QED
  BY <1>1, <1>2, <1>3, <1>4, <1>5, <1>6, <1>7, <1>8, <1>9, <1>10, <1>11,
     <1>12, <1>13, <1>14, <1>15, <1>16, <1>17, <1>18, <1>19, <1>20
  DEF Next, TurnNext, DeleterNext

LEMMA NextFileFollows == Types /\ IndexedOnce /\ FileFollows /\ [Next]_vars => FileFollows'
<1> SUFFICES ASSUME Types, IndexedOnce, FileFollows, [Next]_vars PROVE FileFollows'
  OBVIOUS
<1> USE ChatAssumption DEF Types, Requests, TurnStages, DeleterStages, Unanswered, Roles, IndexedOnce, FileFollows
<1>1. ASSUME NEW r \in Requests, Find(r) PROVE FileFollows'
  BY <1>1 DEF Find, At, Goto, Hold, indexVars, rowVars, historyVars
<1>2. ASSUME NEW t \in Turns, Ask(t) PROVE FileFollows'
  BY <1>2 DEF Ask, At, Goto, Hold, Message, indexVars, rowVars, historyVars
<1>3. ASSUME NEW t \in Turns, CountMemories(t) PROVE FileFollows'
  BY <1>3 DEF CountMemories, At, Goto, Hold, indexVars, rowVars, historyVars
<1>4. ASSUME NEW t \in Turns, Scan(t) PROVE FileFollows'
  BY <1>4 DEF Scan, At, Goto, Hold, indexVars, rowVars, historyVars
<1>5. ASSUME NEW t \in Turns, FillIn(t) PROVE FileFollows'
  BY <1>5 DEF FillIn, At, Goto, Hold, indexVars, rowVars, historyVars
<1>6. ASSUME NEW t \in Turns, RecallFails(t) PROVE FileFollows'
  BY <1>6 DEF RecallFails, At, Goto, Hold, indexVars, rowVars, historyVars
<1>7. ASSUME NEW t \in Turns, CommitAnswer(t) PROVE FileFollows'
  BY <1>7 DEF CommitAnswer, At, Goto, Hold, Message, indexVars, rowVars, historyVars
<1>8. ASSUME NEW t \in Turns, FindMemory(t) PROVE FileFollows'
  BY <1>8 DEF FindMemory, At, Goto, Hold, indexVars, rowVars, historyVars
<1>9. ASSUME NEW t \in Turns, CreateMemory(t) PROVE FileFollows'
  BY <1>9 DEF CreateMemory, At, Goto, Hold, indexVars, rowVars, historyVars
<1>10. ASSUME NEW t \in Turns, Embed(t) PROVE FileFollows'
  BY <1>10 DEF Embed, At, Goto, Hold, indexVars, rowVars, historyVars
<1>11. ASSUME NEW t \in Turns, Index(t) PROVE FileFollows'
  BY <1>11 DEF Index, At, Goto, Hold, Upsert, indexVars, rowVars, historyVars
<1>12. ASSUME NEW t \in Turns, IndexFails(t) PROVE FileFollows'
  BY <1>12 DEF IndexFails, At, Goto, Hold, UpsertFails, indexVars, rowVars, historyVars
<1>13. ASSUME NEW t \in Turns, TurnEnds(t) PROVE FileFollows'
  BY <1>13 DEF TurnEnds, At, Goto, Hold, indexVars, rowVars, historyVars
<1>14. ASSUME NEW d \in Deleters, ReadMemories(d) PROVE FileFollows'
  BY <1>14 DEF ReadMemories, At, Goto, Hold, indexVars, rowVars, historyVars
<1>15. ASSUME NEW d \in Deleters, DeleteRows(d) PROVE FileFollows'
  BY <1>15 DEF DeleteRows, At, Goto, Hold, indexVars, rowVars, historyVars
<1>16. ASSUME NEW d \in Deleters, DeleteVectors(d) PROVE FileFollows'
  BY <1>16 DEF DeleteVectors, At, Goto, Hold, Delete, indexVars, rowVars, historyVars
<1>17. ASSUME NEW d \in Deleters, DeleteVectorsFails(d) PROVE FileFollows'
  BY <1>17 DEF DeleteVectorsFails, At, Goto, Hold, DeleteFails, indexVars, rowVars, historyVars
<1>18. ASSUME NEW d \in Deleters, DeletionEnds(d) PROVE FileFollows'
  BY <1>18 DEF DeletionEnds, At, Goto, Hold, indexVars, rowVars, historyVars
<1>19. CASE Crash
  BY <1>19 DEF Crash, Reopen, At, indexVars, rowVars, historyVars
<1>20. CASE UNCHANGED vars
  BY <1>20 DEF vars, indexVars, rowVars, historyVars
<1> QED
  BY <1>1, <1>2, <1>3, <1>4, <1>5, <1>6, <1>7, <1>8, <1>9, <1>10, <1>11,
     <1>12, <1>13, <1>14, <1>15, <1>16, <1>17, <1>18, <1>19, <1>20
  DEF Next, TurnNext, DeleterNext

LEMMA NextOrphansAreHeld == Types /\ DeletionIsAlone /\ FileFollows /\ OrphansAreHeld /\ [Next]_vars => OrphansAreHeld'
<1> SUFFICES ASSUME Types, DeletionIsAlone, FileFollows, OrphansAreHeld, [Next]_vars PROVE OrphansAreHeld'
  OBVIOUS
<1> USE ChatAssumption DEF Types, Requests, TurnStages, DeleterStages, Unanswered, Roles, DeletionIsAlone, FileFollows, OrphansAreHeld, Open
<1>1. ASSUME NEW r \in Requests, Find(r) PROVE OrphansAreHeld'
  BY <1>1 DEF Find, At, Goto, Hold, indexVars, rowVars, historyVars
<1>2. ASSUME NEW t \in Turns, Ask(t) PROVE OrphansAreHeld'
  BY <1>2 DEF Ask, At, Goto, Hold, Message, indexVars, rowVars, historyVars
<1>3. ASSUME NEW t \in Turns, CountMemories(t) PROVE OrphansAreHeld'
  BY <1>3 DEF CountMemories, At, Goto, Hold, indexVars, rowVars, historyVars
<1>4. ASSUME NEW t \in Turns, Scan(t) PROVE OrphansAreHeld'
  BY <1>4 DEF Scan, At, Goto, Hold, indexVars, rowVars, historyVars
<1>5. ASSUME NEW t \in Turns, FillIn(t) PROVE OrphansAreHeld'
  BY <1>5 DEF FillIn, At, Goto, Hold, indexVars, rowVars, historyVars
<1>6. ASSUME NEW t \in Turns, RecallFails(t) PROVE OrphansAreHeld'
  BY <1>6 DEF RecallFails, At, Goto, Hold, indexVars, rowVars, historyVars
<1>7. ASSUME NEW t \in Turns, CommitAnswer(t) PROVE OrphansAreHeld'
  BY <1>7 DEF CommitAnswer, At, Goto, Hold, Message, indexVars, rowVars, historyVars
<1>8. ASSUME NEW t \in Turns, FindMemory(t) PROVE OrphansAreHeld'
  BY <1>8 DEF FindMemory, At, Goto, Hold, indexVars, rowVars, historyVars
<1>9. ASSUME NEW t \in Turns, CreateMemory(t) PROVE OrphansAreHeld'
  BY <1>9 DEF CreateMemory, At, Goto, Hold, indexVars, rowVars, historyVars
<1>10. ASSUME NEW t \in Turns, Embed(t) PROVE OrphansAreHeld'
  BY <1>10 DEF Embed, At, Goto, Hold, indexVars, rowVars, historyVars
<1>11. ASSUME NEW t \in Turns, Index(t) PROVE OrphansAreHeld'
  BY <1>11 DEF Index, At, Goto, Hold, Upsert, indexVars, rowVars, historyVars
<1>12. ASSUME NEW t \in Turns, IndexFails(t) PROVE OrphansAreHeld'
  BY <1>12 DEF IndexFails, At, Goto, Hold, UpsertFails, indexVars, rowVars, historyVars
<1>13. ASSUME NEW t \in Turns, TurnEnds(t) PROVE OrphansAreHeld'
  BY <1>13 DEF TurnEnds, At, Goto, Hold, indexVars, rowVars, historyVars
<1>14. ASSUME NEW d \in Deleters, ReadMemories(d) PROVE OrphansAreHeld'
  BY <1>14 DEF ReadMemories, At, Goto, Hold, indexVars, rowVars, historyVars
<1>15. ASSUME NEW d \in Deleters, DeleteRows(d) PROVE OrphansAreHeld'
  BY <1>15 DEF DeleteRows, At, Goto, Hold, indexVars, rowVars, historyVars
<1>16. ASSUME NEW d \in Deleters, DeleteVectors(d) PROVE OrphansAreHeld'
  BY <1>16 DEF DeleteVectors, At, Goto, Hold, Delete, indexVars, rowVars, historyVars
<1>17. ASSUME NEW d \in Deleters, DeleteVectorsFails(d) PROVE OrphansAreHeld'
  BY <1>17 DEF DeleteVectorsFails, At, Goto, Hold, DeleteFails, indexVars, rowVars, historyVars
<1>18. ASSUME NEW d \in Deleters, DeletionEnds(d) PROVE OrphansAreHeld'
  BY <1>18 DEF DeletionEnds, At, Goto, Hold, indexVars, rowVars, historyVars
<1>19. CASE Crash
  BY <1>19 DEF Crash, Reopen, At, indexVars, rowVars, historyVars
<1>20. CASE UNCHANGED vars
  BY <1>20, Zenon DEF vars, indexVars, rowVars, historyVars, At
<1> QED
  BY <1>1, <1>2, <1>3, <1>4, <1>5, <1>6, <1>7, <1>8, <1>9, <1>10, <1>11,
     <1>12, <1>13, <1>14, <1>15, <1>16, <1>17, <1>18, <1>19, <1>20
  DEF Next, TurnNext, DeleterNext


-----------------------------------------------------------------------------
LEMMA InitIInv == Init => IInv
<1> SUFFICES ASSUME Init PROVE IInv
  OBVIOUS
<1> USE ChatAssumption DEF Init, IndexInit, Requests
<1>1. Types
  <2>1. live \in BOOLEAN /\ overlapped \in BOOLEAN /\ unclean \in BOOLEAN
    BY Zenon
  <2>2. messages \in Seq([turn : Turns, role : Roles])
    OBVIOUS
  <2> QED
    BY <2>1, <2>2 DEF Types, TurnStages, DeleterStages
<1>2. Len(messages) = 0
  OBVIOUS
<1>3. SaidOnce
  BY <1>2 DEF SaidOnce
<1>4. OpenHaveMet /\ LastHasMet
  BY DEF OpenHaveMet, LastHasMet, Open, At
<1>5. PairsHaveMet
  BY <1>2 DEF PairsHaveMet, Paired, At
<1>6. AnswerKeepsItsQuestion /\ PastIsRemembered
  BY DEF AnswerKeepsItsQuestion, PastIsRemembered
<1>7. RowsAreMade /\ DeletedIsGone /\ IndexedIsSearchable
  BY DEF RowsAreMade, DeletedIsGone, IndexedIsSearchable, At
<1>8. IndexedOnce /\ DeletionIsAlone /\ FileFollows /\ OrphansAreHeld
  BY DEF IndexedOnce, DeletionIsAlone, FileFollows, OrphansAreHeld, Open, At
<1> QED
  BY <1>1, <1>3, <1>4, <1>5, <1>6, <1>7, <1>8 DEF IInv

LEMMA NextIInv == IInv /\ [Next]_vars => IInv'
<1> SUFFICES ASSUME IInv, [Next]_vars PROVE IInv'
  OBVIOUS
<1>1. Types' /\ SaidOnce'
  BY NextTypes, NextSaidOnce DEF IInv
<1>2. OpenHaveMet' /\ LastHasMet' /\ PairsHaveMet' /\ AnswerKeepsItsQuestion'
  BY NextOpenHaveMet, NextLastHasMet, NextPairsHaveMet, NextAnswers DEF IInv
<1>3. PastIsRemembered' /\ RowsAreMade' /\ DeletedIsGone' /\ IndexedIsSearchable'
  BY NextRemembered, NextRowsAreMade, NextDeletedIsGone, NextIndexed DEF IInv
<1>4. IndexedOnce' /\ DeletionIsAlone' /\ FileFollows' /\ OrphansAreHeld'
  BY NextIndexedOnce, NextDeletionIsAlone, NextFileFollows, NextOrphansAreHeld DEF IInv
<1> QED
  BY <1>1, <1>2, <1>3, <1>4 DEF IInv

LEMMA SpecIInv == Spec => []IInv
  BY InitIInv, NextIInv, PTL DEF Spec

\* Type correctness of the rows, the index and the requests of a conversation
\* (ai_chat.go, ai_chat_memory.go); no turn says a thing twice.
THEOREM ChatTypes == Spec => []TypeOK
<1>1. Types /\ SaidOnce => TypeOK
  <2> SUFFICES ASSUME Types, SaidOnce PROVE TypeOK
    OBVIOUS
  <2>1. messages \in Seq([turn : Turns, role : Roles])
    BY DEF Types
  <2>2. IsInjective(messages)
    BY <2>1 DEF SaidOnce, IsInjective
  <2> QED
    BY <2>1, <2>2 DEF Types, TypeOK, TurnStages, DeleterStages
<1> QED
  BY <1>1, SpecIInv, PTL DEF IInv

\* A memory separates no answer from its question (model/system/ai_chat.go:37-40)
\* but of two turns that were under way together, whatever was deleted, failed
\* or restarted meanwhile.
THEOREM AnswersKeepQuestions == Spec => []AnswerKeepsItsQuestion
<1>1. IInv => AnswerKeepsItsQuestion
  BY DEF IInv
<1> QED
  BY <1>1, SpecIInv, PTL

\* An answered turn that came past its memory has one (ai_chat_memory.go:131-133),
\* its own or a mixed one.
THEOREM AnswersAreRemembered == Spec => []AnsweredIsRemembered
<1>1. IInv => AnsweredIsRemembered
  BY DEF IInv, PastIsRemembered, AnsweredIsRemembered, At
<1> QED
  BY <1>1, SpecIInv, PTL

\* A memory whose indexing reported success is in the index and in its file
\* (usearch.go:66-79, 300-314), whatever fails later and through any restarts.
THEOREM IndexedStaysSearchable == Spec => []IndexedIsSearchable
<1>1. IInv => IndexedIsSearchable
  BY DEF IInv
<1> QED
  BY <1>1, SpecIInv, PTL

\* Deletions (ai_chat.go) that meet no turn and do not break leave no message, no
\* memory and, once they have ended, no vector.
THEOREM DeletionsAreClean == Spec => []DeletionIsClean
<1>1. IInv => DeletionIsClean
  <2> SUFFICES ASSUME IInv PROVE DeletionIsClean
    OBVIOUS
  <2>1. ~live /\ ~overlapped => messages = <<>> /\ memories = {}
    BY DEF IInv, DeletionIsAlone
  <2>2. ASSUME ~overlapped, ~unclean, NEW row \in (vectors \cup saved) \ memories
        PROVE  \E d \in Deleters : At(d, "deleteVectors")
    BY <2>2 DEF IInv, FileFollows, OrphansAreHeld
  <2> QED
    BY <2>1, <2>2 DEF DeletionIsClean
<1> QED
  BY <1>1, SpecIInv, PTL
=============================================================================

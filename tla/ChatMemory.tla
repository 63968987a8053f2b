----------------------------- MODULE ChatMemory -----------------------------
(***************************************************************************)
(* service/system/ai_chat.go, ai_chat_stream.go and ai_chat_memory.go: the *)
(* turns of one conversation, the memories made of them, and the deletion  *)
(* of the conversation, over the database and the vector store.            *)
(*                                                                         *)
(* The processes are the requests: each turn is one SendMessage or         *)
(* StreamMessage (they change the same state), each deleter one            *)
(* DeleteConversation.  Nothing orders the turns of a conversation, and    *)
(* each statement, transaction and call of the store is a step.  Titles,   *)
(* skills, tool messages, texts and the ranking of what is recalled are    *)
(* left out; every question and answer has a text.                         *)
(***************************************************************************)
EXTENDS VectorIndex, SequencesExt

CONSTANTS
  Turns,      \* requests for an answer
  Deleters,   \* requests to delete the conversation
  MaxOpen,    \* bound: requests under way at once
  MaxCrashes  \* bound: restarts of the process

ASSUME ChatAssumption ==
  MaxOpen \in Nat /\ MaxCrashes \in Nat /\ Turns \cap Deleters = {}

VARIABLES
  live,      \* the conversation is not deleted
  messages,  \* its live user and assistant messages, oldest first: [turn, role]
  memories,  \* the rows of sys_ai_chat_turn_memories: [user, assistant, by, scan]
  embedded,  \* those of them with an embedding
  pc,        \* where each request is
  held,      \* memories a request has in hand: scanned, found or to be deleted
  crashes,
  \* History, for the properties only:
  met,       \* the turns each turn has been under way together with
  overlapped,\* a turn and a deletion have been under way together
  answered,  \* the turns whose answer was committed
  unsaved,   \* turns that ended between their answer and their memory
  unindexed, \* memories whose last indexing did not report success
  unclean    \* a deletion left vectors: the store failed, or the request ended

historyVars == <<met, overlapped, answered, unsaved, unindexed, unclean>>
rowVars == <<live, messages, memories, embedded>>
vars == <<indexVars, rowVars, pc, held, crashes, historyVars>>

Requests == Turns \cup Deleters

Message(t, role) == [turn |-> t, role |-> role]

\* Rows have ids that are never used again: a row is named by what it pairs and
\* by who made it, a turn for itself or while it filled in older ones.
Memory(user, assistant, by, scan) ==
  [user |-> user, assistant |-> assistant, by |-> by, scan |-> scan]
Memories == [user : Turns, assistant : Turns, by : Turns, scan : BOOLEAN]

Init ==
  /\ IndexInit
  /\ live = TRUE /\ messages = <<>> /\ memories = {} /\ embedded = {}
  /\ pc = [r \in Requests |-> "idle"]
  /\ held = [r \in Requests |-> {}]
  /\ crashes = 0
  /\ met = [t \in Turns |-> {}] /\ overlapped = FALSE
  /\ answered = {} /\ unsaved = {} /\ unindexed = {} /\ unclean = FALSE

Open == {r \in Requests : pc[r] \notin {"idle", "done"}}

At(r, stage) == pc[r] = stage
Goto(r, stage) == pc' = [pc EXCEPT ![r] = stage]
Hold(r, rows) == held' = [held EXCEPT ![r] = rows]

(***************************************************************************)
(* A turn.                                                                 *)
(***************************************************************************)

\* findConversation, by a turn or a deleter: its requests begin here.
Find(r) ==
  /\ At(r, "idle") /\ live /\ Cardinality(Open) < MaxOpen
  /\ Goto(r, IF r \in Turns THEN "ask" ELSE "readMemories")
  /\ LET others == Open \cap Turns
     IN  IF r \in Turns
         THEN /\ met' = [t \in Turns |-> IF t = r THEN others
                                        ELSE IF t \in others THEN met[t] \cup {r} ELSE met[t]]
              /\ overlapped' = (overlapped \/ Open # others)
         ELSE overlapped' = (overlapped \/ others # {}) /\ UNCHANGED met
  /\ UNCHANGED <<indexVars, rowVars, held, crashes, answered, unsaved, unindexed, unclean>>

Ask(t) ==
  /\ At(t, "ask")
  /\ messages' = Append(messages, Message(t, "user"))
  /\ Goto(t, "countMemories")
  /\ UNCHANGED <<indexVars, live, memories, embedded, held, crashes, historyVars>>

\* ensureAIChatTurnMemoryRows: older turns are looked for when the conversation
\* has no memory at all.
CountMemories(t) ==
  /\ At(t, "countMemories")
  /\ Goto(t, IF memories = {} THEN "scan" ELSE "answer")
  /\ UNCHANGED <<indexVars, rowVars, held, crashes, historyVars>>

\* An answer is paired with the question just before it, if no other answer has
\* taken it: where the questions of the pairs are.
Paired(msgs) ==
  {i \in 1..Len(msgs)-1 : msgs[i].role = "user" /\ msgs[i+1].role = "assistant"}

\* Mutation: the first open question is kept, not the last one.
ScanFromFirst(t) ==
  /\ At(t, "scan")
  /\ LET IsFirst(i) == messages[i].role = "user" /\ (i = 1 \/ messages[i-1].role = "assistant")
         Answers(i) == {j \in i+1..Len(messages) : messages[j].role = "assistant"}
         found == {Memory(messages[i].turn, messages[Min(Answers(i))].turn, t, TRUE) :
                     i \in {k \in DOMAIN messages : IsFirst(k) /\ Answers(k) # {}}}
     IN  /\ Hold(t, found)
         /\ Goto(t, IF found = {} THEN "answer" ELSE "fillIn")
  /\ UNCHANGED <<indexVars, rowVars, crashes, historyVars>>

Scan(t) ==
  /\ At(t, "scan")
  /\ LET found == {Memory(messages[i].turn, messages[i+1].turn, t, TRUE) : i \in Paired(messages)}
     IN  /\ Hold(t, found)
         /\ Goto(t, IF found = {} THEN "answer" ELSE "fillIn")
  /\ UNCHANGED <<indexVars, rowVars, crashes, historyVars>>

\* A row whose answer has a row is passed over; one whose question has a row
\* (the other unique index) fails the statement, and the recall is given up.
Known(row) == \E old \in memories : old.assistant = row.assistant
QuestionTaken(row) == \E old \in memories : old.user = row.user

FillIn(t) ==
  /\ At(t, "fillIn")
  /\ LET new == {row \in held[t] : ~Known(row)}
     IN  memories' = IF \E row \in new : QuestionTaken(row) THEN memories
                     ELSE memories \cup new
  /\ Hold(t, {}) /\ Goto(t, "answer")
  /\ UNCHANGED <<indexVars, live, messages, embedded, crashes, historyVars>>

\* A recall that fails is only logged.
RecallFails(t) ==
  /\ pc[t] \in {"countMemories", "scan", "fillIn"}
  /\ Hold(t, {}) /\ Goto(t, "answer")
  /\ UNCHANGED <<indexVars, rowVars, crashes, historyVars>>

\* completeAIChatTurn: the transaction does not look at the conversation.
CommitAnswer(t) ==
  /\ At(t, "answer")
  /\ messages' = Append(messages, Message(t, "assistant"))
  /\ answered' = answered \cup {t}
  /\ Goto(t, "findMemory")
  /\ UNCHANGED <<indexVars, live, memories, embedded, held, crashes,
                 met, overlapped, unsaved, unindexed, unclean>>

\* Mutation: looked up by the conversation.
FindAnyMemory(t) ==
  /\ At(t, "findMemory")
  /\ Hold(t, memories)
  /\ Goto(t, IF memories = {} THEN "createMemory"
              ELSE IF memories \subseteq embedded THEN "index" ELSE "embed")
  /\ UNCHANGED <<indexVars, rowVars, crashes, historyVars>>

\* persistAIChatTurnMemory: a row another turn has filled in is taken over.
FindMemory(t) ==
  /\ At(t, "findMemory")
  /\ LET found == {row \in memories : row.assistant = t}
     IN  /\ Hold(t, found)
         /\ Goto(t, IF found = {} THEN "createMemory"
                    ELSE IF found \subseteq embedded THEN "index" ELSE "embed")
  /\ UNCHANGED <<indexVars, rowVars, crashes, historyVars>>

CreateMemory(t) ==
  /\ At(t, "createMemory")
  /\ LET row == Memory(t, t, t, FALSE)
     IN  IF Known(row) \/ QuestionTaken(row)
         THEN Goto(t, "done") /\ UNCHANGED <<memories, held>>
         ELSE /\ memories' = memories \cup {row}
              /\ Hold(t, {row}) /\ Goto(t, "embed")
  /\ UNCHANGED <<indexVars, live, messages, embedded, crashes, historyVars>>

\* Mutation: the row is taken to be there still.
EmbedAnyway(t) ==
  /\ At(t, "embed")
  /\ embedded' = embedded \cup held[t]
  /\ unindexed' = unindexed \cup held[t]
  /\ Goto(t, "index")
  /\ UNCHANGED <<indexVars, live, messages, memories, held, crashes,
                 met, overlapped, answered, unsaved, unclean>>

\* The row may have been deleted: no row is then updated, without an error.
Embed(t) ==
  /\ At(t, "embed")
  /\ embedded' = embedded \cup (held[t] \cap memories)
  /\ unindexed' = unindexed \cup held[t]
  /\ Goto(t, "index")
  /\ UNCHANGED <<indexVars, live, messages, memories, held, crashes,
                 met, overlapped, answered, unsaved, unclean>>

Index(t) ==
  /\ At(t, "index")
  /\ Upsert(held[t])
  /\ unindexed' = unindexed \ held[t]
  /\ Hold(t, {}) /\ Goto(t, "done")
  /\ UNCHANGED <<rowVars, crashes, met, overlapped, answered, unsaved, unclean>>

IndexFails(t) ==
  /\ At(t, "index")
  /\ UpsertFails(held[t])
  /\ unindexed' = unindexed \cup held[t]
  /\ Hold(t, {}) /\ Goto(t, "done")
  /\ UNCHANGED <<rowVars, crashes, met, overlapped, answered, unsaved, unclean>>

\* Elsewhere the request ends with a failure: of a statement, of the model, of
\* the embedding, or because the caller has gone.
TurnEnds(t) ==
  /\ pc[t] \in {"ask", "answer", "findMemory", "createMemory", "embed"}
  /\ unsaved' = IF pc[t] \in {"findMemory", "createMemory"} THEN unsaved \cup {t} ELSE unsaved
  /\ Hold(t, {}) /\ Goto(t, "done")
  /\ UNCHANGED <<indexVars, rowVars, crashes, met, overlapped, answered, unindexed, unclean>>

(***************************************************************************)
(* DeleteConversation.                                                     *)
(***************************************************************************)

ReadMemories(d) ==
  /\ At(d, "readMemories")
  /\ Hold(d, memories) /\ Goto(d, "deleteRows")
  /\ UNCHANGED <<indexVars, rowVars, crashes, historyVars>>

\* Mutation: the memories are read after the transaction.
DeleteRowsThenRead(d) ==
  /\ At(d, "deleteRows")
  /\ live' = FALSE /\ messages' = <<>> /\ memories' = {} /\ embedded' = {}
  /\ Hold(d, {}) /\ Goto(d, "done")
  /\ UNCHANGED <<indexVars, crashes, historyVars>>

DeleteRows(d) ==
  /\ At(d, "deleteRows")
  /\ live' = FALSE /\ messages' = <<>> /\ memories' = {} /\ embedded' = {}
  /\ Goto(d, IF held[d] = {} THEN "done" ELSE "deleteVectors")
  /\ UNCHANGED <<indexVars, held, crashes, historyVars>>

DeleteVectors(d) ==
  /\ At(d, "deleteVectors")
  /\ Delete(held[d])
  /\ Hold(d, {}) /\ Goto(d, "done")
  /\ UNCHANGED <<rowVars, crashes, historyVars>>

DeleteVectorsFails(d) ==
  /\ At(d, "deleteVectors")
  /\ DeleteFails(held[d])
  /\ unclean' = TRUE
  /\ Hold(d, {}) /\ Goto(d, "done")
  /\ UNCHANGED <<rowVars, crashes, met, overlapped, answered, unsaved, unindexed>>

\* Before its transaction commits, a deletion that fails changes nothing.
DeletionEnds(d) ==
  /\ pc[d] \in {"readMemories", "deleteRows"}
  /\ Hold(d, {}) /\ Goto(d, "done")
  /\ UNCHANGED <<indexVars, rowVars, crashes, historyVars>>

(***************************************************************************)
(* The process ends; at the next start the index is read from its file.    *)
(***************************************************************************)

Crash ==
  /\ crashes < MaxCrashes /\ crashes' = crashes + 1
  /\ Reopen
  /\ pc' = [r \in Requests |-> IF r \in Open THEN "done" ELSE pc[r]]
  /\ held' = [r \in Requests |-> {}]
  /\ unsaved' = unsaved \cup {t \in Turns : pc[t] \in {"findMemory", "createMemory"}}
  /\ unclean' = (unclean \/ \E d \in Deleters : At(d, "deleteVectors"))
  /\ UNCHANGED <<rowVars, met, overlapped, answered, unindexed>>

TurnNext(t) ==
  \/ Find(t) \/ Ask(t) \/ CountMemories(t) \/ Scan(t) \/ FillIn(t) \/ RecallFails(t)
  \/ CommitAnswer(t) \/ FindMemory(t) \/ CreateMemory(t) \/ Embed(t)
  \/ Index(t) \/ IndexFails(t) \/ TurnEnds(t)

DeleterNext(d) ==
  \/ Find(d) \/ ReadMemories(d) \/ DeleteRows(d)
  \/ DeleteVectors(d) \/ DeleteVectorsFails(d) \/ DeletionEnds(d)

Next ==
  \/ \E t \in Turns : TurnNext(t)
  \/ \E d \in Deleters : DeleterNext(d)
  \/ Crash

Spec == Init /\ [][Next]_vars

(***************************************************************************)
(* Properties.                                                             *)
(***************************************************************************)

Roles == {"user", "assistant"}

\* Requests are at a stage of their kind, rows and vectors are of turns, and no
\* turn has said more than one question and one answer.
TypeOK ==
  /\ vectors \subseteq Memories /\ saved \subseteq Memories
  /\ memories \subseteq Memories /\ embedded \subseteq memories
  /\ {live, overlapped, unclean} \subseteq BOOLEAN
  /\ messages \in Seq([turn : Turns, role : Roles]) /\ IsInjective(messages)
  /\ \A t \in Turns : pc[t] \in {"idle", "ask", "countMemories", "scan", "fillIn", "answer",
                                 "findMemory", "createMemory", "embed", "index", "done"}
  /\ \A d \in Deleters : pc[d] \in {"idle", "readMemories", "deleteRows", "deleteVectors", "done"}
  /\ held \in [Requests -> SUBSET Memories] /\ met \in [Turns -> SUBSET Turns]
  /\ answered \subseteq Turns /\ unsaved \subseteq answered /\ unindexed \subseteq Memories
  /\ crashes \in 0..MaxCrashes

\* A memory keeps an answer with the question it answers
\* (model/system/ai_chat.go:37-40), except of two turns that were under way
\* together: the scan for older turns pairs by order alone
\* (ai_chat_memory.go:156-179).
AnswerKeepsItsQuestion ==
  \A row \in memories : row.user = row.assistant \/ row.user \in met[row.assistant]

\* An answered turn has its memory (ai_chat_memory.go:131-133), unless it ended
\* before it could make one, or a turn it met was paired with its question or
\* its answer; a later turn's scan never takes a memory away.
AnsweredIsRemembered ==
  \A t \in answered : live /\ At(t, "done") =>
    \/ \E row \in memories : row.user = t /\ row.assistant = t
    \/ t \in unsaved
    \/ \E row \in memories : t \in {row.user, row.assistant} /\ row.user # row.assistant

\* An embedded memory is in the index, in memory and in the file, from the
\* indexing that reported success on: no failed batch of another memory, and no
\* restart, takes it away (usearch.go:66-79, 300-314).
IndexedIsSearchable ==
  \A row \in embedded \ unindexed : row \in vectors /\ row \in saved

\* A deleted conversation leaves neither messages nor memories, unless a turn was
\* under way with a deletion, and a vector without its memory is one such a turn
\* wrote, one a deletion has still to remove, or one a broken deletion left.
DeletionIsClean ==
  /\ ~live /\ ~overlapped => messages = <<>> /\ memories = {}
  /\ (vectors \cup saved) \ memories # {} =>
       overlapped \/ unclean \/ \E d \in Deleters : At(d, "deleteVectors")
=============================================================================

------------------------- MODULE KnowledgeDocument --------------------------
(***************************************************************************)
(* service/officialdoc/knowledge_document.go and knowledge_search.go: one  *)
(* content in one organization, from import to deletion, across the three  *)
(* stores that hold it: the database, the object storage (the source file) *)
(* and the vector store.                                                   *)
(*                                                                         *)
(* The processes are the requests (Import, Reprocess, IndexDocument,       *)
(* DeleteDocument) and the processing goroutines that Import and Reprocess *)
(* start.  Each statement, transaction and call of a store is a step.      *)
(* The chunks one goroutine saves are one batch, named after it.  Embedded *)
(* images, progress and reasons are left out.                              *)
(***************************************************************************)
EXTENDS Naturals, FiniteSets

CONSTANTS
  Requests,     \* requests, each made once
  RequestKind,  \* "import", "reprocess", "index" or "delete"
  MaxProcs,     \* bound: processing goroutines
  MaxCrashes,   \* bound: restarts of the process
  MaxCut,       \* bound: those that stop half-way because a statement fails.  A request
                \* returns, there or, when its context has ended, at every later one;
                \* a goroutine marks the document, if that statement does not fail
  Patient       \* environment: of Reprocess, IndexDocument and DeleteDocument
                \* one at a time, and IndexDocument while nothing is processed

ASSUME KnowledgeAssumption ==
  /\ RequestKind \in [Requests -> {"import", "reprocess", "index", "delete"}]
  /\ MaxProcs \in Nat /\ MaxCrashes \in Nat /\ MaxCut \in Nat
  /\ Patient \in BOOLEAN
  /\ Requests \cap (0..MaxProcs) = {}   \* a request is no goroutine

Procs == 1..MaxProcs
Tasks == Requests \cup Procs

VARIABLES
  doc,      \* the row of knowledge_documents; id 0 when there is none
  lastId,   \* the last id given to a row
  chunks,   \* the live rows of knowledge_chunks: [doc, batch]
  vectors,  \* the batches in the vector store
  objects,  \* the source files in the object storage, by the import that made them
  task,     \* the requests and the goroutines
  crashes

vars == <<doc, lastId, chunks, vectors, objects, task, crashes>>
dbVars == <<doc, lastId, chunks>>

NoDoc == [id |-> 0, status |-> "none", deleted |-> FALSE, object |-> 0]
NoTask == [pc |-> "idle", doc |-> 0, object |-> 0, batches |-> {}]

Init ==
  /\ doc = NoDoc /\ lastId = 0
  /\ chunks = {} /\ vectors = {} /\ objects = {}
  /\ task = [t \in Tasks |-> NoTask]
  /\ crashes = 0

Running == {t \in Tasks : task[t].pc \notin {"idle", "done", "cut"}}

\* gorm adds deleted_at IS NULL to every statement on a document.
IsLive(id) == doc.id = id /\ doc.id # 0 /\ ~doc.deleted
SetStatus(id, status) == doc' = IF IsLive(id) THEN [doc EXCEPT !.status = status] ELSE doc
BatchesOf(id) == {c.batch : c \in {d \in chunks : d.doc = id}}

Goto(t, pc) == task' = [task EXCEPT ![t].pc = pc]
Done(t) == task' = [task EXCEPT ![t] = [NoTask EXCEPT !.pc = "done"]]
At(t, pc) == task[t].pc = pc

\* "cut" marks, for the properties only, what has not run to its end.
Cut == [NoTask EXCEPT !.pc = "cut"]
MayFail == Cardinality({t \in Tasks : At(t, "cut")}) < MaxCut

Changing == {r \in Running \cap Requests : RequestKind[r] # "import"}

Begin(r, kind) ==
  /\ At(r, "idle") /\ r \in Requests /\ RequestKind[r] = kind
  /\ Patient /\ kind # "import" =>
       Changing = {} /\ (kind = "index" => Running \cap Procs = {})

\* startProcessing: go processStoredDocument, on a context of its own.
startProcessing(r, id) ==
  \E p \in Procs :
    /\ At(p, "idle") /\ \A q \in Procs : At(q, "idle") => p <= q
    /\ task' = [task EXCEPT ![r] = [NoTask EXCEPT !.pc = "done"],
                            ![p] = [NoTask EXCEPT !.pc = "load", !.doc = id]]

-----------------------------------------------------------------------------
(* Import                                                                  *)

\* The same content exists: refused, unless the row is a deleted one.
ImportLookup(r) ==
  /\ Begin(r, "import")
  /\ IF IsLive(doc.id) THEN Done(r)
     ELSE task' = [task EXCEPT ![r].pc = "upload", ![r].doc = doc.id]
  /\ UNCHANGED <<dbVars, vectors, objects, crashes>>

ImportUpload(r) ==
  /\ At(r, "upload")
  /\ \/ /\ objects' = objects \cup {r}
        /\ Goto(r, IF task[r].doc = 0 THEN "create" ELSE "purge")
     \/ Done(r) /\ UNCHANGED objects
  /\ UNCHANGED <<dbVars, vectors, crashes>>

\* The deleted row goes for good, by its id.
ImportPurge(r) ==
  /\ At(r, "purge")
  /\ \/ /\ doc' = IF doc.id = task[r].doc THEN NoDoc ELSE doc
        /\ chunks' = {c \in chunks : c.doc # task[r].doc}
        /\ Goto(r, "create")
     \/ Goto(r, "rollback") /\ UNCHANGED <<doc, chunks>>
  /\ UNCHANGED <<lastId, vectors, objects, crashes>>

\* The unique index on (tenant, organization, sha256) refuses a second row.
ImportCreate(r) ==
  /\ At(r, "create")
  /\ \/ /\ doc = NoDoc
        /\ lastId' = lastId + 1
        /\ doc' = [id |-> lastId', status |-> "processing", deleted |-> FALSE, object |-> r]
        /\ startProcessing(r, lastId')
     \/ Goto(r, "rollback") /\ UNCHANGED <<doc, lastId>>
  /\ UNCHANGED <<chunks, vectors, objects, crashes>>

\* A deletion that fails is logged.
ImportRollback(r) ==
  /\ At(r, "rollback")
  /\ \/ objects' = objects \ {r} /\ Done(r)
     \/ task' = [task EXCEPT ![r] = Cut] /\ UNCHANGED objects
  /\ UNCHANGED <<dbVars, vectors, crashes>>

-----------------------------------------------------------------------------
(* Reprocess                                                               *)

ReprocessRead(r) ==
  /\ Begin(r, "reprocess") /\ IsLive(doc.id)
  /\ IF doc.status \in {"processing_failed", "ready", "index_failed"}
     THEN task' = [task EXCEPT ![r].pc = "oldChunks", ![r].doc = doc.id]
     ELSE Done(r)
  /\ UNCHANGED <<dbVars, vectors, objects, crashes>>

ReprocessChunks(r) ==
  /\ At(r, "oldChunks")
  /\ task' = [task EXCEPT ![r].pc = "oldVectors", ![r].batches = BatchesOf(task[r].doc)]
  /\ UNCHANGED <<dbVars, vectors, objects, crashes>>

ReprocessVectors(r) ==
  /\ At(r, "oldVectors")
  /\ vectors' = vectors \ task[r].batches
  /\ Goto(r, "reset")
  /\ UNCHANGED <<dbVars, objects, crashes>>

\* Mutation: the old chunks stay.
ReprocessResetStatusOnly(r) ==
  /\ At(r, "reset")
  /\ SetStatus(task[r].doc, "processing")
  /\ startProcessing(r, task[r].doc)
  /\ UNCHANGED <<lastId, chunks, vectors, objects, crashes>>

\* One transaction removes what was derived and sets the status again.
ReprocessReset(r) ==
  LET id == task[r].doc IN
  /\ At(r, "reset")
  /\ chunks' = {c \in chunks : c.doc # id}
  /\ SetStatus(id, "processing")
  /\ startProcessing(r, id)
  /\ UNCHANGED <<lastId, vectors, objects, crashes>>

-----------------------------------------------------------------------------
(* processStoredDocument                                                   *)

ProcessLoad(p) ==
  /\ At(p, "load") /\ p \in Procs
  /\ IF IsLive(task[p].doc)
     THEN task' = [task EXCEPT ![p].pc = "parse", ![p].object = doc.object]
     ELSE Done(p)
  /\ UNCHANGED <<dbVars, vectors, objects, crashes>>

\* Mutation: an error ends the goroutine without a mark.
ProcessParseUnmarked(p) ==
  /\ At(p, "parse")
  /\ Done(p) \/ (task[p].object \in objects /\ Goto(p, "persist"))
  /\ UNCHANGED <<dbVars, vectors, objects, crashes>>

\* Download, parse and split: without the source, or on any error, it fails.
ProcessParse(p) ==
  /\ At(p, "parse")
  /\ Goto(p, "markFailed") \/ (task[p].object \in objects /\ Goto(p, "persist"))
  /\ UNCHANGED <<dbVars, vectors, objects, crashes>>

\* One transaction saves the chunks and the status; the document is not looked
\* at again.
ProcessPersist(p) ==
  LET id == task[p].doc IN
  /\ At(p, "persist")
  /\ chunks' = chunks \cup {[doc |-> id, batch |-> p]}
  /\ SetStatus(id, "indexing")
  /\ Goto(p, "index")
  /\ UNCHANGED <<lastId, vectors, objects, crashes>>

\* Mutation: the name of the stage is written as the status.
ProcessFailedStage(p) ==
  /\ At(p, "markFailed")
  /\ SetStatus(task[p].doc, "failed")
  /\ Done(p)
  /\ UNCHANGED <<lastId, chunks, vectors, objects, crashes>>

ProcessFailed(p) ==
  /\ At(p, "markFailed")
  /\ SetStatus(task[p].doc, "processing_failed")
  /\ Done(p)
  /\ UNCHANGED <<lastId, chunks, vectors, objects, crashes>>

-----------------------------------------------------------------------------
(* IndexDocument, called by a request or by the goroutine                  *)

\* IndexDocument returns an error and no document.
Fail(t) == IF t \in Procs THEN Goto(t, "markFailed") ELSE Done(t)

IndexRequest(r) ==
  /\ Begin(r, "index") /\ IsLive(doc.id)
  /\ task' = [task EXCEPT ![r].pc = "index", ![r].doc = doc.id]
  /\ UNCHANGED <<dbVars, vectors, objects, crashes>>

IndexLoad(t) ==
  /\ At(t, "index")
  /\ IF IsLive(task[t].doc) /\ doc.status \notin {"processing", "processing_failed"}
     THEN Goto(t, "setIndexing") ELSE Fail(t)
  /\ UNCHANGED <<dbVars, vectors, objects, crashes>>

IndexSet(t) ==
  /\ At(t, "setIndexing")
  /\ SetStatus(task[t].doc, "indexing")
  /\ Goto(t, "readChunks")
  /\ UNCHANGED <<lastId, chunks, vectors, objects, crashes>>

IndexChunks(t) ==
  LET batches == BatchesOf(task[t].doc) IN
  /\ At(t, "readChunks")
  /\ task' = IF batches = {} THEN [task EXCEPT ![t].pc = "indexFailure"]
             ELSE [task EXCEPT ![t].pc = "upsert", ![t].batches = batches]
  /\ UNCHANGED <<dbVars, vectors, objects, crashes>>

\* An embedding for every chunk, then one call of the vector store.
IndexUpsert(t) ==
  /\ At(t, "upsert")
  /\ \/ vectors' = vectors \cup task[t].batches /\ Goto(t, "setReady")
     \/ Goto(t, "indexFailure") /\ UNCHANGED vectors
  /\ UNCHANGED <<dbVars, objects, crashes>>

IndexReady(t) ==
  /\ At(t, "setReady")
  /\ SetStatus(task[t].doc, "ready")
  /\ Done(t)
  /\ UNCHANGED <<lastId, chunks, vectors, objects, crashes>>

IndexFailure(t) ==
  /\ At(t, "indexFailure")
  /\ SetStatus(task[t].doc, "index_failed")
  /\ Done(t)
  /\ UNCHANGED <<lastId, chunks, vectors, objects, crashes>>

-----------------------------------------------------------------------------
(* DeleteDocument                                                          *)

\* Mutation: a document is deleted while it is being processed.
DeleteReadAnyStatus(r) ==
  /\ Begin(r, "delete") /\ IsLive(doc.id)
  /\ task' = [task EXCEPT ![r].pc = "rows", ![r].doc = doc.id, ![r].object = doc.object]
  /\ UNCHANGED <<dbVars, vectors, objects, crashes>>

DeleteRead(r) ==
  /\ Begin(r, "delete") /\ IsLive(doc.id)
  /\ IF doc.status \in {"processing", "indexing"} THEN Done(r)
     ELSE task' = [task EXCEPT ![r].pc = "rows", ![r].doc = doc.id, ![r].object = doc.object]
  /\ UNCHANGED <<dbVars, vectors, objects, crashes>>

DeleteRows(r) ==
  /\ At(r, "rows")
  /\ task' = [task EXCEPT ![r].pc = "objects", ![r].batches = BatchesOf(task[r].doc)]
  /\ UNCHANGED <<dbVars, vectors, objects, crashes>>

DeleteObjects(r) ==
  /\ At(r, "objects")
  /\ \/ objects' = objects \ {task[r].object} /\ Goto(r, "vectors")
     \/ Goto(r, "deleteFailed") /\ UNCHANGED objects
  /\ UNCHANGED <<dbVars, vectors, crashes>>

DeleteVectors(r) ==
  /\ At(r, "vectors")
  /\ \/ vectors' = vectors \ task[r].batches /\ Goto(r, "deleteRows")
     \/ task[r].batches # {} /\ Goto(r, "deleteFailed") /\ UNCHANGED vectors
  /\ UNCHANGED <<dbVars, objects, crashes>>

\* One transaction: the chunks and the document.
DeleteCommit(r) ==
  LET id == task[r].doc IN
  /\ At(r, "deleteRows")
  /\ \/ /\ chunks' = {c \in chunks : c.doc # id}
        /\ doc' = IF IsLive(id) THEN [doc EXCEPT !.deleted = TRUE] ELSE doc
        /\ Done(r)
     \/ Goto(r, "deleteFailed") /\ UNCHANGED <<doc, chunks>>
  /\ UNCHANGED <<lastId, vectors, objects, crashes>>

\* markKnowledgeDocumentDeletionFailed, on the request's context.
DeleteFailed(r) ==
  /\ At(r, "deleteFailed")
  /\ SetStatus(task[r].doc, "delete_failed")
  /\ Done(r)
  /\ UNCHANGED <<lastId, chunks, vectors, objects, crashes>>

-----------------------------------------------------------------------------
Abandon(r) ==
  /\ MayFail /\ r \in Running
  /\ task' = [task EXCEPT ![r] = Cut]
  /\ UNCHANGED <<dbVars, vectors, objects, crashes>>

\* A statement of a goroutine fails: it gives up, with the document as it is, when
\* that loads or marks the document, and marks it otherwise.
ProcessGivesUp(p) ==
  /\ MayFail /\ p \in Procs
  /\ \/ task[p].pc \in {"load", "markFailed"} /\ task' = [task EXCEPT ![p] = Cut]
     \/ /\ task[p].pc \in {"persist", "index", "setIndexing", "readChunks", "setReady",
                         "indexFailure"}
        /\ Goto(p, "markFailed")
  /\ UNCHANGED <<dbVars, vectors, objects, crashes>>

Crash ==
  /\ crashes < MaxCrashes
  /\ crashes' = crashes + 1
  /\ task' = [t \in Tasks |-> IF t \in Running THEN Cut ELSE task[t]]
  /\ UNCHANGED <<dbVars, vectors, objects>>

ImportStep(r) == ImportUpload(r) \/ ImportPurge(r) \/ ImportCreate(r) \/ ImportRollback(r)
ReprocessStep(r) == ReprocessChunks(r) \/ ReprocessVectors(r) \/ ReprocessReset(r)
ProcessStep(p) == ProcessLoad(p) \/ ProcessParse(p) \/ ProcessPersist(p) \/ ProcessFailed(p)
IndexStep(t) ==
  IndexLoad(t) \/ IndexSet(t) \/ IndexChunks(t) \/ IndexUpsert(t) \/ IndexReady(t)
    \/ IndexFailure(t)
DeleteStep(r) ==
  DeleteRows(r) \/ DeleteObjects(r) \/ DeleteVectors(r) \/ DeleteCommit(r) \/ DeleteFailed(r)
Step(t) == ImportStep(t) \/ ReprocessStep(t) \/ ProcessStep(t) \/ IndexStep(t) \/ DeleteStep(t)

Next ==
  \/ \E r \in Requests :
       ImportLookup(r) \/ ReprocessRead(r) \/ IndexRequest(r) \/ DeleteRead(r) \/ Abandon(r)
  \/ \E t \in Tasks : Step(t)
  \/ \E p \in Procs : ProcessGivesUp(p)
  \/ Crash

\* The goroutines run and the calls they make have timeouts; no request need go on.
Fairness == \A p \in Procs : WF_vars(ProcessStep(p) \/ IndexStep(p))

Spec == Init /\ [][Next]_vars
FairSpec == Spec /\ Fairness
-----------------------------------------------------------------------------
Statuses == {"none", "processing", "indexing", "ready", "processing_failed",
             "index_failed", "delete_failed"}
Pcs == {"idle", "done", "cut", "upload", "purge", "create", "rollback", "oldChunks",
        "oldVectors", "reset", "load", "parse", "persist", "markFailed", "index",
        "setIndexing", "readChunks", "upsert", "setReady", "indexFailure", "rows",
        "objects", "vectors", "deleteRows", "deleteFailed"}
Sources == Requests \cup {0}

TypeOK ==
  /\ doc \in [id : Nat, status : Statuses, deleted : BOOLEAN, object : Sources]
  /\ lastId \in Nat
  /\ chunks \subseteq [doc : Nat \ {0}, batch : Procs]
  /\ vectors \subseteq Procs /\ objects \subseteq Requests
  /\ task \in [Tasks -> [pc : Pcs, doc : Nat, object : Sources, batches : SUBSET Procs]]
  /\ crashes \in Nat

WasCut(kind) == \E r \in Requests : RequestKind[r] = kind /\ At(r, "cut")

\* A document that is shown as ready has the chunks of one parse, and all of
\* them in the vector store; unless a Reprocess or DeleteDocument stopped after
\* it had taken the vectors away.
ReadyIsSearchable ==
  IsLive(doc.id) /\ doc.status = "ready" /\ Changing = {} =>
    \E b \in Procs :
      /\ BatchesOf(doc.id) = {b}
      /\ b \in vectors \/ WasCut("reprocess") \/ WasCut("delete")

\* A source file in the object storage belongs to the document or to an import
\* that is under way; a deleted document keeps none, and imports of the same
\* content at the same time do not take each other's file or row away.
SourceHasOwner ==
  \A i \in objects :
    \/ doc.object = i /\ ~doc.deleted
    \/ task[i].pc \in {"purge", "create", "rollback", "cut"}

\* Nothing is left behind, wherever a request stops or the process crashes: a
\* source has its owner, a vector its chunk and a chunk its document, so what the
\* order of deletion (source, vectors, rows) leaves can be deleted again.
NothingLeftBehind ==
  /\ SourceHasOwner
  /\ Changing = {} =>
       /\ vectors \subseteq {c.batch : c \in chunks}
       /\ \A c \in chunks : IsLive(c.doc)

\* A document is processing for ever only when the process crashed (nothing resumes
\* it, knowledge_document.go:217-223) or a goroutine could not load or could not mark
\* it (228-230, 343-347): every request refuses it then.  A goroutine whose work
\* fails, at any other point, ends it.
ProcessingEnds ==
  (doc.status = "processing") ~>
    (doc.status # "processing" \/ crashes > 0 \/ \E p \in Procs : At(p, "cut"))

=============================================================================

----------------------- MODULE KnowledgeProofs ------------------------
(***************************************************************************)
(* The safety properties of KnowledgeDocument for any requests, any number *)
(* of goroutines and restarts, when the users are patient.                 *)
(***************************************************************************)
EXTENDS KnowledgeDocument, TLAPS

-----------------------------------------------------------------------------
(* The inductive invariant *)

DocRecords == [id : Nat, status : Statuses, deleted : BOOLEAN, object : Sources]
TaskRecords == [pc : Pcs, doc : Nat, object : Sources, batches : SUBSET Procs]

Ended == {"idle", "done", "cut"}
ImportPcs == {"upload", "purge", "create", "rollback"}
ReprocessPcs == {"oldChunks", "oldVectors", "reset"}
ProcPcs == {"load", "parse", "persist", "markFailed"}
IndexPcs == {"index", "setIndexing", "readChunks", "upsert", "setReady", "indexFailure"}
DeletePcs == {"rows", "objects", "vectors", "deleteRows", "deleteFailed"}

\* The stages of the tasks, by their kind.
PcsOf(t) ==
  Ended \cup (IF t \in Procs THEN ProcPcs \cup IndexPcs
              ELSE CASE RequestKind[t] = "import" -> ImportPcs
                     [] RequestKind[t] = "reprocess" -> ReprocessPcs
                     [] RequestKind[t] = "index" -> IndexPcs
                     [] RequestKind[t] = "delete" -> DeletePcs)

StagesFollowKind == \A t \in Tasks : task[t].pc \in PcsOf(t)

\* The row has an id of the sequence, and the source of an import that is over.
RowIsMade ==
  /\ doc.id = 0 => doc = NoDoc
  /\ doc.id <= lastId
  /\ doc.object # 0 => task[doc.object].pc = "done"

\* An import has seen no row or one that had been deleted.
ImportsSawNoLiveRow ==
  \A t \in Tasks : task[t].pc \in ImportPcs =>
    /\ task[t].doc <= lastId /\ ~IsLive(task[t].doc)
    /\ task[t].pc = "purge" => task[t].doc # 0

\* The goroutines and the requests that change a document.
Workers == {t \in Tasks : task[t].pc \notin Ended \cup ImportPcs}

OneWorks == \A t, u \in Workers : t = u

WorkIsOnTheRow ==
  \A t \in Workers :
    /\ IsLive(task[t].doc)
    /\ t \in Procs => doc.status \in {"processing", "indexing"}
    /\ task[t].pc \in DeletePcs => task[t].object = doc.object

Batches == {c.batch : c \in chunks}

\* What a worker knows of the chunks, the vectors and the source at its stage.
Knows(t) ==
  /\ task[t].pc \in {"load", "parse", "persist"} => chunks = {}
  /\ task[t].pc \in {"oldVectors", "objects", "vectors", "upsert", "setReady"} =>
       task[t].batches = Batches
  /\ task[t].pc \in {"upsert", "setReady"} => chunks # {}
  /\ task[t].pc = "setReady" => Batches \subseteq vectors
  /\ task[t].pc \in {"reset", "deleteRows"} => vectors = {}
  /\ task[t].pc \in {"vectors", "deleteRows"} => doc.object \notin objects

WorkFollowsData == \A t \in Workers : Knows(t)

\* The chunks are those of one parse of the live document, and every vector has its chunk.
DataIsTheRows ==
  /\ \A c \in chunks : IsLive(c.doc)
  /\ \A c, d \in chunks : c = d
  /\ vectors \subseteq Batches

\* A ready document has its vectors, until somebody takes them away.
Taking == {t \in Workers : task[t].pc \in {"reset", "deleteRows", "deleteFailed"}}
ReadyHasVectors ==
  IsLive(doc.id) /\ doc.status = "ready" =>
    /\ chunks # {}
    /\ Batches \subseteq vectors \/ Taking # {} \/ WasCut("reprocess") \/ WasCut("delete")

IInv ==
  /\ TypeOK
  /\ StagesFollowKind
  /\ RowIsMade
  /\ ImportsSawNoLiveRow
  /\ OneWorks
  /\ WorkIsOnTheRow
  /\ WorkFollowsData
  /\ DataIsTheRows
  /\ ReadyHasVectors
  /\ SourceHasOwner

-----------------------------------------------------------------------------
(* Types and frames *)

LEMMA Disjoint == Requests \cap Procs = {} /\ 0 \notin Requests
BY KnowledgeAssumption DEF Procs

LEMMA KindsAre ==
  ASSUME NEW r \in Requests
  PROVE  RequestKind[r] \in {"import", "reprocess", "index", "delete"}
BY KnowledgeAssumption

Row(task_t, pc) == [task_t EXCEPT !.pc = pc]
DoneTask == [NoTask EXCEPT !.pc = "done"]

\* The fields of the records that steps write.
LEMMA Fields ==
  /\ NoDoc \in DocRecords /\ NoDoc.id = 0 /\ NoDoc.object = 0 /\ NoDoc.status = "none"
  /\ NoTask \in TaskRecords
  /\ DoneTask \in TaskRecords /\ DoneTask.pc = "done"
  /\ Cut \in TaskRecords /\ Cut.pc = "cut"
BY DEF NoDoc, NoTask, DoneTask, Cut, DocRecords, TaskRecords, Statuses, Pcs, Sources

LEMMA RowFields ==
  ASSUME NEW x \in TaskRecords, NEW pc \in Pcs
  PROVE  /\ Row(x, pc) \in TaskRecords /\ Row(x, pc).pc = pc /\ Row(x, pc).doc = x.doc
         /\ Row(x, pc).object = x.object /\ Row(x, pc).batches = x.batches
BY DEF Row, TaskRecords

LEMMA TypesAre ==
  TypeOK <=> /\ doc \in DocRecords /\ lastId \in Nat
             /\ chunks \subseteq [doc : Nat \ {0}, batch : Procs]
             /\ vectors \subseteq Procs /\ objects \subseteq Requests
             /\ task \in [Tasks -> TaskRecords] /\ crashes \in Nat
BY DEF TypeOK, DocRecords, TaskRecords

\* Who stands where.
LEMMA Standing ==
  ASSUME StagesFollowKind, NEW t \in Tasks
  PROVE  /\ task[t].pc \in ImportPcs => t \in Requests \ Procs /\ RequestKind[t] = "import"
         /\ task[t].pc \in ReprocessPcs => t \in Requests \ Procs /\ RequestKind[t] = "reprocess"
         /\ task[t].pc \in DeletePcs => t \in Requests \ Procs /\ RequestKind[t] = "delete"
         /\ task[t].pc \in ProcPcs => t \in Procs
         /\ task[t].pc \in IndexPcs =>
              t \in Procs \/ (t \in Requests \ Procs /\ RequestKind[t] = "index")
<1>1. CASE t \in Procs
  BY <1>1 DEF StagesFollowKind, PcsOf, Ended, ImportPcs, ReprocessPcs, ProcPcs, IndexPcs, DeletePcs
<1>2. CASE t \in Requests \ Procs
  BY <1>2, KindsAre
     DEF StagesFollowKind, PcsOf, Ended, ImportPcs, ReprocessPcs, ProcPcs, IndexPcs, DeletePcs
<1> QED
  BY <1>1, <1>2 DEF Tasks

LEMMA StagesOf ==
  /\ \A t \in Procs : PcsOf(t) = Ended \cup ProcPcs \cup IndexPcs
  /\ \A t \in Requests :
       /\ RequestKind[t] = "import" => PcsOf(t) = Ended \cup ImportPcs
       /\ RequestKind[t] = "reprocess" => PcsOf(t) = Ended \cup ReprocessPcs
       /\ RequestKind[t] = "index" => PcsOf(t) = Ended \cup IndexPcs
       /\ RequestKind[t] = "delete" => PcsOf(t) = Ended \cup DeletePcs
BY Disjoint DEF PcsOf

\* Workers are the requests that change a document and the running goroutines.
LEMMA WorkersAre ==
  ASSUME StagesFollowKind
  PROVE  /\ Workers \cap Requests = Changing
         /\ Workers \cap Procs = Running \cap Procs
         /\ Workers = Changing \cup (Running \cap Procs)
<1>1. ASSUME NEW t \in Requests PROVE t \in Workers <=> t \in Changing
  <2>1. CASE RequestKind[t] = "import"
    BY <1>1, <2>1, StagesOf
       DEF StagesFollowKind, Workers, Changing, Running, Tasks, Ended, ImportPcs
  <2>2. CASE RequestKind[t] # "import"
    <3>1. task[t].pc \notin ImportPcs
      BY <2>2, <1>1, Standing DEF Tasks
    <3> QED
      BY <2>2, <3>1, <1>1 DEF Workers, Changing, Running, Tasks, Ended
  <2> QED
    BY <2>1, <2>2
<1>2. ASSUME NEW t \in Procs PROVE t \in Workers <=> t \in Running
  <2>1. task[t].pc \notin ImportPcs
    BY <1>2, Standing DEF Tasks
  <2> QED
    BY <2>1, <1>2 DEF Workers, Running, Tasks, Ended
<1> QED
  BY <1>1, <1>2 DEF Workers, Changing, Tasks

LEMMA StatusFields ==
  ASSUME doc \in DocRecords, NEW s \in Statuses
  PROVE  /\ [doc EXCEPT !.status = s] \in DocRecords
         /\ [doc EXCEPT !.status = s].id = doc.id
         /\ [doc EXCEPT !.status = s].deleted = doc.deleted
         /\ [doc EXCEPT !.status = s].object = doc.object
         /\ [doc EXCEPT !.status = s].status = s
BY DEF DocRecords

-----------------------------------------------------------------------------
(* A step of a worker *)

\* A step of a worker, up to what it does to the data: the worker takes the
\* record x, the row keeps its id and its source.
Works(t, x) ==
  /\ t \in Workers
  /\ task' = [task EXCEPT ![t] = x]
  /\ x \in TaskRecords /\ x.pc \in PcsOf(t) \ {"idle", "cut"}
  /\ doc' \in DocRecords /\ doc'.id = doc.id /\ doc'.object = doc.object
  /\ doc'.deleted = doc.deleted \/ (doc'.deleted /\ x.pc = "done" /\ doc.object \notin objects)
  /\ x.pc # "done" =>
       /\ x.doc = task[t].doc
       /\ t \in Procs => doc'.status \in {"processing", "indexing"}
       /\ x.pc \in DeletePcs => x.object = doc.object
  /\ objects' = objects \/ objects' = objects \ {doc.object}
  /\ UNCHANGED <<lastId, crashes>>

LEMMA WorkKeeps ==
  ASSUME IInv, NEW t, NEW x, Works(t, x),
         chunks' \subseteq [doc : Nat \ {0}, batch : Procs], vectors' \subseteq Procs,
         x.pc # "done" => Knows(t)', DataIsTheRows', ReadyHasVectors'
  PROVE  IInv'
<1> USE DEF Works
<1>1. t \in Tasks /\ task \in [Tasks -> TaskRecords]
  BY TypesAre DEF IInv, Workers
<1>2. task'[t] = x /\ \A u \in Tasks \ {t} : task'[u] = task[u]
  BY <1>1
<1>3. task' \in [Tasks -> TaskRecords]
  BY <1>1
<1>4. TypeOK'
  <2>1. objects' \subseteq Requests /\ lastId' \in Nat /\ crashes' \in Nat
    BY TypesAre DEF IInv
  <2> QED
    BY <2>1, <1>3 DEF TypeOK, DocRecords, TaskRecords
<1>5. StagesFollowKind'
  BY <1>1, <1>2 DEF IInv, StagesFollowKind, PcsOf
<1>6. \A u \in Tasks : task[u].pc = "done" => task'[u].pc = "done"
  BY <1>2 DEF Workers, Ended
<1>7. IsLive(doc.id)
  BY DEF IInv, WorkIsOnTheRow, IsLive
<1>8. RowIsMade'
  <2>1. doc.id # 0
    BY <1>7 DEF IsLive
  <2>2. doc.object # 0 => doc.object \in Tasks
    BY TypesAre DEF IInv, DocRecords, Sources, Tasks
  <2> QED
    BY <2>1, <2>2, <1>6 DEF IInv, RowIsMade
<1>9. \A id : IsLive(id)' => IsLive(id)
  BY <1>7 DEF IsLive
<1>10. x.pc \notin ImportPcs
  <2>1. task[t].pc \notin Ended \cup ImportPcs
    BY DEF Workers
  <2>2. CASE t \in Procs
    BY <2>2, StagesOf DEF ImportPcs, Ended, ProcPcs, IndexPcs
  <2>3. CASE t \in Requests
    <3>1. RequestKind[t] # "import"
      BY <2>1, <2>3, StagesOf, <1>1 DEF IInv, StagesFollowKind
    <3> QED
      BY <3>1, <2>3, KindsAre, StagesOf
         DEF ImportPcs, Ended, ReprocessPcs, IndexPcs, DeletePcs
  <2> QED
    BY <2>2, <2>3, <1>1 DEF Tasks
<1>11. ImportsSawNoLiveRow'
  <2> SUFFICES ASSUME NEW u \in Tasks, task'[u].pc \in ImportPcs
               PROVE  /\ task'[u].doc <= lastId' /\ ~IsLive(task[u].doc)'
                      /\ task'[u].pc = "purge" => task'[u].doc # 0
    BY DEF ImportsSawNoLiveRow
  <2>1. u # t
    BY <1>2, <1>10
  <2>2. task'[u] = task[u]
    BY <2>1, <1>2
  <2>3. /\ task[u].doc <= lastId /\ ~IsLive(task[u].doc)
        /\ task[u].pc = "purge" => task[u].doc # 0
    BY <2>2 DEF IInv, ImportsSawNoLiveRow
  <2>4. IsLive(task[u].doc)' => IsLive(task[u].doc)
    BY <2>2, <1>9 DEF IsLive
  <2> QED
    BY <2>2, <2>3, <2>4
<1>12. Workers' \subseteq Workers \cap {t}
  <2>1. \A u \in Workers : u = t
    BY DEF IInv, OneWorks
  <2>2. \A u \in Tasks : u # t => (u \in Workers' <=> u \in Workers)
    BY <1>2 DEF Workers
  <2> QED
    BY <2>1, <2>2, <1>1 DEF Workers
<1>13. OneWorks'
  BY <1>12 DEF OneWorks
<1>14. t \in Workers' => x.pc # "done"
  BY <1>2 DEF Workers, Ended
<1>15. WorkIsOnTheRow'
  <2> SUFFICES ASSUME t \in Workers'
               PROVE  /\ IsLive(task[t].doc)'
                      /\ t \in Procs => doc'.status \in {"processing", "indexing"}
                      /\ task'[t].pc \in DeletePcs => task'[t].object = doc'.object
    BY <1>12 DEF WorkIsOnTheRow
  <2>1. IsLive(task[t].doc)
    BY DEF IInv, WorkIsOnTheRow
  <2>2. doc'.deleted = doc.deleted
    BY <1>14
  <2> QED
    BY <1>2, <1>14, <2>1, <2>2 DEF IsLive
<1>16. WorkFollowsData'
  BY <1>12, <1>14 DEF WorkFollowsData
<1>17. SourceHasOwner'
  <2> SUFFICES ASSUME NEW i \in objects'
               PROVE  \/ doc'.object = i /\ ~doc'.deleted
                      \/ task'[i].pc \in {"purge", "create", "rollback", "cut"}
    BY DEF SourceHasOwner
  <2>1. i \in objects /\ i \in Tasks
    BY TypesAre DEF IInv, Tasks
  <2>2. CASE doc.object = i /\ ~doc.deleted
    BY <2>1, <2>2
  <2>3. CASE task[i].pc \in {"purge", "create", "rollback", "cut"}
    <3>1. i # t
      BY <2>3 DEF Workers, Ended, ImportPcs
    <3> QED
      BY <2>1, <2>3, <3>1, <1>2
  <2> QED
    BY <2>1, <2>2, <2>3 DEF IInv, SourceHasOwner
<1> QED
  BY <1>4, <1>5, <1>8, <1>11, <1>13, <1>15, <1>16, <1>17 DEF IInv

LEMMA AtWork ==
  ASSUME IInv, NEW t \in Tasks, task[t].pc \notin Ended \cup ImportPcs
  PROVE  /\ t \in Workers /\ Knows(t) /\ doc \in DocRecords /\ task[t] \in TaskRecords
         /\ doc.id = task[t].doc /\ doc.id # 0 /\ ~doc.deleted /\ IsLive(task[t].doc)
         /\ \A c \in chunks : c.doc = task[t].doc
         /\ BatchesOf(task[t].doc) = Batches
         /\ t \in Procs => doc.status \in {"processing", "indexing"}
         /\ task[t].pc \in DeletePcs => task[t].object = doc.object
<1>1. t \in Workers
  BY DEF Workers
<1>2. IsLive(task[t].doc)
  BY <1>1 DEF IInv, WorkIsOnTheRow
<1>3. \A c \in chunks : c.doc = task[t].doc
  BY <1>2 DEF IInv, DataIsTheRows, IsLive
<1>4. BatchesOf(task[t].doc) = Batches
  BY <1>3 DEF BatchesOf, Batches
<1> QED
  BY <1>1, <1>2, <1>3, <1>4, TypesAre DEF IInv, WorkIsOnTheRow, WorkFollowsData, IsLive

\* A worker that goes on, and sets a status or none.
LEMMA WorkGoes ==
  ASSUME IInv, NEW t \in Tasks, task[t].pc \notin Ended \cup ImportPcs,
         NEW x \in TaskRecords, task' = [task EXCEPT ![t] = x],
         NEW s \in Statuses, doc' = doc \/ SetStatus(task[t].doc, s),
         x.pc \in PcsOf(t) \ {"idle", "cut", "done"}, x.doc = task[t].doc,
         t \in Procs => doc' = doc \/ s = "indexing",
         x.pc \in DeletePcs => x.object = doc.object,
         objects' = objects \/ objects' = objects \ {doc.object},
         UNCHANGED <<lastId, crashes>>
  PROVE  /\ Works(t, x) /\ task'[t] = x /\ doc'.deleted = doc.deleted
         /\ doc'.object = doc.object /\ doc'.status \in {doc.status, s}
<1>0. doc \in DocRecords /\ ~doc.deleted
  BY AtWork
<1>1. doc' = doc \/ doc' = [doc EXCEPT !.status = s]
  BY AtWork DEF SetStatus
<1>2. /\ doc' \in DocRecords /\ doc'.id = doc.id /\ doc'.object = doc.object
      /\ doc'.deleted = doc.deleted /\ doc'.status \in {doc.status, s}
      /\ doc' = doc \/ doc'.status = s
  <2>1. CASE doc' = doc
    BY <1>0, <2>1
  <2>2. CASE doc' = [doc EXCEPT !.status = s]
    BY <1>0, <2>2, StatusFields
  <2> QED
    BY <1>1, <2>1, <2>2
<1>3. t \in Procs => doc'.status \in {"processing", "indexing"}
  BY <1>2, AtWork
<1>4. task'[t] = x
  BY TypesAre DEF IInv
<1> QED
  BY <1>2, <1>3, <1>4, AtWork DEF Works

\* A worker that ends, and sets a status or none.
LEMMA WorkEnds ==
  ASSUME IInv, NEW t \in Tasks, task[t].pc \notin Ended \cup ImportPcs,
         Done(t), NEW s \in Statuses, doc' = doc \/ SetStatus(task[t].doc, s),
         UNCHANGED <<lastId, crashes, objects>>
  PROVE  /\ Works(t, DoneTask) /\ doc'.deleted = doc.deleted
         /\ doc'.object = doc.object /\ doc'.status \in {doc.status, s}
<1>0. doc \in DocRecords /\ ~doc.deleted
  BY AtWork
<1>1. doc' = doc \/ doc' = [doc EXCEPT !.status = s]
  BY AtWork DEF SetStatus
<1>2. /\ doc' \in DocRecords /\ doc'.id = doc.id /\ doc'.object = doc.object
      /\ doc'.deleted = doc.deleted /\ doc'.status \in {doc.status, s}
  BY <1>0, <1>1, StatusFields
<1>3. DoneTask \in TaskRecords /\ DoneTask.pc = "done" /\ "done" \in PcsOf(t)
  BY Fields DEF PcsOf, Ended
<1> QED
  BY <1>2, <1>3, AtWork DEF Works, Done, DoneTask

LEMMA CutsStay ==
  ASSUME NEW t, NEW x, task \in [Tasks -> TaskRecords], Works(t, x), NEW kind, WasCut(kind)
  PROVE  WasCut(kind)'
<1>1. PICK r \in Requests : RequestKind[r] = kind /\ task[r].pc = "cut"
  BY DEF WasCut, At
<1>2. r # t /\ r \in Tasks
  BY <1>1 DEF Works, Workers, Ended, Tasks
<1> QED
  BY <1>1, <1>2 DEF WasCut, At, Works

\* A step that leaves the chunks and the vectors alone.
LEMMA QuietWork ==
  ASSUME IInv, NEW t, NEW x, Works(t, x), UNCHANGED <<chunks, vectors>>,
         doc'.deleted = doc.deleted, doc'.status = doc.status \/ doc'.status # "ready",
         t \notin Taking \/ x.pc \in {"reset", "deleteRows", "deleteFailed"} \/ doc'.status # "ready",
         x.pc # "done" => Knows(t)'
  PROVE  IInv'
<1>1. DataIsTheRows'
  BY DEF IInv, DataIsTheRows, Batches, IsLive, Works
<1>2. Taking \subseteq {t}
  BY DEF IInv, OneWorks, Taking, Works
<1>3. ReadyHasVectors'
  <2> SUFFICES ASSUME IsLive(doc.id)', doc'.status = "ready"
               PROVE  /\ chunks' # {}
                      /\ \/ Batches' \subseteq vectors' \/ Taking' # {}
                         \/ WasCut("reprocess")' \/ WasCut("delete")'
    BY DEF ReadyHasVectors
  <2>1. IsLive(doc.id) /\ doc.status = "ready"
    BY DEF IsLive, Works
  <2>2. Taking # {} => Taking' # {}
    <3> SUFFICES ASSUME t \in Taking PROVE t \in Taking'
      BY <1>2
    <3>1. x.pc \in {"reset", "deleteRows", "deleteFailed"} /\ task'[t] = x /\ t \in Tasks
      BY TypesAre DEF IInv, Works, Workers
    <3> QED
      BY <3>1 DEF Taking, Workers, Ended, ImportPcs
  <2>3. Batches' = Batches
    BY DEF Batches
  <2> QED
    BY <2>1, <2>2, <2>3, CutsStay, TypesAre DEF IInv, ReadyHasVectors
<1>4. chunks' \subseteq [doc : Nat \ {0}, batch : Procs] /\ vectors' \subseteq Procs
  BY TypesAre DEF IInv
<1> QED
  BY <1>1, <1>3, <1>4, WorkKeeps

LEMMA QuietGoto ==
  ASSUME IInv, NEW t \in Tasks, task[t].pc \notin Ended \cup ImportPcs,
         NEW pc \in Pcs, Goto(t, pc), pc \in PcsOf(t) \ {"idle", "cut", "done"},
         NEW s \in Statuses \ {"ready"}, doc' = doc \/ SetStatus(task[t].doc, s),
         t \in Procs => doc' = doc \/ s = "indexing",
         pc \in DeletePcs => task[t].pc \in DeletePcs,
         objects' = objects \/ objects' = objects \ {doc.object},
         UNCHANGED <<lastId, crashes, chunks, vectors>>,
         t \notin Taking \/ pc \in {"reset", "deleteRows", "deleteFailed"},
         Knows(t)'
  PROVE  IInv'
<1> DEFINE x == Row(task[t], pc)
<1>1. /\ x \in TaskRecords /\ x.pc = pc /\ x.doc = task[t].doc /\ x.object = task[t].object
      /\ task' = [task EXCEPT ![t] = x]
  BY AtWork, RowFields DEF Goto, Row
<1>2. x.pc \in DeletePcs => x.object = doc.object
  BY <1>1, AtWork
<1> HIDE DEF x
<1>3. Works(t, x) /\ doc'.deleted = doc.deleted /\ doc'.status \in {doc.status, s}
  BY <1>1, <1>2, WorkGoes
<1> QED
  BY <1>1, <1>3, QuietWork

LEMMA QuietDone ==
  ASSUME IInv, NEW t \in Tasks, task[t].pc \notin Ended \cup ImportPcs, Done(t),
         NEW s \in Statuses \ {"ready"},
         (doc' = doc /\ t \notin Taking) \/ SetStatus(task[t].doc, s),
         UNCHANGED <<lastId, crashes, objects, chunks, vectors>>
  PROVE  IInv'
<1>1. /\ Works(t, DoneTask) /\ doc'.deleted = doc.deleted
      /\ doc'.status \in {doc.status, s}
  BY WorkEnds
<1>2. t \notin Taking \/ doc'.status # "ready"
  <2>1. doc \in DocRecords /\ IsLive(task[t].doc)
    BY AtWork
  <2> QED
    BY <2>1, StatusFields DEF SetStatus
<1> QED
  BY <1>1, <1>2, Fields, QuietWork

-----------------------------------------------------------------------------
(* Reprocess *)

LEMMA ReprocessChunksKeeps ==
  ASSUME IInv, NEW r \in Tasks, ReprocessChunks(r) PROVE IInv'
<1> DEFINE x == [task[r] EXCEPT !.pc = "oldVectors", !.batches = BatchesOf(task[r].doc)]
<1>1. task[r].pc = "oldChunks"
  BY DEF ReprocessChunks, At
<1>2. task[r].pc \notin Ended \cup ImportPcs /\ "oldVectors" \in PcsOf(r)
  BY <1>1, Standing, StagesOf DEF IInv, Ended, ImportPcs, ReprocessPcs
<1>3. Batches \subseteq Procs
  BY TypesAre DEF IInv, Batches
<1>4. task' = [task EXCEPT ![r] = x]
  BY DEF ReprocessChunks
<1>5. /\ x \in TaskRecords /\ x.pc = "oldVectors" /\ x.doc = task[r].doc /\ x.batches = Batches
  BY <1>2, <1>3, AtWork DEF TaskRecords, Pcs
<1> HIDE DEF x
<1>6. /\ Works(r, x) /\ task'[r] = x /\ doc'.deleted = doc.deleted
      /\ doc'.status = doc.status
  <2>1. "none" \in Statuses /\ UNCHANGED <<doc, lastId, crashes, objects>>
    BY DEF ReprocessChunks, dbVars, Statuses
  <2>2. x.pc \notin DeletePcs
    BY <1>5 DEF DeletePcs
  <2>3. x.pc \in PcsOf(r) \ {"idle", "cut", "done"}
    BY <1>2, <1>5
  <2> QED
    BY <2>1, <2>2, <2>3, <1>2, <1>4, <1>5, WorkGoes
<1>7. Knows(r)' /\ r \notin Taking
  BY <1>1, <1>5, <1>6 DEF Knows, Taking, Batches, ReprocessChunks, dbVars
<1> QED
  BY <1>6, <1>7, QuietWork DEF ReprocessChunks, dbVars

\* A worker takes the vectors away: the next stage is of those that take.
LEMMA VectorsGo ==
  ASSUME IInv, NEW t \in Tasks, task[t].pc \notin Ended \cup ImportPcs,
         NEW pc \in {"reset", "deleteRows"}, Goto(t, pc), pc \in PcsOf(t),
         task[t].batches = Batches, vectors' = vectors \ task[t].batches,
         pc = "deleteRows" => task[t].pc = "vectors",
         UNCHANGED <<doc, lastId, crashes, chunks, objects>>
  PROVE  IInv'
<1> DEFINE x == Row(task[t], pc)
<1>1. pc \in Pcs /\ pc \in PcsOf(t) \ {"idle", "cut", "done"}
  BY DEF Pcs
<1>2. /\ x \in TaskRecords /\ x.pc = pc /\ x.doc = task[t].doc /\ x.object = task[t].object
      /\ task' = [task EXCEPT ![t] = x]
  BY <1>1, AtWork, RowFields DEF Goto, Row
<1>3. x.pc \in DeletePcs => x.object = doc.object
  BY <1>2, AtWork DEF DeletePcs
<1> HIDE DEF x
<1>4. Works(t, x) /\ task'[t] = x
  BY <1>1, <1>2, <1>3, WorkGoes DEF Statuses
<1>5. vectors' = {}
  BY DEF IInv, DataIsTheRows
<1>6. DataIsTheRows'
  BY <1>5 DEF IInv, DataIsTheRows, IsLive
<1>7. t \in Taking'
  BY <1>2, <1>4 DEF Taking, Workers, Ended, ImportPcs
<1>8. ReadyHasVectors'
  BY <1>7 DEF IInv, ReadyHasVectors, IsLive
<1>9. Knows(t)'
  BY <1>2, <1>4, <1>5, AtWork DEF Knows
<1>10. chunks' \subseteq [doc : Nat \ {0}, batch : Procs] /\ vectors' \subseteq Procs
  BY <1>5, TypesAre DEF IInv
<1> QED
  BY <1>4, <1>6, <1>8, <1>9, <1>10, WorkKeeps

LEMMA ReprocessVectorsKeeps ==
  ASSUME IInv, NEW r \in Tasks, ReprocessVectors(r) PROVE IInv'
<1>1. task[r].pc = "oldVectors"
  BY DEF ReprocessVectors, At
<1>2. task[r].pc \notin Ended \cup ImportPcs /\ "reset" \in PcsOf(r)
  BY <1>1, Standing, StagesOf DEF IInv, Ended, ImportPcs, ReprocessPcs
<1>3. task[r].batches = Batches
  BY <1>1, <1>2, AtWork DEF Knows
<1> QED
  BY <1>1, <1>2, <1>3, VectorsGo DEF ReprocessVectors, dbVars

-----------------------------------------------------------------------------
(* processStoredDocument *)

LEMMA ProcessLoadKeeps ==
  ASSUME IInv, NEW p \in Tasks, ProcessLoad(p) PROVE IInv'
<1> DEFINE x == [task[p] EXCEPT !.pc = "parse", !.object = doc.object]
<1>1. task[p].pc = "load" /\ p \in Procs
  BY DEF ProcessLoad, At
<1>2. task[p].pc \notin Ended \cup ImportPcs /\ "parse" \in PcsOf(p)
  BY <1>1, StagesOf DEF Ended, ImportPcs, ProcPcs
<1>3. task' = [task EXCEPT ![p] = x]
  BY <1>2, AtWork DEF ProcessLoad
<1>4. x \in TaskRecords /\ x.pc = "parse" /\ x.doc = task[p].doc
  BY <1>2, AtWork DEF TaskRecords, DocRecords, Pcs
<1> HIDE DEF x
<1>5. /\ Works(p, x) /\ task'[p] = x /\ doc'.deleted = doc.deleted
      /\ doc'.status = doc.status
  <2>1. "none" \in Statuses /\ UNCHANGED <<doc, lastId, crashes, objects>>
    BY DEF ProcessLoad, dbVars, Statuses
  <2>2. x.pc \notin DeletePcs
    BY <1>4 DEF DeletePcs
  <2>3. x.pc \in PcsOf(p) \ {"idle", "cut", "done"}
    BY <1>2, <1>4
  <2> QED
    BY <2>1, <2>2, <2>3, <1>2, <1>3, <1>4, WorkGoes
<1>6. chunks = {}
  BY <1>1, <1>2, AtWork DEF Knows
<1>7. Knows(p)' /\ p \notin Taking
  BY <1>1, <1>4, <1>5, <1>6 DEF Knows, Taking, ProcessLoad, dbVars
<1> QED
  BY <1>5, <1>7, QuietWork DEF ProcessLoad, dbVars

LEMMA ProcessParseKeeps ==
  ASSUME IInv, NEW p \in Tasks, ProcessParse(p) PROVE IInv'
<1>1. task[p].pc = "parse"
  BY DEF ProcessParse, At
<1>2. p \in Procs
  BY <1>1, Standing DEF IInv, ProcPcs
<1>3. PICK pc \in {"markFailed", "persist"} : Goto(p, pc)
  BY DEF ProcessParse
<1>4. task[p].pc \notin Ended \cup ImportPcs /\ pc \in PcsOf(p) \ {"idle", "cut", "done"}
  BY <1>1, <1>2, <1>3, StagesOf DEF Ended, ImportPcs, ProcPcs
<1>5. pc \in Pcs /\ pc \notin DeletePcs /\ "none" \in Statuses \ {"ready"}
  BY <1>3 DEF Pcs, DeletePcs, Statuses
<1>6. chunks = {} /\ p \notin Taking
  BY <1>1, <1>4, AtWork DEF Knows, Taking
<1>7. UNCHANGED <<doc, lastId, chunks, vectors, objects, crashes>>
  BY DEF ProcessParse, dbVars
<1>8. task'[p].pc = pc
  BY <1>3, <1>4, AtWork, TypesAre DEF IInv, Goto, TaskRecords
<1>9. Knows(p)'
  BY <1>6, <1>7, <1>8 DEF Knows
<1> QED
  BY <1>3, <1>4, <1>5, <1>6, <1>7, <1>9, QuietGoto

LEMMA ProcessPersistKeeps ==
  ASSUME IInv, NEW p \in Tasks, ProcessPersist(p) PROVE IInv'
<1> DEFINE x == Row(task[p], "index")
           c == [doc |-> task[p].doc, batch |-> p]
<1>1. task[p].pc = "persist"
  BY DEF ProcessPersist, At
<1>2. p \in Procs
  BY <1>1, Standing DEF IInv, ProcPcs
<1>3. task[p].pc \notin Ended \cup ImportPcs /\ "index" \in PcsOf(p) \ {"idle", "cut", "done"}
  BY <1>1, <1>2, StagesOf DEF Ended, ImportPcs, IndexPcs
<1>4. "index" \in Pcs /\ "index" \notin DeletePcs /\ "indexing" \in Statuses
  BY DEF Pcs, DeletePcs, Statuses
<1>5. /\ x \in TaskRecords /\ x.pc = "index" /\ x.doc = task[p].doc
      /\ task' = [task EXCEPT ![p] = x]
  BY <1>3, <1>4, AtWork, RowFields DEF Goto, Row, ProcessPersist
<1> HIDE DEF x
<1>6. SetStatus(task[p].doc, "indexing") /\ UNCHANGED <<lastId, crashes, objects, vectors>>
  BY DEF ProcessPersist
<1>7. Works(p, x) /\ task'[p] = x /\ doc'.deleted = doc.deleted
  BY <1>2, <1>3, <1>4, <1>5, <1>6, WorkGoes
<1>8. chunks = {} /\ vectors = {}
  BY <1>1, <1>3, AtWork DEF Knows, IInv, DataIsTheRows, Batches
<1>9. chunks' = {c}
  BY <1>8 DEF ProcessPersist
<1>10. c \in [doc : Nat \ {0}, batch : Procs]
  BY <1>2, <1>3, AtWork DEF TaskRecords
<1>11. doc'.status = "indexing" /\ IsLive(task[p].doc)
  BY <1>3, <1>4, <1>6, AtWork, StatusFields DEF SetStatus
<1>12. c.doc = doc'.id /\ doc'.id # 0 /\ ~doc'.deleted
  BY <1>3, <1>7, AtWork DEF Works
<1>13. DataIsTheRows'
  BY <1>6, <1>8, <1>9, <1>12 DEF DataIsTheRows, IsLive
<1>14. ReadyHasVectors'
  BY <1>11 DEF ReadyHasVectors
<1>15. Knows(p)'
  BY <1>5, <1>7 DEF Knows
<1> QED
  BY <1>6, <1>7, <1>8, <1>9, <1>10, <1>13, <1>14, <1>15, WorkKeeps

LEMMA ProcessFailedKeeps ==
  ASSUME IInv, NEW p \in Tasks, ProcessFailed(p) PROVE IInv'
<1>1. task[p].pc = "markFailed"
  BY DEF ProcessFailed, At
<1>2. task[p].pc \notin Ended \cup ImportPcs
  BY <1>1 DEF Ended, ImportPcs
<1>3. "processing_failed" \in Statuses \ {"ready"}
  BY DEF Statuses
<1> QED
  BY <1>2, <1>3, QuietDone DEF ProcessFailed

-----------------------------------------------------------------------------
(* IndexDocument *)

\* The stages of a worker that indexes.
LEMMA AtIndex ==
  ASSUME IInv, NEW t \in Tasks, task[t].pc \in IndexPcs
  PROVE  /\ task[t].pc \notin Ended \cup ImportPcs /\ t \notin Taking
         /\ IndexPcs \subseteq PcsOf(t) \ {"idle", "cut", "done"}
         /\ IndexPcs \subseteq Pcs /\ IndexPcs \cap DeletePcs = {}
         /\ t \in Procs => "markFailed" \in PcsOf(t)
<1>1. t \in Procs \/ (t \in Requests \ Procs /\ RequestKind[t] = "index")
  BY Standing DEF IInv
<1>2. IndexPcs \subseteq PcsOf(t) /\ (t \in Procs => "markFailed" \in PcsOf(t))
  BY <1>1, StagesOf DEF ProcPcs
<1> QED
  BY <1>2 DEF Ended, ImportPcs, IndexPcs, DeletePcs, Taking, Pcs

LEMMA AfterGoto ==
  ASSUME IInv, NEW t \in Tasks, NEW pc, Goto(t, pc)
  PROVE  task'[t].pc = pc /\ task'[t].batches = task[t].batches /\ task'[t].doc = task[t].doc
BY TypesAre DEF IInv, Goto, TaskRecords

LEMMA IndexLoadKeeps ==
  ASSUME IInv, NEW t \in Tasks, IndexLoad(t) PROVE IInv'
<1>1. task[t].pc = "index"
  BY DEF IndexLoad, At
<1>2. task[t].pc \in IndexPcs
  BY <1>1 DEF IndexPcs
<1>3. UNCHANGED <<doc, lastId, chunks, vectors, objects, crashes>>
  BY DEF IndexLoad, dbVars
<1>4. "none" \in Statuses \ {"ready"}
  BY DEF Statuses
<1>5. CASE Done(t)
  BY <1>2, <1>3, <1>4, <1>5, AtIndex, QuietDone
<1>6. ASSUME NEW pc \in {"setIndexing", "markFailed"}, Goto(t, pc),
             pc = "setIndexing" \/ t \in Procs
      PROVE  IInv'
  <2>1. pc \in PcsOf(t) \ {"idle", "cut", "done"} /\ pc \in Pcs /\ pc \notin DeletePcs
    BY <1>2, <1>6, AtIndex DEF IndexPcs, Pcs, DeletePcs
  <2>2. Knows(t)'
    BY <1>6, AfterGoto DEF Knows
  <2> QED
    BY <1>2, <1>3, <1>4, <1>6, <2>1, <2>2, AtIndex, QuietGoto
<1> QED
  BY <1>5, <1>6 DEF IndexLoad, Fail

LEMMA IndexSetKeeps ==
  ASSUME IInv, NEW t \in Tasks, IndexSet(t) PROVE IInv'
<1>1. task[t].pc \in IndexPcs /\ "readChunks" \in IndexPcs
  BY DEF IndexSet, At, IndexPcs
<1>2. "indexing" \in Statuses \ {"ready"}
  BY DEF Statuses
<1>3. Knows(t)'
  BY AfterGoto DEF IndexSet, Knows
<1>4. Goto(t, "readChunks") /\ SetStatus(task[t].doc, "indexing")
      /\ UNCHANGED <<lastId, chunks, vectors, objects, crashes>>
  BY DEF IndexSet
<1> QED
  BY <1>1, <1>2, <1>3, <1>4, AtIndex, QuietGoto

LEMMA IndexChunksKeeps ==
  ASSUME IInv, NEW t \in Tasks, IndexChunks(t) PROVE IInv'
<1>1. task[t].pc \in IndexPcs /\ {"indexFailure", "upsert"} \subseteq IndexPcs
  BY DEF IndexChunks, At, IndexPcs
<1>2. UNCHANGED <<doc, lastId, chunks, vectors, objects, crashes>>
  BY DEF IndexChunks, dbVars
<1>3. "none" \in Statuses \ {"ready"}
  BY DEF Statuses
<1>4. BatchesOf(task[t].doc) = Batches /\ Batches \subseteq Procs
  BY <1>1, AtIndex, AtWork, TypesAre DEF IInv, Batches
<1>5. CASE Batches = {}
  <2>1. Goto(t, "indexFailure")
    BY <1>4, <1>5 DEF IndexChunks, Goto
  <2>2. Knows(t)'
    BY <2>1, AfterGoto DEF Knows
  <2> QED
    BY <1>1, <1>2, <1>3, <2>1, <2>2, AtIndex, QuietGoto
<1>6. CASE Batches # {}
  <2> DEFINE x == [task[t] EXCEPT !.pc = "upsert", !.batches = Batches]
  <2>1. task' = [task EXCEPT ![t] = x]
    BY <1>4, <1>6 DEF IndexChunks
  <2>2. x \in TaskRecords /\ x.pc = "upsert" /\ x.doc = task[t].doc /\ x.batches = Batches
    <3>1. task[t] \in TaskRecords
      BY <1>1, AtIndex, AtWork
    <3> QED
      BY <1>4, <3>1 DEF TaskRecords, Pcs
  <2> HIDE DEF x
  <2>3. x.pc \in PcsOf(t) \ {"idle", "cut", "done"} /\ x.pc \notin DeletePcs
    BY <1>1, <2>2, AtIndex
  <2>4. task[t].pc \notin Ended \cup ImportPcs /\ t \notin Taking
    BY <1>1, AtIndex
  <2>5. Works(t, x) /\ task'[t] = x
    BY <1>2, <1>3, <2>1, <2>2, <2>3, <2>4, WorkGoes
  <2>6. Knows(t)'
    BY <1>2, <1>6, <2>2, <2>5 DEF Knows, Batches
  <2> QED
    BY <1>2, <2>4, <2>5, <2>6, QuietWork
<1> QED
  BY <1>5, <1>6

LEMMA IndexUpsertKeeps ==
  ASSUME IInv, NEW t \in Tasks, IndexUpsert(t) PROVE IInv'
<1>1. task[t].pc = "upsert"
  BY DEF IndexUpsert, At
<1>2. task[t].pc \in IndexPcs /\ {"setReady", "indexFailure"} \subseteq IndexPcs
  BY <1>1 DEF IndexPcs
<1>3. UNCHANGED <<doc, lastId, chunks, objects, crashes>>
  BY DEF IndexUpsert, dbVars
<1>4. "none" \in Statuses \ {"ready"}
  BY DEF Statuses
<1>5. CASE Goto(t, "indexFailure") /\ UNCHANGED vectors
  <2>1. Knows(t)'
    BY <1>5, AfterGoto DEF Knows
  <2> QED
    BY <1>2, <1>3, <1>4, <1>5, <2>1, AtIndex, QuietGoto
<1>6. CASE vectors' = vectors \cup task[t].batches /\ Goto(t, "setReady")
  <2> DEFINE x == Row(task[t], "setReady")
  <2>1. task[t].pc \notin Ended \cup ImportPcs /\ task[t] \in TaskRecords /\ Knows(t)
    BY <1>2, AtIndex, AtWork
  <2>2. x.pc = "setReady" /\ x \in TaskRecords /\ x.doc = task[t].doc
        /\ x.batches = task[t].batches /\ task' = [task EXCEPT ![t] = x]
    BY <1>6, <2>1, RowFields DEF Goto, Row, Pcs
  <2> HIDE DEF x
  <2>3. x.pc \in PcsOf(t) \ {"idle", "cut", "done"} /\ x.pc \notin DeletePcs
    BY <1>2, <2>2, AtIndex
  <2>4. Works(t, x) /\ task'[t] = x
    BY <1>3, <1>4, <2>1, <2>2, <2>3, WorkGoes
  <2>5. task[t].batches = Batches /\ chunks # {} /\ Batches' = Batches
    BY <1>1, <1>3, <2>1 DEF Knows, Batches
  <2>6. vectors' = Batches
    BY <1>6, <2>5 DEF IInv, DataIsTheRows
  <2>7. DataIsTheRows'
    BY <1>3, <2>5, <2>6 DEF IInv, DataIsTheRows, IsLive
  <2>8. ReadyHasVectors'
    BY <1>3, <2>5, <2>6 DEF ReadyHasVectors
  <2>9. Knows(t)'
    BY <1>3, <2>2, <2>4, <2>5, <2>6 DEF Knows
  <2>10. chunks' \subseteq [doc : Nat \ {0}, batch : Procs] /\ vectors' \subseteq Procs
    BY <1>3, <2>5, <2>6, TypesAre DEF IInv, Batches
  <2> QED
    BY <2>4, <2>7, <2>8, <2>9, <2>10, WorkKeeps
<1> QED
  BY <1>5, <1>6 DEF IndexUpsert

LEMMA IndexReadyKeeps ==
  ASSUME IInv, NEW t \in Tasks, IndexReady(t) PROVE IInv'
<1>1. task[t].pc = "setReady"
  BY DEF IndexReady, At
<1>2. task[t].pc \notin Ended \cup ImportPcs
  BY <1>1, AtIndex DEF IndexPcs
<1>3. UNCHANGED <<lastId, chunks, vectors, objects, crashes>> /\ Done(t)
      /\ SetStatus(task[t].doc, "ready")
  BY DEF IndexReady
<1>4. Works(t, DoneTask) /\ doc'.deleted = doc.deleted
  BY <1>2, <1>3, WorkEnds DEF Statuses
<1>5. chunks # {} /\ Batches \subseteq vectors /\ Batches' = Batches
  BY <1>1, <1>2, <1>3, AtWork DEF Knows, Batches
<1>6. DataIsTheRows'
  BY <1>3, <1>4, <1>5 DEF IInv, DataIsTheRows, IsLive, Works
<1>7. ReadyHasVectors'
  BY <1>3, <1>5 DEF ReadyHasVectors
<1>8. chunks' \subseteq [doc : Nat \ {0}, batch : Procs] /\ vectors' \subseteq Procs
  BY <1>3, TypesAre DEF IInv
<1> QED
  BY <1>4, <1>6, <1>7, <1>8, Fields, WorkKeeps

LEMMA IndexFailureKeeps ==
  ASSUME IInv, NEW t \in Tasks, IndexFailure(t) PROVE IInv'
<1>1. task[t].pc \in IndexPcs
  BY DEF IndexFailure, At, IndexPcs
<1>2. "index_failed" \in Statuses \ {"ready"}
  BY DEF Statuses
<1> QED
  BY <1>1, <1>2, AtIndex, QuietDone DEF IndexFailure

-----------------------------------------------------------------------------
(* DeleteDocument *)

LEMMA AtDelete ==
  ASSUME IInv, NEW t \in Tasks, task[t].pc \in DeletePcs
  PROVE  /\ task[t].pc \notin Ended \cup ImportPcs /\ t \notin Procs
         /\ DeletePcs \subseteq PcsOf(t) \ {"idle", "cut", "done"}
         /\ DeletePcs \subseteq Pcs /\ task[t].object = doc.object
<1>1. t \in Requests \ Procs /\ RequestKind[t] = "delete"
  BY Standing DEF IInv
<1>2. task[t].pc \notin Ended \cup ImportPcs
  BY DEF Ended, ImportPcs, DeletePcs
<1>3. DeletePcs \subseteq PcsOf(t)
  BY <1>1, StagesOf
<1> QED
  BY <1>1, <1>2, <1>3, AtWork DEF DeletePcs, Pcs

LEMMA DeleteRowsKeeps ==
  ASSUME IInv, NEW r \in Tasks, DeleteRows(r) PROVE IInv'
<1> DEFINE x == [task[r] EXCEPT !.pc = "objects", !.batches = BatchesOf(task[r].doc)]
<1>1. task[r].pc = "rows" /\ task[r].pc \in DeletePcs /\ "objects" \in DeletePcs
  BY DEF DeleteRows, At, DeletePcs
<1>2. task[r].pc \notin Ended \cup ImportPcs /\ "objects" \in PcsOf(r) \ {"idle", "cut", "done"}
  BY <1>1, AtDelete
<1>3. Batches \subseteq Procs
  BY TypesAre DEF IInv, Batches
<1>4. task' = [task EXCEPT ![r] = x]
  BY DEF DeleteRows
<1>5. /\ x \in TaskRecords /\ x.pc = "objects" /\ x.doc = task[r].doc /\ x.batches = Batches
      /\ x.object = task[r].object
  BY <1>2, <1>3, AtWork DEF TaskRecords, Pcs
<1> HIDE DEF x
<1>6. UNCHANGED <<doc, lastId, chunks, vectors, objects, crashes>>
  BY DEF DeleteRows, dbVars
<1>7. Works(r, x) /\ task'[r] = x
  <2>1. "none" \in Statuses /\ x.object = doc.object /\ r \notin Procs
    BY <1>1, <1>5, AtDelete DEF Statuses
  <2>2. x.pc \in PcsOf(r) \ {"idle", "cut", "done"}
    BY <1>2, <1>5
  <2> QED
    BY <2>1, <2>2, <1>2, <1>4, <1>5, <1>6, WorkGoes
<1>8. Knows(r)' /\ r \notin Taking
  BY <1>1, <1>5, <1>6, <1>7 DEF Knows, Taking, Batches
<1> QED
  BY <1>6, <1>7, <1>8, QuietWork

LEMMA DeleteObjectsKeeps ==
  ASSUME IInv, NEW r \in Tasks, DeleteObjects(r) PROVE IInv'
<1>1. task[r].pc = "objects" /\ task[r].pc \in DeletePcs
  BY DEF DeleteObjects, At, DeletePcs
<1>2. UNCHANGED <<doc, lastId, chunks, vectors, crashes>>
  BY DEF DeleteObjects, dbVars
<1>3. PICK pc \in {"vectors", "deleteFailed"} :
        /\ Goto(r, pc)
        /\ IF pc = "vectors" THEN objects' = objects \ {task[r].object} ELSE objects' = objects
  BY DEF DeleteObjects
<1>4. task[r].object = doc.object /\ task[r].pc \notin Ended \cup ImportPcs /\ r \notin Procs
  BY <1>1, AtDelete
<1>5. pc \in DeletePcs /\ pc \in Pcs /\ pc \in PcsOf(r) \ {"idle", "cut", "done"}
  BY <1>1, <1>3, AtDelete DEF DeletePcs
<1>6. task[r].batches = Batches
  BY <1>1, <1>4, AtWork DEF Knows
<1>7. Knows(r)'
  BY <1>2, <1>3, <1>4, <1>6, AfterGoto DEF Knows, Batches
<1>8. "none" \in Statuses \ {"ready"} /\ r \notin Taking
  BY <1>1 DEF Statuses, Taking
<1> QED
  BY <1>1, <1>2, <1>3, <1>4, <1>5, <1>7, <1>8, QuietGoto

LEMMA DeleteVectorsKeeps ==
  ASSUME IInv, NEW r \in Tasks, DeleteVectors(r) PROVE IInv'
<1>1. task[r].pc = "vectors" /\ task[r].pc \in DeletePcs
      /\ {"deleteRows", "deleteFailed"} \subseteq DeletePcs
  BY DEF DeleteVectors, At, DeletePcs
<1>2. UNCHANGED <<doc, lastId, chunks, objects, crashes>>
  BY DEF DeleteVectors, dbVars
<1>3. task[r].pc \notin Ended \cup ImportPcs /\ r \notin Procs
  BY <1>1, AtDelete
<1>4. task[r].batches = Batches
  BY <1>1, <1>3, AtWork DEF Knows
<1>5. CASE vectors' = vectors \ task[r].batches /\ Goto(r, "deleteRows")
  BY <1>1, <1>2, <1>3, <1>4, <1>5, AtDelete, VectorsGo
<1>6. CASE Goto(r, "deleteFailed") /\ UNCHANGED vectors
  <2>1. Knows(r)'
    BY <1>6, AfterGoto DEF Knows
  <2>2. "none" \in Statuses \ {"ready"}
    BY DEF Statuses
  <2> QED
    BY <1>1, <1>2, <1>3, <1>6, <2>1, <2>2, AtDelete, QuietGoto
<1> QED
  BY <1>5, <1>6 DEF DeleteVectors

LEMMA DeleteCommitKeeps ==
  ASSUME IInv, NEW r \in Tasks, DeleteCommit(r) PROVE IInv'
<1>1. task[r].pc = "deleteRows" /\ task[r].pc \in DeletePcs /\ "deleteFailed" \in DeletePcs
  BY DEF DeleteCommit, At, DeletePcs
<1>2. UNCHANGED <<lastId, vectors, objects, crashes>>
  BY DEF DeleteCommit
<1>3. task[r].pc \notin Ended \cup ImportPcs /\ r \notin Procs
  BY <1>1, AtDelete
<1>4. CASE Goto(r, "deleteFailed") /\ UNCHANGED <<doc, chunks>>
  <2>1. Knows(r)'
    BY <1>4, AfterGoto DEF Knows
  <2>2. "none" \in Statuses \ {"ready"}
    BY DEF Statuses
  <2> QED
    BY <1>1, <1>2, <1>3, <1>4, <2>1, <2>2, AtDelete, QuietGoto
<1>5. CASE /\ chunks' = {c \in chunks : c.doc # task[r].doc}
           /\ doc' = IF IsLive(task[r].doc) THEN [doc EXCEPT !.deleted = TRUE] ELSE doc
           /\ Done(r)
  <2>1. doc \in DocRecords /\ IsLive(task[r].doc) /\ \A c \in chunks : c.doc = task[r].doc
    BY <1>3, AtWork
  <2>2. chunks' = {}
    BY <1>5, <2>1
  <2>3. /\ doc' \in DocRecords /\ doc'.deleted /\ doc'.id = doc.id /\ doc'.object = doc.object
    BY <1>5, <2>1 DEF DocRecords
  <2>4. vectors = {} /\ doc.object \notin objects
    BY <1>1, <1>3, AtWork DEF Knows
  <2>5. DoneTask \in TaskRecords /\ DoneTask.pc = "done" /\ "done" \in PcsOf(r)
    BY Fields DEF PcsOf, Ended
  <2>6. r \in Workers
    BY <1>3, AtWork
  <2>7. Works(r, DoneTask)
    BY <1>2, <1>5, <2>3, <2>4, <2>5, <2>6 DEF Works, Done, DoneTask
  <2>8. DataIsTheRows'
    BY <1>2, <2>2, <2>4 DEF DataIsTheRows
  <2>9. ReadyHasVectors'
    BY <2>3 DEF ReadyHasVectors, IsLive
  <2> QED
    BY <1>2, <2>2, <2>4, <2>5, <2>7, <2>8, <2>9, WorkKeeps
<1> QED
  BY <1>4, <1>5 DEF DeleteCommit

LEMMA DeleteFailedKeeps ==
  ASSUME IInv, NEW r \in Tasks, DeleteFailed(r) PROVE IInv'
<1>1. task[r].pc \in DeletePcs
  BY DEF DeleteFailed, At, DeletePcs
<1>2. "delete_failed" \in Statuses \ {"ready"}
  BY DEF Statuses
<1> QED
  BY <1>1, <1>2, AtDelete, QuietDone DEF DeleteFailed

-----------------------------------------------------------------------------
(* Imports *)

\* A step of an import: it moves, adds its source or takes it back, or removes
\* the row of a deleted document.
LEMMA ImportKeeps ==
  ASSUME IInv, NEW r \in Requests, RequestKind[r] = "import",
         task[r].pc \in {"idle"} \cup ImportPcs,
         NEW x \in TaskRecords, task' = [task EXCEPT ![r] = x],
         x.pc \in {"done"} \cup ImportPcs,
         x.pc \in ImportPcs =>
           x.doc <= lastId /\ ~IsLive(x.doc) /\ (x.pc = "purge" => x.doc # 0),
         doc' = doc \/ (doc' = NoDoc /\ ~IsLive(doc.id)),
         \/ objects' = objects \cup {r} /\ x.pc \in {"purge", "create"}
         \/ objects' = objects \ {r}
         \/ objects' = objects /\ (x.pc \in {"purge", "create", "rollback"}
                                     \/ task[r].pc \in {"idle", "upload"}),
         UNCHANGED <<lastId, chunks, vectors, crashes>>
  PROVE  IInv'
<1>1. task \in [Tasks -> TaskRecords] /\ r \in Tasks /\ r \notin Procs
  BY TypesAre, Disjoint DEF IInv, Tasks
<1>2. task'[r] = x /\ (\A t \in Tasks \ {r} : task'[t] = task[t]) /\ task' \in [Tasks -> TaskRecords]
  BY <1>1
<1>3. TypeOK'
  <2>1. doc' \in DocRecords /\ objects' \subseteq Requests /\ lastId' \in Nat /\ crashes' \in Nat
        /\ chunks' \subseteq [doc : Nat \ {0}, batch : Procs] /\ vectors' \subseteq Procs
    BY Fields, TypesAre DEF IInv
  <2> QED
    BY <2>1, <1>2 DEF TypeOK, DocRecords, TaskRecords
<1>4. StagesFollowKind'
  <2>1. x.pc \in PcsOf(r)
    BY StagesOf DEF Ended
  <2> QED
    BY <1>2, <2>1 DEF IInv, StagesFollowKind, PcsOf
<1>5. task[r].pc # "done" /\ (doc.object # 0 => doc.object # r)
  BY DEF IInv, RowIsMade, ImportPcs
<1>6. RowIsMade'
  <2>1. CASE doc' = doc
    <3>1. doc.object # 0 => doc.object \in Tasks
      BY TypesAre DEF IInv, DocRecords, Sources, Tasks
    <3> QED
      BY <2>1, <3>1, <1>2, <1>5 DEF IInv, RowIsMade
  <2>2. CASE doc' = NoDoc
    BY <2>2, Fields, TypesAre DEF IInv, RowIsMade
  <2> QED
    BY <2>1, <2>2
<1>7. \A id : IsLive(id)' => IsLive(id) /\ doc' = doc
  BY Fields DEF IsLive
<1>8. ImportsSawNoLiveRow'
  <2> SUFFICES ASSUME NEW t \in Tasks, task'[t].pc \in ImportPcs
               PROVE  /\ task'[t].doc <= lastId' /\ ~IsLive(task[t].doc)'
                      /\ task'[t].pc = "purge" => task'[t].doc # 0
    BY DEF ImportsSawNoLiveRow
  <2>1. CASE t = r
    <3>1. task'[t] = x
      BY <2>1, <1>2
    <3> QED
      BY <3>1, <1>7 DEF IsLive
  <2>2. CASE t # r
    <3>1. task'[t] = task[t]
      BY <2>2, <1>2
    <3> QED
      BY <3>1, <1>7 DEF IInv, ImportsSawNoLiveRow, IsLive
  <2> QED
    BY <2>1, <2>2
<1>9. Workers' = Workers /\ r \notin Workers
  <2>1. r \notin Workers /\ r \notin Workers'
    <3>1. x.pc \in Ended \cup ImportPcs /\ task[r].pc \in Ended \cup ImportPcs
      BY DEF Ended
    <3> QED
      BY <3>1, <1>2 DEF Workers
  <2> QED
    BY <2>1, <1>2 DEF Workers
<1>10. Workers # {} => doc' = doc
  BY DEF IInv, WorkIsOnTheRow, IsLive
<1>11. \A t \in Workers : t \in Tasks /\ task'[t] = task[t]
  BY <1>2, <1>9 DEF Workers
<1>12. OneWorks' /\ WorkIsOnTheRow'
  BY <1>9, <1>10, <1>11 DEF IInv, OneWorks, WorkIsOnTheRow, IsLive
<1>13. WorkFollowsData'
  <2> SUFFICES ASSUME NEW t \in Workers PROVE Knows(t)'
    BY <1>9 DEF WorkFollowsData
  <2>1. Knows(t) /\ task'[t] = task[t] /\ doc' = doc /\ Batches' = Batches
    BY <1>10, <1>11 DEF IInv, WorkFollowsData, Batches
  <2>2. doc.object # r
    BY <1>5, Disjoint
  <2>3. doc.object \notin objects => doc.object \notin objects'
    BY <2>2
  <2> QED
    BY <2>1, <2>3 DEF Knows
<1>14. chunks # {} => doc' = doc
  BY DEF IInv, DataIsTheRows, IsLive
<1>15. DataIsTheRows'
  BY <1>14 DEF IInv, DataIsTheRows, Batches, IsLive
<1>16. ReadyHasVectors'
  <2> SUFFICES ASSUME IsLive(doc.id)', doc'.status = "ready"
               PROVE  /\ chunks' # {}
                      /\ \/ Batches' \subseteq vectors' \/ Taking' # {}
                         \/ WasCut("reprocess")' \/ WasCut("delete")'
    BY DEF ReadyHasVectors
  <2>1. doc' = doc /\ Batches' = Batches
    BY <1>7 DEF Batches
  <2>2. Taking' = Taking
    BY <1>9, <1>11 DEF Taking
  <2>3. WasCut("reprocess") => WasCut("reprocess")'
    BY <1>2, <1>5 DEF WasCut, At, Tasks, ImportPcs
  <2>4. WasCut("delete") => WasCut("delete")'
    BY <1>2, <1>5 DEF WasCut, At, Tasks, ImportPcs
  <2> QED
    BY <2>1, <2>2, <2>3, <2>4 DEF IInv, ReadyHasVectors, IsLive
<1>17. SourceHasOwner'
  <2> SUFFICES ASSUME NEW i \in objects'
               PROVE  \/ doc'.object = i /\ ~doc'.deleted
                      \/ task'[i].pc \in {"purge", "create", "rollback", "cut"}
    BY DEF SourceHasOwner
  <2>1. i \in Requests /\ i \in Tasks /\ i # 0
    BY <1>3, Disjoint DEF TypeOK, Tasks
  <2>2. CASE i = r
    <3>1. r \in objects => task[r].pc \in {"purge", "create", "rollback", "cut"}
      BY <1>5, Disjoint DEF IInv, SourceHasOwner
    <3> QED
      BY <2>2, <3>1, <1>2
  <2>3. CASE i # r
    <3>1. i \in objects /\ task'[i] = task[i]
      BY <2>1, <2>3, <1>2
    <3>2. doc.object = i /\ ~doc.deleted => doc' = doc
      <4>1. doc.id = 0 => doc.object = 0
        BY Fields DEF IInv, RowIsMade
      <4> QED
        BY <4>1, <2>1 DEF IsLive
    <3> QED
      BY <3>1, <3>2 DEF IInv, SourceHasOwner
  <2> QED
    BY <2>2, <2>3
<1> QED
  BY <1>3, <1>4, <1>6, <1>8, <1>12, <1>13, <1>15, <1>16, <1>17 DEF IInv

\* The stages of an import.
LEMMA AtImport ==
  ASSUME IInv, NEW r \in Tasks, task[r].pc \in ImportPcs
  PROVE  /\ r \in Requests /\ RequestKind[r] = "import" /\ task[r] \in TaskRecords
         /\ task[r].doc <= lastId /\ ~IsLive(task[r].doc)
         /\ task[r].pc = "purge" => task[r].doc # 0
BY Standing, TypesAre DEF IInv, ImportsSawNoLiveRow

LEMMA ImportLookupKeeps ==
  ASSUME IInv, NEW r \in Requests, ImportLookup(r) PROVE IInv'
<1>1. task[r].pc = "idle" /\ RequestKind[r] = "import" /\ r \in Tasks /\ task[r] \in TaskRecords
  BY TypesAre DEF IInv, ImportLookup, Begin, At, Tasks
<1>2. UNCHANGED <<doc, lastId, chunks, vectors, objects, crashes>>
  BY DEF ImportLookup, dbVars
<1>3. CASE Done(r)
  BY <1>1, <1>2, <1>3, Fields, ImportKeeps DEF Done, DoneTask, ImportPcs
<1>4. CASE ~IsLive(doc.id) /\ task' = [task EXCEPT ![r].pc = "upload", ![r].doc = doc.id]
  <2> DEFINE x == [task[r] EXCEPT !.pc = "upload", !.doc = doc.id]
  <2>1. task' = [task EXCEPT ![r] = x]
    BY <1>4
  <2>2. x \in TaskRecords /\ x.pc = "upload" /\ x.doc = doc.id
    BY <1>1, TypesAre DEF IInv, TaskRecords, DocRecords, Pcs
  <2>3. doc.id <= lastId
    BY DEF IInv, RowIsMade
  <2> HIDE DEF x
  <2> QED
    BY <1>1, <1>2, <1>4, <2>1, <2>2, <2>3, ImportKeeps DEF ImportPcs
<1> QED
  BY <1>3, <1>4 DEF ImportLookup

\* An import goes on.
LEMMA ImportGoes ==
  ASSUME IInv, NEW r \in Tasks, task[r].pc \in ImportPcs,
         NEW pc \in ImportPcs, Goto(r, pc), pc = "purge" => task[r].doc # 0,
         doc' = doc \/ (doc' = NoDoc /\ ~IsLive(doc.id)),
         \/ objects' = objects \cup {r} /\ pc \in {"purge", "create"}
         \/ objects' = objects /\ pc \in {"purge", "create", "rollback"},
         UNCHANGED <<lastId, chunks, vectors, crashes>>
  PROVE  IInv'
<1> DEFINE x == Row(task[r], pc)
<1>1. pc \in Pcs
  BY DEF ImportPcs, Pcs
<1>2. x \in TaskRecords /\ x.pc = pc /\ x.doc = task[r].doc /\ task' = [task EXCEPT ![r] = x]
  BY <1>1, AtImport, RowFields DEF Goto, Row
<1> HIDE DEF x
<1> QED
  BY <1>2, AtImport, ImportKeeps

LEMMA ImportUploadKeeps ==
  ASSUME IInv, NEW r \in Tasks, ImportUpload(r) PROVE IInv'
<1>1. task[r].pc = "upload" /\ task[r].pc \in ImportPcs
  BY DEF ImportUpload, At, ImportPcs
<1>2. UNCHANGED <<doc, lastId, chunks, vectors, crashes>>
  BY DEF ImportUpload, dbVars
<1>3. CASE Done(r) /\ UNCHANGED objects
  BY <1>1, <1>2, <1>3, Fields, AtImport, ImportKeeps DEF Done, DoneTask, ImportPcs
<1>4. CASE /\ objects' = objects \cup {r}
           /\ Goto(r, IF task[r].doc = 0 THEN "create" ELSE "purge")
  <2>1. PICK pc \in {"create", "purge"} : Goto(r, pc) /\ (pc = "purge" => task[r].doc # 0)
    BY <1>4
  <2> QED
    BY <1>1, <1>2, <1>4, <2>1, ImportGoes DEF ImportPcs
<1> QED
  BY <1>3, <1>4 DEF ImportUpload

LEMMA ImportPurgeKeeps ==
  ASSUME IInv, NEW r \in Tasks, ImportPurge(r) PROVE IInv'
<1>1. task[r].pc = "purge" /\ task[r].pc \in ImportPcs
  BY DEF ImportPurge, At, ImportPcs
<1>2. UNCHANGED <<lastId, vectors, objects, crashes>>
  BY DEF ImportPurge
<1>3. ~IsLive(task[r].doc)
  BY <1>1, AtImport
<1>4. CASE Goto(r, "rollback") /\ UNCHANGED <<doc, chunks>>
  BY <1>1, <1>2, <1>4, ImportGoes DEF ImportPcs
<1>5. CASE /\ doc' = IF doc.id = task[r].doc THEN NoDoc ELSE doc
           /\ chunks' = {c \in chunks : c.doc # task[r].doc}
           /\ Goto(r, "create")
  <2>1. chunks' = chunks
    BY <1>3, <1>5 DEF IInv, DataIsTheRows
  <2>2. doc' = doc \/ (doc' = NoDoc /\ ~IsLive(doc.id))
    BY <1>3, <1>5
  <2> QED
    BY <1>1, <1>2, <1>5, <2>1, <2>2, ImportGoes DEF ImportPcs
<1> QED
  BY <1>4, <1>5 DEF ImportPurge

-----------------------------------------------------------------------------
(* A goroutine is started: by a Reprocess, or by an import with a new row *)

NewRow(r) ==
  /\ RequestKind[r] = "import" /\ doc = NoDoc
  /\ lastId' = lastId + 1 /\ doc'.id = lastId' /\ doc'.object = r
SameRow(r) ==
  /\ task[r].pc = "reset" /\ ~doc.deleted
  /\ lastId' = lastId /\ doc'.id = doc.id /\ doc'.object = doc.object

LEMMA StartKeeps ==
  ASSUME IInv, NEW r \in Requests, task[r].pc \notin Ended, Workers \subseteq {r},
         startProcessing(r, doc'.id), NewRow(r) \/ SameRow(r),
         doc' \in DocRecords, doc'.id # 0, ~doc'.deleted, doc'.status = "processing",
         chunks' = {}, vectors = {}, UNCHANGED <<vectors, objects, crashes>>
  PROVE  IInv'
<1> DEFINE new == [NoTask EXCEPT !.pc = "load", !.doc = doc'.id]
<1>1. PICK p \in Procs : /\ task[p].pc = "idle"
                         /\ task' = [task EXCEPT ![r] = DoneTask, ![p] = new]
  BY DEF startProcessing, At, DoneTask
<1>2. new \in TaskRecords /\ new.pc = "load" /\ new.doc = doc'.id
  BY DEF NoTask, TaskRecords, DocRecords, Pcs, Sources
<1> HIDE DEF new
<1>3. task \in [Tasks -> TaskRecords] /\ r \in Tasks /\ p \in Tasks /\ r # p /\ r \notin Procs
  BY TypesAre, Disjoint DEF IInv, Tasks
<1>4. /\ task' \in [Tasks -> TaskRecords] /\ task'[r] = DoneTask /\ task'[p] = new
      /\ \A t \in Tasks \ {r, p} : task'[t] = task[t]
  BY <1>1, <1>2, <1>3, Fields
<1>5. doc \in DocRecords /\ lastId \in Nat /\ doc.id <= lastId /\ objects \subseteq Requests
  BY TypesAre DEF IInv, RowIsMade
<1>6. TypeOK'
  <2>1. lastId' \in Nat /\ crashes' \in Nat
    BY <1>5, TypesAre DEF IInv, NewRow, SameRow
  <2> QED
    BY <1>4, <1>5, <2>1 DEF TypeOK, DocRecords, TaskRecords
<1>7. StagesFollowKind'
  <2>1. "done" \in PcsOf(r) /\ "load" \in PcsOf(p)
    BY StagesOf DEF PcsOf, Ended, ProcPcs
  <2> QED
    BY <1>2, <1>4, <2>1, Fields DEF IInv, StagesFollowKind, PcsOf
<1>8. RowIsMade'
  <2>1. CASE NewRow(r)
    BY <2>1, <1>4, <1>5, Fields DEF RowIsMade, NewRow
  <2>2. CASE SameRow(r)
    <3>1. doc.object # 0 => doc.object \in Tasks \ {p} /\ task[doc.object].pc = "done"
      BY <1>5, Disjoint DEF IInv, RowIsMade, DocRecords, Sources, Tasks
    <3>2. doc.object # 0 => task'[doc.object].pc = "done"
      BY <3>1, <1>4, Fields
    <3> QED
      BY <2>2, <3>2, <1>5 DEF RowIsMade, SameRow
  <2> QED
    BY <2>1, <2>2
<1>9. ImportsSawNoLiveRow'
  <2> SUFFICES ASSUME NEW t \in Tasks, task'[t].pc \in ImportPcs
               PROVE  /\ task'[t].doc <= lastId' /\ ~IsLive(task[t].doc)'
                      /\ task'[t].pc = "purge" => task'[t].doc # 0
    BY DEF ImportsSawNoLiveRow
  <2>1. t # r /\ t # p
    BY <1>2, <1>4, Fields DEF ImportPcs
  <2>2. task'[t] = task[t] /\ task[t] \in TaskRecords
    BY <2>1, <1>3, <1>4
  <2>3. /\ task[t].doc <= lastId /\ ~IsLive(task[t].doc) /\ task[t].doc \in Nat
        /\ task[t].pc = "purge" => task[t].doc # 0
    BY <2>2 DEF IInv, ImportsSawNoLiveRow, TaskRecords
  <2>4. CASE NewRow(r)
    BY <2>2, <2>3, <2>4, <1>5 DEF NewRow, IsLive
  <2>5. CASE SameRow(r)
    BY <2>2, <2>3, <2>5 DEF SameRow, IsLive
  <2> QED
    BY <2>4, <2>5
<1>10. Workers' = {p}
  <2>1. p \in Workers' /\ r \notin Workers'
    BY <1>2, <1>3, <1>4, Fields DEF Workers, Ended, ImportPcs
  <2>2. \A t \in Tasks \ {r, p} : t \notin Workers'
    BY <1>4 DEF Workers
  <2> QED
    BY <2>1, <2>2 DEF Workers
<1>11. OneWorks' /\ WorkIsOnTheRow'
  BY <1>2, <1>4, <1>10 DEF OneWorks, WorkIsOnTheRow, IsLive, DeletePcs
<1>12. WorkFollowsData'
  BY <1>2, <1>4, <1>10 DEF WorkFollowsData, Knows
<1>13. DataIsTheRows' /\ ReadyHasVectors'
  BY DEF DataIsTheRows, ReadyHasVectors
<1>14. SourceHasOwner'
  <2> SUFFICES ASSUME NEW i \in objects
               PROVE  \/ doc'.object = i /\ ~doc'.deleted
                      \/ task'[i].pc \in {"purge", "create", "rollback", "cut"}
    BY DEF SourceHasOwner
  <2>1. i \in Tasks /\ i # p /\ i # 0
    BY <1>3, <1>5, Disjoint DEF Tasks
  <2>2. i # r => task'[i] = task[i]
    BY <2>1, <1>4
  <2>3. \/ doc.object = i /\ ~doc.deleted
        \/ task[i].pc \in {"purge", "create", "rollback", "cut"}
    BY DEF IInv, SourceHasOwner
  <2>4. CASE NewRow(r)
    BY <2>1, <2>2, <2>3, <2>4, Fields DEF NewRow
  <2>5. CASE SameRow(r)
    BY <2>2, <2>3, <2>5 DEF SameRow
  <2> QED
    BY <2>4, <2>5
<1> QED
  BY <1>6, <1>7, <1>8, <1>9, <1>11, <1>12, <1>13, <1>14 DEF IInv

LEMMA ReprocessResetKeeps ==
  ASSUME IInv, NEW r \in Tasks, ReprocessReset(r) PROVE IInv'
<1>1. task[r].pc = "reset" /\ task[r].pc \in ReprocessPcs
  BY DEF ReprocessReset, At, ReprocessPcs
<1>2. r \in Requests /\ task[r].pc \notin Ended \cup ImportPcs
  BY <1>1, Standing DEF IInv, Ended, ImportPcs
<1>3. /\ r \in Workers /\ Knows(r) /\ doc \in DocRecords /\ doc.id = task[r].doc /\ doc.id # 0
      /\ ~doc.deleted /\ \A c \in chunks : c.doc = task[r].doc
  BY <1>2, AtWork
<1>4. doc' = [doc EXCEPT !.status = "processing"]
  BY <1>3 DEF ReprocessReset, SetStatus, IsLive
<1>5. /\ doc' \in DocRecords /\ doc'.id = doc.id /\ doc'.object = doc.object
      /\ ~doc'.deleted /\ doc'.status = "processing"
  BY <1>3, <1>4, StatusFields DEF Statuses
<1>6. chunks' = {} /\ vectors = {}
  BY <1>1, <1>3 DEF ReprocessReset, Knows
<1>7. Workers \subseteq {r}
  BY <1>3 DEF IInv, OneWorks
<1>8. startProcessing(r, doc'.id) /\ UNCHANGED <<lastId, vectors, objects, crashes>>
  BY <1>3, <1>5 DEF ReprocessReset
<1>9. SameRow(r)
  BY <1>1, <1>3, <1>5, <1>8 DEF SameRow
<1> QED
  BY <1>2, <1>3, <1>5, <1>6, <1>7, <1>8, <1>9, StartKeeps

LEMMA ImportCreateKeeps ==
  ASSUME IInv, NEW r \in Tasks, ImportCreate(r) PROVE IInv'
<1>1. task[r].pc = "create" /\ task[r].pc \in ImportPcs
  BY DEF ImportCreate, At, ImportPcs
<1>2. UNCHANGED <<chunks, vectors, objects, crashes>>
  BY DEF ImportCreate
<1>3. CASE Goto(r, "rollback") /\ UNCHANGED <<doc, lastId>>
  BY <1>1, <1>2, <1>3, ImportGoes DEF ImportPcs
<1>4. CASE /\ doc = NoDoc /\ lastId' = lastId + 1
           /\ doc' = [id |-> lastId', status |-> "processing", deleted |-> FALSE, object |-> r]
           /\ startProcessing(r, lastId')
  <2>1. r \in Requests /\ RequestKind[r] = "import" /\ lastId \in Nat
    BY <1>1, AtImport, TypesAre DEF IInv
  <2>2. Workers = {} /\ chunks = {} /\ vectors = {}
    BY <1>4, Fields DEF IInv, WorkIsOnTheRow, DataIsTheRows, IsLive, Batches
  <2>3. /\ doc' \in DocRecords /\ doc'.id = lastId' /\ doc'.object = r
        /\ ~doc'.deleted /\ doc'.status = "processing" /\ doc'.id # 0
    BY <1>4, <2>1 DEF DocRecords, Statuses, Sources
  <2>4. NewRow(r)
    BY <1>4, <2>1, <2>3 DEF NewRow
  <2>5. task[r].pc \notin Ended
    BY <1>1 DEF Ended
  <2>6. startProcessing(r, doc'.id)
    BY <1>4, <2>3
  <2> QED
    BY <1>2, <2>1, <2>2, <2>3, <2>4, <2>5, <2>6, StartKeeps
<1> QED
  BY <1>3, <1>4 DEF ImportCreate

-----------------------------------------------------------------------------
(* Tasks that end without a step: refused, cut off, or stopped by a crash *)

LEMMA RestKeeps ==
  ASSUME IInv, NEW S \in SUBSET Tasks, NEW y,
         task' = [t \in Tasks |-> IF t \in S THEN y ELSE task[t]],
         \/ y = DoneTask /\ \A t \in S : task[t].pc = "idle"
         \/ y = Cut /\ S \subseteq Running,
         UNCHANGED <<doc, lastId, chunks, vectors, objects>>, crashes' \in Nat
  PROVE  IInv'
<1>1. y \in TaskRecords /\ y.pc \in {"done", "cut"} /\ task \in [Tasks -> TaskRecords]
  BY Fields, TypesAre DEF IInv
<1>2. \A t \in Tasks : task'[t] = IF t \in S THEN y ELSE task[t]
  OBVIOUS
<1>3. TypeOK'
  <2>1. task' \in [Tasks -> TaskRecords]
    BY <1>1
  <2> QED
    BY <2>1 DEF IInv, TypeOK, TaskRecords
<1>4. StagesFollowKind'
  BY <1>1, <1>2 DEF IInv, StagesFollowKind, PcsOf, Ended
<1>5. \A t \in Tasks : task[t].pc \in {"done", "cut"} => task'[t].pc = task[t].pc
  BY <1>2, Fields DEF Running
<1>6. RowIsMade'
  <2>1. doc.object # 0 => doc.object \in Tasks
    BY TypesAre DEF IInv, DocRecords, Sources, Tasks
  <2> QED
    BY <2>1, <1>5 DEF IInv, RowIsMade
<1>7. \A t \in Tasks : task'[t] = task[t] \/ task'[t].pc \in {"done", "cut"}
  BY <1>1, <1>2
<1>8. ImportsSawNoLiveRow'
  BY <1>7 DEF IInv, ImportsSawNoLiveRow, IsLive, ImportPcs
<1>9. Workers' \subseteq Workers /\ \A t \in Workers' : t \in Tasks /\ task'[t] = task[t]
  BY <1>7 DEF Workers, Ended
<1>10. OneWorks' /\ WorkIsOnTheRow'
  BY <1>9 DEF IInv, OneWorks, WorkIsOnTheRow, IsLive
<1>11. WorkFollowsData'
  <2> SUFFICES ASSUME NEW t \in Workers' PROVE Knows(t)'
    BY DEF WorkFollowsData
  <2>1. Knows(t) /\ task'[t] = task[t] /\ Batches' = Batches
    BY <1>9 DEF IInv, WorkFollowsData, Batches
  <2> QED
    BY <2>1 DEF Knows
<1>12. DataIsTheRows'
  BY DEF IInv, DataIsTheRows, Batches, IsLive
<1>13. WasCut("reprocess") => WasCut("reprocess")'
  BY <1>5 DEF WasCut, At, Tasks
<1>14. WasCut("delete") => WasCut("delete")'
  BY <1>5 DEF WasCut, At, Tasks
<1>15. Taking # {} => Taking' # {} \/ WasCut("reprocess")' \/ WasCut("delete")'
  <2> SUFFICES ASSUME NEW t \in Taking
               PROVE  Taking' # {} \/ WasCut("reprocess")' \/ WasCut("delete")'
    OBVIOUS
  <2>1. t \in Tasks /\ task[t].pc \in {"reset", "deleteRows", "deleteFailed"}
    BY DEF Taking, Workers
  <2>2. CASE t \notin S
    <3>1. t \in Taking'
      BY <2>1, <2>2, <1>2 DEF Taking, Workers
    <3> QED
      BY <3>1
  <2>3. CASE t \in S
    <3>1. task'[t].pc = "cut"
      BY <2>1, <2>3, <1>2, Fields
    <3>2. t \in Requests /\ RequestKind[t] \in {"reprocess", "delete"}
      BY <2>1, Standing DEF IInv, ReprocessPcs, DeletePcs
    <3> QED
      BY <3>1, <3>2 DEF WasCut, At
  <2> QED
    BY <2>2, <2>3
<1>16. ReadyHasVectors'
  <2> SUFFICES ASSUME IsLive(doc.id), doc.status = "ready"
               PROVE  /\ chunks # {}
                      /\ \/ Batches \subseteq vectors \/ Taking' # {}
                         \/ WasCut("reprocess")' \/ WasCut("delete")'
    BY DEF ReadyHasVectors, IsLive, Batches
  <2> QED
    BY <1>13, <1>14, <1>15 DEF IInv, ReadyHasVectors
<1>17. SourceHasOwner'
  <2> SUFFICES ASSUME NEW i \in objects
               PROVE  \/ doc.object = i /\ ~doc.deleted
                      \/ task'[i].pc \in {"purge", "create", "rollback", "cut"}
    BY DEF SourceHasOwner
  <2>1. i \in Tasks
    BY <1>3 DEF TypeOK, Tasks
  <2>2. \/ doc.object = i /\ ~doc.deleted
        \/ task[i].pc \in {"purge", "create", "rollback", "cut"}
    BY DEF IInv, SourceHasOwner
  <2>3. task[i].pc \in {"purge", "create", "rollback", "cut"} =>
          task'[i].pc \in {"purge", "create", "rollback", "cut"}
    BY <2>1, <1>2, Fields
  <2> QED
    BY <2>2, <2>3
<1> QED
  BY <1>3, <1>4, <1>6, <1>8, <1>10, <1>11, <1>12, <1>16, <1>17 DEF IInv

LEMMA RefusedKeeps ==
  ASSUME IInv, NEW r \in Tasks, task[r].pc = "idle", Done(r),
         UNCHANGED <<doc, lastId, chunks, vectors, objects, crashes>>
  PROVE  IInv'
<1>1. task' = [t \in Tasks |-> IF t \in {r} THEN DoneTask ELSE task[t]]
  BY TypesAre DEF IInv, Done, DoneTask
<1>2. crashes' \in Nat /\ {r} \in SUBSET Tasks
  BY TypesAre DEF IInv
<1> QED
  BY <1>1, <1>2, RestKeeps

LEMMA ImportRollbackKeeps ==
  ASSUME IInv, NEW r \in Tasks, ImportRollback(r) PROVE IInv'
<1>1. task[r].pc \in ImportPcs
  BY DEF ImportRollback, At, ImportPcs
<1>2. UNCHANGED <<doc, lastId, chunks, vectors, crashes>>
  BY DEF ImportRollback, dbVars
<1>3. CASE objects' = objects \ {r} /\ Done(r)
  BY <1>1, <1>2, <1>3, Fields, AtImport, ImportKeeps DEF Done, DoneTask, ImportPcs
<1>4. CASE task' = [task EXCEPT ![r] = Cut] /\ UNCHANGED objects
  <2>1. task' = [t \in Tasks |-> IF t \in {r} THEN Cut ELSE task[t]]
    BY <1>4, TypesAre DEF IInv
  <2>2. {r} \in SUBSET Tasks /\ {r} \subseteq Running /\ crashes' \in Nat
    BY <1>1, <1>2, TypesAre DEF IInv, ImportPcs, Running
  <2> QED
    BY <1>2, <1>4, <2>1, <2>2, RestKeeps
<1> QED
  BY <1>3, <1>4 DEF ImportRollback

LEMMA ProcessGivesUpKeeps ==
  ASSUME IInv, NEW p \in Procs, ProcessGivesUp(p) PROVE IInv'
<1> DEFINE Failing == {"persist", "index", "setIndexing", "readChunks", "setReady", "indexFailure"}
<1>1. p \in Tasks /\ UNCHANGED <<doc, lastId, chunks, vectors, objects, crashes>>
  BY DEF ProcessGivesUp, dbVars, Tasks
<1>2. CASE task[p].pc \in {"load", "markFailed"} /\ task' = [task EXCEPT ![p] = Cut]
  <2>1. task' = [t \in Tasks |-> IF t \in {p} THEN Cut ELSE task[t]]
    BY <1>2, TypesAre DEF IInv
  <2>2. {p} \in SUBSET Tasks /\ {p} \subseteq Running /\ crashes' \in Nat
    BY <1>1, <1>2, TypesAre DEF IInv, Running
  <2> QED
    BY <1>1, <2>1, <2>2, RestKeeps
<1>3. CASE task[p].pc \in Failing /\ Goto(p, "markFailed")
  <2>1. task[p].pc \notin Ended \cup ImportPcs /\ p \notin Taking
    BY <1>3 DEF Ended, ImportPcs, Taking
  <2>2. "markFailed" \in PcsOf(p) \ {"idle", "cut", "done"} /\ "markFailed" \in Pcs \ DeletePcs
    BY StagesOf DEF Pcs, DeletePcs, ProcPcs
  <2>3. "none" \in Statuses \ {"ready"}
    BY DEF Statuses
  <2>4. Knows(p)'
    BY <1>1, <1>3, AfterGoto DEF Knows
  <2> QED
    BY <1>1, <1>3, <2>1, <2>2, <2>3, <2>4, QuietGoto
<1> QED
  BY <1>2, <1>3 DEF ProcessGivesUp

LEMMA AbandonKeeps ==
  ASSUME IInv, NEW r \in Requests, Abandon(r) PROVE IInv'
<1>1. task' = [t \in Tasks |-> IF t \in {r} THEN Cut ELSE task[t]]
  BY TypesAre DEF IInv, Abandon
<1>2. crashes' \in Nat /\ {r} \in SUBSET Tasks /\ {r} \subseteq Running
  BY TypesAre DEF IInv, Abandon, Tasks
<1>3. UNCHANGED <<doc, lastId, chunks, vectors, objects>>
  BY DEF Abandon, dbVars
<1> QED
  BY <1>1, <1>2, <1>3, RestKeeps

LEMMA CrashKeeps ==
  ASSUME IInv, Crash PROVE IInv'
<1>1. task' = [t \in Tasks |-> IF t \in Running THEN Cut ELSE task[t]]
  BY DEF Crash
<1>2. crashes' \in Nat /\ Running \in SUBSET Tasks
  BY TypesAre DEF IInv, Crash, Running
<1>3. UNCHANGED <<doc, lastId, chunks, vectors, objects>>
  BY DEF Crash, dbVars
<1> QED
  BY <1>1, <1>2, <1>3, RestKeeps

-----------------------------------------------------------------------------
(* A request that changes the document begins *)

LEMMA NobodyWorks ==
  ASSUME IInv, Patient, NEW r \in Requests, NEW kind, kind # "import", Begin(r, kind),
         kind = "index" \/ doc.status \notin {"processing", "indexing"}
  PROVE  Workers = {}
<1>1. Changing = {} /\ (kind = "index" => Running \cap Procs = {})
  BY DEF Begin
<1>2. Workers = Running \cap Procs
  BY <1>1, WorkersAre DEF IInv
<1>3. \A p \in Workers : doc.status \in {"processing", "indexing"}
  BY <1>2 DEF IInv, WorkIsOnTheRow
<1> QED
  BY <1>1, <1>2, <1>3

LEMMA BeginKeeps ==
  ASSUME IInv, NEW r \in Requests, RequestKind[r] # "import", task[r].pc = "idle", Workers = {},
         NEW x \in TaskRecords, task' = [task EXCEPT ![r] = x],
         x.pc \in {"done", "oldChunks", "index", "rows"} \cap PcsOf(r),
         x.pc # "done" => IsLive(x.doc), x.pc = "rows" => x.object = doc.object,
         UNCHANGED <<doc, lastId, chunks, vectors, objects, crashes>>
  PROVE  IInv'
<1>1. task \in [Tasks -> TaskRecords] /\ r \in Tasks /\ r \notin Procs
  BY TypesAre, Disjoint DEF IInv, Tasks
<1>2. task'[r] = x /\ (\A t \in Tasks \ {r} : task'[t] = task[t]) /\ task' \in [Tasks -> TaskRecords]
  BY <1>1
<1>3. TypeOK'
  BY <1>2, TypesAre DEF IInv, TypeOK, TaskRecords
<1>4. StagesFollowKind'
  BY <1>2 DEF IInv, StagesFollowKind, PcsOf
<1>5. RowIsMade'
  <2>1. doc.object # 0 => doc.object \in Tasks
    BY TypesAre DEF IInv, DocRecords, Sources, Tasks
  <2> QED
    BY <2>1, <1>2 DEF IInv, RowIsMade
<1>6. ImportsSawNoLiveRow'
  <2> SUFFICES ASSUME NEW t \in Tasks, task'[t].pc \in ImportPcs
               PROVE  /\ task'[t].doc <= lastId' /\ ~IsLive(task[t].doc)'
                      /\ task'[t].pc = "purge" => task'[t].doc # 0
    BY DEF ImportsSawNoLiveRow
  <2>1. t # r
    BY <1>2 DEF ImportPcs
  <2>2. task'[t] = task[t]
    BY <2>1, <1>2
  <2> QED
    BY <2>2 DEF IInv, ImportsSawNoLiveRow, IsLive
<1>7. Workers' \subseteq {r} /\ (r \in Workers' => x.pc # "done")
  BY <1>2 DEF Workers, Ended
<1>8. OneWorks' /\ WorkFollowsData'
  BY <1>2, <1>7 DEF OneWorks, WorkFollowsData, Knows
<1>9. WorkIsOnTheRow'
  <2> SUFFICES ASSUME r \in Workers'
               PROVE  IsLive(task[r].doc)' /\ (task'[r].pc \in DeletePcs => task'[r].object = doc'.object)
    BY <1>1, <1>7 DEF WorkIsOnTheRow
  <2> QED
    BY <1>2, <1>7 DEF IsLive, DeletePcs
<1>10. DataIsTheRows'
  BY DEF IInv, DataIsTheRows, Batches, IsLive
<1>11. ReadyHasVectors'
  <2>1. WasCut("reprocess") => WasCut("reprocess")'
    BY <1>2 DEF WasCut, At, Tasks
  <2>2. WasCut("delete") => WasCut("delete")'
    BY <1>2 DEF WasCut, At, Tasks
  <2>3. Taking = {} /\ Batches' = Batches
    BY DEF Taking, Batches
  <2> QED
    BY <2>1, <2>2, <2>3 DEF IInv, ReadyHasVectors, IsLive
<1>12. SourceHasOwner'
  <2>1. \A i \in objects : i \in Tasks
    BY <1>3 DEF TypeOK, Tasks
  <2> QED
    BY <2>1, <1>2 DEF IInv, SourceHasOwner
<1> QED
  BY <1>3, <1>4, <1>5, <1>6, <1>8, <1>9, <1>10, <1>11, <1>12 DEF IInv

LEMMA ReprocessReadKeeps ==
  ASSUME IInv, Patient, NEW r \in Requests, ReprocessRead(r) PROVE IInv'
<1>1. /\ task[r].pc = "idle" /\ RequestKind[r] = "reprocess" /\ r \in Tasks
      /\ task[r] \in TaskRecords /\ doc \in DocRecords /\ IsLive(doc.id)
      /\ PcsOf(r) = Ended \cup ReprocessPcs
  BY TypesAre, StagesOf DEF IInv, ReprocessRead, Begin, At, Tasks
<1>2. UNCHANGED <<doc, lastId, chunks, vectors, objects, crashes>>
  BY DEF ReprocessRead, dbVars
<1>3. CASE doc.status \in {"processing_failed", "ready", "index_failed"}
  <2> DEFINE x == [task[r] EXCEPT !.pc = "oldChunks", !.doc = doc.id]
  <2>1. task' = [task EXCEPT ![r] = x]
    BY <1>3 DEF ReprocessRead
  <2>2. x \in TaskRecords /\ x.pc = "oldChunks" /\ x.doc = doc.id
    BY <1>1 DEF TaskRecords, DocRecords, Pcs
  <2> HIDE DEF x
  <2>3. Workers = {}
    BY <1>3, NobodyWorks DEF ReprocessRead
  <2> QED
    BY <1>1, <1>2, <2>1, <2>2, <2>3, BeginKeeps DEF ReprocessPcs
<1>4. CASE doc.status \notin {"processing_failed", "ready", "index_failed"}
  BY <1>1, <1>2, <1>4, RefusedKeeps DEF ReprocessRead
<1> QED
  BY <1>3, <1>4

LEMMA IndexRequestKeeps ==
  ASSUME IInv, Patient, NEW r \in Requests, IndexRequest(r) PROVE IInv'
<1> DEFINE x == [task[r] EXCEPT !.pc = "index", !.doc = doc.id]
<1>1. /\ task[r].pc = "idle" /\ RequestKind[r] = "index" /\ r \in Tasks
      /\ task[r] \in TaskRecords /\ doc \in DocRecords /\ IsLive(doc.id)
      /\ PcsOf(r) = Ended \cup IndexPcs
  BY TypesAre, StagesOf DEF IInv, IndexRequest, Begin, At, Tasks
<1>2. UNCHANGED <<doc, lastId, chunks, vectors, objects, crashes>>
  BY DEF IndexRequest, dbVars
<1>3. task' = [task EXCEPT ![r] = x]
  BY DEF IndexRequest
<1>4. x \in TaskRecords /\ x.pc = "index" /\ x.doc = doc.id
  BY <1>1 DEF TaskRecords, DocRecords, Pcs
<1> HIDE DEF x
<1>5. Workers = {}
  BY NobodyWorks DEF IndexRequest
<1> QED
  BY <1>1, <1>2, <1>3, <1>4, <1>5, BeginKeeps DEF IndexPcs

LEMMA DeleteReadKeeps ==
  ASSUME IInv, Patient, NEW r \in Requests, DeleteRead(r) PROVE IInv'
<1>1. /\ task[r].pc = "idle" /\ RequestKind[r] = "delete" /\ r \in Tasks
      /\ task[r] \in TaskRecords /\ doc \in DocRecords /\ IsLive(doc.id)
      /\ PcsOf(r) = Ended \cup DeletePcs
  BY TypesAre, StagesOf DEF IInv, DeleteRead, Begin, At, Tasks
<1>2. UNCHANGED <<doc, lastId, chunks, vectors, objects, crashes>>
  BY DEF DeleteRead, dbVars
<1>3. CASE doc.status \in {"processing", "indexing"}
  BY <1>1, <1>2, <1>3, RefusedKeeps DEF DeleteRead
<1>4. CASE doc.status \notin {"processing", "indexing"}
  <2> DEFINE x == [task[r] EXCEPT !.pc = "rows", !.doc = doc.id, !.object = doc.object]
  <2>1. task' = [task EXCEPT ![r] = x]
    BY <1>4 DEF DeleteRead
  <2>2. x \in TaskRecords /\ x.pc = "rows" /\ x.doc = doc.id /\ x.object = doc.object
    BY <1>1 DEF TaskRecords, DocRecords, Pcs
  <2> HIDE DEF x
  <2>3. Workers = {}
    BY <1>4, NobodyWorks DEF DeleteRead
  <2> QED
    BY <1>1, <1>2, <2>1, <2>2, <2>3, BeginKeeps DEF DeletePcs
<1> QED
  BY <1>3, <1>4

-----------------------------------------------------------------------------
(* The theorems *)

LEMMA InitIInv == Init => IInv
<1> SUFFICES ASSUME Init PROVE IInv
  OBVIOUS
<1>1. \A t \in Tasks : task[t] = NoTask /\ task[t].pc = "idle"
  BY DEF Init, NoTask
<1>2. TypeOK
  BY Fields, TypesAre DEF Init
<1>3. Workers = {}
  BY <1>1 DEF Workers, Ended
<1>4. StagesFollowKind /\ ImportsSawNoLiveRow
  BY <1>1 DEF StagesFollowKind, PcsOf, Ended, ImportsSawNoLiveRow, ImportPcs
<1>5. RowIsMade /\ ReadyHasVectors
  BY Fields DEF Init, RowIsMade, ReadyHasVectors
<1>6. OneWorks /\ WorkIsOnTheRow /\ WorkFollowsData
  BY <1>3 DEF OneWorks, WorkIsOnTheRow, WorkFollowsData
<1>7. DataIsTheRows /\ SourceHasOwner
  BY DEF Init, DataIsTheRows, SourceHasOwner
<1> QED
  BY <1>2, <1>4, <1>5, <1>6, <1>7 DEF IInv

LEMMA NextIInv == Patient /\ IInv /\ [Next]_vars => IInv'
<1> SUFFICES ASSUME Patient, IInv, [Next]_vars PROVE IInv'
  OBVIOUS
<1>1. CASE UNCHANGED vars
  <2> DEFINE S == {}
  <2>1. /\ task' = [t \in Tasks |-> IF t \in S THEN Cut ELSE task[t]]
        /\ S \in SUBSET Tasks /\ S \subseteq Running
    BY <1>1, TypesAre DEF IInv, vars
  <2> HIDE DEF S
  <2>2. UNCHANGED <<doc, lastId, chunks, vectors, objects>> /\ crashes' \in Nat
    BY <1>1, TypesAre DEF IInv, vars
  <2> QED
    BY <2>1, <2>2, RestKeeps
<1>2. ASSUME NEW r \in Requests,
             ImportLookup(r) \/ ReprocessRead(r) \/ IndexRequest(r) \/ DeleteRead(r) \/ Abandon(r)
      PROVE  IInv'
  BY <1>2, ImportLookupKeeps, ReprocessReadKeeps, IndexRequestKeeps, DeleteReadKeeps, AbandonKeeps
<1>3. ASSUME NEW t \in Tasks, Step(t) PROVE IInv'
  <2>1. CASE ImportStep(t)
    BY <2>1, ImportUploadKeeps, ImportPurgeKeeps, ImportCreateKeeps, ImportRollbackKeeps
       DEF ImportStep
  <2>2. CASE ReprocessStep(t)
    BY <2>2, ReprocessChunksKeeps, ReprocessVectorsKeeps, ReprocessResetKeeps DEF ReprocessStep
  <2>3. CASE ProcessStep(t)
    BY <2>3, ProcessLoadKeeps, ProcessParseKeeps, ProcessPersistKeeps, ProcessFailedKeeps
       DEF ProcessStep
  <2>4. CASE IndexStep(t)
    BY <2>4, IndexLoadKeeps, IndexSetKeeps, IndexChunksKeeps, IndexUpsertKeeps, IndexReadyKeeps,
       IndexFailureKeeps DEF IndexStep
  <2>5. CASE DeleteStep(t)
    BY <2>5, DeleteRowsKeeps, DeleteObjectsKeeps, DeleteVectorsKeeps, DeleteCommitKeeps,
       DeleteFailedKeeps DEF DeleteStep
  <2> QED
    BY <1>3, <2>1, <2>2, <2>3, <2>4, <2>5 DEF Step
<1>4. ASSUME NEW p \in Procs, ProcessGivesUp(p) PROVE IInv'
  BY <1>4, ProcessGivesUpKeeps
<1>5. CASE Crash
  BY <1>5, CrashKeeps
<1> QED
  BY <1>1, <1>2, <1>3, <1>4, <1>5 DEF Next

LEMMA SpecIInv == Patient /\ Spec => []IInv
<1>1. Patient => (Spec => []IInv)
  <2> SUFFICES ASSUME Patient PROVE Spec => []IInv
    OBVIOUS
  <2>1. IInv /\ [Next]_vars => IInv'
    BY NextIInv
  <2> QED
    BY <2>1, InitIInv, PTL DEF Spec
<1> QED
  BY <1>1

\* The row, its chunks, vectors and source and the stages of the requests and the
\* goroutines (knowledge_document.go, knowledge_search.go) keep their types.
THEOREM KnowledgeTypes == Patient /\ Spec => []TypeOK
<1>1. IInv => TypeOK
  BY DEF IInv
<1> QED
  BY <1>1, SpecIInv, PTL

\* A document that IndexDocument has marked ready (knowledge_search.go) has the chunks
\* of one parse with all their vectors, unless a Reprocess or DeleteDocument
\* stopped after it had taken the vectors away.
THEOREM ReadyStaysSearchable == Patient /\ Spec => []ReadyIsSearchable
<1>1. IInv => ReadyIsSearchable
  <2> SUFFICES ASSUME IInv, IsLive(doc.id), doc.status = "ready", Changing = {}
               PROVE  \E b \in Procs :
                        /\ BatchesOf(doc.id) = {b}
                        /\ b \in vectors \/ WasCut("reprocess") \/ WasCut("delete")
    BY DEF ReadyIsSearchable
  <2>1. Taking = {}
    <3> SUFFICES ASSUME NEW t \in Taking PROVE FALSE
      OBVIOUS
    <3>1. t \in Workers /\ t \in Requests
      BY Standing DEF IInv, Taking, Workers, ReprocessPcs, DeletePcs
    <3> QED
      BY <3>1, WorkersAre DEF IInv
  <2>2. PICK c \in chunks : TRUE
    BY DEF IInv, ReadyHasVectors
  <2>3. chunks = {c} /\ c.doc = doc.id /\ c.batch \in Procs
    BY <2>2, TypesAre DEF IInv, DataIsTheRows, IsLive
  <2>4. BatchesOf(doc.id) = {c.batch} /\ Batches = {c.batch}
    BY <2>3 DEF BatchesOf, Batches
  <2>5. c.batch \in vectors \/ WasCut("reprocess") \/ WasCut("delete")
    BY <2>1, <2>4 DEF IInv, ReadyHasVectors
  <2> QED
    BY <2>3, <2>4, <2>5
<1> QED
  BY <1>1, SpecIInv, PTL

\* Import, Reprocess and DeleteDocument (knowledge_document.go, knowledge_search.go)
\* leave no source without an owner, no vector without its chunk and no chunk
\* without its document, wherever they stop.
THEOREM NothingStaysBehind == Patient /\ Spec => []NothingLeftBehind
<1>1. IInv => NothingLeftBehind
  BY DEF IInv, NothingLeftBehind, DataIsTheRows, Batches
<1> QED
  BY <1>1, SpecIInv, PTL
=============================================================================

---------------------------- MODULE VectorIndex -----------------------------
(***************************************************************************)
(* utils/vectorstore/usearch.go: one collection of the vector store.  The  *)
(* index lives in memory and is saved to a file as a whole after a batch;  *)
(* a start reads the file back.  The store's mutex makes a batch one step. *)
(*                                                                         *)
(* A vector is its key: the same key is always written with the same       *)
(* vector.  A failed batch changes what it had reached and saves nothing.  *)
(* A Save that fails is taken to leave the file as it was.                 *)
(***************************************************************************)
EXTENDS FiniteSets, Naturals

VARIABLES
  vectors,  \* the keys of the index in memory
  saved     \* the keys of the index in the file

indexVars == <<vectors, saved>>

IndexInit == vectors = {} /\ saved = {}

\* Mutation: the file is left to the next batch.
UpsertUnsaved(keys) == vectors' = vectors \cup keys /\ UNCHANGED saved

Upsert(keys) ==
  /\ vectors' = vectors \cup keys
  /\ saved' = IF keys = {} THEN saved ELSE vectors'

\* The context has ended or the index refuses a vector; a key that was there is
\* removed before it is added, so it may be gone.  Or it was Save that failed.
UpsertFails(keys) ==
  /\ keys # {}
  /\ \E added \in SUBSET keys, lost \in SUBSET (keys \cap vectors) :
       /\ Cardinality(lost) <= 1
       /\ vectors' = (vectors \cup added) \ lost
  /\ UNCHANGED saved

\* Nothing found is nothing to save, also when an earlier batch was not saved.
Delete(keys) ==
  /\ vectors' = vectors \ keys
  /\ saved' = IF keys \cap vectors = {} THEN saved ELSE vectors'

DeleteFails(keys) ==
  /\ keys # {}
  /\ \E removed \in SUBSET keys : vectors' = vectors \ removed
  /\ UNCHANGED saved

\* openUSearchIndex at the next start.
Reopen == vectors' = saved /\ UNCHANGED saved
=============================================================================

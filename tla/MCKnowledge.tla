---------------------------- MODULE MCKnowledge -----------------------------
(* Three imports of the same file, a deletion, a Reprocess, a re-index.     *)
EXTENDS KnowledgeDocument

CONSTANTS import1, import2, import3, reprocess, index, delete1

MCRequests == {import1, import2, import3, reprocess, index, delete1}
MCKind ==
  [r \in MCRequests |-> CASE r \in {import1, import2, import3} -> "import"
                          [] r = reprocess -> "reprocess"
                          [] r = index -> "index"
                          [] r = delete1 -> "delete"]
=============================================================================

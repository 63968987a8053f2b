------------------------- MODULE MCFairQueueRounds -------------------------
(* Three users, one of them reached by three spellings of its name (plain, *)
(* padded with spaces, and blank for the anonymous user).                  *)
EXTENDS FairQueueRounds

CONSTANTS alice, bob, anon, none, padded, empty, j1, j2

MCUsers == {alice, bob, anon}
MCRawNames == {alice, bob, padded, empty}
MCTrimSpace ==
  [name \in MCRawNames |-> CASE name = padded -> alice
                             [] name = empty -> none
                             [] OTHER -> name]
MCJobs == {j1, j2}
=============================================================================

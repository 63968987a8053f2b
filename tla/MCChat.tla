------------------------------- MODULE MCChat -------------------------------
(* Three turns and two deletions of one conversation, one restart.          *)
EXTENDS ChatMemory

CONSTANTS t1, t2, t3, d1, d2

MCTurns == {t1, t2, t3}
MCDeleters == {d1, d2}
Symmetry == Permutations(MCTurns) \cup Permutations(MCDeleters)
=============================================================================

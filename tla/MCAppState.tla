----------------------------- MODULE MCAppState -----------------------------
(* AppState on small sets: two threads, one or two journals of one or two    *)
(* files, two edits.                                                         *)
EXTENDS AppState, TLC

ThreadSymmetry == Permutations(Threads)
=============================================================================

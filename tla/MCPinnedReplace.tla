--------------------------- MODULE MCPinnedReplace ---------------------------
(* PinnedReplace on small sets: four inodes are a file, two replacements of  *)
(* it and one number to reuse.                                               *)
EXTENDS PinnedReplace, TLC

Symmetry ==
    Permutations(Writers) \cup Permutations(Temps)
    \cup Permutations(Inodes) \cup Permutations(Texts)
=============================================================================

------------------------------ MODULE MCWriters ------------------------------
(* The writers beside the editor, for TLC. *)
EXTENDS SiblingWrite

CONSTANTS r1, r2

Pair(a, b) == [r \in {r1, r2} |-> IF r = r1 THEN a ELSE b]

\* The pairs of tabs that meet in a file or in a lock.
Pairs == {Pair("text", "auto"), Pair("prices", "create"), Pair("text", "budget"),
          Pair("table", "create"), Pair("rules", "rules")}

=============================================================================

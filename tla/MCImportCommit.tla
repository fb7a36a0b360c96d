---------------------------- MODULE MCImportCommit ----------------------------
(* ImportCommit with two rows, the first of them without an id. *)
EXTENDS ImportCommit

CONSTANTS main, inc

TwoFiles == {main, inc}
OneTarget == {main}
TwoRows == {1, 2}
Second == {2}
NoReviews == {{}}
OneFileReviews == {{}, {main}, {inc}}
TwoFileReviews == {{main, inc}}
=============================================================================

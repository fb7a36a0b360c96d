------------------------------ MODULE MCWatcher ------------------------------
(* Watcher with a main file that includes none or one of two files. *)
EXTENDS Watcher

CONSTANTS main, inc1, inc2, plain, one, other

MCFiles == {main, inc1, inc2}
MCTexts == {plain, one, other}
MCIncludes == [t \in MCTexts |->
                 CASE t = plain -> {} [] t = one -> {inc1} [] t = other -> {inc2}]

OneDirectory == [f \in MCFiles |-> "here"]
TwoDirectories == [f \in MCFiles |-> IF f = inc2 THEN "there" ELSE "here"]
=============================================================================

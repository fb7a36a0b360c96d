----------------------------- MODULE EditService -----------------------------
(***************************************************************************)
(* What the write path promises a client, whoever else writes the files:   *)
(* edits are made one request at a time; each file a request names takes   *)
(* exactly its edits, on top of whatever the file said at that moment, at  *)
(* most once, or never.  AppState implements this (AppState!Service).      *)
(***************************************************************************)
EXTENDS Naturals

CONSTANTS Journals, Files, Marks

VARIABLES
    text,      \* journal -> file -> the marks it shows
    todo,      \* the edits of the request in service not yet in a file
    outside    \* how many times another program wrote or broke a file

vars == <<text, todo, outside>>

EditsOf(f) == {m \in Marks : <<f, m>> \in todo}

Init ==
    /\ text = [j \in Journals |-> [f \in Files |-> {}]]
    /\ todo = {}
    /\ outside = 0

Accept(edits) ==
    /\ todo = {} /\ todo' = edits
    /\ UNCHANGED <<text, outside>>

Save(j, f) ==
    /\ EditsOf(f) # {}
    /\ text' = [text EXCEPT ![j][f] = (@ \ EditsOf(f)) \cup (EditsOf(f) \ @)]
    /\ todo' = {edit \in todo : edit[1] # f}
    /\ UNCHANGED outside

(* Refused, failed or panicked: what is not yet in a file never will be. *)
Abandon ==
    /\ todo' = {}
    /\ UNCHANGED <<text, outside>>

Outside(j, f) ==
    /\ \E new \in SUBSET Marks : text' = [text EXCEPT ![j][f] = new]
    /\ outside' = outside + 1
    /\ UNCHANGED todo

Next ==
    \/ \E edits \in SUBSET (Files \X Marks) : Accept(edits)
    \/ \E j \in Journals, f \in Files : Save(j, f) \/ Outside(j, f)
    \/ Abandon

Spec == Init /\ [][Next]_vars
=============================================================================

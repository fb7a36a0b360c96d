----------------------------- MODULE ImportCommit -----------------------------
(***************************************************************************)
(* Committing a bank statement (ledgeline-server import_api.rs): the CSV   *)
(* is saved, hledger proposes the rows its .latest marker does not cover,  *)
(* Ledgeline appends them to the journal, hledger records the marker, and  *)
(* what fails on the way is taken back.  Commits exclude each other        *)
(* (import_writes); the editor's own requests, the watcher, other programs *)
(* and a crash may come between any two steps.  A revision is a file's     *)
(* text: the identity a pin also compares is PinnedReplace's.              *)
(***************************************************************************)
EXTENDS Naturals

CONSTANTS
    Files,         \* the journal's files
    Targets,       \* those an import may append to
    Rows,          \* a statement's rows, numbered by date
    Identified,    \* the rows the rules file gives an id
    Reviews,       \* the sets of files a commit's review edits may be in
    Faults,        \* what may fail: see CanFail
    MaxCommits, MaxOthers, MaxCrashes   \* bounds of a run

ASSUME ImportAssumption ==
    /\ Targets \subseteq Files /\ Targets # {} /\ Identified \subseteq Rows
    /\ Rows \subseteq Nat \ {0}
    /\ \A S \in (SUBSET Rows) \ {{}} : \E r \in S : \A q \in S : q <= r
    /\ Reviews \subseteq SUBSET Files
    /\ Faults \subseteq {"write", "reread", "late"}
    /\ MaxCommits \in Nat /\ MaxOthers \in Nat /\ MaxCrashes \in Nat

VARIABLES
    disk,          \* file -> its text
    latest,        \* the newest row hledger's marker covers
    editor,        \* file -> its text as the editor and the snapshot have it
    bound,         \* is an editor bound
    held,          \* does the commit hold the editor's lock
    at, job,       \* the commit that holds import_writes, and where it is
    commits, others, crashes,     \* counters, for the bounds
    outcome,       \* history: how the last commit ended
    warned,        \* history: a commit said the entries stayed unrecorded
    kept,          \* history: the edits others saved, file -> set
    recorded,      \* history: the proposed rows the marker was moved over
    foreign        \* history: others wrote since the editor last read

vars == <<disk, latest, editor, bound, held, at, job, commits, others, crashes,
          outcome, warned, kept, recorded, foreign>>
history == <<warned, kept, recorded>>
around == <<commits, others, crashes>>

(* What a journal file says, to an import: how often it has each row, which *)
(* of those are marked cleared, and the edits of others.                   *)
Edits == ({"review", "balance"} \X (1..MaxCommits)) \cup ({"other"} \X (1..MaxOthers))
Text == [rows : [Rows -> Nat], cleared : SUBSET Rows, edits : SUBSET Edits]
Empty == [rows |-> [r \in Rows |-> 0], cleared |-> {}, edits |-> {}]

Edited(text, edit) == [text EXCEPT !.edits = @ \cup {edit}]
Appended(text, rows, cleared) ==
    [text EXCEPT !.rows = [r \in Rows |-> IF r \in rows THEN @[r] + 1 ELSE @[r]],
                 !.cleared = @ \cup (rows \cap cleared)]

(* A row is in the journal, in whichever of its files; it is there once. *)
Has(texts, r) == \E f \in Files : texts[f].rows[r] > 0
AtMostOnce(texts, r) ==
    \A f \in Files : /\ texts[f].rows[r] <= 1
                     /\ texts[f].rows[r] > 0 =>
                          \A g \in Files \ {f} : texts[g].rows[r] = 0

Stages == {"idle", "csv", "pin", "preview", "reconcile", "edits", "save", "reread",
           "append", "catchup", "rollback", "undo", "release", "balance", "flips",
           "flip", "final"}
NoJob == [target |-> CHOOSE f \in Targets : TRUE, csv |-> {}, cleared |-> {},
          reviews |-> {}, balance |-> FALSE, before |-> Empty, pin |-> Empty,
          entries |-> {}, flips |-> {}, undo |-> [f \in Files |-> Empty],
          todo |-> {}, start |-> [f \in Files |-> Empty]]

Init ==
    /\ disk = [f \in Files |-> Empty] /\ editor = disk
    /\ latest = 0 /\ bound = TRUE /\ held = FALSE
    /\ at = "idle" /\ job = NoJob
    /\ commits = 0 /\ others = 0 /\ crashes = 0
    /\ outcome = "none" /\ warned = FALSE /\ kept = [f \in Files |-> {}]
    /\ recorded = {} /\ foreign = FALSE

(* I/O that may fail in this run. *)
CanFail(what) == what \in Faults

(* An editor that is bound re-reads the journal, or is unbound.  A watcher's *)
(* reload of a journal without an editor only publishes.                    *)
Reread ==
    \/ editor' = disk /\ foreign' = FALSE /\ bound' = bound
    \/ bound /\ CanFail("reread") /\ bound' = FALSE /\ UNCHANGED <<editor, foreign>>
RereadIfBound ==
    \/ bound /\ Reread
    \/ ~bound /\ UNCHANGED <<editor, foreign, bound>>

End(how) == at' = "idle" /\ outcome' = how

(* undone: before the commit ends the review edits it saved are put back. *)
Undone(how) ==
    /\ outcome' = how
    /\ at' = IF held THEN "undo" ELSE "idle"
    /\ job' = [job EXCEPT !.todo = job.reviews]

-----------------------------------------------------------------------------
(* run_commit.  What it checks first writes nothing and is not a step. *)
Begin(target, csv, cleared, reviews, balance) ==
    /\ at = "idle" /\ commits < MaxCommits /\ bound
    /\ at' = "csv" /\ commits' = commits + 1 /\ outcome' = "none"
    /\ job' = [NoJob EXCEPT !.target = target, !.csv = csv, !.cleared = cleared,
                            !.reviews = reviews, !.balance = balance,
                            !.start = disk]
    /\ UNCHANGED <<disk, latest, editor, bound, held, others, crashes, history, foreign>>

WriteCsv ==
    /\ at = "csv"
    /\ \/ at' = "pin" /\ UNCHANGED outcome
       \/ CanFail("write") /\ End("refused")
    /\ UNCHANGED <<disk, latest, editor, bound, held, job, around, history, foreign>>

PinJournal ==
    /\ at = "pin"
    /\ \/ /\ job' = [job EXCEPT !.before = disk[job.target], !.pin = disk[job.target]]
          /\ at' = "preview" /\ UNCHANGED outcome
       \/ CanFail("reread") /\ End("refused") /\ UNCHANGED job
    /\ UNCHANGED <<disk, latest, editor, bound, held, around, history, foreign>>

(* hledger import --dry-run: the rows behind the marker are left out. *)
Preview ==
    /\ at = "preview"
    /\ job' = [job EXCEPT !.entries = {r \in job.csv : r > latest}]
    /\ at' = "reconcile"
    /\ UNCHANGED <<disk, latest, editor, bound, held, around, outcome, history, foreign>>

PreviewFails ==
    /\ at = "preview" /\ End("refused")
    /\ UNCHANGED <<disk, latest, editor, bound, held, job, around, history, foreign>>

(* A mistake: leave it all to the marker. *)
ReconcileMarkerOnly ==
    /\ at = "reconcile"
    /\ at' = IF job.reviews = {} THEN "append" ELSE "edits"
    /\ UNCHANGED <<disk, latest, editor, bound, held, job, around, outcome, history,
                   foreign>>

(* reconcile_ids: an id the served journal has takes its row out of the *)
(* proposal, and where only the status differs it is to be changed.     *)
Differs(text, r) == (r \in text.cleared) # (r \in job.cleared)
Flippable(texts) ==
    {r \in Identified \cap job.csv : texts[job.target].rows[r] > 0
                                     /\ Differs(texts[job.target], r)}

Reconcile ==
    /\ at = "reconcile"
    /\ job' = [job EXCEPT
                 !.entries = {r \in @ : ~(r \in Identified /\ Has(editor, r))},
                 !.flips = Flippable(editor)]
    /\ at' = IF job.reviews = {} THEN "append" ELSE "edits"
    /\ UNCHANGED <<disk, latest, editor, bound, held, around, outcome, history, foreign>>

-----------------------------------------------------------------------------
(* save_journal_edits: lock the editor, keep the bytes to go back to, save. *)
LockEdits ==
    /\ at = "edits" /\ ~held /\ bound
    /\ held' = TRUE /\ at' = "save"
    /\ job' = [job EXCEPT !.undo = [f \in Files |-> IF f \in job.reviews
                                                    THEN disk[f] ELSE Empty],
                          !.todo = job.reviews]
    /\ UNCHANGED <<disk, latest, editor, bound, around, outcome, history, foreign>>

(* No editor, a stale edit, or, once applied, a file that cannot be read. *)
LockEditsFails ==
    /\ at = "edits" /\ ~held /\ End("refused")
    /\ RereadIfBound \/ UNCHANGED <<editor, foreign, bound>>
    /\ UNCHANGED <<disk, latest, held, job, around, history>>

Review == <<"review", commits>>

(* JournalEditor::save: nothing if a file is not as loaded, then file by file. *)
SaveUnfit ==
    IF job.todo = job.reviews THEN {f \in job.todo : disk[f] # editor[f]} ELSE {}

SaveEdit(f) ==
    /\ at = "save" /\ f \in job.todo /\ SaveUnfit = {} /\ disk[f] = editor[f]
    /\ disk' = [disk EXCEPT ![f] = Edited(@, Review)]
    /\ editor' = [editor EXCEPT ![f] = Edited(@, Review)]
    /\ job' = [job EXCEPT !.todo = @ \ {f}]
    /\ at' = IF job.todo = {f} THEN "reread" ELSE "save"
    /\ UNCHANGED <<latest, bound, held, around, outcome, history, foreign>>

SaveFails(f) ==
    /\ at = "save" /\ f \in job.todo
    /\ SaveUnfit # {} \/ disk[f] # editor[f] \/ CanFail("write")
    /\ Reread /\ held' = FALSE /\ End("refused")
    /\ UNCHANGED <<disk, latest, job, around, history>>

(* The edits may have rewritten the file to append to: build on that. *)
RereadTarget ==
    /\ at = "reread"
    /\ \/ /\ job' = IF job.target \in job.reviews
                    THEN [job EXCEPT !.before = disk[job.target],
                                     !.pin = disk[job.target]]
                    ELSE job
          /\ at' = "append" /\ UNCHANGED outcome
       \/ job.target \in job.reviews /\ CanFail("reread") /\ Undone("refused")
    /\ UNCHANGED <<disk, latest, editor, bound, held, around, history, foreign>>

-----------------------------------------------------------------------------
(* A mistake: write over what is there. *)
AppendUnpinned ==
    /\ at = "append"
    /\ LET text == Appended(job.before, job.entries, job.cleared) IN
       /\ disk' = [disk EXCEPT ![job.target] = text]
       /\ job' = [job EXCEPT !.pin = text]
    /\ at' = "catchup"
    /\ UNCHANGED <<latest, editor, bound, held, around, outcome, history, foreign>>

Append ==
    /\ at = "append"
    /\ \/ job.entries = {} /\ UNCHANGED <<disk, job>>
       \/ /\ job.entries # {} /\ disk[job.target] = job.pin
          /\ LET text == Appended(job.before, job.entries, job.cleared) IN
             /\ disk' = [disk EXCEPT ![job.target] = text]
             /\ job' = [job EXCEPT !.pin = text]
    /\ at' = "catchup"
    /\ UNCHANGED <<latest, editor, bound, held, around, outcome, history, foreign>>

(* A mistake: go on to record rows that were not appended. *)
AppendFailsUnnoticed ==
    /\ at = "append" /\ job.entries # {} /\ disk[job.target] # job.pin
    /\ at' = "catchup"
    /\ UNCHANGED <<disk, latest, editor, bound, held, job, around, outcome, history,
                   foreign>>

(* A mistake: leave the review edits in place. *)
AppendFailsKeepingEdits ==
    /\ at = "append" /\ job.entries # {}
    /\ disk[job.target] # job.pin \/ CanFail("write")
    /\ End("refused") /\ held' = FALSE
    /\ UNCHANGED <<disk, latest, editor, bound, job, around, history, foreign>>

AppendFails ==
    /\ at = "append" /\ job.entries # {}
    /\ disk[job.target] # job.pin \/ CanFail("write")
    /\ Undone("refused")
    /\ UNCHANGED <<disk, latest, editor, bound, held, around, history, foreign>>

(* hledger import --catchup moves the marker over the whole CSV.  A run *)
(* killed at its timeout is a failure, whatever it had written.         *)
Mark ==
    /\ latest' = IF \E r \in job.csv : r > latest
                 THEN CHOOSE r \in job.csv : \A q \in job.csv : q <= r
                 ELSE latest
    /\ recorded' = recorded \cup job.entries

Catchup ==
    /\ at = "catchup" /\ Mark /\ at' = "release"
    /\ UNCHANGED <<disk, editor, bound, held, job, around, outcome, warned, kept, foreign>>

CatchupFails ==
    /\ at = "catchup" /\ at' = "rollback"
    /\ \/ UNCHANGED <<latest, recorded>>
       \/ CanFail("late") /\ Mark
    /\ UNCHANGED <<disk, editor, bound, held, job, around, outcome, warned, kept, foreign>>

-----------------------------------------------------------------------------
(* A mistake: report the failure and leave the entries. *)
RollbackForgotten ==
    /\ at = "rollback" /\ Undone("refused")
    /\ UNCHANGED <<disk, latest, editor, bound, held, around, history, foreign>>

(* catchup_failed: the journal is put back as this commit read it, or the *)
(* error says that the entries stayed and are not recorded.               *)
Rollback ==
    /\ at = "rollback" /\ disk[job.target] = job.pin
    /\ disk' = [disk EXCEPT ![job.target] = job.before]
    /\ Undone("refused")
    /\ UNCHANGED <<latest, editor, bound, held, around, history, foreign>>

RollbackFails ==
    /\ at = "rollback"
    /\ disk[job.target] # job.pin \/ CanFail("write")
    /\ Undone("warned") /\ warned' = TRUE
    /\ UNCHANGED <<disk, latest, editor, bound, held, around, kept, recorded, foreign>>

(* HeldEdits::undo *)
UndoFile(f) ==
    /\ at = "undo" /\ f \in job.todo
    /\ job' = [job EXCEPT !.todo = @ \ {f}]
    /\ \/ disk' = [disk EXCEPT ![f] = job.undo[f]] /\ UNCHANGED outcome
       \/ CanFail("write") /\ outcome' = "carries" /\ UNCHANGED disk
    /\ UNCHANGED <<latest, editor, bound, held, at, around, history, foreign>>

UndoEnds ==
    /\ at = "undo" /\ job.todo = {}
    /\ Reread /\ held' = FALSE /\ at' = "idle"
    /\ UNCHANGED <<disk, latest, job, around, outcome, history>>

-----------------------------------------------------------------------------
(* The import has landed: HeldEdits::release, and what is written after it. *)
AfterBalance == IF job.flips = {} THEN "final" ELSE "flips"
AfterRelease == IF job.balance THEN "balance" ELSE AfterBalance

(* A mistake: hold the editor until the commit is over. *)
ReleaseLate ==
    /\ at = "release" /\ at' = AfterRelease
    /\ UNCHANGED <<disk, latest, editor, bound, held, job, around, outcome, history,
                   foreign>>

Release ==
    /\ at = "release" /\ at' = AfterRelease
    /\ IF held THEN Reread /\ held' = FALSE
               ELSE UNCHANGED <<editor, foreign, bound, held>>
    /\ UNCHANGED <<disk, latest, job, around, outcome, history>>

WriteAssertion ==
    /\ at = "balance" /\ disk[job.target] = job.pin
    /\ disk' = [disk EXCEPT ![job.target] = Edited(@, <<"balance", commits>>)]
    /\ at' = AfterBalance
    /\ UNCHANGED <<latest, editor, bound, held, job, around, outcome, history, foreign>>

(* hledger refused the balance, or the journal is not as the import left it. *)
WriteAssertionFails ==
    /\ at = "balance" /\ End("applied")
    /\ UNCHANGED <<disk, latest, editor, bound, held, job, around, history, foreign>>

(* apply_status_flips: re-read, then choose and save under the editor's lock. *)
ReopenForFlips ==
    /\ at = "flips" /\ ~held /\ RereadIfBound
    /\ IF bound /\ ~bound' THEN End("retry") ELSE at' = "flip" /\ UNCHANGED outcome
    /\ UNCHANGED <<disk, latest, held, job, around, history>>

Chosen == {r \in job.flips : AtMostOnce(editor, r) /\ r \in Flippable(editor)}

Flip ==
    /\ at = "flip" /\ ~held /\ bound /\ at' = "final"
    /\ \/ Chosen = {} /\ UNCHANGED <<disk, editor>>
       \/ /\ Chosen # {} /\ disk[job.target] = editor[job.target]
          /\ LET text == [editor[job.target] EXCEPT
                            !.cleared = (@ \ Chosen) \cup (job.cleared \cap Chosen)] IN
             /\ disk' = [disk EXCEPT ![job.target] = text]
             /\ editor' = [editor EXCEPT ![job.target] = text]
    /\ UNCHANGED <<latest, bound, held, job, around, outcome, history, foreign>>

FlipFails ==
    /\ at = "flip" /\ ~held
    /\ ~bound \/ (Chosen # {} /\ (disk[job.target] # editor[job.target]
                                  \/ CanFail("write")))
    /\ RereadIfBound /\ End("applied")
    /\ UNCHANGED <<disk, latest, held, job, around, history>>

ReopenEditor ==
    /\ at = "final" /\ ~held /\ RereadIfBound /\ End("landed")
    /\ UNCHANGED <<disk, latest, held, job, around, history>>

-----------------------------------------------------------------------------
(* Everyone else. *)

(* Another of the program's requests edits the journal (AppState). *)
OtherRequest(f) ==
    /\ others < MaxOthers /\ ~held /\ bound /\ others' = others + 1
    /\ IF disk[f] = editor[f]
       THEN /\ disk' = [disk EXCEPT ![f] = Edited(@, <<"other", others'>>)]
            /\ editor' = [editor EXCEPT ![f] = Edited(@, <<"other", others'>>)]
            /\ kept' = [kept EXCEPT ![f] = @ \cup {<<"other", others'>>}]
            /\ UNCHANGED <<bound, foreign>>
       ELSE Reread /\ UNCHANGED <<disk, kept>>
    /\ UNCHANGED <<latest, held, at, job, commits, crashes, outcome, warned, recorded>>

(* Another program saves a journal file. *)
OtherProgram(f) ==
    /\ others < MaxOthers /\ others' = others + 1
    /\ disk' = [disk EXCEPT ![f] = Edited(@, <<"other", others'>>)]
    /\ kept' = [kept EXCEPT ![f] = @ \cup {<<"other", others'>>}]
    /\ foreign' = TRUE
    /\ UNCHANGED <<latest, editor, bound, held, at, job, commits, crashes, outcome,
                   warned, recorded>>

(* The watcher's reload (Watcher): an unbound editor stays unbound. *)
WatcherReload ==
    /\ ~held /\ editor # disk /\ Reread
    /\ UNCHANGED <<disk, latest, held, at, job, around, outcome, history>>

(* The process dies inside a commit and is started again. *)
Crash ==
    /\ at # "idle" /\ crashes < MaxCrashes /\ crashes' = crashes + 1
    /\ End("none") /\ held' = FALSE /\ bound' = TRUE
    /\ editor' = disk /\ foreign' = FALSE
    /\ UNCHANGED <<disk, latest, job, commits, others, history>>

CommitStep ==
    \/ WriteCsv \/ PinJournal \/ Preview \/ PreviewFails \/ Reconcile \/ LockEdits
    \/ LockEditsFails
    \/ \E f \in Files : SaveEdit(f) \/ SaveFails(f) \/ UndoFile(f)
    \/ RereadTarget \/ Append \/ AppendFails \/ Catchup \/ CatchupFails
    \/ Rollback \/ RollbackFails \/ UndoEnds \/ Release
    \/ WriteAssertion \/ WriteAssertionFails
    \/ ReopenForFlips \/ Flip \/ FlipFails \/ ReopenEditor

Next ==
    \/ \E target \in Targets, csv \in (SUBSET Rows) \ {{}}, reviews \in Reviews,
          balance \in BOOLEAN :
       \E cleared \in SUBSET (csv \cap Identified) :
          Begin(target, csv, cleared, reviews, balance)
    \/ CommitStep
    \/ \E f \in Files : OtherRequest(f) \/ OtherProgram(f)
    \/ WatcherReload \/ Crash

Spec == Init /\ [][Next]_vars
FairSpec == Spec /\ WF_vars(CommitStep)

-----------------------------------------------------------------------------
(* Every variable keeps to its type. *)
TypeOK ==
    /\ disk \in [Files -> Text] /\ editor \in [Files -> Text]
    /\ latest \in Rows \cup {0} /\ bound \in BOOLEAN /\ held \in BOOLEAN
    /\ at \in Stages
    /\ job.target \in Targets /\ job.csv \subseteq Rows /\ job.reviews \subseteq Files
    /\ job.todo \subseteq job.reviews /\ job.entries \subseteq job.csv
    /\ job.flips \subseteq Identified
    /\ job.before \in Text /\ job.pin \in Text /\ job.undo \in [Files -> Text]
    /\ commits \in 0..MaxCommits /\ others \in 0..MaxOthers /\ crashes \in 0..MaxCrashes
    /\ outcome \in {"none", "refused", "warned", "carries", "applied", "retry", "landed"}
    /\ kept \in [Files -> SUBSET Edits] /\ recorded \subseteq Rows

(* However often statements are imported, and whatever fails or is edited  *)
(* meanwhile, the journal has no row twice unless a commit said that its   *)
(* entries stayed unrecorded (run_commit, catchup_failed) or died before   *)
(* it could record them.                                                   *)
NoDuplicates ==
    ~warned /\ crashes = 0 => \A r \in Rows : AtMostOnce(disk, r)

(* A row the rules file gives an id is in the journal once, even when the *)
(* process died between the append and the marker and the statement is    *)
(* imported again (reconcile_ids).                                        *)
IdentifiedOnce == ~warned => \A r \in Identified : AtMostOnce(disk, r)

(* The same with nothing excepted: "an id match means nothing will be *)
(* imported twice" (the message of an interrupted commit).            *)
IdentifiedNeverTwice == \A r \in Identified : AtMostOnce(disk, r)

(* A row hledger's marker covers, and will not be proposed again, is in the *)
(* journal (run_commit's order: append, then catch up).                     *)
RecordedRowsAreThere == \A r \in recorded : Has(disk, r)

(* No step of a commit takes away what another request or another program *)
(* saved in the journal (the pins of replace, HeldEdits::undo).           *)
OthersEditsSurvive == \A f \in Files : kept[f] \subseteq disk[f].edits

(* A commit that was refused left neither its rows nor its review edits   *)
(* ("either all of it lands or none of it does", run_commit).             *)
AllOrNothing ==
    at = "idle" /\ outcome = "refused" =>
        \A f \in Files : /\ disk[f].rows = job.start[f].rows
                         /\ Review \notin disk[f].edits

(* When a commit says that its entries are in the journal, they are. *)
WarnedEntriesAreThere ==
    at = "idle" /\ outcome = "warned" =>
        \A r \in job.entries : disk[job.target].rows[r] > job.start[job.target].rows[r]

(* When a commit says to run the same import again, it can be run. *)
RetryIsPossible == outcome = "retry" => bound

(* A commit comes to an end: it never waits for a lock it holds itself. *)
CommitsEnd == (at # "idle") ~> (at = "idle")
=============================================================================

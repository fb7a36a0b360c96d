---------------------------- MODULE ImportProofs ----------------------------
(* Theorems about ImportCommit, for every number of files, rows, commits,    *)
(* other writers and crashes, and whatever I/O fails: a commit takes away    *)
(* nothing that others wrote; one that was refused left nothing of its own;  *)
(* no row enters the journal twice; and what was recorded as imported is     *)
(* there.  README says why some of them bound the reviews or the faults.     *)
EXTENDS ImportCommit, TLAPS

-----------------------------------------------------------------------------
(* What every state is made of (TypeOK but for the marker). *)

Job == [target : Targets, csv : SUBSET Rows, cleared : SUBSET Rows,
        reviews : SUBSET Files, balance : BOOLEAN, before : Text, pin : Text,
        entries : SUBSET Rows, flips : SUBSET Rows, undo : [Files -> Text],
        todo : SUBSET Files, start : [Files -> Text]]

MadeOf ==
    /\ disk \in [Files -> Text] /\ editor \in [Files -> Text]
    /\ job \in Job /\ job.reviews \in Reviews \cup {{}} /\ job.todo \subseteq job.reviews
    /\ kept \in [Files -> SUBSET Edits]
    /\ commits \in 0 .. MaxCommits /\ others \in 0 .. MaxOthers
    /\ at # "idle" => commits # 0

(* The lock is taken for review edits, and kept until they are settled. *)
LockedForReviews ==
    /\ held => at \in {"save", "reread", "append", "catchup", "rollback", "undo", "release"}
    /\ at \in {"save", "reread", "undo"} => held
    /\ at \in {"edits", "save", "reread", "undo"} => job.reviews # {}
    /\ at \in {"append", "catchup", "rollback"} => (held <=> job.reviews # {})

-----------------------------------------------------------------------------
(* The journal a commit goes back to has the edits the one it pinned has.    *)

Pinned == {"preview", "reconcile", "edits", "save", "reread", "append", "catchup",
           "rollback"}

PinHasTheEdits == at \in Pinned => job.pin.edits = job.before.edits

SurvivalInv == MadeOf /\ LockedForReviews /\ PinHasTheEdits /\ OthersEditsSurvive

-----------------------------------------------------------------------------
(* What a commit that may yet be refused has done to the journal. *)

Refusable == {"csv", "pin", "preview", "reconcile", "edits", "save", "reread", "append"}
GoingBack == outcome = "refused" /\ at \in {"undo", "idle"}

(* The rows are those the commit found, or it can put them back. *)
RowsCanBePutBack ==
    /\ at \in Refusable \/ GoingBack => \A f \in Files : disk[f].rows = job.start[f].rows
    /\ at \in {"catchup", "rollback"} =>
         \A f \in Files \ {job.target} : disk[f].rows = job.start[f].rows
    /\ at \in Pinned => job.before.rows = job.start[job.target].rows
    /\ at \in {"save", "reread", "append", "catchup", "rollback", "undo"} =>
         \A f \in job.reviews : job.undo[f].rows = job.start[f].rows

(* Its review edits are in none of the files, or only where they are undone. *)
ReviewsCanBeUndone ==
    /\ at \in {"csv", "pin", "preview", "reconcile", "edits", "save"} =>
         \A f \in Files : Review \notin disk[f].edits
    /\ at \in {"preview", "reconcile", "edits", "save"} => Review \notin job.before.edits
    /\ at \in {"reread", "append", "catchup", "rollback"} =>
         /\ \A f \in Files \ job.reviews : Review \notin disk[f].edits
         /\ job.target \notin job.reviews => Review \notin job.before.edits
    /\ at = "undo" /\ outcome = "refused" =>
         \A f \in Files \ job.todo : Review \notin disk[f].edits
    /\ at = "idle" /\ outcome = "refused" =>
         \A f \in Files : Review \notin disk[f].edits
    /\ at \in {"save", "reread", "append", "catchup", "rollback", "undo"} =>
         \A f \in job.reviews : Review \notin job.undo[f].edits
    /\ at = "save" => job.todo = job.reviews

(* No text has an edit of a commit that has not begun. *)
Old(text) == \A n \in 1 .. MaxCommits : <<"review", n>> \in text.edits => n <= commits
TextsAreOld == /\ \A f \in Files : Old(disk[f]) /\ Old(job.undo[f])
               /\ Old(job.before)

RefusalInv ==
    MadeOf /\ LockedForReviews /\ RowsCanBePutBack /\ ReviewsCanBeUndone /\ TextsAreOld

-----------------------------------------------------------------------------
(* Texts and jobs. *)

LEMMA EmptyIsText == Empty \in Text
  BY DEF Empty, Text

LEMMA EditedText ==
    ASSUME NEW text \in Text, NEW edit \in Edits
    PROVE  /\ Edited(text, edit) \in Text
           /\ Edited(text, edit).rows = text.rows
           /\ Edited(text, edit).edits = text.edits \cup {edit}
  BY DEF Edited, Text

LEMMA AppendedText ==
    ASSUME NEW text \in Text, NEW rows \in SUBSET Rows, NEW cleared
    PROVE  /\ Appended(text, rows, cleared) \in Text
           /\ Appended(text, rows, cleared).edits = text.edits
  <1>1. [r \in Rows |-> IF r \in rows THEN text.rows[r] + 1 ELSE text.rows[r]] \in [Rows -> Nat]
    BY DEF Text
  <1>. QED
    BY <1>1 DEF Appended, Text

LEMMA NoJobIsAJob ==
    /\ NoJob \in Job /\ NoJob.reviews = {} /\ NoJob.todo = {} /\ NoJob.entries = {}
    /\ NoJob.before = Empty /\ NoJob.undo = [f \in Files |-> Empty]
  <1>1. (CHOOSE f \in Targets : TRUE) \in Targets
    BY ImportAssumption
  <1>. QED
    BY <1>1, EmptyIsText DEF NoJob, Job

(* The stages at which a step changes a file, and how. *)
OthersWrite == \E f \in Files : OtherRequest(f) \/ OtherProgram(f)

WritesFiles ==
    \/ \E f \in Files : SaveEdit(f) \/ UndoFile(f)
    \/ Append \/ Rollback \/ WriteAssertion \/ Flip \/ OthersWrite

LEMMA OnlyTheseWrite ==
    ASSUME [Next]_vars
    PROVE  disk' = disk \/ WritesFiles
  BY DEF Next, CommitStep, vars, WritesFiles, OthersWrite, Begin, WriteCsv, PinJournal,
         Preview, PreviewFails, Reconcile, LockEdits, LockEditsFails, SaveFails,
         RereadTarget, AppendFails, Catchup, CatchupFails, RollbackFails, UndoEnds, Release,
         WriteAssertionFails, ReopenForFlips, FlipFails, ReopenEditor, WatcherReload, Crash

(* What the other writers write is theirs. *)
LEMMA OthersText ==
    ASSUME MadeOf, NEW f \in Files, OtherRequest(f) \/ OtherProgram(f)
    PROVE  /\ <<"other", others'>> \in Edits /\ others' \in 0 .. MaxOthers
           /\ UNCHANGED <<job, at, commits, held, outcome>>
           /\ \/ disk' = disk
              \/ disk' = [disk EXCEPT ![f] = Edited(@, <<"other", others'>>)]
           /\ editor' = editor \/ editor' = disk
              \/ editor' = [editor EXCEPT ![f] = Edited(@, <<"other", others'>>)]
           /\ \/ kept' = kept
              \/ /\ kept' = [kept EXCEPT ![f] = @ \cup {<<"other", others'>>}]
                 /\ disk' = [disk EXCEPT ![f] = Edited(@, <<"other", others'>>)]
  <1>1. others' = others + 1 /\ others < MaxOthers
    BY DEF OtherRequest, OtherProgram
  <1>2. others' \in 1 .. MaxOthers
    BY <1>1, ImportAssumption DEF MadeOf
  <1>3. <<"other", others'>> \in Edits
    BY <1>2 DEF Edits
  <1>. QED
    BY <1>2, <1>3 DEF OtherRequest, OtherProgram, Reread
-----------------------------------------------------------------------------
(* Every state is made of these: files and editor, then the commit at work.  *)

LEMMA InitMade == Init => MadeOf
  BY EmptyIsText, NoJobIsAJob, ImportAssumption DEF Init, MadeOf

LEMMA TextsStayMade ==
    ASSUME MadeOf, [Next]_vars
    PROVE  disk' \in [Files -> Text] /\ editor' \in [Files -> Text]
  <1>0. /\ disk \in [Files -> Text] /\ editor \in [Files -> Text] /\ job \in Job
        /\ job.target \in Files /\ job.before \in Text /\ job.undo \in [Files -> Text]
        /\ job.entries \in SUBSET Rows /\ job.cleared \in SUBSET Rows
    BY ImportAssumption DEF MadeOf, Job
  <1>1. ASSUME disk' = disk, editor' = editor \/ editor' = disk
        PROVE  disk' \in [Files -> Text] /\ editor' \in [Files -> Text]
    BY <1>0, <1>1
  <1>2. ASSUME NEW f \in Files, SaveEdit(f)
        PROVE  disk' \in [Files -> Text] /\ editor' \in [Files -> Text]
    <2>1. commits \in 1 .. MaxCommits
      BY <1>2, ImportAssumption DEF SaveEdit, MadeOf
    <2>2. Review \in Edits
      BY <2>1 DEF Review, Edits
    <2>3. Edited(disk[f], Review) \in Text /\ Edited(editor[f], Review) \in Text
      BY <1>0, <2>2, EditedText
    <2>. QED
      BY <1>0, <1>2, <2>3 DEF SaveEdit
  <1>3. ASSUME NEW f \in Files, UndoFile(f)
        PROVE  disk' \in [Files -> Text] /\ editor' \in [Files -> Text]
    BY <1>0, <1>3 DEF UndoFile
  <1>4. CASE Append
    <2>1. Appended(job.before, job.entries, job.cleared) \in Text
      BY <1>0, AppendedText
    <2>. QED
      BY <1>0, <1>4, <2>1 DEF Append
  <1>5. CASE Rollback
    BY <1>0, <1>5 DEF Rollback
  <1>6. CASE WriteAssertion
    <2>1. commits \in 1 .. MaxCommits
      BY <1>6, ImportAssumption DEF WriteAssertion, MadeOf
    <2>2. <<"balance", commits>> \in Edits
      BY <2>1 DEF Edits
    <2>3. Edited(disk[job.target], <<"balance", commits>>) \in Text
      BY <1>0, <2>2, EditedText
    <2>. QED
      BY <1>0, <1>6, <2>3 DEF WriteAssertion
  <1>7. CASE Flip
    <2>1. Chosen \subseteq Rows
      BY <1>0 DEF Chosen, Job
    <2>2. [editor[job.target] EXCEPT !.cleared = (@ \ Chosen) \cup (job.cleared \cap Chosen)]
            \in Text
      BY <1>0, <2>1 DEF Text
    <2>. QED
      BY <1>0, <1>7, <2>2 DEF Flip
  <1>8. ASSUME NEW f \in Files, OtherRequest(f) \/ OtherProgram(f)
        PROVE  disk' \in [Files -> Text] /\ editor' \in [Files -> Text]
    <2>1. <<"other", others'>> \in Edits
      BY <1>8, OthersText
    <2>2. /\ Edited(disk[f], <<"other", others'>>) \in Text
          /\ Edited(editor[f], <<"other", others'>>) \in Text
      BY <1>0, <2>1, EditedText
    <2>3. disk' = disk \/ disk' = [disk EXCEPT ![f] = Edited(@, <<"other", others'>>)]
      BY <1>8, OthersText
    <2>4. editor' = editor \/ editor' = disk
          \/ editor' = [editor EXCEPT ![f] = Edited(@, <<"other", others'>>)]
      BY <1>8, OthersText
    <2>. QED
      BY <1>0, <2>2, <2>3, <2>4
  <1>9. WritesFiles \/ (disk' = disk /\ (editor' = editor \/ editor' = disk))
    BY DEF Next, CommitStep, vars, WritesFiles, OthersWrite, Begin, WriteCsv, PinJournal,
           Preview, PreviewFails, Reconcile, LockEdits, LockEditsFails, SaveFails,
           RereadTarget, AppendFails, Catchup, CatchupFails, RollbackFails, UndoEnds, Release,
           WriteAssertionFails, ReopenForFlips, FlipFails, ReopenEditor, WatcherReload, Crash,
           Reread, RereadIfBound
  <1>. QED
    BY <1>1, <1>2, <1>3, <1>4, <1>5, <1>6, <1>7, <1>8, <1>9 DEF WritesFiles, OthersWrite

(* A commit is begun, or goes on with the one that was. *)
LEMMA JobStaysMade ==
    ASSUME MadeOf, [Next]_vars
    PROVE  job' \in Job /\ job'.reviews \in Reviews \cup {{}} /\ job'.todo \subseteq job'.reviews
  <1>0. /\ disk \in [Files -> Text] /\ job \in Job
        /\ job.target \in Targets /\ job.target \in Files /\ disk[job.target] \in Text
        /\ job.reviews \in Reviews \cup {{}} /\ job.todo \subseteq job.reviews
    BY ImportAssumption DEF MadeOf, Job
  <1>1. ASSUME NEW target \in Targets, NEW csv \in (SUBSET Rows) \ {{}}, NEW reviews \in Reviews,
               NEW balance \in BOOLEAN, NEW cleared \in SUBSET (csv \cap Identified),
               Begin(target, csv, cleared, reviews, balance)
        PROVE  job' \in Job /\ job'.reviews = reviews /\ job'.todo = {}
    <2>1. job' = [NoJob EXCEPT !.target = target, !.csv = csv, !.cleared = cleared,
                               !.reviews = reviews, !.balance = balance, !.start = disk]
      BY <1>1 DEF Begin
    <2>2. reviews \in SUBSET Files /\ csv \in SUBSET Rows /\ cleared \in SUBSET Rows
      BY ImportAssumption
    <2>. QED
      BY <1>0, <2>1, <2>2, NoJobIsAJob DEF Job
  <1>2. CASE PinJournal \/ RereadTarget
    <2>1. \/ job' = job
          \/ job' = [job EXCEPT !.before = disk[job.target], !.pin = disk[job.target]]
          \/ job' = [job EXCEPT !.todo = job.reviews]
      BY <1>2 DEF PinJournal, RereadTarget, Undone
    <2>. QED
      BY <1>0, <2>1 DEF Job
  <1>3. CASE Preview
    <2>1. job' = [job EXCEPT !.entries = {r \in job.csv : r > latest}]
      BY <1>3 DEF Preview
    <2>. QED
      BY <1>0, <2>1 DEF Job
  <1>4. CASE Reconcile
    <2>1. /\ job' = [job EXCEPT
                !.entries = {r \in job.entries : ~(r \in Identified /\ Has(editor, r))},
                !.flips = Flippable(editor)]
          /\ Flippable(editor) \in SUBSET Rows
      BY <1>4, ImportAssumption DEF Reconcile, Flippable
    <2>. QED
      BY <1>0, <2>1 DEF Job
  <1>5. CASE LockEdits
    <2>1. job' = [job EXCEPT !.undo = [f \in Files |-> IF f \in job.reviews
                                                       THEN disk[f] ELSE Empty],
                             !.todo = job.reviews]
      BY <1>5 DEF LockEdits
    <2>2. [f \in Files |-> IF f \in job.reviews THEN disk[f] ELSE Empty] \in [Files -> Text]
      BY <1>0, EmptyIsText
    <2>. QED
      BY <1>0, <2>1, <2>2 DEF Job
  <1>6. ASSUME NEW f \in Files, SaveEdit(f) \/ UndoFile(f)
        PROVE  job' \in Job /\ job'.reviews = job.reviews /\ job'.todo \subseteq job'.reviews
    <2>1. job' = [job EXCEPT !.todo = job.todo \ {f}]
      BY <1>6 DEF SaveEdit, UndoFile
    <2>. QED
      BY <1>0, <2>1 DEF Job
  <1>7. CASE Append
    <2>1. Appended(job.before, job.entries, job.cleared) \in Text
      BY <1>0, AppendedText DEF Job
    <2>2. job' = job \/ job' = [job EXCEPT !.pin = Appended(job.before, job.entries, job.cleared)]
      BY <1>7 DEF Append
    <2>. QED
      BY <1>0, <2>1, <2>2 DEF Job
  <1>8. ASSUME NEW how, Undone(how)
        PROVE  job' \in Job /\ job'.reviews = job.reviews /\ job'.todo \subseteq job'.reviews
    <2>1. job' = [job EXCEPT !.todo = job.reviews]
      BY <1>8 DEF Undone
    <2>. QED
      BY <1>0, <2>1 DEF Job
  <1>9. CASE Rollback \/ RollbackFails \/ AppendFails
    BY <1>0, <1>8, <1>9 DEF Rollback, RollbackFails, AppendFails
  <1>10. ASSUME NEW f \in Files, OtherRequest(f) \/ OtherProgram(f) PROVE job' = job
    BY <1>10 DEF OtherRequest, OtherProgram
  <1>11. CASE CommitStep
    <2>1. \/ job' = job
          \/ PinJournal \/ RereadTarget \/ Preview \/ Reconcile \/ LockEdits \/ Append
          \/ \E f \in Files : SaveEdit(f) \/ UndoFile(f)
          \/ Rollback \/ RollbackFails \/ AppendFails
      BY <1>11
         DEF CommitStep, WriteCsv, PreviewFails, LockEditsFails, SaveFails, Catchup,
             CatchupFails, UndoEnds, Release, WriteAssertion, WriteAssertionFails,
             ReopenForFlips, Flip, FlipFails, ReopenEditor
    <2>. QED
      BY <1>0, <1>2, <1>3, <1>4, <1>5, <1>6, <1>7, <1>9, <2>1
  <1>12. CASE UNCHANGED vars \/ WatcherReload \/ Crash
    BY <1>0, <1>12 DEF vars, WatcherReload, Crash
  <1>13. ASSUME \E target \in Targets, csv \in (SUBSET Rows) \ {{}}, reviews \in Reviews,
                   balance \in BOOLEAN : \E cleared \in SUBSET (csv \cap Identified) :
                     Begin(target, csv, cleared, reviews, balance)
         PROVE  job' \in Job /\ job'.reviews \in Reviews /\ job'.todo = {}
    <2>1. PICK target \in Targets, csv \in (SUBSET Rows) \ {{}}, reviews \in Reviews,
               balance \in BOOLEAN : \E cleared \in SUBSET (csv \cap Identified) :
                 Begin(target, csv, cleared, reviews, balance)
      BY <1>13
    <2>2. PICK cleared \in SUBSET (csv \cap Identified) :
            Begin(target, csv, cleared, reviews, balance)
      BY <2>1
    <2>3. job' \in Job /\ job'.reviews = reviews /\ job'.todo = {}
      BY <1>1, <2>2
    <2>. QED
      BY <2>3
  <1>. QED
    BY <1>0, <1>10, <1>11, <1>12, <1>13 DEF Next

LEMMA CountersStayMade ==
    ASSUME MadeOf, [Next]_vars
    PROVE  /\ commits' \in 0 .. MaxCommits /\ others' \in 0 .. MaxOthers
           /\ at' # "idle" => commits' # 0
           /\ kept' \in [Files -> SUBSET Edits]
  <1>1. ASSUME NEW target, NEW csv, NEW cleared, NEW reviews, NEW balance,
               Begin(target, csv, cleared, reviews, balance)
        PROVE  /\ commits' \in 1 .. MaxCommits /\ others' = others /\ kept' = kept
    BY <1>1, ImportAssumption DEF Begin, MadeOf, history
  <1>2. CASE CommitStep
    <2>1. commits' = commits /\ others' = others /\ kept' = kept /\ at # "idle"
      BY <1>2
         DEF CommitStep, around, history, WriteCsv, PinJournal, Preview, PreviewFails, Reconcile,
             LockEdits, LockEditsFails, SaveEdit, SaveFails, UndoFile, RereadTarget, Append,
             AppendFails, Catchup, CatchupFails, Rollback, RollbackFails, UndoEnds,
             Release, WriteAssertion, WriteAssertionFails, ReopenForFlips, Flip, FlipFails,
             ReopenEditor
    <2>. QED
      BY <2>1 DEF MadeOf
  <1>3. ASSUME NEW f \in Files, OtherRequest(f) \/ OtherProgram(f)
        PROVE  /\ commits' = commits /\ others' \in 0 .. MaxOthers /\ at' = at
               /\ kept' \in [Files -> SUBSET Edits]
    BY <1>3, OthersText DEF MadeOf
  <1>4. CASE UNCHANGED vars \/ WatcherReload \/ Crash
    BY <1>4 DEF vars, around, history, WatcherReload, Crash, End, MadeOf
  <1>. QED
    BY <1>1, <1>2, <1>3, <1>4 DEF Next, MadeOf

LEMMA NextMade == ASSUME MadeOf, [Next]_vars PROVE MadeOf'
  BY TextsStayMade, JobStaysMade, CountersStayMade DEF MadeOf

(* The file, the reviews and the journal a commit began with stay its own. *)
LEMMA SameCommit ==
    ASSUME MadeOf, CommitStep
    PROVE  job'.target = job.target /\ job'.reviews = job.reviews /\ job'.start = job.start
  <1>0. job \in Job
    BY DEF MadeOf
  <1>1. CASE PinJournal \/ RereadTarget \/ AppendFails \/ Rollback \/ RollbackFails
    <2>1. \/ job' = job
          \/ job' = [job EXCEPT !.before = disk[job.target], !.pin = disk[job.target]]
          \/ job' = [job EXCEPT !.todo = job.reviews]
      BY <1>1 DEF PinJournal, RereadTarget, AppendFails, Rollback, RollbackFails, Undone
    <2>. QED
      BY <1>0, <2>1 DEF Job
  <1>2. CASE Preview
    BY <1>0, <1>2 DEF Preview, Job
  <1>3. CASE Reconcile
    BY <1>0, <1>3 DEF Reconcile, Job
  <1>4. CASE LockEdits
    BY <1>0, <1>4 DEF LockEdits, Job
  <1>5. ASSUME NEW f \in Files, SaveEdit(f) \/ UndoFile(f)
        PROVE  job'.target = job.target /\ job'.reviews = job.reviews /\ job'.start = job.start
    BY <1>0, <1>5 DEF SaveEdit, UndoFile, Job
  <1>6. CASE Append
    <2>1. \/ job' = job
          \/ job' = [job EXCEPT !.pin = Appended(job.before, job.entries, job.cleared)]
      BY <1>6 DEF Append
    <2>. QED
      BY <1>0, <2>1 DEF Job
  <1>7. \/ job' = job
        \/ PinJournal \/ RereadTarget \/ AppendFails \/ Rollback \/ RollbackFails
        \/ Preview \/ Reconcile \/ LockEdits \/ Append
        \/ \E f \in Files : SaveEdit(f) \/ UndoFile(f)
    BY DEF CommitStep, WriteCsv, PreviewFails, LockEditsFails, SaveFails, Catchup,
           CatchupFails, UndoEnds, Release, WriteAssertion, WriteAssertionFails,
           ReopenForFlips, Flip, FlipFails, ReopenEditor
  <1>. QED
    BY <1>1, <1>2, <1>3, <1>4, <1>5, <1>6, <1>7

(* Where each step of a commit goes, and what becomes of the lock. *)
LEMMA CommitMoves ==
    ASSUME CommitStep
    PROVE  \/ at = "csv" /\ at' \in {"pin", "idle"} /\ held' = held
           \/ at = "pin" /\ at' \in {"preview", "idle"} /\ held' = held
           \/ at = "preview" /\ at' \in {"reconcile", "idle"} /\ held' = held
           \/ /\ at = "reconcile" /\ held' = held
              /\ at' = IF job.reviews = {} THEN "append" ELSE "edits"
           \/ at = "edits" /\ ((at' = "save" /\ held') \/ (at' = "idle" /\ held' = held))
           \/ /\ at = "save"
              /\ (at' \in {"save", "reread"} /\ held' = held) \/ (at' = "idle" /\ ~held')
           \/ at \in {"reread", "append"} /\ at' = (IF held THEN "undo" ELSE "idle") /\ held' = held
           \/ at = "reread" /\ at' = "append" /\ held' = held
           \/ at = "append" /\ at' = "catchup" /\ held' = held
           \/ at = "catchup" /\ at' \in {"release", "rollback"} /\ held' = held
           \/ at = "rollback" /\ at' = (IF held THEN "undo" ELSE "idle") /\ held' = held
           \/ /\ at = "undo"
              /\ (at' = "undo" /\ held' = held) \/ (at' = "idle" /\ ~held')
           \/ at = "release" /\ at' \in {"balance", "flips", "final"} /\ ~held'
           \/ /\ at \in {"balance", "flips", "flip", "final"} /\ held' = held
              /\ at' \in {"flips", "flip", "final", "idle"}
  BY DEF CommitStep, Undone, End, around, AfterRelease, AfterBalance, WriteCsv, PinJournal,
         Preview, PreviewFails, Reconcile, LockEdits, LockEditsFails, SaveEdit, SaveFails,
         UndoFile, RereadTarget, Append, AppendFails, Catchup, CatchupFails, Rollback,
         RollbackFails, UndoEnds, Release, WriteAssertion, WriteAssertionFails, ReopenForFlips,
         Flip, FlipFails, ReopenEditor

LEMMA StaysLocked ==
    ASSUME MadeOf, LockedForReviews, [Next]_vars
    PROVE  LockedForReviews'
  <1>1. CASE CommitStep
    BY <1>1, SameCommit, CommitMoves DEF LockedForReviews
  <1>2. ASSUME NEW target, NEW csv, NEW cleared, NEW reviews, NEW balance,
               Begin(target, csv, cleared, reviews, balance)
        PROVE  at = "idle" /\ at' = "csv" /\ held' = held
    BY <1>2 DEF Begin
  <1>3. CASE UNCHANGED <<at, held, job>>
    BY <1>3 DEF LockedForReviews
  <1>4. CASE at = "idle" /\ at' = "csv" /\ held' = held
    BY <1>4 DEF LockedForReviews
  <1>5. CASE Crash
    BY <1>5 DEF Crash, End, LockedForReviews
  <1>6. ASSUME UNCHANGED vars \/ WatcherReload \/ OthersWrite PROVE UNCHANGED <<at, held, job>>
    BY <1>6, OthersText DEF vars, WatcherReload, OthersWrite
  <1>. QED
    BY <1>1, <1>2, <1>3, <1>4, <1>5, <1>6 DEF Next, OthersWrite
-----------------------------------------------------------------------------
(* What others wrote.  Where no commit has review edits, nothing is undone   *)
(* file by file: what a commit puts back is the journal it pinned.           *)

NoReviews == Reviews \subseteq {{}}

LEMMA NothingReviewed ==
    ASSUME NoReviews, MadeOf, LockedForReviews
    PROVE  job.reviews = {} /\ at \notin {"edits", "save", "reread", "undo"}
  BY DEF NoReviews, MadeOf, LockedForReviews

LEMMA PinKeepsTheEdits ==
    ASSUME NoReviews, SurvivalInv, [Next]_vars
    PROVE  PinHasTheEdits'
  <1>0. /\ job \in Job /\ job.before \in Text /\ job.entries \in SUBSET Rows
        /\ at \notin {"edits", "save", "reread", "undo"} /\ job.reviews = {}
    BY NothingReviewed DEF SurvivalInv, MadeOf, Job
  <1>1. CASE PinJournal
    <2>1. \/ job' = [job EXCEPT !.before = disk[job.target], !.pin = disk[job.target]]
          \/ at' = "idle"
      BY <1>1 DEF PinJournal, End
    <2>. QED
      BY <1>0, <2>1 DEF Job, PinHasTheEdits, Pinned
  <1>2. CASE Preview \/ Reconcile
    <2>1. /\ at \in Pinned /\ at' \in Pinned \cup {"idle"}
          /\ job'.pin = job.pin /\ job'.before = job.before
      BY <1>0, <1>2 DEF Preview, Reconcile, Job, Pinned
    <2>. QED
      BY <2>1 DEF SurvivalInv, PinHasTheEdits
  <1>3. CASE Append
    <2>1. at \in Pinned
      BY <1>3 DEF Append, Pinned
    <2>2. \/ job' = job
          \/ job' = [job EXCEPT !.pin = Appended(job.before, job.entries, job.cleared)]
      BY <1>3 DEF Append
    <2>3. Appended(job.before, job.entries, job.cleared).edits = job.before.edits
      BY <1>0, AppendedText
    <2>. QED
      BY <1>0, <2>1, <2>2, <2>3 DEF Job, SurvivalInv, PinHasTheEdits
  <1>4. CASE AppendFails \/ Rollback \/ RollbackFails
    <2>1. at' = "idle"
      BY <1>0, <1>4
         DEF AppendFails, Rollback, RollbackFails, Undone, SurvivalInv, LockedForReviews
    <2>. QED
      BY <2>1 DEF PinHasTheEdits, Pinned
  <1>5. CASE job' = job /\ (at' = at \/ at' \notin Pinned \/ at = "catchup")
    BY <1>5 DEF SurvivalInv, PinHasTheEdits, Pinned
  <1>6. CASE CommitStep
    <2>1. \/ PinJournal \/ Preview \/ Reconcile \/ Append
          \/ AppendFails \/ Rollback \/ RollbackFails
          \/ (job' = job /\ (at' \notin Pinned \/ at = "catchup"))
      BY <1>0, <1>6 DEF CommitStep, Pinned, End, AfterRelease, AfterBalance, WriteCsv,
             PreviewFails, LockEdits, LockEditsFails, SaveEdit, SaveFails, UndoFile, RereadTarget,
             Catchup, CatchupFails, UndoEnds, Release, WriteAssertion,
             WriteAssertionFails, ReopenForFlips, Flip, FlipFails, ReopenEditor
    <2>. QED
      BY <1>1, <1>2, <1>3, <1>4, <1>5, <2>1
  <1>7. ASSUME NEW target, NEW csv, NEW cleared, NEW reviews, NEW balance,
               Begin(target, csv, cleared, reviews, balance)
        PROVE  at' = "csv"
    BY <1>7 DEF Begin
  <1>8. CASE at' = "csv"
    BY <1>8 DEF PinHasTheEdits, Pinned
  <1>9. ASSUME UNCHANGED vars \/ WatcherReload \/ OthersWrite \/ Crash
        PROVE  job' = job /\ (at' = at \/ at' = "idle")
    BY <1>9, OthersText DEF SurvivalInv, vars, WatcherReload, OthersWrite, Crash, End
  <1>. QED
    BY <1>5, <1>6, <1>7, <1>8, <1>9 DEF Next, OthersWrite, Pinned

LEMMA TheirsSurvives ==
    ASSUME NoReviews, SurvivalInv, [Next]_vars
    PROVE  OthersEditsSurvive'
  <1>0. /\ MadeOf /\ job \in Job /\ job.target \in Files
        /\ disk \in [Files -> Text] /\ editor \in [Files -> Text]
        /\ at \notin {"edits", "save", "reread", "undo"}
        /\ kept \in [Files -> SUBSET Edits]
        /\ \A f \in Files : kept[f] \subseteq disk[f].edits
        /\ PinHasTheEdits
    BY NothingReviewed, ImportAssumption DEF SurvivalInv, MadeOf, Job, OthersEditsSurvive
  <1>1. ASSUME NEW g \in Files, NEW text, kept' = kept, disk' = [disk EXCEPT ![g] = text],
               disk[g].edits \subseteq text.edits
        PROVE  OthersEditsSurvive'
    BY <1>0, <1>1 DEF OthersEditsSurvive
  <1>2. CASE Append
    <2>1. job.entries \in SUBSET Rows /\ job.before \in Text
      BY <1>0 DEF Job
    <2>2. CASE disk' = disk
      BY <1>0, <1>2, <2>2 DEF Append, history, OthersEditsSurvive
    <2>3. CASE disk' # disk
      <3>1. /\ disk[job.target] = job.pin /\ at \in Pinned /\ kept' = kept
            /\ disk' = [disk EXCEPT ![job.target] =
                          Appended(job.before, job.entries, job.cleared)]
        BY <1>2, <2>3 DEF Append, history, Pinned
      <3>2. Appended(job.before, job.entries, job.cleared).edits = disk[job.target].edits
        BY <1>0, <2>1, <3>1, AppendedText DEF PinHasTheEdits
      <3>. QED
        BY <1>0, <1>1, <3>1, <3>2
    <2>. QED
      BY <2>2, <2>3
  <1>3. CASE Rollback
    <2>1. /\ disk[job.target] = job.pin /\ at \in Pinned /\ kept' = kept
          /\ disk' = [disk EXCEPT ![job.target] = job.before]
      BY <1>3 DEF Rollback, history, Pinned
    <2>2. job.before.edits = disk[job.target].edits
      BY <1>0, <2>1 DEF PinHasTheEdits
    <2>. QED
      BY <1>0, <1>1, <2>1, <2>2
  <1>4. CASE WriteAssertion
    <2>1. commits \in 1 .. MaxCommits
      BY <1>0, <1>4, ImportAssumption DEF WriteAssertion, MadeOf
    <2>2. <<"balance", commits>> \in Edits
      BY <2>1 DEF Edits
    <2>3. Edited(disk[job.target], <<"balance", commits>>).edits
            = disk[job.target].edits \cup {<<"balance", commits>>}
      BY <1>0, <2>2, EditedText
    <2>4. /\ kept' = kept
          /\ disk' = [disk EXCEPT ![job.target] =
                        Edited(disk[job.target], <<"balance", commits>>)]
      BY <1>4 DEF WriteAssertion, history
    <2>. QED
      BY <1>0, <1>1, <2>3, <2>4
  <1>5. CASE Flip
    <2>1. kept' = kept
      BY <1>5 DEF Flip, history
    <2>2. CASE disk' = disk
      BY <1>0, <2>1, <2>2 DEF OthersEditsSurvive
    <2>3. CASE disk' # disk
      <3>. DEFINE flipped == [editor[job.target] EXCEPT
                                !.cleared = (@ \ Chosen) \cup (job.cleared \cap Chosen)]
      <3>1. /\ disk[job.target] = editor[job.target]
            /\ disk' = [disk EXCEPT ![job.target] = flipped]
        BY <1>5, <2>3 DEF Flip
      <3>2. flipped.edits = editor[job.target].edits
        BY <1>0 DEF Text
      <3>. HIDE DEF flipped
      <3>. QED
        BY <1>0, <1>1, <2>1, <3>1, <3>2
    <2>. QED
      BY <2>2, <2>3
  <1>6. ASSUME NEW f \in Files, OtherRequest(f) \/ OtherProgram(f)
        PROVE  OthersEditsSurvive'
    <2>1. <<"other", others'>> \in Edits
      BY <1>0, <1>6, OthersText
    <2>2. Edited(disk[f], <<"other", others'>>).edits
            = disk[f].edits \cup {<<"other", others'>>}
      BY <1>0, <2>1, EditedText
    <2>3. \/ disk' = disk
          \/ disk' = [disk EXCEPT ![f] = Edited(disk[f], <<"other", others'>>)]
      BY <1>0, <1>6, OthersText
    <2>4. \/ kept' = kept
          \/ /\ kept' = [kept EXCEPT ![f] = kept[f] \cup {<<"other", others'>>}]
             /\ disk' = [disk EXCEPT ![f] = Edited(disk[f], <<"other", others'>>)]
      BY <1>0, <1>6, OthersText
    <2>. QED
      BY <1>0, <2>2, <2>3, <2>4 DEF OthersEditsSurvive
  <1>7. CASE disk' = disk /\ ~OthersWrite
    <2>1. kept' = kept
      BY <1>7 DEF Next, CommitStep, vars, history, OthersWrite, Begin, WriteCsv, PinJournal,
           Preview, PreviewFails, Reconcile, LockEdits, LockEditsFails, SaveEdit, SaveFails,
           UndoFile, RereadTarget, Append, AppendFails, Catchup, CatchupFails, Rollback,
           RollbackFails, UndoEnds, Release, WriteAssertion, WriteAssertionFails,
           ReopenForFlips, Flip, FlipFails, ReopenEditor, WatcherReload, Crash
    <2>. QED
      BY <1>0, <1>7, <2>1 DEF OthersEditsSurvive
  <1>8. ASSUME NEW f \in Files PROVE ~SaveEdit(f) /\ ~UndoFile(f)
    BY <1>0 DEF SaveEdit, UndoFile
  <1>. QED
    BY <1>2, <1>3, <1>4, <1>5, <1>6, <1>7, <1>8, OnlyTheseWrite DEF WritesFiles, OthersWrite

(* No step of a commit takes away what another request or another program    *)
(* saved, however many there are, whatever fails and whenever the process    *)
(* dies; of commits with review edits it is not true.                        *)
THEOREM TakesNothingAway ==
    ASSUME Reviews \subseteq {{}}
    PROVE  Spec => []OthersEditsSurvive
  <1>0. NoReviews
    BY DEF NoReviews
  <1>1. Init => SurvivalInv
    <2>1. ASSUME Init PROVE LockedForReviews /\ PinHasTheEdits /\ OthersEditsSurvive
      BY <2>1 DEF Init, LockedForReviews, PinHasTheEdits, Pinned, OthersEditsSurvive, Empty
    <2>. QED
      BY <2>1, InitMade DEF SurvivalInv
  <1>2. SurvivalInv /\ [Next]_vars => SurvivalInv'
    <2> SUFFICES ASSUME SurvivalInv, [Next]_vars PROVE SurvivalInv'
      OBVIOUS
    <2>1. PinHasTheEdits' /\ OthersEditsSurvive'
      BY <1>0, PinKeepsTheEdits, TheirsSurvives
    <2>. QED
      BY <2>1, NextMade, StaysLocked DEF SurvivalInv
  <1>3. SurvivalInv => OthersEditsSurvive
    BY DEF SurvivalInv
  <1>. QED
    BY <1>1, <1>2, <1>3, PTL DEF Spec
-----------------------------------------------------------------------------
(* A refused commit.  What a step leaves of the texts to go back to: the     *)
(* journal as pinned, the files as the review edits found them.              *)

LEMMA SameBase ==
    ASSUME MadeOf, CommitStep
    PROVE  /\ \/ job'.before = job.before
              \/ /\ job'.before = disk[job.target] /\ disk' = disk
                 /\ at = "pin" \/ (at = "reread" /\ job.target \in job.reviews)
           /\ \/ job'.undo = job.undo /\ at # "edits"
              \/ job'.undo = job.undo /\ at = "edits" /\ at' = "idle"
              \/ LockEdits
           /\ at = "pin" /\ at' = "preview" => job'.before = disk[job.target]
           /\ at = "reread" /\ at' = "append" /\ job.target \in job.reviews =>
                job'.before = disk[job.target]
  <1>0. job \in Job
    BY DEF MadeOf
  <1>1. CASE PinJournal
    <2>1. \/ at' = "idle" /\ job' = job
          \/ job' = [job EXCEPT !.before = disk[job.target], !.pin = disk[job.target]]
      BY <1>1 DEF PinJournal, End
    <2>. QED
      BY <1>0, <1>1, <2>1 DEF PinJournal, Job
  <1>2. CASE RereadTarget
    <2>1. \/ job' = job /\ job.target \notin job.reviews
          \/ /\ job' = [job EXCEPT !.before = disk[job.target], !.pin = disk[job.target]]
             /\ job.target \in job.reviews
          \/ job' = [job EXCEPT !.todo = job.reviews] /\ at' # "append"
      BY <1>2 DEF RereadTarget, Undone
    <2>. QED
      BY <1>0, <1>2, <2>1 DEF RereadTarget, Job
  <1>3. CASE AppendFails \/ Rollback \/ RollbackFails
    <2>1. job' = [job EXCEPT !.todo = job.reviews] /\ at \in {"append", "rollback"}
      BY <1>3 DEF AppendFails, Rollback, RollbackFails, Undone
    <2>. QED
      BY <1>0, <2>1 DEF Job
  <1>4. CASE Preview
    BY <1>0, <1>4 DEF Preview, Job
  <1>5. CASE Reconcile
    BY <1>0, <1>5 DEF Reconcile, Job
  <1>6. CASE LockEdits
    BY <1>0, <1>6 DEF LockEdits, Job
  <1>7. ASSUME NEW f \in Files, SaveEdit(f) \/ UndoFile(f)
        PROVE  /\ at \in {"save", "undo"}
               /\ job'.before = job.before /\ job'.undo = job.undo
    BY <1>0, <1>7 DEF SaveEdit, UndoFile, Job
  <1>8. CASE Append
    <2>1. \/ job' = job
          \/ job' = [job EXCEPT !.pin = Appended(job.before, job.entries, job.cleared)]
      BY <1>8 DEF Append
    <2>. QED
      BY <1>0, <1>8, <2>1 DEF Append, Job
  <1>9. \/ job' = job /\ at \notin {"pin", "reread"} /\ (at = "edits" => at' = "idle")
        \/ PinJournal \/ RereadTarget \/ AppendFails \/ Rollback \/ RollbackFails
        \/ Preview \/ Reconcile \/ LockEdits \/ Append
        \/ \E f \in Files : SaveEdit(f) \/ UndoFile(f)
    BY DEF CommitStep, End, WriteCsv, PreviewFails, LockEditsFails, SaveFails, Catchup,
           CatchupFails, UndoEnds, Release, WriteAssertion, WriteAssertionFails,
           ReopenForFlips, Flip, FlipFails, ReopenEditor
  <1>. QED
    BY <1>1, <1>2, <1>3, <1>4, <1>5, <1>6, <1>7, <1>8, <1>9

(* The stages at which a commit is refused. *)
LEMMA RefusedAt ==
    ASSUME CommitStep, outcome' = "refused", at' \in {"undo", "idle"}
    PROVE  at \in Refusable \/ Rollback \/ (at = "undo" /\ outcome = "refused")
  BY DEF CommitStep, Refusable, Undone, End, WriteCsv, PinJournal, Preview, PreviewFails,
         Reconcile, LockEdits, LockEditsFails, SaveEdit, SaveFails, UndoFile, RereadTarget,
         Append, AppendFails, Catchup, CatchupFails, Rollback, RollbackFails, UndoEnds,
         Release, AfterRelease, AfterBalance, WriteAssertion, WriteAssertionFails,
         ReopenForFlips, Flip, FlipFails, ReopenEditor

(* What a step that changes a file makes of it. *)
LEMMA WrittenText ==
    ASSUME MadeOf, [Next]_vars, NEW f \in Files, disk'[f] # disk[f]
    PROVE  \/ /\ CommitStep /\ SaveEdit(f) /\ at = "save"
              /\ disk'[f].rows = disk[f].rows
              /\ disk'[f].edits = disk[f].edits \cup {<<"review", commits>>}
           \/ /\ CommitStep /\ at = "undo" /\ at' = "undo" /\ f \in job.todo
              /\ disk'[f] = job.undo[f]
           \/ /\ CommitStep /\ at = "append" /\ at' = "catchup" /\ f = job.target
              /\ disk'[f].edits = job.before.edits
              /\ disk'[f] = Appended(job.before, job.entries, job.cleared)
           \/ /\ CommitStep /\ at = "rollback" /\ Rollback /\ f = job.target
              /\ disk'[f] = job.before
           \/ /\ CommitStep /\ at \in {"balance", "flip"} /\ at' \in {"flips", "final"}
              /\ disk'[f].rows = disk[f].rows
              /\ disk'[f].edits \subseteq disk[f].edits \cup {<<"balance", commits>>}
           \/ /\ OthersWrite /\ disk'[f].rows = disk[f].rows
              /\ disk'[f].edits = disk[f].edits \cup {<<"other", others'>>}
  <1>0. /\ disk \in [Files -> Text] /\ editor \in [Files -> Text] /\ job \in Job
        /\ job.target \in Files /\ job.before \in Text /\ job.entries \in SUBSET Rows
    BY ImportAssumption DEF MadeOf, Job
  <1>1. ASSUME NEW g \in Files, SaveEdit(g) PROVE
          /\ g = f /\ at = "save" /\ disk'[f].rows = disk[f].rows
          /\ disk'[f].edits = disk[f].edits \cup {<<"review", commits>>}
    <2>1. commits \in 1 .. MaxCommits
      BY <1>1, ImportAssumption DEF SaveEdit, MadeOf
    <2>2. Review \in Edits
      BY <2>1 DEF Review, Edits
    <2>3. disk' = [disk EXCEPT ![g] = Edited(disk[g], Review)] /\ at = "save"
      BY <1>1 DEF SaveEdit
    <2>4. g = f
      BY <1>0, <2>3
    <2>. QED
      BY <1>0, <2>2, <2>3, <2>4, EditedText DEF Review
  <1>2. ASSUME NEW g \in Files, UndoFile(g)
        PROVE  /\ at = "undo" /\ at' = "undo" /\ f \in job.todo /\ disk'[f] = job.undo[f]
    BY <1>0, <1>2 DEF UndoFile
  <1>3. CASE Append
    <2>1. /\ at = "append" /\ at' = "catchup"
          /\ disk' = [disk EXCEPT ![job.target] =
                        Appended(job.before, job.entries, job.cleared)]
      BY <1>3 DEF Append
    <2>2. Appended(job.before, job.entries, job.cleared).edits = job.before.edits
      BY <1>0, AppendedText
    <2>3. f = job.target
      BY <1>0, <2>1
    <2>. QED
      BY <1>0, <1>3, <2>1, <2>2, <2>3 DEF CommitStep
  <1>4. CASE Rollback
    <2>1. at = "rollback" /\ disk' = [disk EXCEPT ![job.target] = job.before]
      BY <1>4 DEF Rollback
    <2>. QED
      BY <1>0, <1>4, <2>1 DEF CommitStep
  <1>5. CASE WriteAssertion
    <2>1. commits \in 1 .. MaxCommits
      BY <1>5, ImportAssumption DEF WriteAssertion, MadeOf
    <2>2. <<"balance", commits>> \in Edits
      BY <2>1 DEF Edits
    <2>3. /\ at = "balance" /\ at' \in {"flips", "final"}
          /\ disk' = [disk EXCEPT ![job.target] =
                        Edited(disk[job.target], <<"balance", commits>>)]
      BY <1>5 DEF WriteAssertion, AfterBalance
    <2>4. f = job.target
      BY <1>0, <2>3
    <2>. QED
      BY <1>0, <1>5, <2>2, <2>3, <2>4, EditedText DEF CommitStep
  <1>6. CASE Flip
    <2>. DEFINE flipped == [editor[job.target] EXCEPT
                              !.cleared = (@ \ Chosen) \cup (job.cleared \cap Chosen)]
    <2>1. /\ disk[job.target] = editor[job.target] /\ at = "flip" /\ at' = "final"
          /\ disk' = [disk EXCEPT ![job.target] = flipped]
      BY <1>6 DEF Flip
    <2>2. flipped.edits = editor[job.target].edits /\ flipped.rows = editor[job.target].rows
      BY <1>0 DEF Text
    <2>. HIDE DEF flipped
    <2>3. f = job.target
      BY <1>0, <2>1
    <2>. QED
      BY <1>0, <1>6, <2>1, <2>2, <2>3 DEF CommitStep
  <1>7. ASSUME NEW g \in Files, OtherRequest(g) \/ OtherProgram(g)
        PROVE  /\ disk'[f].rows = disk[f].rows
               /\ disk'[f].edits = disk[f].edits \cup {<<"other", others'>>}
    <2>1. <<"other", others'>> \in Edits
      BY <1>7, OthersText
    <2>2. disk' = [disk EXCEPT ![g] = Edited(disk[g], <<"other", others'>>)]
      BY <1>7, OthersText
    <2>3. g = f
      BY <1>0, <2>2
    <2>. QED
      BY <1>0, <2>1, <2>2, <2>3, EditedText
  <1>8. WritesFiles
    BY OnlyTheseWrite
  <1>. QED
    BY <1>1, <1>2, <1>3, <1>4, <1>5, <1>6, <1>7, <1>8 DEF WritesFiles, OthersWrite, CommitStep

(* What a step of anyone else leaves alone. *)
LEMMA NotTheCommit ==
    ASSUME MadeOf, [Next]_vars
    PROVE  /\ CommitStep => commits' = commits
           /\ \/ CommitStep
              \/ UNCHANGED <<job, at, outcome, commits>>
              \/ /\ at = "idle" /\ at' = "csv" /\ outcome' = "none"
                 /\ commits' = commits + 1 /\ UNCHANGED <<disk, editor>>
                 /\ job'.start = disk /\ job'.before = Empty /\ job'.entries = {}
                 /\ job'.undo = [f \in Files |-> Empty]
              \/ /\ at' = "idle" /\ outcome' = "none" /\ UNCHANGED <<job, commits, disk>>
                 /\ editor' = disk /\ crashes' = crashes + 1
  <1>1. ASSUME NEW target, NEW csv, NEW cleared, NEW reviews, NEW balance,
               Begin(target, csv, cleared, reviews, balance)
        PROVE  /\ at = "idle" /\ at' = "csv" /\ outcome' = "none"
               /\ commits' = commits + 1 /\ UNCHANGED <<disk, editor>>
               /\ job'.start = disk /\ job'.before = Empty /\ job'.entries = {}
               /\ job'.undo = [f \in Files |-> Empty]
    <2>1. /\ job' = [NoJob EXCEPT !.target = target, !.csv = csv, !.cleared = cleared,
                                  !.reviews = reviews, !.balance = balance, !.start = disk]
          /\ at = "idle" /\ at' = "csv" /\ outcome' = "none"
          /\ commits' = commits + 1 /\ UNCHANGED <<disk, editor>>
      BY <1>1 DEF Begin
    <2>. QED
      BY <2>1, NoJobIsAJob DEF Job
  <1>2. CommitStep => commits' = commits
    BY DEF CommitStep, around, WriteCsv, PinJournal, Preview, PreviewFails, Reconcile, LockEdits,
           LockEditsFails, SaveEdit, SaveFails, UndoFile, RereadTarget, Append, AppendFails,
           Catchup, CatchupFails, Rollback, RollbackFails, UndoEnds, Release, WriteAssertion,
           WriteAssertionFails, ReopenForFlips, Flip, FlipFails, ReopenEditor
  <1>3. ASSUME NEW f \in Files, OtherRequest(f) \/ OtherProgram(f)
        PROVE  UNCHANGED <<job, at, outcome, commits>>
    BY <1>3, OthersText
  <1>4. CASE UNCHANGED vars \/ WatcherReload
    BY <1>4 DEF vars, WatcherReload, around
  <1>5. CASE Crash
    BY <1>5 DEF Crash, End
  <1>. QED
    BY <1>1, <1>2, <1>3, <1>4, <1>5 DEF Next
-----------------------------------------------------------------------------
(* The edits of a commit that has not begun are in no text. *)

LEMMA EmptyIsOld == Empty.edits = {}
  BY DEF Empty

LEMMA OldStays ==
    ASSUME MadeOf, TextsAreOld, [Next]_vars
    PROVE  TextsAreOld'
  <1>0. /\ job \in Job /\ job.target \in Files /\ commits \in Nat
        /\ \A f \in Files : Old(disk[f]) /\ Old(job.undo[f])
        /\ Old(job.before)
    BY ImportAssumption DEF MadeOf, Job, TextsAreOld
  <1>1. commits' \in Nat /\ commits <= commits'
    BY <1>0, NotTheCommit
  <1>2. ASSUME NEW f \in Files PROVE Old(disk[f])'
    <2>1. CASE disk'[f] = disk[f]
      BY <1>0, <1>1, <2>1 DEF Old
    <2>2. CASE disk'[f] # disk[f]
      <3>1. \/ commits' = commits /\ disk'[f].edits = disk[f].edits \cup {<<"review", commits>>}
            \/ disk'[f] = job.undo[f]
            \/ disk'[f].edits = job.before.edits
            \/ disk'[f].edits \subseteq disk[f].edits \cup {<<"balance", commits>>}
            \/ disk'[f].edits = disk[f].edits \cup {<<"other", others'>>}
        <4>1. CommitStep => commits' = commits
          BY <2>2, NotTheCommit
        <4>. QED
          BY <2>2, <4>1, WrittenText
      <3>. QED
        BY <1>0, <1>1, <3>1 DEF Old
    <2>. QED
      BY <2>1, <2>2
  <1>3. CASE UNCHANGED job
    BY <1>0, <1>1, <1>2, <1>3 DEF TextsAreOld, Old
  <1>4. CASE job'.before = Empty /\ job'.undo = [f \in Files |-> Empty]
    BY <1>2, <1>4, EmptyIsOld DEF TextsAreOld, Old
  <1>5. CASE CommitStep
    <2>1. Old(job.before)'
      BY <1>0, <1>1, <1>5, SameBase DEF Old
    <2>2. ASSUME NEW f \in Files PROVE Old(job.undo[f])'
      <3>1. CASE job'.undo = job.undo
        BY <1>0, <1>1, <3>1 DEF Old
      <3>2. CASE LockEdits
        <4>1. job' = [job EXCEPT !.undo = [g \in Files |-> IF g \in job.reviews
                                                           THEN disk[g] ELSE Empty],
                                 !.todo = job.reviews]
          BY <3>2 DEF LockEdits
        <4>2. job'.undo[f] = IF f \in job.reviews THEN disk[f] ELSE Empty
          BY <1>0, <4>1 DEF Job
        <4>. QED
          BY <1>0, <1>1, <4>2, EmptyIsOld DEF Old
      <3>. QED
        BY <1>5, <3>1, <3>2, SameBase
    <2>. QED
      BY <1>2, <2>1, <2>2 DEF TextsAreOld
  <1>. QED
    BY <1>3, <1>4, <1>5, NotTheCommit

-----------------------------------------------------------------------------
(* What the lock is taken with: the files as they are on disk. *)
LEMMA LockKeepsTheFiles ==
    ASSUME MadeOf, LockEdits
    PROVE  \A f \in job.reviews : job'.undo[f] = disk[f]
  <1>1. job' = [job EXCEPT !.undo = [g \in Files |-> IF g \in job.reviews
                                                     THEN disk[g] ELSE Empty],
                           !.todo = job.reviews]
    BY DEF LockEdits
  <1>2. job \in Job /\ job.reviews \subseteq Files
    BY DEF MadeOf, Job
  <1>. QED
    BY <1>1, <1>2 DEF Job

LEMMA RowsStay ==
    ASSUME MadeOf, LockedForReviews, RowsCanBePutBack, [Next]_vars
    PROVE  RowsCanBePutBack'
  <1>0. /\ job \in Job /\ job.target \in Files /\ job.reviews \subseteq Files
        /\ job.todo \subseteq job.reviews
    BY ImportAssumption DEF MadeOf, Job
  <1>1. CASE ~CommitStep /\ UNCHANGED <<job, at, outcome, commits>>
    <2>1. \A f \in Files : disk'[f].rows = disk[f].rows
      BY <1>1, WrittenText
    <2>. QED
      BY <1>1, <2>1 DEF RowsCanBePutBack, GoingBack
  <1>2. CASE at' = "csv" /\ outcome' = "none" /\ disk' = disk /\ job'.start = disk
    BY <1>2 DEF RowsCanBePutBack, GoingBack, Refusable, Pinned
  <1>3. CASE at' = "idle" /\ outcome' = "none"
    BY <1>3 DEF RowsCanBePutBack, GoingBack, Refusable, Pinned
  <1>4. CASE CommitStep
    <2>0. job'.target = job.target /\ job'.reviews = job.reviews /\ job'.start = job.start
      BY <1>4, SameCommit
    <2>1. ASSUME at' \in Refusable, NEW f \in Files PROVE disk'[f].rows = job.start[f].rows
      <3>1. at \in Refusable
        BY <1>4, <2>1, CommitMoves DEF Refusable
      <3>2. disk[f].rows = job.start[f].rows
        BY <3>1 DEF RowsCanBePutBack
      <3>3. disk'[f] = disk[f] \/ disk'[f].rows = disk[f].rows
        BY <2>1, <3>1, WrittenText DEF Refusable
      <3>. QED
        BY <3>2, <3>3
    <2>2. ASSUME GoingBack', NEW f \in Files PROVE disk'[f].rows = job.start[f].rows
      <3>1. CASE at \in Refusable
        <4>1. disk[f].rows = job.start[f].rows
          BY <3>1 DEF RowsCanBePutBack
        <4>2. disk'[f] = disk[f] \/ disk'[f].rows = disk[f].rows
          BY <2>2, <3>1, WrittenText DEF Refusable, GoingBack
        <4>. QED
          BY <4>1, <4>2
      <3>2. CASE Rollback
        <4>1. at = "rollback" /\ disk' = [disk EXCEPT ![job.target] = job.before]
          BY <3>2 DEF Rollback
        <4>2. /\ job.before.rows = job.start[job.target].rows
              /\ f # job.target => disk[f].rows = job.start[f].rows
          BY <4>1 DEF RowsCanBePutBack, Pinned
        <4>. QED
          BY <1>0, <4>1, <4>2 DEF MadeOf
      <3>3. CASE at = "undo" /\ outcome = "refused"
        <4>1. /\ disk[f].rows = job.start[f].rows
              /\ f \in job.reviews => job.undo[f].rows = job.start[f].rows
          BY <3>3 DEF RowsCanBePutBack, GoingBack
        <4>2. \/ disk'[f] = disk[f] \/ disk'[f].rows = disk[f].rows
              \/ f \in job.reviews /\ disk'[f] = job.undo[f]
          BY <1>0, <3>3, WrittenText
        <4>. QED
          BY <4>1, <4>2
      <3>. QED
        BY <1>4, <2>2, <3>1, <3>2, <3>3, RefusedAt DEF GoingBack
    <2>3. ASSUME at' \in {"catchup", "rollback"}, NEW f \in Files \ {job.target}
          PROVE  disk'[f].rows = job.start[f].rows
      <3>1. at \in {"append", "catchup"}
        BY <1>4, <2>3, CommitMoves
      <3>2. disk[f].rows = job.start[f].rows
        BY <3>1 DEF RowsCanBePutBack, Refusable
      <3>3. disk'[f] = disk[f] \/ disk'[f].rows = disk[f].rows
        BY <2>3, <3>1, WrittenText
      <3>. QED
        BY <3>2, <3>3
    <2>4. ASSUME at' \in Pinned PROVE job'.before.rows = job.start[job.target].rows
      <3>1. at \in Pinned \cup {"pin"} /\ (at = "pin" => at' = "preview")
        BY <1>4, <2>4, CommitMoves DEF Pinned
      <3>2. CASE job'.before = job.before /\ at # "pin"
        BY <3>1, <3>2 DEF RowsCanBePutBack
      <3>3. CASE job'.before = disk[job.target] /\ at \in {"pin", "reread"}
        BY <1>0, <3>3 DEF RowsCanBePutBack, Refusable
      <3>. QED
        BY <1>4, <3>1, <3>2, <3>3, SameBase
    <2>5. ASSUME at' \in {"save", "reread", "append", "catchup", "rollback", "undo"},
                 NEW f \in job.reviews
          PROVE  job'.undo[f].rows = job.start[f].rows
      <3>1. CASE LockEdits
        <4>1. at = "edits" /\ job'.undo[f] = disk[f]
          BY <3>1, LockKeepsTheFiles DEF LockEdits
        <4>2. disk[f].rows = job.start[f].rows
          BY <1>0, <4>1 DEF RowsCanBePutBack, Refusable
        <4>. QED
          BY <4>1, <4>2
      <3>2. CASE job'.undo = job.undo /\ at # "edits"
        <4>1. at \in {"save", "reread", "append", "catchup", "rollback", "undo"}
          BY <1>4, <2>5, <3>2, CommitMoves
        <4>. QED
          BY <3>2, <4>1 DEF RowsCanBePutBack
      <3>. QED
        BY <1>4, <2>5, <3>1, <3>2, SameBase
    <2>. QED
      BY <2>0, <2>1, <2>2, <2>3, <2>4, <2>5 DEF RowsCanBePutBack
  <1>. QED
    BY <1>1, <1>2, <1>3, <1>4, NotTheCommit

(* The commits whose review edits are in at most one file. *)
OneFileEach == \A R \in Reviews : \A f, g \in R : f = g

(* A file without the commit's review edit gets none but by being saved. *)
LEMMA CleanStays ==
    ASSUME MadeOf, [Next]_vars, NEW f \in Files, Review \notin disk[f].edits,
           at = "save" => f \notin job.todo,
           at = "undo" /\ f \in job.todo => Review \notin job.undo[f].edits,
           at \in {"append", "rollback"} /\ f = job.target => Review \notin job.before.edits
    PROVE  Review \notin disk'[f].edits
  <1>1. CASE disk'[f] = disk[f]
    BY <1>1
  <1>2. CASE disk'[f] # disk[f]
    <2>1. ~(SaveEdit(f) /\ at = "save")
      BY DEF SaveEdit
    <2>. QED
      BY <1>2, <2>1, WrittenText DEF Review
  <1>. QED
    BY <1>1, <1>2

(* Where a commit's edits are in one file, saving that file is all of it.    *)
LEMMA OneFileIsSaved ==
    ASSUME MadeOf, \A f, g \in job.reviews : f = g, CommitStep, at = "save"
    PROVE  \/ at' = "idle" /\ disk' = disk
           \/ at' = "reread"
  <1>1. ASSUME NEW f \in Files, SaveEdit(f) PROVE at' = "reread"
    <2>1. f \in job.todo /\ at' = IF job.todo = {f} THEN "reread" ELSE "save"
      BY <1>1 DEF SaveEdit
    <2>2. job.todo = {f}
      BY <2>1 DEF MadeOf
    <2>. QED
      BY <2>1, <2>2
  <1>2. ASSUME NEW f \in Files, SaveFails(f) PROVE at' = "idle" /\ disk' = disk
    BY <1>2 DEF SaveFails, End
  <1>. QED
    BY <1>1, <1>2 DEF CommitStep, WriteCsv, PinJournal, Preview, PreviewFails, Reconcile,
         LockEdits, LockEditsFails, UndoFile, RereadTarget, Append, AppendFails,
         Catchup, CatchupFails, Rollback, RollbackFails, UndoEnds, Release, WriteAssertion,
         WriteAssertionFails, ReopenForFlips, Flip, FlipFails, ReopenEditor

(* How the review edits are taken back. *)
LEMMA UndoBegins ==
    ASSUME MadeOf, CommitStep, at # "undo", at' = "undo"
    PROVE  job'.todo = job.reviews
  <1>1. job' = [job EXCEPT !.todo = job.reviews]
    BY DEF CommitStep, Undone, End, AfterRelease, AfterBalance, WriteCsv, PinJournal, Preview,
         PreviewFails, Reconcile, LockEdits, LockEditsFails, SaveEdit, SaveFails, UndoFile,
         RereadTarget, Append, AppendFails, Catchup, CatchupFails, Rollback, RollbackFails,
         UndoEnds, Release, WriteAssertion, WriteAssertionFails, ReopenForFlips, Flip,
         FlipFails, ReopenEditor
  <1>. QED
    BY <1>1 DEF MadeOf, Job

LEMMA UndoSteps ==
    ASSUME MadeOf, CommitStep, at = "undo", outcome' = "refused"
    PROVE  \/ \E g \in Files : /\ g \in job.todo /\ job'.todo = job.todo \ {g} /\ at' = "undo"
                               /\ disk' = [disk EXCEPT ![g] = job.undo[g]]
           \/ job.todo = {} /\ disk' = disk /\ at' = "idle"
  <1>1. ASSUME NEW g \in Files, UndoFile(g)
        PROVE  /\ g \in job.todo /\ job'.todo = job.todo \ {g} /\ at' = "undo"
               /\ disk' = [disk EXCEPT ![g] = job.undo[g]]
    <2>1. job' = [job EXCEPT !.todo = job.todo \ {g}]
      BY <1>1 DEF UndoFile
    <2>. QED
      BY <1>1, <2>1 DEF UndoFile, MadeOf, Job
  <1>2. CASE UndoEnds
    BY <1>2 DEF UndoEnds
  <1>. QED
    BY <1>1, <1>2 DEF CommitStep, WriteCsv, PinJournal, Preview, PreviewFails, Reconcile,
         LockEdits, LockEditsFails, SaveEdit, SaveFails, RereadTarget, Append, AppendFails,
         Catchup, CatchupFails, Rollback, RollbackFails, Release, WriteAssertion,
         WriteAssertionFails, ReopenForFlips, Flip, FlipFails, ReopenEditor

LEMMA ReviewsStay ==
    ASSUME OneFileEach, MadeOf, LockedForReviews, RowsCanBePutBack, ReviewsCanBeUndone,
           TextsAreOld, [Next]_vars
    PROVE  ReviewsCanBeUndone'
  <1>0. /\ job \in Job /\ job.target \in Files /\ job.reviews \subseteq Files
        /\ job.todo \subseteq job.reviews /\ commits \in 0 .. MaxCommits
        /\ commits' \in 0 .. MaxCommits
        /\ \A f, g \in job.reviews : f = g
    BY ImportAssumption, NextMade DEF MadeOf, Job, OneFileEach
  <1>1. CASE ~CommitStep /\ UNCHANGED <<job, at, outcome, commits>>
    <2>1. ASSUME NEW f \in Files, Review \notin disk[f].edits PROVE Review \notin disk'[f].edits
      BY <1>1, <2>1, WrittenText DEF Review
    <2>2. Review' = Review
      BY <1>1 DEF Review
    <2>. QED
      BY <1>1, <2>1, <2>2 DEF ReviewsCanBeUndone
  <1>2. CASE at' = "csv" /\ commits' = commits + 1 /\ disk' = disk
    <2>1. commits' \in 1 .. MaxCommits /\ ~(commits' <= commits)
      BY <1>0, <1>2
    <2>2. \A f \in Files : <<"review", commits'>> \notin disk[f].edits
      BY <2>1 DEF TextsAreOld, Old
    <2>. QED
      BY <1>2, <2>2 DEF ReviewsCanBeUndone, Review
  <1>3. CASE at' = "idle" /\ outcome' = "none"
    BY <1>3 DEF ReviewsCanBeUndone
  <1>4. CASE CommitStep
    <2>0. /\ job'.target = job.target /\ job'.reviews = job.reviews /\ Review' = Review
      BY <1>4, SameCommit, NotTheCommit DEF Review
    <2>. DEFINE Before == {"csv", "pin", "preview", "reconcile", "edits", "save"}
                Going == {"reread", "append", "catchup", "rollback"}
    <2>1. at = "save" => at' = "reread" \/ (at' = "idle" /\ disk' = disk)
      BY <1>0, <1>4, OneFileIsSaved
    <2>2. ASSUME NEW f \in Files, at \in Before, at = "save" => f \notin job.reviews
          PROVE  Review \notin disk'[f].edits
      <3>1. Review \notin disk[f].edits
        BY <2>2 DEF ReviewsCanBeUndone
      <3>2. /\ at = "save" => f \notin job.todo
            /\ at # "undo" /\ at \notin {"append", "rollback"}
        BY <1>0, <2>2
      <3>. QED
        BY <3>1, <3>2, CleanStays
    <2>3. ASSUME NEW f \in Files \ job.reviews, at \in Going
          PROVE  Review \notin disk'[f].edits
      <3>1. /\ Review \notin disk[f].edits
            /\ f = job.target => Review \notin job.before.edits
        BY <2>3 DEF ReviewsCanBeUndone
      <3>2. at # "save" /\ at # "undo"
        BY <2>3
      <3>. QED
        BY <3>1, <3>2, CleanStays
    <2>4. ASSUME at' \in Before, NEW f \in Files PROVE Review \notin disk'[f].edits
      <3>1. at \in Before /\ at # "save"
        BY <1>4, <2>1, <2>4, CommitMoves
      <3>. QED
        BY <2>2, <3>1
    <2>5. ASSUME at' \in {"preview", "reconcile", "edits", "save"}
          PROVE  Review \notin job'.before.edits
      <3>1. at \in {"pin", "preview", "reconcile", "edits"} /\ (at = "pin" => at' = "preview")
        BY <1>4, <2>1, <2>5, CommitMoves
      <3>2. CASE at = "pin"
        BY <1>0, <1>4, <2>5, <3>1, <3>2, SameBase DEF ReviewsCanBeUndone
      <3>3. CASE at # "pin"
        <4>1. job'.before = job.before
          BY <1>4, <3>1, <3>3, SameBase
        <4>. QED
          BY <3>1, <3>3, <4>1 DEF ReviewsCanBeUndone
      <3>. QED
        BY <3>2, <3>3
    <2>6. ASSUME at' \in Going, NEW f \in Files \ job.reviews
          PROVE  Review \notin disk'[f].edits
      <3>1. at \in Before \cup Going
        BY <1>4, <2>6, CommitMoves
      <3>. QED
        BY <2>2, <2>3, <3>1
    <2>7. ASSUME at' \in Going, job.target \notin job.reviews
          PROVE  Review \notin job'.before.edits
      <3>1. at \in {"save", "reconcile"} \cup Going
        BY <1>4, <2>7, CommitMoves
      <3>2. job'.before = job.before
        BY <1>4, <2>7, <3>1, SameBase
      <3>. QED
        BY <2>7, <3>1, <3>2 DEF ReviewsCanBeUndone
    <2>8. ASSUME at' = "undo", outcome' = "refused", NEW f \in Files \ job'.todo
          PROVE  Review \notin disk'[f].edits
      <3>1. CASE at # "undo"
        <4>1. at \in Going /\ job'.todo = job.reviews
          BY <1>4, <2>8, <3>1, CommitMoves, UndoBegins
        <4>. QED
          BY <2>3, <2>8, <4>1
      <3>2. CASE at = "undo"
        <4>1. PICK g \in Files : /\ g \in job.todo /\ job'.todo = job.todo \ {g}
                                 /\ disk' = [disk EXCEPT ![g] = job.undo[g]]
          BY <1>4, <2>8, <3>2, UndoSteps
        <4>2. outcome = "refused"
          BY <1>4, <2>8, <3>2, RefusedAt DEF Refusable, Rollback
        <4>3. /\ Review \notin job.undo[g].edits
              /\ f \notin job.todo => Review \notin disk[f].edits
          BY <1>0, <3>2, <4>1, <4>2 DEF RowsCanBePutBack, ReviewsCanBeUndone
        <4>. QED
          BY <1>0, <2>8, <4>1, <4>3 DEF MadeOf
      <3>. QED
        BY <3>1, <3>2
    <2>9. ASSUME at' = "idle", outcome' = "refused", NEW f \in Files
          PROVE  Review \notin disk'[f].edits
      <3>1. CASE at \in Before
        BY <2>1, <2>2, <2>9, <3>1 DEF ReviewsCanBeUndone
      <3>2. CASE at \in Going
        <4>1. ~held /\ at # "reread"
          BY <1>4, <2>9, <3>2, CommitMoves DEF LockedForReviews
        <4>2. job.reviews = {}
          BY <3>2, <4>1 DEF LockedForReviews
        <4>. QED
          BY <2>3, <3>2, <4>2
      <3>3. CASE at = "undo"
        <4>1. job.todo = {} /\ disk' = disk
          BY <1>4, <2>9, <3>3, UndoSteps
        <4>2. outcome = "refused"
          BY <1>4, <2>9, <3>3, RefusedAt DEF Refusable, Rollback
        <4>. QED
          BY <3>3, <4>1, <4>2 DEF ReviewsCanBeUndone
      <3>4. at \in Refusable \/ at = "rollback" \/ at = "undo"
        BY <1>4, <2>9, RefusedAt DEF Rollback
      <3>. QED
        BY <3>1, <3>2, <3>3, <3>4 DEF Refusable
    <2>10. ASSUME at' = "save" PROVE job'.todo = job'.reviews
      <3>1. at = "edits"
        BY <1>4, <2>1, <2>10, CommitMoves
      <3>2. LockEdits
        BY <1>4, <2>10, <3>1 DEF CommitStep, End, WriteCsv, PinJournal, Preview, PreviewFails,
          Reconcile, LockEditsFails, SaveEdit, SaveFails, UndoFile, RereadTarget, Append,
          AppendFails, Catchup, CatchupFails, Rollback, RollbackFails, UndoEnds, Release,
          WriteAssertion, WriteAssertionFails, ReopenForFlips, Flip, FlipFails, ReopenEditor
      <3>3. job' = [job EXCEPT !.undo = [g \in Files |-> IF g \in job.reviews
                                                         THEN disk[g] ELSE Empty],
                               !.todo = job.reviews]
        BY <3>2 DEF LockEdits
      <3>. QED
        BY <1>0, <3>3 DEF Job
    <2>11. ASSUME at' \in {"save", "reread", "append", "catchup", "rollback", "undo"},
                 NEW f \in job.reviews
          PROVE  Review \notin job'.undo[f].edits
      <3>1. CASE LockEdits
        <4>1. at = "edits" /\ job'.undo[f] = disk[f]
          BY <3>1, LockKeepsTheFiles DEF LockEdits
        <4>2. Review \notin disk[f].edits
          BY <1>0, <4>1 DEF ReviewsCanBeUndone
        <4>. QED
          BY <4>1, <4>2
      <3>2. CASE job'.undo = job.undo /\ at # "edits"
        <4>1. at \in {"save", "reread", "append", "catchup", "rollback", "undo"}
          BY <1>4, <2>11, <3>2, CommitMoves
        <4>. QED
          BY <3>2, <4>1 DEF ReviewsCanBeUndone
      <3>. QED
        BY <1>4, <2>11, <3>1, <3>2, SameBase
    <2>. QED
      BY <2>0, <2>4, <2>5, <2>6, <2>7, <2>8, <2>9, <2>10, <2>11 DEF ReviewsCanBeUndone
  <1>. QED
    BY <1>1, <1>2, <1>3, <1>4, NotTheCommit

(* A commit that was refused left neither its rows nor its review edits in   *)
(* the journal, however many commits there are, whatever others write,       *)
(* whatever fails and whenever the process dies; it is not true of commits   *)
(* whose review edits are in two files.                                      *)
THEOREM RefusedLeavesNothing ==
    ASSUME \A R \in Reviews : \A f, g \in R : f = g
    PROVE  Spec => []AllOrNothing
  <1>0. OneFileEach
    BY DEF OneFileEach
  <1>1. Init => RefusalInv
    <2>1. ASSUME Init PROVE LockedForReviews
      BY <2>1 DEF Init, LockedForReviews
    <2>2. ASSUME Init PROVE RowsCanBePutBack /\ ReviewsCanBeUndone
      BY <2>2 DEF Init, RowsCanBePutBack, ReviewsCanBeUndone, Refusable, GoingBack, Pinned
    <2>3. ASSUME Init PROVE TextsAreOld
      BY <2>3, NoJobIsAJob, EmptyIsOld DEF Init, TextsAreOld, Old
    <2>. QED
      BY <2>1, <2>2, <2>3, InitMade DEF RefusalInv
  <1>2. RefusalInv /\ [Next]_vars => RefusalInv'
    <2> SUFFICES ASSUME RefusalInv, [Next]_vars PROVE RefusalInv'
      OBVIOUS
    <2>1. RowsCanBePutBack' /\ ReviewsCanBeUndone' /\ TextsAreOld'
      BY <1>0, RowsStay, ReviewsStay, OldStays DEF RefusalInv
    <2>. QED
      BY <2>1, NextMade, StaysLocked DEF RefusalInv
  <1>3. RefusalInv => AllOrNothing
    BY DEF RefusalInv, RowsCanBePutBack, ReviewsCanBeUndone, GoingBack, AllOrNothing
  <1>. QED
    BY <1>1, <1>2, <1>3, PTL DEF Spec
-----------------------------------------------------------------------------
(* The rows of the journal: what a commit has done to them, and which of them *)
(* it will not propose again.                                                *)

Begun == {"csv", "pin", "preview", "reconcile", "edits", "save", "reread", "append",
          "catchup", "rollback", "undo"}

MarkerMadeOf == latest \in Rows \cup {0} /\ crashes \in Nat /\ job.entries \subseteq job.csv

(* Until it has landed a commit has taken no row, and added its own once. *)
RowsOfTheCommit ==
    /\ at \in Begun =>
         \A f \in Files, r \in Rows : disk[f].rows[r] >= job.start[f].rows[r]
    /\ at \in {"catchup", "rollback"} =>
         \A r \in Rows : disk[job.target].rows[r] =
              IF r \in job.entries THEN job.start[job.target].rows[r] + 1
                                   ELSE job.start[job.target].rows[r]
    /\ at = "undo" /\ ~warned => \A f \in Files : disk[f].rows = job.start[f].rows

(* The marker covers the row, or its id is found in the served journal. *)
Covered(r) == r <= latest \/ (r \in Identified /\ Has(editor, r))

(* What keeps a row single: it is covered once it is in the journal, so that *)
(* no commit appends a row it found there.                                   *)
Single(r) ==
    /\ AtMostOnce(disk, r)
    /\ at \in Begun => AtMostOnce(job.start, r) /\ (Has(job.start, r) => Covered(r))
    /\ at \notin Begun => (Has(disk, r) => Covered(r))
    /\ at = "reconcile" /\ r \in job.entries => r > latest
    /\ at \in {"edits", "save", "reread", "append", "catchup", "rollback"} /\ r \in job.entries =>
         ~Has(job.start, r)

Counted(r) == r \in Identified \/ crashes = 0
RowsAreSingle == ~warned => \A r \in Rows : Counted(r) => Single(r)

(* The rows the marker was moved over are in the journal, or will be again.  *)
RecordedStay == \A r \in recorded : Has(IF at \in Begun THEN job.start ELSE disk, r)

RowsInv == MadeOf /\ LockedForReviews /\ RowsCanBePutBack /\ MarkerMadeOf /\ RowsOfTheCommit

(* A commit found the rows it was to begin with. *)
LEMMA StartIsText == ASSUME MadeOf PROVE /\ \A f \in Files, r \in Rows : job.start[f].rows[r] \in Nat
                                         /\ \A f \in Files, r \in Rows : disk[f].rows[r] \in Nat
                                         /\ \A f \in Files, r \in Rows : editor[f].rows[r] \in Nat
  BY DEF MadeOf, Job, Text

(* The rows a commit proposes are the statement's, and chosen before it writes. *)
LEMMA SameEntries ==
    ASSUME MadeOf, CommitStep
    PROVE  /\ job'.csv = job.csv
           /\ \/ job'.entries = job.entries
              \/ /\ at = "preview" /\ at' = "reconcile"
                 /\ job'.entries = {r \in job.csv : r > latest}
              \/ /\ at = "reconcile"
                 /\ job'.entries = {r \in job.entries : ~(r \in Identified /\ Has(editor, r))}
           /\ at = "preview" /\ at' = "reconcile" => job'.entries = {r \in job.csv : r > latest}
           /\ at = "reconcile" =>
                job'.entries = {r \in job.entries : ~(r \in Identified /\ Has(editor, r))}
  <1>0. job \in Job
    BY DEF MadeOf
  <1>1. CASE PinJournal \/ RereadTarget \/ AppendFails \/ Rollback \/ RollbackFails
    <2>1. \/ job' = job
          \/ job' = [job EXCEPT !.before = disk[job.target], !.pin = disk[job.target]]
          \/ job' = [job EXCEPT !.todo = job.reviews]
      BY <1>1 DEF PinJournal, RereadTarget, AppendFails, Rollback, RollbackFails, Undone
    <2>2. at \notin {"preview", "reconcile"}
      BY <1>1 DEF PinJournal, RereadTarget, AppendFails, Rollback, RollbackFails
    <2>. QED
      BY <1>0, <2>1, <2>2 DEF Job
  <1>2. CASE Preview
    BY <1>0, <1>2 DEF Preview, Job
  <1>3. CASE Reconcile
    BY <1>0, <1>3 DEF Reconcile, Job
  <1>4. CASE LockEdits
    BY <1>0, <1>4 DEF LockEdits, Job
  <1>5. ASSUME NEW f \in Files, SaveEdit(f) \/ UndoFile(f)
        PROVE  /\ job'.csv = job.csv /\ job'.entries = job.entries
               /\ at \notin {"preview", "reconcile"}
    BY <1>0, <1>5 DEF SaveEdit, UndoFile, Job
  <1>6. CASE Append
    <2>1. \/ job' = job
          \/ job' = [job EXCEPT !.pin = Appended(job.before, job.entries, job.cleared)]
      BY <1>6 DEF Append
    <2>. QED
      BY <1>0, <1>6, <2>1 DEF Append, Job
  <1>7. \/ job' = job /\ at # "reconcile" /\ (at = "preview" => at' = "idle")
        \/ PinJournal \/ RereadTarget \/ AppendFails \/ Rollback \/ RollbackFails
        \/ Preview \/ Reconcile \/ LockEdits \/ Append
        \/ \E f \in Files : SaveEdit(f) \/ UndoFile(f)
    BY DEF CommitStep, End, WriteCsv, PreviewFails, LockEditsFails, SaveFails, Catchup,
           CatchupFails, UndoEnds, Release, WriteAssertion, WriteAssertionFails,
           ReopenForFlips, Flip, FlipFails, ReopenEditor
  <1>. QED
    BY <1>1, <1>2, <1>3, <1>4, <1>5, <1>6, <1>7

(* hledger's marker is only moved forward, and over all a commit appended. *)
LEMMA NewestOf ==
    ASSUME NEW S \in SUBSET Rows, S # {}
    PROVE  LET n == CHOOSE r \in S : \A q \in S : q <= r
           IN  n \in S /\ \A q \in S : q <= n
  BY ImportAssumption

LEMMA MarkedOver ==
    ASSUME MadeOf, MarkerMadeOf, Mark
    PROVE  /\ latest' \in Rows \cup {0} /\ latest <= latest'
           /\ \A r \in job.entries : r <= latest'
  <1>0. /\ job.csv \in SUBSET Rows /\ job.entries \subseteq job.csv
        /\ latest \in Rows \cup {0}
    BY DEF MadeOf, Job, MarkerMadeOf
  <1>a. /\ \A r \in job.csv : r \in Rows /\ r \in Nat
        /\ latest \in Nat
    <2>1. Rows \subseteq Nat
      BY ImportAssumption
    <2>2. latest \in Nat
      BY <2>1 DEF MarkerMadeOf
    <2>3. \A r \in job.csv : r \in Rows
      BY <1>0
    <2>. QED
      BY <2>1, <2>2, <2>3
  <1>1. CASE \E r \in job.csv : r > latest
    <2>. DEFINE n == CHOOSE r \in job.csv : \A q \in job.csv : q <= r
    <2>1. n \in job.csv /\ \A q \in job.csv : q <= n
      BY <1>0, <1>1, NewestOf
    <2>2. latest' = n
      BY <1>1 DEF Mark
    <2>. HIDE DEF n
    <2>3. PICK r \in job.csv : r > latest
      BY <1>1
    <2>4. latest' \in Rows /\ latest' \in Nat /\ \A q \in job.csv : q <= latest'
      BY <1>a, <2>1, <2>2
    <2>5. r <= latest' /\ r \in Nat
      BY <1>a, <2>4
    <2>6. latest <= latest'
      BY <1>a, <2>3, <2>4, <2>5
    <2>. QED
      BY <1>0, <2>4, <2>6
  <1>2. CASE ~\E r \in job.csv : r > latest
    <2>1. latest' = latest
      BY <1>2 DEF Mark
    <2>2. \A r \in job.csv : r <= latest
      BY <1>a, <1>2
    <2>. QED
      BY <1>0, <1>a, <2>1, <2>2
  <1>. QED
    BY <1>1, <1>2

LEMMA MarkerMoves ==
    ASSUME MadeOf, MarkerMadeOf, [Next]_vars
    PROVE  /\ latest' \in Rows \cup {0} /\ latest \in Nat /\ latest' \in Nat /\ latest <= latest'
           /\ \/ UNCHANGED <<latest, recorded>>
              \/ recorded' = recorded \cup job.entries /\ CommitStep /\ at = "catchup"
           /\ CommitStep /\ at = "catchup" /\ at' = "release" =>
                \A r \in job.entries : r <= latest'
           /\ CommitStep /\ at = "catchup" /\ at' # "release" /\ "late" \notin Faults =>
                UNCHANGED <<latest, recorded>>
           /\ crashes' \in Nat /\ (crashes' = 0 => crashes = 0)
           /\ warned => warned'
  <1>0. latest \in Rows \cup {0} /\ Rows \subseteq Nat /\ latest \in Nat /\ crashes \in Nat
    BY ImportAssumption DEF MarkerMadeOf
  <1>a. ASSUME Mark
        PROVE  /\ latest' \in Rows \cup {0} /\ latest' \in Nat /\ latest <= latest'
               /\ \A r \in job.entries : r <= latest'
               /\ recorded' = recorded \cup job.entries
    <2>1. latest' \in Rows \cup {0}
      BY <1>a, MarkedOver
    <2>2. latest' \in Nat
      BY <1>0, <2>1
    <2>. QED
      BY <1>a, <2>1, <2>2, MarkedOver DEF Mark
  <1>1. CASE Catchup
    <2>1. Mark /\ crashes' = crashes /\ warned' = warned /\ CommitStep /\ at = "catchup" /\ at' = "release"
      BY <1>1 DEF Catchup, around, CommitStep
    <2>. QED
      BY <1>0, <1>a, <2>1
  <1>2. CASE CatchupFails
    <2>1. /\ UNCHANGED <<latest, recorded>> \/ (CanFail("late") /\ Mark)
          /\ crashes' = crashes /\ warned' = warned /\ CommitStep
          /\ at = "catchup" /\ at' = "rollback"
      BY <1>2 DEF CatchupFails, around, CommitStep
    <2>2. CASE UNCHANGED <<latest, recorded>>
      BY <1>0, <2>1, <2>2
    <2>3. CASE CanFail("late") /\ Mark
      BY <1>0, <1>a, <2>1, <2>3 DEF CanFail
    <2>. QED
      BY <2>1, <2>2, <2>3
  <1>4. CASE CommitStep
    <2>1. \/ Catchup \/ CatchupFails
          \/ UNCHANGED <<latest, recorded, crashes>> /\ (warned => warned') /\ at # "catchup"
      BY <1>4
         DEF CommitStep, around, history, WriteCsv, PinJournal, Preview, PreviewFails, Reconcile,
             LockEdits, LockEditsFails, SaveEdit, SaveFails, UndoFile, RereadTarget, Append,
             AppendFails, Rollback, RollbackFails, UndoEnds, Release, WriteAssertion,
             WriteAssertionFails, ReopenForFlips, Flip, FlipFails, ReopenEditor
    <2>. QED
      BY <1>0, <1>1, <1>2, <2>1
  <1>5. ASSUME NEW f \in Files, OtherRequest(f) \/ OtherProgram(f)
        PROVE  UNCHANGED <<latest, recorded, crashes, warned>>
    BY <1>5 DEF OtherRequest, OtherProgram
  <1>6. CASE UNCHANGED vars \/ WatcherReload
    BY <1>0, <1>6 DEF vars, around, history, WatcherReload
  <1>7. CASE Crash /\ ~CommitStep
    <2>1. UNCHANGED <<latest, recorded, warned>> /\ crashes' = crashes + 1
      BY <1>7 DEF Crash, history
    <2>. QED
      BY <1>0, <1>7, <2>1
  <1>8. ASSUME NEW target, NEW csv, NEW cleared, NEW reviews, NEW balance,
               Begin(target, csv, cleared, reviews, balance)
        PROVE  UNCHANGED <<latest, recorded, crashes, warned>>
    BY <1>8 DEF Begin, history
  <1>. QED
    BY <1>0, <1>4, <1>5, <1>6, <1>7, <1>8 DEF Next

-----------------------------------------------------------------------------
(* What a step makes of the rows, in the files and in the served journal. *)

LEMMA AppendedRows ==
    ASSUME NEW text \in Text, NEW rows \in SUBSET Rows, NEW cleared, NEW r \in Rows
    PROVE  Appended(text, rows, cleared).rows[r] =
             IF r \in rows THEN text.rows[r] + 1 ELSE text.rows[r]
  <1>. DEFINE more == [q \in Rows |-> IF q \in rows THEN text.rows[q] + 1 ELSE text.rows[q]]
  <1>1. Appended(text, rows, cleared) =
          [text EXCEPT !.rows = more, !.cleared = text.cleared \cup (rows \cap cleared)]
    BY DEF Appended
  <1>2. more[r] = IF r \in rows THEN text.rows[r] + 1 ELSE text.rows[r]
    OBVIOUS
  <1>. HIDE DEF more
  <1>3. Appended(text, rows, cleared).rows = more
    BY <1>1 DEF Text
  <1>. QED
    BY <1>2, <1>3

LEMMA ServedRows ==
    ASSUME MadeOf, [Next]_vars
    PROVE  \/ \A f \in Files : editor'[f].rows = editor[f].rows
           \/ editor' = disk /\ disk' = disk
  <1>0. /\ editor \in [Files -> Text] /\ job \in Job /\ job.target \in Files
    BY ImportAssumption DEF MadeOf, Job
  <1>1. ASSUME NEW g \in Files, SaveEdit(g), NEW f \in Files
        PROVE  editor'[f].rows = editor[f].rows
    <2>1. editor' = [editor EXCEPT ![g] = Edited(editor[g], Review)]
      BY <1>1 DEF SaveEdit
    <2>2. commits \in 1 .. MaxCommits
      BY <1>1, ImportAssumption DEF SaveEdit, MadeOf
    <2>3. Review \in Edits
      BY <2>2 DEF Review, Edits
    <2>4. Edited(editor[g], Review).rows = editor[g].rows
      BY <1>0, <2>3, EditedText
    <2>. QED
      BY <1>0, <2>1, <2>4
  <1>2. ASSUME Flip, NEW f \in Files PROVE editor'[f].rows = editor[f].rows
    <2>. DEFINE flipped == [editor[job.target] EXCEPT
                              !.cleared = (@ \ Chosen) \cup (job.cleared \cap Chosen)]
    <2>1. editor' = editor \/ editor' = [editor EXCEPT ![job.target] = flipped]
      BY <1>2 DEF Flip
    <2>2. flipped.rows = editor[job.target].rows
      BY <1>0 DEF Text
    <2>. HIDE DEF flipped
    <2>. QED
      BY <1>0, <2>1, <2>2
  <1>3. ASSUME NEW g \in Files, OtherRequest(g)
        PROVE  \/ \A f \in Files : editor'[f].rows = editor[f].rows
               \/ editor' = disk /\ disk' = disk
    <2>1. <<"other", others'>> \in Edits
      BY <1>3, OthersText
    <2>2. Edited(editor[g], <<"other", others'>>).rows = editor[g].rows
      BY <1>0, <2>1, EditedText
    <2>3. \/ editor' = editor \/ (editor' = disk /\ disk' = disk)
          \/ editor' = [editor EXCEPT ![g] = Edited(editor[g], <<"other", others'>>)]
      BY <1>3 DEF OtherRequest, Reread
    <2>. QED
      BY <1>0, <2>2, <2>3
  <1>4. \/ editor' = editor \/ (editor' = disk /\ disk' = disk)
        \/ Flip \/ \E f \in Files : SaveEdit(f) \/ OtherRequest(f)
    BY DEF Next, CommitStep, vars, Begin, WriteCsv, PinJournal, Preview, PreviewFails, Reconcile,
           LockEdits, LockEditsFails, SaveFails, UndoFile, RereadTarget, Append, AppendFails,
           Catchup, CatchupFails, Rollback, RollbackFails, UndoEnds, Release, WriteAssertion,
           WriteAssertionFails, ReopenForFlips, FlipFails, ReopenEditor, OtherProgram,
           WatcherReload, Crash, Reread, RereadIfBound
  <1>. QED
    BY <1>1, <1>2, <1>3, <1>4

LEMMA AppendedToTheFile ==
    ASSUME RowsInv, CommitStep, at = "append", at' = "catchup", NEW r \in Rows
    PROVE  disk'[job.target].rows[r] = IF r \in job.entries
                                       THEN job.start[job.target].rows[r] + 1
                                       ELSE job.start[job.target].rows[r]
  <1>0. /\ disk \in [Files -> Text] /\ job.target \in Files /\ job.before \in Text
        /\ job.entries \in SUBSET Rows
        /\ job.before.rows = job.start[job.target].rows
        /\ disk[job.target].rows = job.start[job.target].rows
    BY ImportAssumption DEF RowsInv, MadeOf, Job, RowsCanBePutBack, Pinned, Refusable
  <1>1. Append
    BY DEF CommitStep, Undone, End, WriteCsv, PinJournal, Preview, PreviewFails, Reconcile,
           LockEdits, LockEditsFails, SaveEdit, SaveFails, UndoFile, RereadTarget,
           AppendFails, Catchup, CatchupFails, Rollback, RollbackFails, UndoEnds, Release,
           WriteAssertion, WriteAssertionFails, ReopenForFlips, Flip, FlipFails, ReopenEditor
  <1>2. CASE job.entries = {} /\ disk' = disk
    BY <1>0, <1>2
  <1>3. CASE disk' = [disk EXCEPT ![job.target] = Appended(job.before, job.entries, job.cleared)]
    <2>1. disk'[job.target] = Appended(job.before, job.entries, job.cleared)
      BY <1>0, <1>3
    <2>. QED
      BY <1>0, <2>1, AppendedRows
  <1>. QED
    BY <1>1, <1>2, <1>3 DEF Append

LEMMA RolledBack ==
    ASSUME RowsInv, Rollback
    PROVE  \A f \in Files : disk'[f].rows = job.start[f].rows
  <1>0. disk \in [Files -> Text] /\ job.target \in Files
    BY ImportAssumption DEF RowsInv, MadeOf, Job
  <1>1. at = "rollback" /\ disk' = [disk EXCEPT ![job.target] = job.before]
    BY DEF Rollback
  <1>2. /\ job.before.rows = job.start[job.target].rows
        /\ \A f \in Files \ {job.target} : disk[f].rows = job.start[f].rows
    BY <1>1 DEF RowsInv, RowsCanBePutBack, Pinned
  <1>. QED
    BY <1>0, <1>1, <1>2

LEMMA RollbackOrWarning ==
    ASSUME CommitStep, at = "rollback"
    PROVE  Rollback \/ (warned' /\ disk' = disk)
  BY DEF CommitStep, WriteCsv, PinJournal, Preview, PreviewFails, Reconcile,
         LockEdits, LockEditsFails, SaveEdit, SaveFails, UndoFile, RereadTarget, Append,
         AppendFails, Catchup, CatchupFails, RollbackFails, UndoEnds, Release,
         WriteAssertion, WriteAssertionFails, ReopenForFlips, Flip, FlipFails, ReopenEditor

(* File by file: left alone, put back, or appended to. *)
LEMMA RowsOfAFile ==
    ASSUME RowsInv, CommitStep, NEW f \in Files
    PROVE  \/ disk'[f].rows = disk[f].rows
           \/ at \in {"undo", "rollback"} /\ disk'[f].rows = job.start[f].rows
           \/ at = "append" /\ at' = "catchup" /\ f = job.target
  <1>1. \/ disk'[f] = disk[f] \/ disk'[f].rows = disk[f].rows
        \/ at = "undo" /\ f \in job.todo /\ disk'[f] = job.undo[f]
        \/ at = "append" /\ at' = "catchup" /\ f = job.target
        \/ at = "rollback" /\ Rollback
    BY WrittenText DEF RowsInv, Next
  <1>2. at = "undo" /\ f \in job.todo => job.undo[f].rows = job.start[f].rows
    BY DEF RowsInv, MadeOf, RowsCanBePutBack
  <1>. QED
    BY <1>1, <1>2, RolledBack

LEMMA NothingTaken ==
    ASSUME RowsInv, CommitStep, at \in Begun, NEW f \in Files, NEW r \in Rows
    PROVE  disk'[f].rows[r] >= job.start[f].rows[r]
  <1>0. /\ disk[f].rows[r] >= job.start[f].rows[r]
        /\ disk[f].rows[r] \in Nat /\ job.start[f].rows[r] \in Nat
    BY StartIsText DEF RowsInv, RowsOfTheCommit
  <1>1. CASE disk'[f].rows = disk[f].rows
    BY <1>0, <1>1
  <1>2. CASE disk'[f].rows = job.start[f].rows
    BY <1>0, <1>2
  <1>3. CASE at = "append" /\ at' = "catchup" /\ f = job.target
    <2>1. disk'[f].rows[r] = IF r \in job.entries THEN job.start[f].rows[r] + 1
                                                  ELSE job.start[f].rows[r]
      BY <1>3, AppendedToTheFile
    <2>. QED
      BY <1>0, <2>1
  <1>. QED
    BY <1>1, <1>2, <1>3, RowsOfAFile

LEMMA RowsInvStays ==
    ASSUME RowsInv, [Next]_vars
    PROVE  RowsInv'
  <1>0. /\ MadeOf /\ MadeOf' /\ MarkerMadeOf /\ job.target \in Files /\ job'.target \in Files
        /\ LockedForReviews' /\ RowsCanBePutBack'
    BY NextMade, StaysLocked, RowsStay, ImportAssumption DEF RowsInv, MadeOf, Job
  <1>1. job'.entries \subseteq job'.csv
    BY <1>0, NotTheCommit, SameEntries DEF MarkerMadeOf
  <1>2. MarkerMadeOf'
    BY <1>0, <1>1, MarkerMoves DEF MarkerMadeOf
  <1>3. warned => warned'
    BY <1>0, MarkerMoves
  <1>4. RowsOfTheCommit'
    <2>1. CASE ~CommitStep /\ UNCHANGED <<job, at, outcome, commits>>
      <3>1. \A f \in Files : disk'[f].rows = disk[f].rows
        BY <1>0, <2>1, WrittenText
      <3>. QED
        BY <1>0, <1>3, <2>1, <3>1 DEF RowsInv, RowsOfTheCommit
    <2>2. CASE at' = "csv" /\ disk' = disk /\ job'.start = disk
      <3>1. \A f \in Files, r \in Rows : disk'[f].rows[r] >= job'.start[f].rows[r]
        BY <1>0, <2>2, StartIsText
      <3>. QED
        BY <2>2, <3>1 DEF RowsOfTheCommit
    <2>3. CASE at' = "idle"
      BY <2>3 DEF RowsOfTheCommit, Begun
    <2>4. CASE CommitStep
      <3>0. job'.target = job.target /\ job'.start = job.start
        BY <1>0, <2>4, SameCommit
      <3>1. ASSUME at' \in Begun, NEW f \in Files, NEW r \in Rows
            PROVE  disk'[f].rows[r] >= job.start[f].rows[r]
        <4>1. at \in Begun
          BY <2>4, <3>1, CommitMoves DEF Begun
        <4>. QED
          BY <2>4, <4>1, NothingTaken
      <3>2. ASSUME at' \in {"catchup", "rollback"}, NEW r \in Rows
            PROVE  disk'[job.target].rows[r] = IF r \in job'.entries
                                               THEN job.start[job.target].rows[r] + 1
                                               ELSE job.start[job.target].rows[r]
        <4>1. at \in {"append", "catchup"} /\ (at = "append" => at' = "catchup")
          BY <2>4, <3>2, CommitMoves
        <4>2. job'.entries = job.entries
          BY <1>0, <2>4, <4>1, SameEntries
        <4>3. CASE at = "append"
          BY <2>4, <4>1, <4>2, <4>3, AppendedToTheFile
        <4>4. CASE at = "catchup"
          <5>1. disk'[job.target].rows = disk[job.target].rows
            BY <1>0, <2>4, <4>4, RowsOfAFile
          <5>. QED
            BY <4>2, <4>4, <5>1 DEF RowsInv, RowsOfTheCommit
        <4>. QED
          BY <4>1, <4>3, <4>4
      <3>3. ASSUME at' = "undo", ~warned', NEW f \in Files
            PROVE  disk'[f].rows = job.start[f].rows
        <4>1. at \in {"reread", "append", "rollback", "undo"} /\ ~warned
          BY <1>3, <2>4, <3>3, CommitMoves
        <4>2. CASE at = "rollback"
          BY <2>4, <3>3, <4>2, RollbackOrWarning, RolledBack
        <4>3. CASE at # "rollback"
          <5>1. disk[f].rows = job.start[f].rows
            BY <4>1, <4>3 DEF RowsInv, RowsOfTheCommit, RowsCanBePutBack, Refusable
          <5>. QED
            BY <2>4, <3>3, <5>1, RowsOfAFile
        <4>. QED
          BY <4>2, <4>3
      <3>. QED
        BY <3>0, <3>1, <3>2, <3>3 DEF RowsOfTheCommit
    <2>. QED
      BY <1>0, <2>1, <2>2, <2>3, <2>4, NotTheCommit
  <1>. QED
    BY <1>0, <1>2, <1>4 DEF RowsInv

LEMMA InitRows == Init => RowsInv
  <1> SUFFICES ASSUME Init PROVE RowsInv
    OBVIOUS
  <1>1. LockedForReviews
    BY DEF Init, LockedForReviews
  <1>2. RowsCanBePutBack
    BY DEF Init, RowsCanBePutBack, Refusable, GoingBack, Pinned
  <1>3. MarkerMadeOf
    BY NoJobIsAJob DEF Init, MarkerMadeOf
  <1>4. RowsOfTheCommit
    BY DEF Init, RowsOfTheCommit, Begun
  <1>. QED
    BY <1>1, <1>2, <1>3, <1>4, InitMade DEF RowsInv

-----------------------------------------------------------------------------
(* No row twice. *)

(* Once in the journal and covered, a row stays covered. *)
LEMMA StaysCovered ==
    ASSUME RowsInv, [Next]_vars, NEW r \in Rows, Covered(r), Has(disk, r)
    PROVE  Covered(r)'
  <1>0. MadeOf /\ MarkerMadeOf /\ r \in Nat
    BY ImportAssumption DEF RowsInv
  <1>1. CASE r <= latest
    <2>1. latest \in Nat /\ latest' \in Nat /\ latest <= latest'
      BY <1>0, MarkerMoves
    <2>2. r <= latest'
      BY <1>0, <1>1, <2>1
    <2>. QED
      BY <2>2 DEF Covered
  <1>2. CASE r \in Identified /\ Has(editor, r)
    <2>1. CASE \A f \in Files : editor'[f].rows = editor[f].rows
      BY <1>2, <2>1 DEF Covered, Has
    <2>2. CASE editor' = disk
      BY <1>2, <2>2 DEF Covered, Has
    <2>. QED
      BY <1>0, <2>1, <2>2, ServedRows
  <1>. QED
    BY <1>1, <1>2 DEF Covered

(* What the commit found in the journal is there until it has landed. *)
LEMMA FoundIsThere ==
    ASSUME RowsInv, at \in Begun, NEW r \in Rows, Has(job.start, r)
    PROVE  Has(disk, r)
  <1>1. PICK f \in Files : job.start[f].rows[r] > 0
    BY DEF Has
  <1>2. disk[f].rows[r] >= job.start[f].rows[r]
    BY DEF RowsInv, RowsOfTheCommit
  <1>3. disk[f].rows[r] \in Nat /\ job.start[f].rows[r] \in Nat
    BY StartIsText DEF RowsInv
  <1>4. disk[f].rows[r] > 0
    BY <1>1, <1>2, <1>3
  <1>. QED
    BY <1>4 DEF Has

(* As in the journal the commit found, but for what it appends. *)
LEMMA RowsAfterAStep ==
    ASSUME RowsInv, CommitStep, ~warned'
    PROVE  \/ \A f \in Files : disk'[f].rows = disk[f].rows
           \/ at \in Begun /\ \A f \in Files : disk'[f].rows = job.start[f].rows
           \/ /\ at = "append" /\ at' = "catchup"
              /\ \A f \in Files \ {job.target} : disk'[f].rows = job.start[f].rows
              /\ \A r \in Rows : disk'[job.target].rows[r] =
                   IF r \in job.entries THEN job.start[job.target].rows[r] + 1
                                        ELSE job.start[job.target].rows[r]
  <1>1. CASE at = "append" /\ at' = "catchup"
    <2>1. \A f \in Files : disk[f].rows = job.start[f].rows
      BY <1>1 DEF RowsInv, RowsCanBePutBack, Refusable
    <2>2. \A f \in Files \ {job.target} : disk'[f].rows = disk[f].rows
      BY <1>1, RowsOfAFile
    <2>. QED
      BY <1>1, <2>1, <2>2, AppendedToTheFile
  <1>2. CASE at = "undo"
    <2>1. ~warned
      BY MarkerMoves DEF RowsInv, Next
    <2>2. \A f \in Files : disk[f].rows = job.start[f].rows
      BY <1>2, <2>1 DEF RowsInv, RowsOfTheCommit
    <2>. QED
      BY <1>2, <2>2, RowsOfAFile DEF Begun
  <1>3. CASE at = "rollback"
    BY <1>3, RollbackOrWarning, RolledBack DEF Begun
  <1>. QED
    BY <1>1, <1>2, <1>3, RowsOfAFile

LEMMA SingleOfACommit ==
    ASSUME RowsInv, CommitStep, ~warned', NEW r \in Rows, Single(r)
    PROVE  Single(r)'
  <1>0. /\ MadeOf /\ MarkerMadeOf /\ [Next]_vars /\ job.target \in Files /\ r \in Nat
        /\ ~warned /\ job'.start = job.start /\ latest' \in Nat
        /\ \A f \in Files, q \in Rows : job.start[f].rows[q] \in Nat
    <2>1. MadeOf /\ MarkerMadeOf /\ [Next]_vars /\ job.target \in Files /\ r \in Nat
      BY ImportAssumption DEF RowsInv, Next, MadeOf, Job
    <2>. QED
      BY <2>1, MarkerMoves, SameCommit, StartIsText
  <1>1. AtMostOnce(disk', r)
    <2>1. CASE \A f \in Files : disk'[f].rows = disk[f].rows
      BY <2>1 DEF Single, AtMostOnce
    <2>2. CASE at \in Begun /\ \A f \in Files : disk'[f].rows = job.start[f].rows
      BY <2>2 DEF Single, AtMostOnce
    <2>3. CASE /\ at = "append" /\ at' = "catchup"
               /\ \A f \in Files \ {job.target} : disk'[f].rows = job.start[f].rows
               /\ \A q \in Rows : disk'[job.target].rows[q] =
                    IF q \in job.entries THEN job.start[job.target].rows[q] + 1
                                         ELSE job.start[job.target].rows[q]
      <3>1. CASE r \in job.entries
        <4>1. ~Has(job.start, r)
          BY <2>3, <3>1 DEF Single
        <4>2. \A f \in Files : job.start[f].rows[r] = 0
          BY <1>0, <4>1 DEF Has
        <4>3. /\ disk'[job.target].rows[r] = 1
              /\ \A f \in Files \ {job.target} : disk'[f].rows[r] = 0
          BY <1>0, <2>3, <3>1, <4>2
        <4>4. \A f \in Files : IF f = job.target THEN disk'[f].rows[r] = 1
                                                 ELSE disk'[f].rows[r] = 0
          BY <4>3
        <4>. QED
          BY <4>4 DEF AtMostOnce
      <3>2. CASE r \notin job.entries
        <4>1. \A f \in Files : disk'[f].rows[r] = job.start[f].rows[r]
          BY <2>3, <3>2
        <4>2. AtMostOnce(job.start, r)
          BY <2>3 DEF Single, Begun
        <4>. QED
          BY <4>1, <4>2 DEF AtMostOnce
      <3>. QED
        BY <3>1, <3>2
    <2>. QED
      BY <2>1, <2>2, <2>3, RowsAfterAStep
  <1>2. ASSUME at' \in Begun
        PROVE  AtMostOnce(job.start, r) /\ (Has(job.start, r) => Covered(r)')
    <2>1. at \in Begun
      BY <1>2, CommitMoves DEF Begun
    <2>2. AtMostOnce(job.start, r) /\ (Has(job.start, r) => Covered(r))
      BY <2>1 DEF Single
    <2>. QED
      BY <1>0, <2>1, <2>2, FoundIsThere, StaysCovered
  <1>3. ASSUME at' \notin Begun, Has(disk', r) PROVE Covered(r)'
    <2>1. CASE at \notin Begun
      <3>1. \A f \in Files : disk'[f].rows = disk[f].rows
        BY <2>1, RowsOfAFile DEF Begun
      <3>2. Has(disk, r)
        BY <1>3, <3>1 DEF Has
      <3>. QED
        BY <1>0, <2>1, <3>2, StaysCovered DEF Single
    <2>2. CASE at \in Begun /\ Has(job.start, r)
      BY <1>0, <2>2, FoundIsThere, StaysCovered DEF Single
    <2>3. CASE at \in Begun /\ ~Has(job.start, r)
      <3>1. \A f \in Files : job.start[f].rows[r] = 0
        BY <1>0, <2>3 DEF Has
      <3>2. CASE at = "catchup"
        <4>1. at' = "release"
          BY <1>3, <3>2, CommitMoves DEF Begun
        <4>2. \A f \in Files : disk'[f].rows = disk[f].rows
          BY <3>2, RowsOfAFile
        <4>3. \A f \in Files \ {job.target} : disk[f].rows = job.start[f].rows
          BY <3>2 DEF RowsInv, RowsCanBePutBack
        <4>4. disk'[job.target].rows[r] > 0
          BY <1>0, <1>3, <3>1, <4>2, <4>3 DEF Has
        <4>5. r \in job.entries
          BY <1>0, <3>1, <3>2, <4>2, <4>4 DEF RowsInv, RowsOfTheCommit
        <4>6. r <= latest'
          BY <1>0, <3>2, <4>1, <4>5, MarkerMoves
        <4>. QED
          BY <4>6 DEF Covered
      <3>3. CASE at # "catchup"
        <4>1. at \in Refusable \/ at \in {"rollback", "undo"}
          BY <2>3, <3>3 DEF Begun, Refusable
        <4>2. ~(at = "append" /\ at' = "catchup")
          BY <1>3 DEF Begun
        <4>3. CASE at \in {"rollback", "undo"}
          <5>1. \A f \in Files : disk'[f].rows = job.start[f].rows
            <6>1. CASE at = "rollback"
              BY <6>1, RollbackOrWarning, RolledBack
            <6>2. CASE at = "undo"
              <7>1. \A f \in Files : disk[f].rows = job.start[f].rows
                BY <1>0, <6>2 DEF RowsInv, RowsOfTheCommit
              <7>. QED
                BY <6>2, <7>1, RowsOfAFile
            <6>. QED
              BY <4>3, <6>1, <6>2
          <5>. QED
            BY <1>3, <3>1, <5>1 DEF Has
        <4>4. CASE at \in Refusable
          <5>1. \A f \in Files : disk[f].rows = job.start[f].rows
            BY <4>4 DEF RowsInv, RowsCanBePutBack
          <5>2. \A f \in Files : disk'[f].rows = job.start[f].rows
            BY <4>2, <5>1, RowsOfAFile
          <5>. QED
            BY <1>3, <3>1, <5>2 DEF Has
        <4>. QED
          BY <4>1, <4>3, <4>4
      <3>. QED
        BY <3>2, <3>3
    <2>. QED
      BY <2>1, <2>2, <2>3
  <1>4. ASSUME at' = "reconcile", r \in job'.entries PROVE r > latest'
    <2>1. at = "preview"
      BY <1>4, CommitMoves
    <2>2. r > latest
      BY <1>0, <1>4, <2>1, SameEntries
    <2>3. latest' = latest
      BY <1>0, <2>1, MarkerMoves
    <2>. QED
      BY <2>2, <2>3
  <1>5. ASSUME at' \in {"edits", "save", "reread", "append", "catchup", "rollback"},
               r \in job'.entries
        PROVE  ~Has(job.start, r)
    <2>1. CASE at = "reconcile"
      <3>1. r \in job.entries /\ ~(r \in Identified /\ Has(editor, r))
        BY <1>0, <1>5, <2>1, SameEntries
      <3>2. r > latest /\ latest \in Nat
        BY <1>0, <2>1, <3>1, MarkerMoves DEF Single
      <3>3. ~Covered(r)
        BY <1>0, <3>1, <3>2 DEF Covered
      <3>. QED
        BY <2>1, <3>3 DEF Single, Begun
    <2>2. CASE at # "reconcile"
      <3>1. at \in {"edits", "save", "reread", "append", "catchup", "rollback"}
        BY <1>5, <2>2, CommitMoves
      <3>2. job'.entries = job.entries
        BY <1>0, <3>1, SameEntries
      <3>. QED
        BY <1>5, <3>1, <3>2 DEF Single
    <2>. QED
      BY <2>1, <2>2
  <1>. QED
    BY <1>0, <1>1, <1>2, <1>3, <1>4, <1>5 DEF Single

LEMMA SingleOfTheOthers ==
    ASSUME RowsInv, [Next]_vars, ~CommitStep, NEW r \in Rows, Counted(r)', Single(r)
    PROVE  Single(r)'
  <1>0. /\ MadeOf /\ MarkerMadeOf /\ crashes \in Nat
        /\ UNCHANGED latest
    <2>1. MadeOf /\ MarkerMadeOf /\ crashes \in Nat
      BY DEF RowsInv, MarkerMadeOf
    <2>. QED
      BY <2>1, MarkerMoves
  <1>1. CASE UNCHANGED <<job, at, outcome, commits>>
    <2>1. \A f \in Files : disk'[f].rows = disk[f].rows
      BY <1>0, <1>1, WrittenText
    <2>2. AtMostOnce(disk', r)
      BY <2>1 DEF Single, AtMostOnce
    <2>3. Has(disk', r) => Has(disk, r)
      BY <2>1 DEF Has
    <2>4. at \in Begun => (Has(job.start, r) => Covered(r)')
      BY FoundIsThere, StaysCovered DEF Single
    <2>5. at \notin Begun => (Has(disk', r) => Covered(r)')
      BY <2>3, StaysCovered DEF Single
    <2>6. /\ at \in Begun => AtMostOnce(job.start, r)
          /\ at = "reconcile" /\ r \in job.entries => r > latest
          /\ at \in {"edits", "save", "reread", "append", "catchup", "rollback"}
               /\ r \in job.entries => ~Has(job.start, r)
      BY DEF Single
    <2>7. job' = job /\ at' = at /\ latest' = latest
      BY <1>0, <1>1
    <2>. QED
      BY <2>2, <2>4, <2>5, <2>6, <2>7 DEF Single
  <1>2. CASE at = "idle" /\ at' = "csv" /\ UNCHANGED <<disk, editor>> /\ job'.start = disk
    <2>1. AtMostOnce(disk, r) /\ (Has(disk, r) => Covered(r))
      BY <1>2 DEF Single, Begun
    <2>2. Has(disk, r) => Covered(r)'
      BY <2>1, StaysCovered
    <2>3. AtMostOnce(disk', r) /\ AtMostOnce(job'.start, r) /\ (Has(job'.start, r) => Covered(r)')
      BY <1>2, <2>1, <2>2
    <2>4. /\ at' \in Begun /\ at' # "reconcile"
          /\ at' \notin {"edits", "save", "reread", "append", "catchup", "rollback"}
      BY <1>2 DEF Begun
    <2>. QED
      BY <2>3, <2>4 DEF Single
  <1>3. CASE at' = "idle" /\ UNCHANGED disk /\ editor' = disk /\ crashes' = crashes + 1
    <2>1. crashes' # 0
      BY <1>0, <1>3
    <2>2. r \in Identified
      BY <2>1 DEF Counted
    <2>3. Has(disk', r) => Covered(r)'
      BY <1>3, <2>2 DEF Covered
    <2>4. AtMostOnce(disk', r)
      BY <1>3 DEF Single
    <2>5. /\ at' \notin Begun /\ at' # "reconcile"
          /\ at' \notin {"edits", "save", "reread", "append", "catchup", "rollback"}
      BY <1>3 DEF Begun
    <2>. QED
      BY <2>3, <2>4, <2>5 DEF Single
  <1>. QED
    BY <1>0, <1>1, <1>2, <1>3, NotTheCommit

LEMMA RowsStaySingle ==
    ASSUME RowsInv, RowsAreSingle, [Next]_vars
    PROVE  RowsAreSingle'
  <1> SUFFICES ASSUME ~warned', NEW r \in Rows, Counted(r)' PROVE Single(r)'
    BY DEF RowsAreSingle
  <1>1. ~warned /\ Counted(r)
    <2>1. (warned => warned') /\ (crashes' = 0 => crashes = 0)
      BY MarkerMoves DEF RowsInv
    <2>. QED
      BY <2>1 DEF Counted
  <1>2. Single(r)
    BY <1>1 DEF RowsAreSingle
  <1>. QED
    BY <1>2, SingleOfACommit, SingleOfTheOthers

LEMMA InitSingle == Init => RowsAreSingle
  <1> SUFFICES ASSUME Init, NEW r \in Rows PROVE Single(r)
    BY DEF RowsAreSingle
  <1>1. \A f \in Files : disk[f].rows[r] = 0
    BY DEF Init, Empty
  <1>2. AtMostOnce(disk, r) /\ ~Has(disk, r)
    BY <1>1 DEF AtMostOnce, Has
  <1>3. at = "idle"
    BY DEF Init
  <1>. QED
    BY <1>2, <1>3 DEF Single, Begun

LEMMA SingleAlways == Spec => [](RowsInv /\ RowsAreSingle)
  <1>1. Init => RowsInv /\ RowsAreSingle
    BY InitRows, InitSingle
  <1>2. RowsInv /\ RowsAreSingle /\ [Next]_vars => (RowsInv /\ RowsAreSingle)'
    <2> SUFFICES ASSUME RowsInv, RowsAreSingle, [Next]_vars PROVE RowsInv' /\ RowsAreSingle'
      OBVIOUS
    <2>. QED
      BY RowsInvStays, RowsStaySingle
  <1>. QED
    BY <1>1, <1>2, PTL DEF Spec

(* However many statements are imported into however many files, whatever    *)
(* fails and whatever is edited meanwhile, the journal has no row twice      *)
(* unless a commit said that its entries stayed unrecorded, or died.         *)
THEOREM NoRowTwice == Spec => []NoDuplicates
  <1>1. RowsInv /\ RowsAreSingle => NoDuplicates
    BY DEF RowsAreSingle, Counted, Single, NoDuplicates
  <1>. QED
    BY <1>1, SingleAlways, PTL

(* A row the rules file gives an id is in the journal once, however often    *)
(* the process dies between the append and the marker.                       *)
THEOREM NoIdTwice == Spec => []IdentifiedOnce
  <1>1. RowsInv /\ RowsAreSingle => IdentifiedOnce
    BY ImportAssumption DEF RowsAreSingle, Counted, Single, IdentifiedOnce
  <1>. QED
    BY <1>1, SingleAlways, PTL

-----------------------------------------------------------------------------
(* What the marker was moved over. *)

LEMMA RecordedStays ==
    ASSUME RowsInv, RecordedStay, [Next]_vars, recorded \subseteq Rows, "late" \notin Faults
    PROVE  RecordedStay' /\ recorded' \subseteq Rows
  <1>0. /\ MadeOf /\ MarkerMadeOf /\ job.target \in Files /\ job.entries \subseteq Rows
        /\ \A f \in Files, q \in Rows : job.start[f].rows[q] \in Nat
        /\ \A f \in Files, q \in Rows : disk'[f].rows[q] \in Nat
    <2>1. MadeOf /\ MadeOf' /\ MarkerMadeOf /\ job.target \in Files /\ job.entries \subseteq Rows
      BY NextMade, ImportAssumption DEF RowsInv, MadeOf, Job
    <2>2. \A f \in Files, q \in Rows : disk'[f].rows[q] \in Nat
      BY <2>1 DEF MadeOf, Text
    <2>. QED
      BY <2>1, <2>2, StartIsText
  <1>1. recorded' \subseteq Rows
    BY <1>0, MarkerMoves
  <1>2. CASE ~CommitStep
    <2>0. recorded' = recorded
      BY <1>0, <1>2, MarkerMoves
    <2>1. CASE UNCHANGED <<job, at, outcome, commits>>
      <3>1. \A f \in Files : disk'[f].rows = disk[f].rows
        BY <1>0, <1>2, <2>1, WrittenText
      <3>2. \A q \in recorded : Has(disk, q) => Has(disk', q)
        BY <3>1 DEF Has
      <3>. QED
        BY <1>1, <2>0, <2>1, <3>2 DEF RecordedStay
    <2>2. CASE at = "idle" /\ at' = "csv" /\ job'.start = disk
      BY <1>1, <2>0, <2>2 DEF RecordedStay, Begun
    <2>3. CASE at' = "idle" /\ disk' = disk
      <3>1. at' \notin Begun
        BY <2>3 DEF Begun
      <3>2. \A q \in recorded : Has(disk, q)
        BY FoundIsThere DEF RecordedStay
      <3>. QED
        BY <1>1, <2>0, <2>3, <3>1, <3>2 DEF RecordedStay
    <2>. QED
      BY <1>0, <1>2, <2>1, <2>2, <2>3, NotTheCommit
  <1>3. CASE CommitStep
    <2>0. job'.start = job.start
      BY <1>0, <1>3, SameCommit
    <2>1. ASSUME at' \in Begun, NEW q \in recorded' PROVE Has(job.start, q)
      <3>1. at \in Begun /\ at' # "release"
        BY <1>3, <2>1, CommitMoves DEF Begun
      <3>2. recorded' = recorded
        BY <1>0, <1>3, <3>1, MarkerMoves
      <3>. QED
        BY <2>1, <3>1, <3>2 DEF RecordedStay
    <2>2. ASSUME at' \notin Begun, NEW q \in recorded' PROVE Has(disk', q)
      <3>1. CASE q \in recorded /\ at \notin Begun
        <4>1. \A f \in Files : disk'[f].rows = disk[f].rows
          BY <1>3, <3>1, RowsOfAFile DEF Begun
        <4>2. Has(disk, q)
          BY <3>1 DEF RecordedStay
        <4>. QED
          BY <4>1, <4>2 DEF Has
      <3>2. CASE q \in recorded /\ at \in Begun
        <4>1. PICK f \in Files : job.start[f].rows[q] > 0
          BY <3>2 DEF RecordedStay, Has
        <4>2. disk'[f].rows[q] >= job.start[f].rows[q]
          BY <1>3, <3>2, NothingTaken
        <4>3. disk'[f].rows[q] > 0
          BY <1>0, <1>1, <2>2, <4>1, <4>2
        <4>. QED
          BY <4>3 DEF Has
      <3>3. CASE q \notin recorded
        <4>1. q \in job.entries /\ at = "catchup"
          BY <1>0, <2>2, <3>3, MarkerMoves
        <4>2. disk'[job.target].rows = disk[job.target].rows
          BY <1>0, <1>3, <4>1, RowsOfAFile
        <4>3. disk'[job.target].rows[q] = job.start[job.target].rows[q] + 1
          BY <1>0, <4>1, <4>2 DEF RowsInv, RowsOfTheCommit
        <4>4. disk'[job.target].rows[q] > 0
          BY <1>0, <1>1, <2>2, <4>3
        <4>. QED
          BY <1>0, <4>4 DEF Has
      <3>. QED
        BY <3>1, <3>2, <3>3
    <2>. QED
      BY <1>1, <2>0, <2>1, <2>2 DEF RecordedStay
  <1>. QED
    BY <1>2, <1>3

(* A row hledger's marker was moved over, and will not be proposed again, is *)
(* in the journal, however many commits, crashes and other writers there     *)
(* are; it is not true where hledger may move the marker and yet fail.       *)
THEOREM RecordedAreThere ==
    ASSUME "late" \notin Faults
    PROVE  Spec => []RecordedRowsAreThere
  <1>. DEFINE I == RowsInv /\ RecordedStay /\ recorded \subseteq Rows
  <1>1. Init => I
    <2>1. Init => recorded = {}
      BY DEF Init
    <2>. QED
      BY <2>1, InitRows DEF RecordedStay
  <1>2. I /\ [Next]_vars => I'
    <2> SUFFICES ASSUME I, [Next]_vars PROVE I'
      OBVIOUS
    <2>. QED
      BY RowsInvStays, RecordedStays
  <1>3. I => RecordedRowsAreThere
    <2> SUFFICES ASSUME I, NEW r \in recorded PROVE Has(disk, r)
      BY DEF RecordedRowsAreThere
    <2>. QED
      BY FoundIsThere DEF RecordedStay
  <1>. QED
    BY <1>1, <1>2, <1>3, PTL DEF Spec
=============================================================================

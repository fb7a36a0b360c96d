----------------------------- MODULE SiblingWrite -----------------------------
(***************************************************************************)
(* The routes that write one construct of a journal file without the editor *)
(* (account_api, alias_api, auto_api, budget_api, prices_api), and the two   *)
(* that write a file beside the journal (projections_api, rules_api).  Each  *)
(* reads a file, changes the text, and puts it back on the condition that    *)
(* the file is still what was read; the journal writers exclude each other   *)
(* with import_writes, the rules writers with rules_writes, and nothing      *)
(* excludes the transaction editor, other programs or the watcher.           *)
(*                                                                           *)
(* A file's text is what each of its lines says and which files it includes. *)
(***************************************************************************)
EXTENDS Naturals

CONSTANTS
    Requests,            \* browser tabs: each has at most one request under way
    Main, Part, Table, Rules,  \* the main journal; the plan file create_*_file
                         \* makes; a projection; a rules file
    Lines, Values, Blank,      \* the lines of a file and what they may say
    Absent, Nobody,
    Mixes,               \* the routes the tabs of a run belong to
    MaxSaves, MaxOthers  \* bounds of a run: requests; what others do

JournalFiles == {Main, Part, Table, Rules}
AllKinds == {"text", "auto", "budget", "prices", "create", "table", "rules"}

ASSUME SiblingAssumption ==
    /\ Main \notin {Part, Table, Rules} /\ Part \notin {Table, Rules} /\ Table # Rules
    /\ Blank \in Values
    /\ Absent \notin [lines : [Lines -> Values], inc : SUBSET JournalFiles]
    /\ Nobody \notin Requests /\ Mixes \subseteq [Requests -> AllKinds]
    /\ MaxSaves \in Nat /\ MaxOthers \in Nat

VARIABLES
    disk,      \* file -> its text, or Absent
    served,    \* the published snapshot: the files it was parsed from, their text
    bound,     \* an editor is bound; what it read is then what is served
    lock,      \* import_writes and rules_writes: the request holding each
    page,      \* request -> the listing its tab shows, and its revision
    job,       \* request -> the request it is in
    foreign,   \* history: the files changed since the last load by another
               \* program, or as projections
    dice       \* counters, for the bounds

siblingVars == <<disk, served, bound, lock, page, job, foreign, dice>>

FileTexts == [lines : [Lines -> Values], inc : SUBSET {Part, Table}]
Header == [lines |-> [l \in Lines |-> Blank], inc |-> {}]
Locks == {"journal", "rules"}
RequestStages == {"idle", "sent", "read", "create", "replace", "reopen", "answer"}

NoPage(kind) == [kind |-> kind, file |-> Main, shown |-> Header.lines, rev |-> Absent]
NoRequest == [kind |-> "none", at |-> "idle", file |-> Main, line |-> Nobody,
          value |-> Blank, sources |-> {}, base |-> Absent, new |-> Absent, ok |-> FALSE]

PageState == [kind : AllKinds, file : JournalFiles, shown : [Lines -> Values],
              rev : FileTexts \cup {Absent}]
JobState == [kind : AllKinds \cup {"none"}, at : RequestStages, file : JournalFiles,
             line : Lines \cup {Nobody}, value : Values, sources : SUBSET JournalFiles,
             base : FileTexts \cup {Absent}, new : FileTexts \cup {Absent}, ok : BOOLEAN]

SiblingTypeOK ==
    /\ disk \in [JournalFiles -> FileTexts \cup {Absent}]
    /\ served \in [src : SUBSET JournalFiles, text : [JournalFiles -> FileTexts \cup {Absent}]]
    /\ bound \in BOOLEAN
    /\ lock \in [Locks -> Requests \cup {Nobody}]
    /\ page \in [Requests -> PageState] /\ job \in [Requests -> JobState]
    /\ foreign \subseteq JournalFiles
    /\ dice \in [saves : 0 .. MaxSaves, others : 0 .. MaxOthers]

\* The include tree of a disk, and whether it parses: an include of a missing
\* file is an error of the whole journal.
Sources(d) == {Main} \cup d[Main].inc
Loadable(d) == \A f \in Sources(d) : d[f] # Absent
Parsed(d) == [src |-> Sources(d),
              text |-> [f \in JournalFiles |-> IF f \in Sources(d) THEN d[f] ELSE Absent]]

\* Which mutex a route takes, and which routes write a file of the journal.
LockOf(kind) == IF kind = "rules" THEN "rules" ELSE "journal"
OfJournal(kind) == kind \notin {"table", "rules"}

SiblingInit ==
    /\ disk \in [JournalFiles -> {Header, Absent}]
    /\ disk[Main] = Header /\ disk[Table] = Header /\ disk[Part] = Absent
    /\ disk[Rules] = Header
    /\ served = Parsed(disk) /\ bound = TRUE
    /\ lock = [l \in Locks |-> Nobody]
    /\ \E mix \in Mixes : page = [r \in Requests |-> NoPage(mix[r])]
    /\ job = [r \in Requests |-> NoRequest]
    /\ foreign = {}
    /\ dice = [saves |-> 0, others |-> 0]

-----------------------------------------------------------------------------
(* Everybody else.                                                           *)

\* Another program writes a line of a file, or takes an existing file into the
\* journal or out of it.
OthersWrite(f) ==
    /\ dice.others < MaxOthers /\ disk[f] # Absent
    /\ \/ \E l \in Lines, v \in Values :
            disk' = [disk EXCEPT ![f].lines[l] = v]
       \/ /\ f = Main
          /\ \E g \in {Part, Table} :
               /\ disk[g] # Absent
               /\ disk' = [disk EXCEPT ![f].inc = (@ \ {g}) \cup ({g} \ @)]
    /\ disk' # disk
    /\ foreign' = foreign \cup {f}
    /\ dice' = [dice EXCEPT !.others = @ + 1]
    /\ UNCHANGED <<served, bound, lock, page, job>>

\* Another program makes the file a route was about to create.
OthersCreate ==
    /\ dice.others < MaxOthers /\ disk[Part] = Absent
    /\ disk' = [disk EXCEPT ![Part] = Header]
    /\ foreign' = foreign \cup {Part}
    /\ dice' = [dice EXCEPT !.others = @ + 1]
    /\ UNCHANGED <<served, bound, lock, page, job>>

\* AppState::reopen_editor, under the editor mutex: the journal is read again
\* and published, or the editor is given up and the snapshot kept.  Without an
\* editor there is nothing to reopen.
ReopenEditor ==
    IF ~bound THEN UNCHANGED <<served, bound, foreign>>
    ELSE /\ bound' = Loadable(disk)
         /\ served' = IF Loadable(disk) THEN Parsed(disk) ELSE served
         /\ foreign' = IF Loadable(disk) THEN {} ELSE foreign

\* AppState::reload, for the watcher: reopen the editor, or without one parse
\* the journal.
WatcherReloads ==
    /\ \/ bound /\ ReopenEditor
       \/ /\ ~bound /\ Loadable(disk)
          /\ served' = Parsed(disk) /\ foreign' = {} /\ UNCHANGED bound
    /\ <<served', bound'>> # <<served, bound>>
    /\ UNCHANGED <<disk, lock, page, job, dice>>

\* A transaction edit (AppState models its steps): it lands only on a file
\* that is still as the editor read it, and publishes.
EditorSaves(f, l, v) ==
    /\ bound /\ f \in served.src /\ dice.others < MaxOthers
    /\ disk[f] = served.text[f] /\ disk[f].lines[l] # v
    /\ disk' = [disk EXCEPT ![f].lines[l] = v]
    /\ served' = [served EXCEPT !.text[f].lines[l] = v]
    /\ dice' = [dice EXCEPT !.others = @ + 1]
    /\ UNCHANGED <<bound, lock, page, job, foreign>>

\* The process dies and is started again on a journal that parses.  Tabs keep
\* what they show.
ServerRestarts ==
    /\ dice.others < MaxOthers /\ Loadable(disk)
    /\ served' = Parsed(disk) /\ bound' = TRUE /\ foreign' = {}
    /\ lock' = [l \in Locks |-> Nobody]
    /\ job' = [r \in Requests |-> NoRequest]
    /\ dice' = [dice EXCEPT !.others = @ + 1]
    /\ UNCHANGED <<disk, page>>

-----------------------------------------------------------------------------
(* The routes.                                                               *)

\* Where a listing's lines come from.  Account and alias lines, a rules file
\* and a projection are parsed from the bytes just read, whose fingerprint is
\* the revision.  The `=` rules (auto_api) and the goals (budget_api) are those
\* of the published snapshot, under the fingerprint of the bytes on disk now.
Shown(kind, f) ==
    IF kind \in {"auto", "budget"} THEN served.text[f].lines ELSE disk[f].lines

Listed(kind) ==
    CASE kind \in {"text", "auto", "budget"} -> served.src
      [] kind = "table" -> {Main, Part, Table}
      [] kind = "rules" -> {Rules}
      [] OTHER -> {}

\* GET: a tab shows a file.
ListLines(r, f) ==
    /\ job[r].at = "idle"
    /\ f \in Listed(page[r].kind) /\ disk[f] # Absent
    /\ page' = [page EXCEPT ![r].file = f, ![r].shown = Shown(page[r].kind, f),
                            ![r].rev = disk[f]]
    /\ page' # page
    /\ UNCHANGED <<disk, served, bound, lock, job, foreign, dice>>

\* PUT of one line of the file the tab shows; the update of prices and the
\* creation of a file need no listing, and a projection saved without a revision
\* is a new one.  The projections route takes the files of the journal from the
\* snapshot here, before it waits for the mutex.
SendSave(r, f, l, v) ==
    LET kind == page[r].kind
    IN /\ job[r].at = "idle" /\ dice.saves < MaxSaves
       /\ \/ kind = "prices" /\ f \in served.src
          \/ kind = "create" /\ f = Main
          \/ kind = "table" /\ page[r].rev = Absent /\ f \in {Part, Table}
          \/ kind \notin {"prices", "create"} /\ page[r].rev # Absent /\ f = page[r].file
       /\ job' = [job EXCEPT ![r] =
            [NoRequest EXCEPT !.kind = kind, !.at = "sent", !.file = f, !.line = l,
                              !.value = v,
                              !.sources = IF kind = "table" THEN served.src ELSE {}]]
       /\ dice' = [dice EXCEPT !.saves = @ + 1]
       /\ UNCHANGED <<disk, served, bound, lock, page, foreign>>

TakeMutex(r) ==
    /\ job[r].at = "sent" /\ lock[LockOf(job[r].kind)] = Nobody
    /\ lock' = [lock EXCEPT ![LockOf(job[r].kind)] = r]
    /\ job' = [job EXCEPT ![r].at = "read"]
    /\ UNCHANGED <<disk, served, bound, page, foreign, dice>>

\* A request that is refused, and one whose text would come out as it is, go
\* straight to their answer: they write nothing.
GivesUp(r) == job' = [job EXCEPT ![r].at = "answer"]

\* The save makes its file (create_scenario).
Fresh(r) == job[r].kind = "table" /\ page[r].rev = Absent

\* The file is one the route may write: an update's is there and is of the
\* journal, or for a projection is not; a new one's is not there.
Writable(r) ==
    LET f == job[r].file
    IN /\ (disk[f] = Absent) = Fresh(r)
       /\ OfJournal(job[r].kind) => f \in served.src
       /\ job[r].kind = "table" /\ ~Fresh(r) => f \notin job[r].sources

\* The revision the tab echoes is that of the bytes just read; the `=` rules
\* compare what the tab showed for the line as well, against those bytes.
UpToDate(r) ==
    /\ job[r].kind # "prices" => disk[job[r].file] = page[r].rev
    /\ job[r].kind = "auto" =>
         disk[job[r].file].lines[job[r].line] = page[r].shown[job[r].line]

\* A price is only ever appended: a line that is there stays as it is.
ChangedText(r) ==
    LET text == IF Fresh(r) THEN Header ELSE disk[job[r].file]
    IN IF job[r].kind = "prices" /\ text.lines[job[r].line] # Blank THEN text
       ELSE [text EXCEPT !.lines[job[r].line] = job[r].value]

\* save_accounts, save_aliases, save_rule, save_budget, plan_update,
\* update_scenario, save_document up to the write: resolve the file, read it
\* pinned, check the revision, make the new text and prove that the whole
\* journal still parses with it.
ReadAndPlan(r) ==
    /\ job[r].at = "read" /\ job[r].kind # "create"
    /\ IF Writable(r) /\ UpToDate(r) /\ ChangedText(r) # disk[job[r].file]
         /\ (OfJournal(job[r].kind) => Loadable(disk))
       THEN job' = [job EXCEPT ![r].at = "replace", ![r].base = disk[job[r].file],
                               ![r].new = ChangedText(r)]
       ELSE GivesUp(r)
    /\ UNCHANGED <<disk, served, bound, lock, page, foreign, dice>>

\* can_create and the start of create_*_file: the journal has no such file, the
\* name is free, the main journal is read pinned and both texts parse.
PlanFile(r) ==
    /\ job[r].at = "read" /\ job[r].kind = "create"
    /\ IF /\ Part \notin served.src /\ disk[Part] = Absent
          /\ Loadable([disk EXCEPT ![Part] = Header])
       THEN job' = [job EXCEPT ![r].at = "create", ![r].base = disk[Main],
                               ![r].new = [disk[Main] EXCEPT !.inc = @ \cup {Part}]]
       ELSE GivesUp(r)
    /\ UNCHANGED <<disk, served, bound, lock, page, foreign, dice>>

\* Wrong: the main journal is written before the file it is to include.
IncludeFirst(r) ==
    /\ job[r].at = "create"
    /\ IF disk[Main] = job[r].base
       THEN /\ disk' = [disk EXCEPT ![Main] = job[r].new]
            /\ job' = [job EXCEPT ![r].at = "replace", ![r].base = Absent,
                                  ![r].file = Part, ![r].new = Header]
       ELSE GivesUp(r) /\ UNCHANGED disk
    /\ UNCHANGED <<served, bound, lock, page, foreign, dice>>

\* Vault::create_new: the kernel refuses a name that is taken.
CreateFile(r) ==
    /\ job[r].at = "create"
    /\ \/ /\ disk[Part] = Absent
          /\ disk' = [disk EXCEPT ![Part] = Header]
          /\ job' = [job EXCEPT ![r].at = "replace"]
       \/ GivesUp(r) /\ UNCHANGED disk
    /\ UNCHANGED <<served, bound, lock, page, foreign, dice>>

\* Wrong: the write is unconditional.
ReplaceBlindly(r) ==
    /\ job[r].at = "replace"
    /\ disk' = [disk EXCEPT ![job[r].file] = job[r].new]
    /\ job' = [job EXCEPT ![r].at = IF OfJournal(job[r].kind) THEN "reopen" ELSE "answer",
                          ![r].ok = TRUE]
    /\ UNCHANGED <<served, bound, lock, page, foreign, dice>>

\* Vault::replace (PinnedReplace models its steps): the file is written if it
\* is still what was read; the write may also fail.  A file beside the journal
\* is answered at once: the journal, which does not include it, cannot have
\* changed.
ReplaceFile(r) ==
    LET f == job[r].file
    IN /\ job[r].at = "replace"
       /\ \/ /\ disk[f] = job[r].base
             /\ disk' = [disk EXCEPT ![f] = job[r].new]
             /\ foreign' = foreign \cup (IF job[r].kind = "table" THEN {f} ELSE {})
             /\ job' = [job EXCEPT
                  ![r].at = IF OfJournal(job[r].kind) THEN "reopen" ELSE "answer",
                  ![r].ok = TRUE]
          \/ GivesUp(r) /\ UNCHANGED <<disk, foreign>>
       /\ UNCHANGED <<served, bound, lock, page, dice>>

\* Wrong: the writer leaves the editor as it was.
ReopenForgotten(r) ==
    /\ job[r].at = "reopen" /\ job' = [job EXCEPT ![r].at = "answer"]
    /\ UNCHANGED <<disk, served, bound, lock, page, foreign, dice>>

\* Wrong: the reload waits for the mutex its own request holds.
ReopenLocked(r) ==
    /\ job[r].at = "reopen" /\ lock["journal"] = Nobody
    /\ ReopenEditor
    /\ job' = [job EXCEPT ![r].at = "answer"]
    /\ UNCHANGED <<disk, lock, page, dice>>

\* Every writer of the journal has the editor read it again before it answers.
ReopenAfterWrite(r) ==
    /\ job[r].at = "reopen"
    /\ ReopenEditor
    /\ job' = [job EXCEPT ![r].at = "answer"]
    /\ UNCHANGED <<disk, lock, page, dice>>

\* The answer.  The revision is that of the text written, never of a re-read;
\* the listing of the `=` rules is made anew, and the numbers of the goals are
\* those of the snapshot there is by now.
AnswerAndRelease(r) ==
    LET f == job[r].file
        kind == job[r].kind
    IN /\ job[r].at = "answer"
       /\ page' = [page EXCEPT ![r] =
            IF ~job[r].ok \/ kind \in {"prices", "create"} THEN NoPage(kind)
            ELSE [kind |-> kind, file |-> f,
                  shown |-> IF kind \in {"auto", "budget"} /\ f \in served.src
                            THEN served.text[f].lines ELSE job[r].new.lines,
                  rev |-> IF kind = "auto" THEN disk[f] ELSE job[r].new]]
       /\ job' = [job EXCEPT ![r] = NoRequest]
       /\ lock' = [lock EXCEPT ![LockOf(kind)] = Nobody]
       /\ UNCHANGED <<disk, served, bound, foreign, dice>>

SiblingStep(r) == \/ TakeMutex(r) \/ ReadAndPlan(r) \/ PlanFile(r) \/ CreateFile(r)
           \/ ReplaceFile(r) \/ ReopenAfterWrite(r) \/ AnswerAndRelease(r)

SiblingNext ==
    \/ \E f \in JournalFiles : OthersWrite(f)
    \/ OthersCreate \/ WatcherReloads \/ ServerRestarts
    \/ \E f \in JournalFiles, l \in Lines, v \in Values : EditorSaves(f, l, v)
    \/ \E r \in Requests, f \in JournalFiles : ListLines(r, f)
    \/ \E r \in Requests, f \in JournalFiles, l \in Lines, v \in Values : SendSave(r, f, l, v)
    \/ \E r \in Requests : SiblingStep(r)

\* A route runs to its answer unless the process dies; tokio mutexes are fair,
\* so a waiting request gets the mutex.  Tabs, programs, the watcher and the user
\* owe nothing.
SiblingFairness ==
    \A r \in Requests :
        /\ SF_siblingVars(TakeMutex(r))
        /\ WF_siblingVars(SiblingStep(r))

SiblingSpec == SiblingInit /\ [][SiblingNext]_siblingVars /\ SiblingFairness

-----------------------------------------------------------------------------
(* Properties.                                                               *)

\* Whatever interleaves, a write changes the requested line of the file as it is
\* on disk at that instant and no other, and the line said what the tab showed
\* (for prices and a new include: nothing that was there is lost).
ReplaceKeepsOthers(r) ==
    LET f == job[r].file
        old == IF Fresh(r) THEN Header ELSE disk[f]
    IN /\ Fresh(r) => disk[f] = Absent
       /\ disk'[f].inc = old.inc \cup (IF job[r].kind = "create" THEN {Part} ELSE {})
       /\ \A l \in Lines : disk'[f].lines[l] # old.lines[l] =>
            /\ l = job[r].line /\ disk'[f].lines[l] = job[r].value
            /\ IF job[r].kind = "prices" THEN old.lines[l] = Blank
               ELSE old.lines[l] = page[r].shown[l]

Written(r) == job[r].at = "replace" /\ job'[r].ok

\* A saved line replaces the line the tab showed, in the file as it is when it
\* is written (account_api, alias_api, auto_api, prices_api, projections_api,
\* rules_api, create_*_file).
ChangesWhatWasShown ==
    [][\A r \in Requests : Written(r) /\ job[r].kind # "budget" => ReplaceKeepsOthers(r)]_siblingVars

\* budget_api: "a client editing an older parse is told the file moved rather
\* than having it overwritten".
GoalsChangeWhatWasShown ==
    [][\A r \in Requests : Written(r) /\ job[r].kind = "budget" => ReplaceKeepsOthers(r)]_siblingVars

\* projections_api: a projection is never saved over a plan of record.
ProjectionsStayBeside ==
    [][\A r \in Requests : Written(r) /\ job[r].kind = "table" => job[r].file \notin served.src]_siblingVars

\* A journal never comes to include a file that is not there, also when the
\* process dies between the two writes of create_*_file.
IncludeHasItsFile == Part \in disk[Main].inc => disk[Part] # Absent

\* When no writer is under way, a file the editor holds and nobody else changed
\* since it read it is the file on disk: the writers that go round the editor
\* leave it no stale text to save.
EditorKnowsItsDisk ==
    lock["journal"] = Nobody /\ bound =>
        \A f \in served.src \ foreign : served.text[f] = disk[f]

\* Every save is answered, whatever is refused, fails or dies on the way.
WritersEnd == \A r \in Requests : job[r].at # "idle" ~> job[r].at = "idle"

=============================================================================

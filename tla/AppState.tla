------------------------------ MODULE AppState ------------------------------
(***************************************************************************)
(* The write path of the ledgeline server: one JournalEditor behind a      *)
(* mutex, the snapshot every read is served from, and the files on disk    *)
(* that anybody else may write (ledgeline-server lib.rs, edit_api.rs and   *)
(* ledgeline-core edit.rs).                                                *)
(*                                                                         *)
(* A journal is a set of files; a file's text is the set of marks (edits)  *)
(* it shows.  An edit toggles marks: adding, deleting and rewriting a      *)
(* transaction are one-file edits, a batch is a many-file edit.  A         *)
(* conditional write (Vault::replace) is one atomic step here; its own     *)
(* steps are module PinnedReplace.                                         *)
(***************************************************************************)
EXTENDS Naturals, FiniteSets

CONSTANTS
    Journals,      \* the journals File>Open can bind
    Home,          \* the journal bound at start
    Files,         \* the files of a journal: the main one and its includes
    Main,          \* the main file, read first
    Marks,         \* what an edit adds to or takes from a file's text
    Inodes,        \* file identities (dev, ino); an inode number is reused
    Threads,       \* request handlers, the watcher, the window's event loop
    NoThread,
    Requests,      \* the kinds of request the threads of a run make
    MaxRequests, MaxExternal, MaxPanics   \* bounds of a run

ASSUME AppStateAssumption ==
    /\ Home \in Journals /\ Main \in Files
    /\ NoThread \notin Threads
    /\ Inodes # {} /\ \A i \in Inodes : \E other \in Inodes : other # i
    /\ MaxRequests \in Nat /\ MaxExternal \in Nat /\ MaxPanics \in Nat

VARIABLES
    disk,          \* what the vault holds: journal -> file -> Revision
    bound,         \* is an editor bound (the mutex's Some/None)
    editor,        \* the JournalEditor behind the mutex
    snapshot,      \* the published Snapshot
    lock,          \* who holds the editor mutex
    poisoned,      \* did a holder of the mutex panic
    pc, task,      \* where each thread is, and what it carries
    requests, external, panics,           \* counters, for the bounds
    onDisk,        \* history: every text a file has ever had
    wrote          \* history: the files this request has written so far

vars == <<disk, bound, editor, snapshot, lock, poisoned, pc, task,
          requests, external, panics, onDisk, wrote>>

budget == <<requests, external, panics>>

Text == SUBSET Marks
Revision == [text : Text, ino : Inodes, readable : BOOLEAN]
Edits == SUBSET (Files \X Marks)
Editor == [home : Journals, rope : [Files -> Text],
           rev : [Files -> Revision], dirty : SUBSET Files]
Snapshot == [home : Journals, text : [Files -> Text], location : Journals]

(* Labels.  The ones in Locked are inside the editor mutex. *)
Reading  == {"open", "reopen", "reparse", "recover", "resync"}
Locked   == {"reopen", "recover", "resync", "apply", "check", "write",
             "locate", "store"}
Unlocked == {"idle", "open", "bind", "reparse", "locateFree", "storeFree"}
Label    == Locked \cup Unlocked
Reason   == {"saved", "resynced", "recovered", "conf", "reparsed", "none"}

Task == [edits : Edits, todo : Edits, whole : BOOLEAN, home : Journals,
         read : [Files -> Revision], left : SUBSET Files,
         view : Snapshot, why : Reason]

-----------------------------------------------------------------------------
(* Revision::matches: the fingerprint and the identity the reader recorded. *)
Matches(expected, current) ==
    /\ current.readable
    /\ expected.text = current.text /\ expected.ino = current.ino

Toggle(texts, edits) ==
    [f \in Files |->
        LET named == {m \in Marks : <<f, m>> \in edits}
        IN  (texts[f] \ named) \cup (named \ texts[f])]

Touched(edits) == {f \in Files : \E m \in Marks : <<f, m>> \in edits}

(* What an editor opened from these reads is, and the journal it parses to. *)
Opened(home, read) ==
    [home |-> home, rope |-> [f \in Files |-> read[f].text],
     rev |-> read, dirty |-> {}]

EditorView(location) ==
    [home |-> editor.home, text |-> editor.rope, location |-> location]

ReadView(t, location) ==
    [home |-> task[t].home, text |-> [f \in Files |-> task[t].read[f].text],
     location |-> location]

Blank == [text |-> {}, ino |-> CHOOSE ino \in Inodes : TRUE, readable |-> TRUE]

IdleTask ==
    [edits |-> {}, todo |-> {}, whole |-> TRUE, home |-> Home,
     read |-> [f \in Files |-> Blank], left |-> {}, why |-> "none",
     view |-> [home |-> Home, text |-> [f \in Files |-> {}], location |-> Home]]

(* Begin reading the files of journal home. *)
StartReading(t, home, label) ==
    /\ pc' = [pc EXCEPT ![t] = label]
    /\ task' = [task EXCEPT ![t] = [@ EXCEPT !.home = home, !.left = Files]]

Goto(t, label) == pc' = [pc EXCEPT ![t] = label]

(* Leave the critical section and the request. *)
Return(t) ==
    /\ lock' = NoThread
    /\ Goto(t, "idle")
    /\ task' = [task EXCEPT ![t] = IdleTask]
    /\ wrote' = {}

Asks(t, kind) ==
    /\ pc[t] = "idle"
    /\ kind \in Requests
    /\ requests < MaxRequests
    /\ requests' = requests + 1

Init ==
    /\ disk = [j \in Journals |-> [f \in Files |-> Blank]]
    /\ bound = TRUE
    /\ editor = Opened(Home, disk[Home])
    /\ snapshot = IdleTask.view
    /\ lock = NoThread /\ poisoned = FALSE
    /\ pc = [t \in Threads |-> "idle"]
    /\ task = [t \in Threads |-> IdleTask]
    /\ requests = 0 /\ external = 0 /\ panics = 0
    /\ onDisk = [j \in Journals |-> [f \in Files |-> {{}}]]
    /\ wrote = {}

-----------------------------------------------------------------------------
(* Reading a journal: its files one by one, the main file first. *)

ReadFile(t, f) ==
    LET found == disk[task[t].home][f] IN
    /\ pc[t] \in Reading
    /\ f \in task[t].left
    /\ f = Main \/ Main \notin task[t].left
    /\ found.readable
    /\ task' = [task EXCEPT ![t] =
                    [@ EXCEPT !.read = [task[t].read EXCEPT ![f] = found],
                              !.left = task[t].left \ {f}]]
    /\ UNCHANGED <<disk, bound, editor, snapshot, lock, poisoned, pc,
                   budget, onDisk, wrote>>

(* A file is gone or does not parse.  A read under the mutex unbinds the     *)
(* editor; one outside it changes nothing.  Only lock_editor's recovery also *)
(* clears the poison flag.                                                   *)
ReadFails(t, f) ==
    /\ pc[t] \in Reading
    /\ f \in task[t].left
    /\ f = Main \/ Main \notin task[t].left
    /\ ~disk[task[t].home][f].readable
    /\ Goto(t, "idle")
    /\ task' = [task EXCEPT ![t] = IdleTask]
    /\ IF pc[t] \in Locked
       THEN bound' = FALSE /\ lock' = NoThread /\ wrote' = {}
       ELSE UNCHANGED <<bound, lock, wrote>>
    /\ poisoned' = (poisoned /\ pc[t] # "recover")
    /\ UNCHANGED <<disk, editor, snapshot, budget, onDisk>>

-----------------------------------------------------------------------------
(* Edits: lock_editor, the editor's operation, save, publish. *)

(* lock_editor on a healthy mutex, and the handler's bound(). *)
Edit(t, edits, whole) ==
    /\ Asks(t, "edit")
    /\ whole \/ edits # {}
    /\ lock = NoThread /\ ~poisoned /\ bound
    /\ lock' = t
    /\ Goto(t, "apply")
    /\ task' = [task EXCEPT ![t] =
                    [@ EXCEPT !.edits = edits, !.todo = edits, !.whole = whole]]
    /\ UNCHANGED <<disk, bound, editor, snapshot, poisoned, external, panics,
                   onDisk, wrote>>

(* lock_editor on a poisoned one: the editor is re-opened before the edit. *)
EditRecovers(t, edits, whole) ==
    /\ Asks(t, "edit")
    /\ whole \/ edits # {}
    /\ lock = NoThread /\ poisoned /\ bound
    /\ lock' = t
    /\ pc' = [pc EXCEPT ![t] = "recover"]
    /\ task' = [task EXCEPT ![t] =
                    [@ EXCEPT !.edits = edits, !.todo = edits, !.whole = whole,
                              !.home = editor.home, !.left = Files]]
    /\ UNCHANGED <<disk, bound, editor, snapshot, poisoned, external, panics,
                   onDisk, wrote>>

(* Editing is disabled (501); lock_editor has cleared the flag all the same. *)
EditDisabled(t) ==
    /\ Asks(t, "edit")
    /\ lock = NoThread /\ ~bound
    /\ poisoned' = FALSE
    /\ UNCHANGED <<disk, bound, editor, snapshot, lock, pc, task, external,
                   panics, onDisk, wrote>>

(* What save does next with these dirty files: check them, or, with none, *)
(* nothing at all.                                                        *)
ToSave(t, dirty) ==
    /\ Goto(t, IF dirty = {} THEN "locate" ELSE "check")
    /\ task' = [task EXCEPT ![t] =
                    [@ EXCEPT !.todo = {}, !.left = dirty, !.why = "saved"]]

(* add, delete, replace and batch: one validated change or none. *)
ApplyWhole(t) ==
    LET dirty == Touched(task[t].todo) IN
    /\ pc[t] = "apply" /\ task[t].whole
    /\ editor' = [editor EXCEPT !.rope = Toggle(@, task[t].todo),
                                !.dirty = @ \cup dirty]
    /\ ToSave(t, editor.dirty \cup dirty)
    /\ UNCHANGED <<disk, bound, snapshot, lock, poisoned, budget, onDisk, wrote>>

(* ... and none: the editor is untouched, so nothing is re-read. *)
ApplyRefused(t) ==
    /\ pc[t] = "apply" /\ task[t].whole
    /\ Return(t)
    /\ UNCHANGED <<disk, bound, editor, snapshot, poisoned, budget, onDisk>>

(* apply_patch and apply_statuses: one operation after another. *)
ApplyNext(t, edit) ==
    /\ pc[t] = "apply" /\ ~task[t].whole
    /\ edit \in task[t].todo
    /\ editor' = [editor EXCEPT !.rope = Toggle(@, {edit}),
                                !.dirty = @ \cup {edit[1]}]
    /\ task' = [task EXCEPT ![t] = [@ EXCEPT !.todo = task[t].todo \ {edit}]]
    /\ UNCHANGED <<disk, bound, snapshot, lock, poisoned, pc, budget, onDisk,
                   wrote>>

ApplyDone(t) ==
    /\ pc[t] = "apply" /\ ~task[t].whole
    /\ task[t].todo = {}
    /\ ToSave(t, editor.dirty)
    /\ UNCHANGED <<disk, bound, editor, snapshot, lock, poisoned, budget,
                   onDisk, wrote>>

(* A mistake: give up with the earlier operations left in the ropes. *)
ApplyFailsKeepingRopes(t) ==
    /\ pc[t] = "apply" /\ ~task[t].whole
    /\ task[t].todo # {}
    /\ Return(t)
    /\ UNCHANGED <<disk, bound, editor, snapshot, poisoned, budget, onDisk>>

(* One of them fails, with others already in the ropes: re-read from disk. *)
ApplyFails(t) ==
    /\ pc[t] = "apply" /\ ~task[t].whole
    /\ task[t].todo # {}
    /\ StartReading(t, editor.home, "resync")
    /\ UNCHANGED <<disk, bound, editor, snapshot, lock, poisoned, budget,
                   onDisk, wrote>>

-----------------------------------------------------------------------------
(* save: check every dirty file, then write them one by one. *)

(* A mistake: pass 2 takes over the emptied list of pass 1. *)
CheckFileForgettingDirty(t, f) ==
    /\ pc[t] = "check" /\ f \in task[t].left
    /\ Matches(editor.rev[f], disk[editor.home][f])
    /\ Goto(t, IF task[t].left = {f} THEN "write" ELSE "check")
    /\ task' = [task EXCEPT ![t] = [@ EXCEPT !.left = task[t].left \ {f}]]
    /\ UNCHANGED <<disk, bound, editor, snapshot, lock, poisoned, budget,
                   onDisk, wrote>>

(* Pass 1; the last file that passes starts pass 2. *)
CheckFile(t, f) ==
    /\ pc[t] = "check" /\ f \in task[t].left
    /\ Matches(editor.rev[f], disk[editor.home][f])
    /\ Goto(t, IF task[t].left = {f} THEN "write" ELSE "check")
    /\ task' = [task EXCEPT ![t] =
                    [@ EXCEPT !.left = IF task[t].left = {f} THEN editor.dirty
                                       ELSE task[t].left \ {f}]]
    /\ UNCHANGED <<disk, bound, editor, snapshot, lock, poisoned, budget,
                   onDisk, wrote>>

(* ExternalChange, or the file cannot be read: nothing is written. *)
CheckRefuses(t, f) ==
    /\ pc[t] = "check" /\ f \in task[t].left
    /\ ~Matches(editor.rev[f], disk[editor.home][f])
    /\ StartReading(t, editor.home, "resync")
    /\ UNCHANGED <<disk, bound, editor, snapshot, lock, poisoned, budget,
                   onDisk, wrote>>

(* Mistakes: an unconditional write; the file left dirty. *)
WriteFileUnchecked(t, f) ==
    LET home == editor.home IN
    /\ pc[t] = "write" /\ f \in task[t].left
    /\ \E ino \in Inodes \ {disk[home][f].ino} :
         LET written == [text |-> editor.rope[f], ino |-> ino, readable |-> TRUE]
         IN  /\ disk' = [disk EXCEPT ![home][f] = written]
             /\ editor' = [editor EXCEPT !.rev[f] = written,
                                         !.dirty = @ \ {f}]
    /\ onDisk' = [onDisk EXCEPT ![home][f] = @ \cup {editor.rope[f]}]
    /\ wrote' = wrote \cup {f}
    /\ Goto(t, IF task[t].left = {f} THEN "locate" ELSE "write")
    /\ task' = [task EXCEPT ![t] = [@ EXCEPT !.left = task[t].left \ {f}]]
    /\ UNCHANGED <<bound, snapshot, lock, poisoned, budget>>

(* Pass 2: the conditional write puts a new file at the name, and the editor *)
(* takes the revision of what it put there.                                  *)
WriteFile(t, f) ==
    LET home == editor.home IN
    /\ pc[t] = "write" /\ f \in task[t].left
    /\ Matches(editor.rev[f], disk[home][f])
    /\ \E ino \in Inodes \ {disk[home][f].ino} :
         LET written == [text |-> editor.rope[f], ino |-> ino, readable |-> TRUE]
         IN  /\ disk' = [disk EXCEPT ![home][f] = written]
             /\ editor' = [editor EXCEPT !.rev[f] = written,
                                         !.dirty = @ \ {f}]
    /\ onDisk' = [onDisk EXCEPT ![home][f] = @ \cup {editor.rope[f]}]
    /\ wrote' = wrote \cup {f}
    /\ Goto(t, IF task[t].left = {f} THEN "locate" ELSE "write")
    /\ task' = [task EXCEPT ![t] = [@ EXCEPT !.left = task[t].left \ {f}]]
    /\ UNCHANGED <<bound, snapshot, lock, poisoned, budget>>

(* Changed, or an I/O error: nothing is written here, and what was written *)
(* before it stays written.                                                *)
WriteFails(t, f) ==
    /\ pc[t] = "write" /\ f \in task[t].left
    /\ StartReading(t, editor.home, "resync")
    /\ UNCHANGED <<disk, bound, editor, snapshot, lock, poisoned, budget,
                   onDisk, wrote>>

-----------------------------------------------------------------------------
(* Publishing: replace_journal reads the location of the snapshot in place, *)
(* builds the new one, and stores it.                                       *)

(* resync_from_disk and lock_editor's recovery, once every file is read. *)
ReadDone(t) ==
    /\ pc[t] \in {"resync", "recover", "reparse"} /\ task[t].left = {}
    /\ Goto(t, IF pc[t] = "reparse" THEN "locateFree" ELSE "locate")
    /\ task' = [task EXCEPT ![t] =
                    [@ EXCEPT !.why = CASE pc[t] = "resync"  -> "resynced"
                                        [] pc[t] = "recover" -> "recovered"
                                        [] pc[t] = "reparse" -> "reparsed"]]
    /\ UNCHANGED <<disk, bound, editor, snapshot, lock, poisoned, budget,
                   onDisk, wrote>>

(* A mistake: publish the failed edit as though it had been saved (DL-5). *)
LocateFailedEdit(t) ==
    /\ pc[t] \in {"locate", "locateFree"}
    /\ Goto(t, IF pc[t] = "locate" THEN "store" ELSE "storeFree")
    /\ task' = [task EXCEPT ![t] =
                    [@ EXCEPT !.view = EditorView(snapshot.location)]]
    /\ UNCHANGED <<disk, bound, editor, snapshot, lock, poisoned, budget,
                   onDisk, wrote>>

Locate(t) ==
    /\ pc[t] \in {"locate", "locateFree"}
    /\ Goto(t, IF pc[t] = "locate" THEN "store" ELSE "storeFree")
    /\ task' = [task EXCEPT ![t] =
                    [@ EXCEPT !.view =
                        IF task[t].why = "saved" THEN EditorView(snapshot.location)
                        ELSE ReadView(t, snapshot.location)]]
    /\ UNCHANGED <<disk, bound, editor, snapshot, lock, poisoned, budget,
                   onDisk, wrote>>

(* The edit is on disk and served, or the config change is: answered. *)
Store(t) ==
    /\ pc[t] = "store" /\ task[t].why \in {"saved", "conf"}
    /\ snapshot' = task[t].view
    /\ Return(t)
    /\ UNCHANGED <<disk, bound, editor, poisoned, budget, onDisk>>

(* A mistake: publish what was read back, keep the editor with the failed edit. *)
StoreResyncedKeepingEditor(t) ==
    /\ pc[t] = "store" /\ task[t].why = "resynced"
    /\ snapshot' = task[t].view
    /\ Return(t)
    /\ UNCHANGED <<disk, bound, editor, poisoned, budget, onDisk>>

(* The failed edit is forgotten: the slot takes what was read back. *)
StoreResynced(t) ==
    /\ pc[t] = "store" /\ task[t].why = "resynced"
    /\ snapshot' = task[t].view
    /\ editor' = Opened(task[t].home, task[t].read)
    /\ Return(t)
    /\ UNCHANGED <<disk, bound, poisoned, budget, onDisk>>

(* Recovered from poison: the edit that found it goes on. *)
StoreRecovered(t) ==
    /\ pc[t] = "store" /\ task[t].why = "recovered"
    /\ snapshot' = task[t].view
    /\ editor' = Opened(task[t].home, task[t].read)
    /\ poisoned' = FALSE
    /\ Goto(t, "apply")
    /\ task' = [task EXCEPT ![t] = [@ EXCEPT !.why = "none"]]
    /\ UNCHANGED <<disk, bound, lock, budget, onDisk, wrote>>

StoreReparsed(t) ==
    /\ pc[t] = "storeFree"
    /\ snapshot' = task[t].view
    /\ Goto(t, "idle")
    /\ task' = [task EXCEPT ![t] = IdleTask]
    /\ UNCHANGED <<disk, bound, editor, lock, poisoned, budget, onDisk, wrote>>

-----------------------------------------------------------------------------
(* Reloads: the watcher's, a poll's, the one after an import. *)

Reload(t) ==
    /\ Asks(t, "reload")
    /\ lock = NoThread /\ bound
    /\ lock' = t
    /\ StartReading(t, editor.home, "reopen")
    /\ UNCHANGED <<disk, bound, editor, snapshot, poisoned, external, panics,
                   onDisk, wrote>>

(* A mistake: swap the editor in and leave the snapshot. *)
ReopenedUnpublished(t) ==
    /\ pc[t] = "reopen" /\ task[t].left = {}
    /\ editor' = Opened(task[t].home, task[t].read)
    /\ poisoned' = FALSE
    /\ Return(t)
    /\ UNCHANGED <<disk, bound, snapshot, budget, onDisk>>

(* reopen_editor stores with the re-opened editor's own location. *)
Reopened(t) ==
    /\ pc[t] = "reopen" /\ task[t].left = {}
    /\ snapshot' = ReadView(t, task[t].home)
    /\ editor' = Opened(task[t].home, task[t].read)
    /\ poisoned' = FALSE
    /\ Return(t)
    /\ UNCHANGED <<disk, bound, budget, onDisk>>

(* With no editor, the journal is reparsed outside the mutex. *)
ReloadUnbound(t) ==
    /\ Asks(t, "reload")
    /\ lock = NoThread /\ ~bound
    /\ StartReading(t, snapshot.location, "reparse")
    /\ UNCHANGED <<disk, bound, editor, snapshot, lock, poisoned, external,
                   panics, onDisk, wrote>>

(* A change of hledger.conf: the same journal again, under the mutex (whose *)
(* poison flag republish_with_conf looks past).                             *)
Republish(t) ==
    /\ Asks(t, "conf")
    /\ lock = NoThread
    /\ lock' = t
    /\ Goto(t, "store")
    /\ task' = [task EXCEPT ![t] =
                    [@ EXCEPT !.why = "conf",
                              !.view = IF bound THEN EditorView(editor.home)
                                       ELSE snapshot]]
    /\ UNCHANGED <<disk, bound, editor, snapshot, poisoned, external, panics,
                   onDisk, wrote>>

-----------------------------------------------------------------------------
(* File>Open: rebind_editor.  Only the last step takes the mutex. *)

Open(t, home) ==
    /\ Asks(t, "open")
    /\ StartReading(t, home, "open")
    /\ UNCHANGED <<disk, bound, editor, snapshot, lock, poisoned, external,
                   panics, onDisk, wrote>>

BindStore(t) ==
    /\ pc[t] = "open" /\ task[t].left = {}
    /\ snapshot' = ReadView(t, task[t].home)
    /\ Goto(t, "bind")
    /\ UNCHANGED <<disk, bound, editor, lock, poisoned, task, budget, onDisk,
                   wrote>>

Bind(t) ==
    /\ pc[t] = "bind"
    /\ lock = NoThread
    /\ bound' = TRUE
    /\ editor' = Opened(task[t].home, task[t].read)
    /\ poisoned' = FALSE
    /\ Goto(t, "idle")
    /\ task' = [task EXCEPT ![t] = IdleTask]
    /\ UNCHANGED <<disk, snapshot, lock, budget, onDisk, wrote>>

-----------------------------------------------------------------------------
(* The environment. *)

(* A holder of the mutex panics: the request ends, the flag is set. *)
Panic(t) ==
    /\ panics < MaxPanics /\ panics' = panics + 1
    /\ pc[t] \in Locked
    /\ poisoned' = TRUE
    /\ Return(t)
    /\ UNCHANGED <<disk, bound, editor, snapshot, requests, external, onDisk>>

(* Another program writes a file, in place or over the name ... *)
Rewrite(j, f, found) ==
    /\ external < MaxExternal /\ external' = external + 1
    /\ found.readable /\ found # disk[j][f]
    /\ disk' = [disk EXCEPT ![j][f] = found]
    /\ onDisk' = [onDisk EXCEPT ![j][f] = @ \cup {found.text}]
    /\ UNCHANGED <<bound, editor, snapshot, lock, poisoned, pc, task, requests,
                   panics, wrote>>

(* ... or takes it away, or leaves it in a state that does not parse. *)
Break(j, f) ==
    /\ external < MaxExternal /\ external' = external + 1
    /\ disk[j][f].readable
    /\ disk' = [disk EXCEPT ![j][f] = [@ EXCEPT !.readable = FALSE]]
    /\ UNCHANGED <<bound, editor, snapshot, lock, poisoned, pc, task, requests,
                   panics, onDisk, wrote>>

ThreadStep(t) ==
    \/ \E f \in Files : \/ ReadFile(t, f) \/ ReadFails(t, f)
                        \/ CheckFile(t, f) \/ CheckRefuses(t, f)
                        \/ WriteFile(t, f) \/ WriteFails(t, f)
    \/ \E edit \in Files \X Marks : ApplyNext(t, edit)
    \/ ApplyWhole(t) \/ ApplyRefused(t) \/ ApplyDone(t) \/ ApplyFails(t)
    \/ ReadDone(t) \/ Locate(t)
    \/ Store(t) \/ StoreResynced(t) \/ StoreRecovered(t) \/ StoreReparsed(t)
    \/ Reopened(t) \/ BindStore(t) \/ Bind(t)

Request(t) ==
    \/ \E edits \in Edits, whole \in BOOLEAN :
         Edit(t, edits, whole) \/ EditRecovers(t, edits, whole)
    \/ EditDisabled(t)
    \/ Reload(t) \/ ReloadUnbound(t) \/ Republish(t)
    \/ \E home \in Journals : Open(t, home)

External ==
    \E j \in Journals, f \in Files :
        Break(j, f) \/ \E found \in Revision : Rewrite(j, f, found)

Next ==
    \/ \E t \in Threads : ThreadStep(t) \/ Request(t) \/ Panic(t)
    \/ External

Spec == Init /\ [][Next]_vars

(* A request that started is run to its end; nobody is made to start one, to *)
(* panic, or to write the files.                                             *)
FairSpec == Spec /\ \A t \in Threads : WF_vars(ThreadStep(t))
-----------------------------------------------------------------------------
TypeOK ==
    /\ disk \in [Journals -> [Files -> Revision]]
    /\ bound \in BOOLEAN /\ poisoned \in BOOLEAN
    /\ editor \in Editor
    /\ snapshot \in Snapshot
    /\ lock \in Threads \cup {NoThread}
    /\ pc \in [Threads -> Label]
    /\ task \in [Threads -> Task]
    /\ requests \in Nat /\ external \in Nat /\ panics \in Nat
    /\ onDisk \in [Journals -> [Files -> SUBSET Text]]
    /\ wrote \in SUBSET Files

(* A save puts in a file exactly what was there with this request's edits  *)
(* made: another program's change is never lost to it, and an earlier      *)
(* request's failed edit never rides along (edit.rs save, edit_api.rs      *)
(* resync_from_disk and lock_editor).                                      *)
WritesOnlyTheRequest ==
    [][\A j \in Journals, f \in Files :
          disk'[j][f] # disk[j][f] /\ external' = external =>
            /\ j = editor.home
            /\ disk'[j][f].text =
                 Toggle([g \in Files |-> disk[j][g].text], task[lock].edits)[f]]_vars

(* Between requests the editor holds no unsaved edit: whatever failed, its   *)
(* ropes are what it last read or wrote, file by file.                       *)
QuietEditorIsClean ==
    bound /\ ~poisoned /\ lock = NoThread =>
        /\ editor.dirty = {}
        /\ \A f \in Files : editor.rope[f] = editor.rev[f].text

(* What is served for a file was once that file's text on disk: an edit that *)
(* failed to reach the file is never served as though it had (DL-5).         *)
ServedWasOnDisk ==
    \A f \in Files : snapshot.text[f] \in onDisk[snapshot.home][f]

(* Between requests readers and the editor see one journal: an edit is made  *)
(* to what the client was shown (edit_api.rs save_and_publish).              *)
ServedIsTheEditors ==
    bound /\ ~poisoned /\ lock = NoThread => snapshot = EditorView(editor.home)

(* The snapshot pairs a journal with the storage it came from (lib.rs,       *)
(* Snapshot::location).                                                      *)
ServedPairsWithStorage == snapshot.home = snapshot.location

(* With every request answered, what is served is the journal edits go to *)
(* (lib.rs, AppState: every clone operates on the same journal).          *)
QuietServesTheEditors ==
    bound /\ ~poisoned /\ (\A t \in Threads : pc[t] = "idle")
        => snapshot.home = editor.home

(* A batch whose save is refused has written none of its files (edit.rs      *)
(* apply_batch, review_api.rs batch: one save, all or nothing).              *)
RefusedBatchWroteNothing == \A t \in Threads : pc[t] = "resync" => wrote = {}

(* Every request is answered: no file's state and no other request can keep  *)
(* it waiting (edit_api.rs, lib.rs reload and rebind_editor).                *)
RequestsEnd == \A t \in Threads : pc[t] # "idle" ~> pc[t] = "idle"

-----------------------------------------------------------------------------
(* AppState implements EditService: the edits of the request that holds the *)
(* mutex, less those of the files it has written.                           *)
Service == INSTANCE EditService WITH
    text <- [j \in Journals |-> [f \in Files |-> disk[j][f].text]],
    todo <- IF lock = NoThread THEN {}
            ELSE {edit \in task[lock].edits : edit[1] \notin wrote},
    outside <- external

(* Every step of the code is one the service may take, or changes nothing a *)
(* client could tell: each file gets its edits once, or not at all.         *)
ImplementsService == Service!Spec

-----------------------------------------------------------------------------
(* The inductive invariant.  Who is inside the mutex, and what the editor    *)
(* holds at each stage of a request.                                         *)

RevTexts == [f \in Files |-> editor.rev[f].text]

Mutex == \A t \in Threads : pc[t] \in Locked <=> lock = t

(* Stages at which a request has an unpoisoned editor to itself. *)
Editing(t) ==
    \/ pc[t] \in {"apply", "check", "write", "resync"}
    \/ pc[t] \in {"locate", "store"} /\ task[t].why \in {"saved", "resynced"}

(* Stages at which the ropes may hold what is not in the files. *)
Drafting(t) ==
    \/ pc[t] \in {"apply", "check", "write", "resync"}
    \/ pc[t] \in {"locate", "store"} /\ task[t].why = "resynced"

EditingIsBound == \A t \in Threads : Editing(t) => bound /\ ~poisoned

PublishesFor ==
    \A t \in Threads :
        /\ pc[t] \in {"check", "write"} => task[t].why = "saved"
        /\ pc[t] = "locate" => task[t].why \in {"saved", "resynced", "recovered"}
        /\ pc[t] = "store" =>
             task[t].why \in {"saved", "resynced", "recovered", "conf"}

(* Recovering from poison, none of the request's edits are made yet. *)
Recovering(t) ==
    \/ pc[t] = "recover"
    \/ pc[t] \in {"locate", "store"} /\ task[t].why = "recovered"

RecoversFirst ==
    \A t \in Threads : Recovering(t) => bound /\ task[t].todo = task[t].edits

(* The ropes are the files as read, with these edits made. *)
Draft(edits) ==
    /\ editor.dirty = Touched(edits)
    /\ editor.rope = Toggle(RevTexts, edits)

Applying ==
    \A t \in Threads : pc[t] = "apply" =>
        /\ task[t].todo \subseteq task[t].edits
        /\ task[t].whole => task[t].todo = task[t].edits
        /\ Draft(task[t].edits \ task[t].todo)

Checking ==
    \A t \in Threads : pc[t] = "check" =>
        /\ task[t].left \subseteq editor.dirty
        /\ Draft(task[t].edits)

Writing ==
    \A t \in Threads : pc[t] = "write" =>
        /\ task[t].left = editor.dirty
        /\ editor.dirty \subseteq Touched(task[t].edits)
        /\ \A f \in Files :
             editor.rope[f] = IF f \in editor.dirty
                              THEN Toggle(RevTexts, task[t].edits)[f]
                              ELSE RevTexts[f]

Clean == editor.dirty = {} /\ editor.rope = RevTexts

CleanUnlessDrafting ==
    bound /\ ~poisoned /\ (\A t \in Threads : ~Drafting(t)) => Clean

IInv ==
    /\ TypeOK /\ Mutex /\ EditingIsBound /\ PublishesFor /\ RecoversFirst
    /\ Applying /\ Checking /\ Writing /\ CleanUnlessDrafting

(* What the history of a request's writes is at each stage, for Service. *)
WroteWhat ==
    /\ \A t \in Threads : task[t].edits # {} => \/ Editing(t)
                                                \/ pc[t] = "recover"
                                                \/ pc[t] \in {"locate", "store"}
    /\ \A t \in Threads : pc[t] = "write" =>
         wrote = Touched(task[t].edits) \ editor.dirty
    /\ (\A t \in Threads : ~(\/ pc[t] \in {"write", "resync"}
                             \/ pc[t] \in {"locate", "store"}
                                /\ task[t].why \in {"saved", "resynced"}))
         => wrote = {}
=============================================================================

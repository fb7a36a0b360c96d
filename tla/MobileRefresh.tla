----------------------------- MODULE MobileRefresh -----------------------------
(***************************************************************************)
(* The phone's journal (ledgeline-ffi, mobile): no watcher runs, so the host  *)
(* calls refresh() when the app comes to the front or the user pulls.  Files  *)
(* belong to a file provider, which syncs in other devices' edits, evicts     *)
(* content from the device and downloads what it is asked for.  Reads that    *)
(* find a file evicted are remembered by the tracking vault, and writes are   *)
(* compared with the file inside the provider's own coordinated block.       *)
(***************************************************************************)
EXTENDS Naturals, FiniteSets

CONSTANTS
    Root, Included,      \* the journal's two files, read in this order
    HostSets,            \* which refreshers a run may use
    Refreshers, Clients, \* threads in refresh(), and in an edit's handler
    Good, Broken,        \* texts a file can hold: some do not parse
    Unbound, NoOne, Unread,
    MaxEvents            \* bound of a run: syncs, evictions and edits

Files == {Root, Included}
Texts == Good \cup Broken
Actors == Refreshers \cup Clients

ASSUME MobileAssumption ==
    /\ Root # Included /\ Good # {} /\ Good \cap Broken = {}
    /\ Refreshers \cap Clients = {} /\ NoOne \notin Actors
    /\ HostSets \subseteq (SUBSET Refreshers) \ {{}}
    /\ Unread \notin Texts /\ Unbound \notin [Files -> Texts]
    /\ MaxEvents \in Nat

VARIABLES
    file,        \* file -> its text, and whether it is on the device
    wanted,      \* files whose download was requested
    seen,        \* TrackingVault: files a read found evicted
    editor,      \* what the editor holds of each file, or Unbound
    editorLock,
    view,        \* the published journal: the texts it was parsed from
    run,         \* actor -> where it is in its call
    hosts,       \* the refreshers in use: with one alone, calls never overlap
    events       \* counter, for the bound

mobileVars == <<file, wanted, seen, editor, editorLock, view, run, hosts, events>>

OnDisk == [f \in Files |-> file[f].text]
NothingRead == [f \in Files |-> Unread]
Idle == [at |-> "idle", todo |-> {}, found |-> {}, read |-> NothingRead]
Holding == {"compare", "reopen"}

MobileTypeOK ==
    /\ file \in [Files -> [text : Texts, here : BOOLEAN]]
    /\ wanted \subseteq Files /\ seen \subseteq Files
    /\ editor \in [Files -> Texts] \cup {Unbound}
    /\ view \in [Files -> Good]
    /\ run \in [Actors -> [at : Holding \cup {"idle", "look", "chosen", "open", "store", "bind",
                                              "reload", "reparse", "result"},
                           todo : SUBSET Files, found : SUBSET Files,
                           read : [Files -> Texts \cup {Unread}]]]
    /\ hosts \in HostSets
    /\ events \in 0 .. MaxEvents
    /\ \A a \in Actors : editorLock = a <=> run[a].at \in Holding

MobileInit ==
    /\ \E text \in Good : /\ file = [f \in Files |-> [text |-> text, here |-> TRUE]]
                          /\ view = [f \in Files |-> text]
    /\ editor = view
    /\ wanted = {} /\ seen = {} /\ editorLock = NoOne
    /\ run = [a \in Actors |-> Idle]
    /\ hosts \in HostSets
    /\ events = 0

-----------------------------------------------------------------------------
(* The provider.                                                             *)

\* Another device's version of a file arrives, which need not parse.
SyncIn(f, text) ==
    /\ events < MaxEvents /\ text # file[f].text
    /\ file' = [file EXCEPT ![f].text = text]
    /\ events' = events + 1
    /\ UNCHANGED <<wanted, seen, editor, editorLock, view, run, hosts>>

Evict(f) ==
    /\ events < MaxEvents /\ file[f].here
    /\ file' = [file EXCEPT ![f].here = FALSE]
    /\ events' = events + 1
    /\ UNCHANGED <<wanted, seen, editor, editorLock, view, run, hosts>>

Download(f) ==
    /\ f \in wanted
    /\ file' = [file EXCEPT ![f].here = TRUE]
    /\ wanted' = wanted \ {f}
    /\ UNCHANGED <<seen, editor, editorLock, view, run, hosts, events>>

-----------------------------------------------------------------------------
(* refresh(): reset, look, choose, re-read, answer.                          *)

Goes(a, at) == run' = [run EXCEPT ![a] = [Idle EXCEPT !.at = at, !.todo = Files]]

\* The files are read in the order of the parse.
Following(a, f) == f \in run[a].todo /\ (f = Root \/ Root \notin run[a].todo)

\* TrackingVault::note of a read that found the file evicted: recorded, and its
\* download requested the first time.
Note(f) ==
    /\ seen' = seen \cup {f}
    /\ wanted' = IF f \in seen THEN wanted ELSE wanted \cup {f}

Begin(r) ==
    /\ r \in hosts /\ run[r].at = "idle"
    /\ seen' = {}
    /\ run' = [run EXCEPT ![r] = [Idle EXCEPT !.at = "look", !.todo = Files]]
    /\ UNCHANGED <<file, wanted, editor, editorLock, view, hosts, events>>

\* Evicted files first, one stat each.
LookAt(r, f) ==
    /\ run[r].at = "look" /\ Following(r, f)
    /\ run' = [run EXCEPT ![r].todo = @ \ {f},
                          ![r].found = IF file[f].here THEN @ ELSE @ \cup {f}]
    /\ UNCHANGED <<file, wanted, seen, editor, editorLock, view, hosts, events>>

\* Some are: their download is requested and nothing is reloaded.
AnswerPending(r) ==
    /\ run[r].at = "look" /\ run[r].todo = {} /\ run[r].found # {}
    /\ wanted' = wanted \cup run[r].found
    /\ run' = [run EXCEPT ![r] = Idle]
    /\ UNCHANGED <<file, seen, editor, editorLock, view, hosts, events>>

\* Wrong: a journal without an editor is only ever parsed again.
ChooseIgnoringEditor(r) ==
    /\ run[r].at = "look" /\ run[r].todo = {} /\ run[r].found = {} /\ editorLock = NoOne
    /\ Goes(r, "chosen")
    /\ UNCHANGED <<file, wanted, seen, editor, editorLock, view, hosts, events>>

\* Without an editor a new one is opened; otherwise the sources are compared.
Choose(r) ==
    /\ run[r].at = "look" /\ run[r].todo = {} /\ run[r].found = {} /\ editorLock = NoOne
    /\ Goes(r, IF editor = Unbound THEN "open" ELSE "chosen")
    /\ UNCHANGED <<file, wanted, seen, editor, editorLock, view, hosts, events>>

\* AppState::refresh takes the lock; the editor may be gone by now.
StartCompare(r) ==
    /\ run[r].at = "chosen" /\ editorLock = NoOne
    /\ IF editor = Unbound THEN Goes(r, "reload") /\ UNCHANGED editorLock
       ELSE Goes(r, "compare") /\ editorLock' = r
    /\ UNCHANGED <<file, wanted, seen, editor, view, hosts, events>>

\* Wrong: only the file that was opened is compared.
CompareOpened(r, f) ==
    /\ run[r].at = "compare" /\ Following(r, f)
    /\ IF file[f].here THEN UNCHANGED <<seen, wanted>> ELSE Note(f)
    /\ run' = [run EXCEPT ![r].todo = @ \ {f},
         ![r].found = IF f = Included \/ (file[f].here /\ file[f].text = editor[f]) THEN @ ELSE @ \cup {f}]
    /\ UNCHANGED <<file, editor, editorLock, view, hosts, events>>

\* changed_sources: a file that cannot be read counts as changed.
CompareFile(r, f) ==
    /\ run[r].at = "compare" /\ Following(r, f)
    /\ IF file[f].here THEN UNCHANGED <<seen, wanted>> ELSE Note(f)
    /\ run' = [run EXCEPT ![r].todo = @ \ {f},
         ![r].found = IF file[f].here /\ file[f].text = editor[f] THEN @ ELSE @ \cup {f}]
    /\ UNCHANGED <<file, editor, editorLock, view, hosts, events>>

\* Where an actor goes once its journal was read, or could not be: a client is
\* done, a refresher has an answer (unchanged, reloaded or failed) to make.
Answered(a) ==
    run' = [run EXCEPT ![a] = IF a \in Clients THEN Idle ELSE [Idle EXCEPT !.at = "result"]]

Compared(r) ==
    /\ run[r].at = "compare" /\ run[r].todo = {}
    /\ editorLock' = NoOne
    /\ IF run[r].found = {} THEN Answered(r)
       ELSE Goes(r, "reload")
    /\ UNCHANGED <<file, wanted, seen, editor, view, hosts, events>>

\* AppState::reload: the editor is re-opened under its lock; without one the
\* journal is parsed again and stays without one.
StartReload(r) ==
    /\ run[r].at = "reload" /\ editorLock = NoOne
    /\ IF editor = Unbound THEN Goes(r, "reparse") /\ UNCHANGED editorLock
       ELSE Goes(r, "reopen") /\ editorLock' = r
    /\ UNCHANGED <<file, wanted, seen, editor, view, hosts, events>>

\* Whatever reads the journal: an editor being opened or re-opened, or a reparse.
Reading == {"open", "reopen", "reparse"}

ReadSource(a, f) ==
    /\ run[a].at \in Reading /\ Following(a, f) /\ file[f].here /\ file[f].text \in Good
    /\ run' = [run EXCEPT ![a].todo = @ \ {f}, ![a].read[f] = file[f].text]
    /\ UNCHANGED <<file, wanted, seen, editor, editorLock, view, hosts, events>>

\* A source is not on the device, or does not parse: a re-open that fails unbinds
\* the editor.
SourceFails(a, f) ==
    /\ run[a].at \in Reading /\ Following(a, f)
    /\ IF file[f].here THEN file[f].text \in Broken /\ UNCHANGED <<seen, wanted>> ELSE Note(f)
    /\ IF run[a].at = "reopen" THEN editor' = Unbound /\ editorLock' = NoOne
       ELSE UNCHANGED <<editor, editorLock>>
    /\ Answered(a)
    /\ UNCHANGED <<file, view, hosts, events>>

\* reopen_editor publishes and keeps the editor before it lets go of the lock.
Reopen(a) ==
    /\ run[a].at = "reopen" /\ run[a].todo = {}
    /\ editor' = run[a].read /\ view' = run[a].read /\ editorLock' = NoOne
    /\ Answered(a)
    /\ UNCHANGED <<file, wanted, seen, hosts, events>>

Reparse(r) ==
    /\ run[r].at = "reparse" /\ run[r].todo = {}
    /\ view' = run[r].read
    /\ Answered(r)
    /\ UNCHANGED <<file, wanted, seen, editor, editorLock, hosts, events>>

\* bind_editor publishes before it asks for the lock.
StoreOpened(r) ==
    /\ run[r].at = "open" /\ run[r].todo = {}
    /\ view' = run[r].read
    /\ run' = [run EXCEPT ![r].at = "bind"]
    /\ UNCHANGED <<file, wanted, seen, editor, editorLock, hosts, events>>

BindOpened(r) ==
    /\ run[r].at = "bind" /\ editorLock = NoOne
    /\ editor' = run[r].read
    /\ Answered(r)
    /\ UNCHANGED <<file, wanted, seen, editorLock, view, hosts, events>>

\* The record of what was found evicted is taken with the answer, which it turns
\* from "failed" into "pending".
Answer(r) ==
    /\ run[r].at = "result"
    /\ seen' = {}
    /\ run' = [run EXCEPT ![r] = Idle]
    /\ UNCHANGED <<file, wanted, editor, editorLock, view, hosts, events>>

-----------------------------------------------------------------------------
(* An edit of one file, under the editor's lock.                             *)

CanReplace(f) == file[f].here /\ file[f].text = editor[f]

\* The coordinated block replaces the file the editor knows; ...
Edit(c, f, text) ==
    /\ run[c].at = "idle" /\ editorLock = NoOne /\ editor # Unbound
    /\ CanReplace(f) /\ text # editor[f] /\ events < MaxEvents
    /\ file' = [file EXCEPT ![f].text = text]
    /\ editor' = [editor EXCEPT ![f] = text] /\ view' = editor'
    /\ events' = events + 1
    /\ UNCHANGED <<wanted, seen, editorLock, run, hosts>>

\* ... it refuses any other, and the journal is read again.
EditRefused(c, f) ==
    /\ run[c].at = "idle" /\ editorLock = NoOne /\ editor # Unbound
    /\ ~CanReplace(f)
    /\ IF file[f].here THEN UNCHANGED <<seen, wanted>> ELSE Note(f)
    /\ editorLock' = c
    /\ Goes(c, "reopen")
    /\ UNCHANGED <<file, editor, view, hosts, events>>

Refreshing(r) ==
    \/ \E f \in Files : LookAt(r, f) \/ CompareFile(r, f) \/ ReadSource(r, f) \/ SourceFails(r, f)
    \/ AnswerPending(r) \/ Choose(r) \/ StartCompare(r) \/ Compared(r) \/ StartReload(r)
    \/ Reopen(r) \/ Reparse(r) \/ StoreOpened(r) \/ BindOpened(r) \/ Answer(r)

Resyncing(c) == Reopen(c) \/ \E f \in Files : ReadSource(c, f) \/ SourceFails(c, f)

MobileNext ==
    \/ \E f \in Files, text \in Texts : SyncIn(f, text)
    \/ \E f \in Files : Evict(f) \/ Download(f)
    \/ \E r \in Refreshers : Begin(r) \/ Refreshing(r)
    \/ \E c \in Clients : Resyncing(c) \/ \E f \in Files : EditRefused(c, f) \/ \E text \in Good : Edit(c, f, text)

-----------------------------------------------------------------------------
(* Properties.                                                               *)

OneAtATime == Cardinality(hosts) = 1

\* However often a file is evicted under a read, or a version that does not parse
\* is synced in, the journal can be edited again once it reads cleanly, and
\* from then on what the editor holds is what the files hold.
EditingReturns == <>[](OnDisk \in [Files -> Good]) => <>[](editor = OnDisk)

\* refresh: "Pick up changes made outside the app".
RefreshCatchesUp == <>[](OnDisk \in [Files -> Good]) => <>[](view = OnDisk)

\* ... as the code stands, of calls that do not overlap.
LoneRefreshCatchesUp == OneAtATime => RefreshCatchesUp

=============================================================================

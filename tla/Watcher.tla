------------------------------- MODULE Watcher -------------------------------
(***************************************************************************)
(* Live reload (ledgeline-server main.rs): notify's callback filters file  *)
(* events against the journal's current source files, and one thread       *)
(* debounces them, compares stamps of the files, and reloads.  A journal   *)
(* is its main file and the files it includes; a reload reads them one by  *)
(* one under the editor mutex and then publishes (AppState).               *)
(***************************************************************************)
EXTENDS Naturals

CONSTANTS
    Files, Main,
    Texts,         \* what a file may say
    Includes,      \* what the main file includes: text -> set of files
    Dir,           \* the directory a file is in
    Missing,       \* there is no such file, or it does not parse
    None,          \* the file is not a source
    MaxSaves       \* bound of a run

ASSUME WatcherAssumption ==
    /\ Main \in Files /\ Missing \notin Texts /\ None \notin Texts \cup {Missing}
    /\ Includes \in [Texts -> SUBSET (Files \ {Main})]
    /\ MaxSaves \in Nat

VARIABLES
    disk,          \* file -> its text
    served,        \* file -> its text in the snapshot, None for no source
    watched,       \* the directories watched, fixed when the watcher starts
    inflight,      \* files with an event not yet given to the callback
    pending,       \* is there an event in the channel
    at,            \* where the watcher's thread is
    left,          \* the sources it has still to stamp or to read
    stamp, last,   \* the stamps being taken, and those of the last round
    read,          \* what the reload has read
    saves,         \* counter, for the bound
    missed,        \* history: was a file saved while the watcher started, or
                   \* during the last reload
    failed,        \* history: the last reload failed
    edited         \* history: the program published an edit since a reload

vars == <<disk, served, watched, inflight, pending, at, left, stamp, last,
          read, saves, missed, failed, edited>>

Journal == [Files -> Texts \cup {None}]
Stamps == [Files -> Texts \cup {Missing, None}]

(* current_sources: what was published last, and always the main file. *)
SourcesOf(texts) == {Main} \cup {f \in Files : texts[f] # None}
NoStamps == [f \in Files |-> None]

(* The journal the files now make, if they make one. *)
Parts(texts) == {Main} \cup (IF texts[Main] \in Texts THEN Includes[texts[Main]]
                             ELSE {})
Parses == \A f \in Parts(disk) : disk[f] # Missing
OnDisk == [f \in Files |-> IF f \in Parts(disk) THEN disk[f] ELSE None]

Init ==
    /\ disk \in [Files -> Texts \cup {Missing}]
    /\ Parses /\ served = OnDisk
    /\ watched = {} /\ inflight = {} /\ pending = FALSE
    /\ at = "off" /\ left = {} /\ stamp = NoStamps /\ last = NoStamps
    /\ read = NoStamps
    /\ saves = 0 /\ missed = {} /\ failed = FALSE /\ edited = FALSE

-----------------------------------------------------------------------------
(* spawn_watcher: watch the directories of the sources, start the thread. *)
Spawn ==
    /\ at = "off"
    /\ watched' = {Dir[f] : f \in SourcesOf(served)}
    /\ at' = "restamp" /\ left' = SourcesOf(served)
    /\ UNCHANGED <<disk, served, inflight, pending, stamp, last, read, saves,
                   missed, failed, edited>>

(* The callback: pass on an event about a file that is a source now. *)
Callback(f) ==
    /\ f \in inflight /\ inflight' = inflight \ {f}
    /\ pending' = (pending \/ f \in SourcesOf(served))
    /\ UNCHANGED <<disk, served, watched, at, left, stamp, last, read, saves,
                   missed, failed, edited>>

-----------------------------------------------------------------------------
(* watch_loop *)

TakeEvent ==
    /\ at = "recv" /\ pending
    /\ pending' = FALSE /\ at' = "drain"
    /\ UNCHANGED <<disk, served, watched, inflight, left, stamp, last, read,
                   saves, missed, failed, edited>>

(* A mistake: look at an event without taking it from the channel. *)
DrainPeeking ==
    /\ at = "drain" /\ pending
    /\ UNCHANGED vars

Drain ==
    /\ at = "drain" /\ pending
    /\ pending' = FALSE
    /\ UNCHANGED <<disk, served, watched, inflight, at, left, stamp, last,
                   read, saves, missed, failed, edited>>

(* WATCH_DEBOUNCE passed with no event in the channel. *)
Quiet ==
    /\ at = "drain" /\ ~pending
    /\ at' = "stamp" /\ left' = SourcesOf(served) /\ stamp' = NoStamps
    /\ UNCHANGED <<disk, served, watched, inflight, pending, last, read, saves,
                   missed, failed, edited>>

(* stamp_sources, before the comparison or after a reload. *)
StampFile(f) ==
    /\ at \in {"stamp", "restamp"} /\ f \in left
    /\ stamp' = [stamp EXCEPT ![f] = disk[f]]
    /\ left' = left \ {f}
    /\ UNCHANGED <<disk, served, watched, inflight, pending, at, last, read,
                   saves, missed, failed, edited>>

(* A mistake: compare the main file only. *)
UnchangedMain ==
    /\ at = "stamp" /\ left = {} /\ stamp[Main] = last[Main]
    /\ at' = "recv"
    /\ UNCHANGED <<disk, served, watched, inflight, pending, left, stamp, last,
                   read, saves, missed, failed, edited>>

Unchanged ==
    /\ at = "stamp" /\ left = {} /\ stamp = last
    /\ at' = "recv"
    /\ UNCHANGED <<disk, served, watched, inflight, pending, left, stamp, last,
                   read, saves, missed, failed, edited>>

StartReload ==
    /\ at = "stamp" /\ left = {} /\ stamp # last
    /\ at' = "reload" /\ left' = {Main} /\ read' = NoStamps
    /\ missed' = {} /\ edited' = FALSE
    /\ UNCHANGED <<disk, served, watched, inflight, pending, stamp, last,
                   saves, failed>>

(* Reading the main file names the files it includes. *)
ReadFile(f) ==
    /\ at = "reload" /\ f \in left /\ disk[f] # Missing
    /\ read' = [read EXCEPT ![f] = disk[f]]
    /\ left' = IF f = Main THEN Includes[disk[f]] ELSE left \ {f}
    /\ UNCHANGED <<disk, served, watched, inflight, pending, at, stamp, last,
                   saves, missed, failed, edited>>

ReloadDone ==
    /\ at = "reload" /\ left = {}
    /\ served' = read /\ failed' = FALSE
    /\ at' = "restamp" /\ left' = SourcesOf(read) /\ stamp' = NoStamps
    /\ UNCHANGED <<disk, watched, inflight, pending, last, read, saves, missed,
                   edited>>

(* The error is logged and the previous snapshot kept. *)
ReloadFails(f) ==
    /\ at = "reload" /\ f \in left /\ disk[f] = Missing
    /\ failed' = TRUE
    /\ at' = "restamp" /\ left' = SourcesOf(served) /\ stamp' = NoStamps
    /\ UNCHANGED <<disk, served, watched, inflight, pending, last, read, saves,
                   missed, edited>>

Restamped ==
    /\ at = "restamp" /\ left = {}
    /\ last' = stamp /\ at' = "recv"
    /\ UNCHANGED <<disk, served, watched, inflight, pending, left, stamp, read,
                   saves, missed, failed, edited>>

-----------------------------------------------------------------------------
(* The files change. *)

Notify(f) == inflight' = inflight \cup (IF Dir[f] \in watched THEN {f} ELSE {})

(* Another program saves or removes a file. *)
Save(f, found) ==
    /\ saves < MaxSaves /\ saves' = saves + 1
    /\ found # disk[f] /\ disk' = [disk EXCEPT ![f] = found]
    /\ Notify(f)
    /\ missed' = missed \cup
         (IF at \notin {"off", "restamp", "reload"} THEN {}
          ELSE IF at = "reload" \/ last # NoStamps THEN {"reload"} ELSE {"start"})
    /\ UNCHANGED <<served, watched, pending, at, left, stamp, last, read, failed,
                   edited>>

(* The program's own edit: written and published under the editor mutex. *)
Edit(f, found) ==
    /\ saves < MaxSaves /\ saves' = saves + 1
    /\ at # "reload"
    /\ served[f] = disk[f] /\ found \in Texts \ {disk[f]}
    /\ f = Main => Includes[found] = Includes[disk[f]]
    /\ disk' = [disk EXCEPT ![f] = found]
    /\ served' = [served EXCEPT ![f] = found]
    /\ Notify(f) /\ edited' = TRUE
    /\ UNCHANGED <<watched, pending, at, left, stamp, last, read, missed, failed>>

Thread ==
    \/ Spawn \/ TakeEvent \/ Drain \/ Quiet \/ Unchanged \/ StartReload
    \/ ReloadDone \/ Restamped
    \/ \E f \in Files : StampFile(f) \/ ReadFile(f) \/ ReloadFails(f)

Notice == \E f \in Files : Callback(f)

Next ==
    \/ Thread \/ Notice
    \/ \E f \in Files : \/ \E found \in Texts \cup {Missing} : Save(f, found)
                        \/ \E found \in Texts : Edit(f, found)

(* The watcher's thread and notify's run; nobody is made to save. *)
Spec == Init /\ [][Next]_vars /\ WF_vars(Thread) /\ WF_vars(Notice)
-----------------------------------------------------------------------------
TypeOK ==
    /\ disk \in [Files -> Texts \cup {Missing}] /\ served \in Journal
    /\ watched \subseteq {Dir[f] : f \in Files}
    /\ inflight \subseteq Files /\ pending \in BOOLEAN
    /\ at \in {"off", "recv", "drain", "stamp", "reload", "restamp"}
    /\ left \subseteq Files
    /\ stamp \in Stamps /\ last \in Stamps /\ read \in Journal
    /\ saves \in Nat /\ missed \subseteq {"start", "reload"}
    /\ failed \in BOOLEAN /\ edited \in BOOLEAN

(* No event is left anywhere for the watcher to act on. *)
Settled == at = "recv" /\ ~pending /\ inflight = {}

(* Once the events have been dealt with, what is served is what is on disk,  *)
(* the include tree included, provided the last reload worked, no save fell  *)
(* within it, and no edit of the program's own was undone before it was      *)
(* stamped (main.rs watch_loop, spawn_watcher).                              *)
QuietServesTheDisk ==
    Settled /\ Parses /\ missed = {} /\ ~failed =>
        \/ served = OnDisk
        \/ edited /\ \A f \in SourcesOf(served) : last[f] = disk[f]

(* "a save that lands during the reload must still be seen as a change by *)
(* the next round" (main.rs watch_loop).                                  *)
SaveDuringReloadIsSeen ==
    Settled /\ Parses /\ "start" \notin missed /\ ~failed /\ ~edited
        => served = OnDisk

(* "adding or removing an include is honored" (main.rs spawn_watcher): also *)
(* one whose file comes after the line that includes it.                    *)
IncludesAreHonored ==
    Settled /\ Parses /\ missed = {} /\ ~edited => served = OnDisk

(* "no missed edit" (main.rs FileStamp): also one that takes the files back *)
(* to where the last reload found them.                                     *)
NoMissedEdit == Settled /\ Parses /\ missed = {} /\ ~failed => served = OnDisk

(* A burst of events ends, and the watcher with it: it never reloads for *)
(* ever, nor waits on itself (main.rs watch_loop).                       *)
Settles == []<>Settled
=============================================================================

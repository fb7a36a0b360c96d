---------------------------- MODULE PinnedReplace ----------------------------
(***************************************************************************)
(* How one file is written (ledgeline-core pinned.rs, behind Vault::replace, *)
(* write_atomic and create_new): a temp file beside it, a last look at what  *)
(* is about to be replaced, a rename.  Other programs write, replace, link   *)
(* and remove the same file at any moment, and the power may fail.           *)
(*                                                                           *)
(* A directory maps names to inodes.  An inode is reused only when no name,  *)
(* no descriptor and no version of the directory the device may still hold   *)
(* refers to it.                                                             *)
(***************************************************************************)
EXTENDS Naturals, FiniteSets

CONSTANTS
    Target,        \* the name of the file
    Temps,         \* the names temp_name can give
    Inodes,
    Texts,         \* whole contents of the file
    Writers,       \* threads, and processes, of the program
    Kinds,         \* the operations of a run: "replace", "atomic", "create"
    None, Torn,    \* no inode, name or pin; a content half written
    MaxWrites, MaxOutside, MaxCrashes     \* bounds of a run

ASSUME PinnedReplaceAssumption ==
    /\ Target \notin Temps /\ None \notin Inodes /\ Torn \notin Texts
    /\ None \notin Texts \cup [ino : Inodes, text : Texts]
    /\ None \notin [kind : {"replace", "atomic", "create"}, bytes : Texts]
    /\ Kinds \subseteq {"replace", "atomic", "create"}
    /\ MaxWrites \in Nat /\ MaxOutside \in Nat /\ MaxCrashes \in Nat

VARIABLES
    dir,           \* the directory: name -> inode
    device,        \* the directories a power failure may leave
    text, synced,  \* an inode's content; the inodes whose content is durable
    links,         \* the inodes that are no regular file
    pin,           \* writer -> what it last read or wrote
    job,           \* writer -> the operation it is in
    writes, outside, crashes,             \* counters, for the bounds
    late,          \* history: what changed after a writer's last look at it
    litter         \* history: the temp files a crash or a failed removal left,
                   \* and the files create_new made and has not synced

disk == <<dir, device, text, synced, links>>
vars == <<dir, device, text, synced, links, pin, job,
          writes, outside, crashes, late, litter>>

Names == {Target} \cup Temps
Directory == [Names -> Inodes \cup {None}]
Pin == [ino : Inodes, text : Texts]
Stage == {"idle", "open", "temp", "create", "fill", "sync", "compare", "look",
          "rename", "syncdir", "clean"}
Job == [kind : {"replace", "atomic", "create", "none"}, at : Stage,
        bytes : Texts \cup {Torn}, handle : Inodes \cup {None},
        temp : Names \cup {None}, new : Inodes \cup {None}]

Idle == [kind |-> "none", at |-> "idle", bytes |-> Torn, handle |-> None,
         temp |-> None, new |-> None]

InUse ==
    (UNION {{d[n] : n \in Names} : d \in device \cup {dir}})
    \cup {job[w].handle : w \in Writers} \cup {job[w].new : w \in Writers}
Free == Inodes \ InUse

(* Bind a name.  Until the directory is synced, a power failure may leave it *)
(* as it is now or as it was at any moment since it last was.                *)
Bind(name, ino) ==
    /\ dir' = [dir EXCEPT ![name] = ino]
    /\ device' = device \cup {dir'}

Goto(w, stage) == job' = [job EXCEPT ![w].at = stage]
Return(w) == job' = [job EXCEPT ![w] = Idle]

(* Pin::expects_existing, FileIdentity and Fingerprint::content_matches. *)
Expects(w) == job[w].kind = "replace"

Init ==
    /\ \E ino \in Inodes, t \in Texts :
         /\ dir = [n \in Names |-> IF n = Target THEN ino ELSE None]
         /\ text = [i \in Inodes |-> IF i = ino THEN t ELSE Torn]
    /\ device = {dir} /\ synced = Inodes /\ links = {}
    /\ pin = [w \in Writers |-> None]
    /\ job = [w \in Writers |-> Idle]
    /\ writes = 0 /\ outside = 0 /\ crashes = 0
    /\ late = [w \in Writers |-> {}] /\ litter = {}

-----------------------------------------------------------------------------
(* read_pinned, and the start of an operation. *)

Read(w) ==
    LET ino == dir[Target] IN
    /\ job[w].at = "idle"
    /\ ino # None /\ ino \notin links /\ text[ino] # Torn
    /\ pin' = [pin EXCEPT ![w] = [ino |-> ino, text |-> text[ino]]]
    /\ UNCHANGED <<disk, job, writes, outside, crashes>>

Begin(w, kind, bytes) ==
    /\ job[w].at = "idle" /\ writes < MaxWrites /\ writes' = writes + 1
    /\ kind = "replace" => pin[w] # None
    /\ job' = [job EXCEPT ![w] =
                 [Idle EXCEPT !.kind = kind, !.bytes = bytes,
                    !.at = IF kind = "create" THEN "create" ELSE "open"]]
    /\ UNCHANGED <<disk, pin, outside, crashes>>

-----------------------------------------------------------------------------
(* replace *)

(* open_target, and the identity check. *)
OpenTarget(w) ==
    LET ino == dir[Target] IN
    /\ job[w].at = "open"
    /\ ino \notin links
    /\ Expects(w) => ino = pin[w].ino
    /\ job' = [job EXCEPT ![w] = [@ EXCEPT !.at = "temp", !.handle = ino]]
    /\ UNCHANGED <<disk, pin, writes, outside, crashes>>

(* Changed: gone, another inode, a link; or an I/O error. *)
OpenFails(w) ==
    /\ job[w].at = "open"
    /\ Return(w)
    /\ UNCHANGED <<disk, pin, writes, outside, crashes>>

(* create_temp: O_EXCL, so a name that is taken is never the one it gets. *)
CreateTemp(w, temp, ino) ==
    /\ job[w].at = "temp"
    /\ dir[temp] = None /\ ino \in Free
    /\ Bind(temp, ino)
    /\ text' = [text EXCEPT ![ino] = Torn] /\ synced' = synced \ {ino}
    /\ links' = links \ {ino}
    /\ job' = [job EXCEPT ![w] = [@ EXCEPT !.at = "fill", !.temp = temp,
                                           !.new = ino]]
    /\ UNCHANGED <<pin, writes, outside, crashes>>

(* An I/O error, or every name tried was taken. *)
CreateTempFails(w) ==
    /\ job[w].at = "temp"
    /\ Return(w)
    /\ UNCHANGED <<disk, pin, writes, outside, crashes>>

(* write_all (and carry_forward_metadata: owner and mode are left out). *)
Fill(w) ==
    /\ job[w].at = "fill"
    /\ text' = [text EXCEPT ![job[w].new] = job[w].bytes]
    /\ synced' = synced \ {job[w].new}
    /\ Goto(w, "sync")
    /\ UNCHANGED <<dir, device, links, pin, writes, outside, crashes>>

(* A mistake: no sync_all before the rename. *)
SyncNothing(w) ==
    /\ job[w].at = "sync"
    /\ Goto(w, IF job[w].kind = "create" THEN "syncdir" ELSE "compare")
    /\ UNCHANGED <<disk, pin, writes, outside, crashes>>

Sync(w) ==
    /\ job[w].at = "sync"
    /\ synced' = synced \cup {job[w].new}
    /\ Goto(w, IF job[w].kind = "create" THEN "syncdir" ELSE "compare")
    /\ UNCHANGED <<dir, device, text, links, pin, writes, outside,
                   crashes>>

(* A mistake: trust the identity and skip the fingerprint. *)
CompareNothing(w) ==
    /\ job[w].at = "compare"
    /\ Goto(w, "look")
    /\ UNCHANGED <<disk, pin, writes, outside, crashes>>

(* The last look at the content, through the descriptor ... *)
Compare(w) ==
    /\ job[w].at = "compare"
    /\ Goto(w, IF Expects(w) => text[job[w].handle] = pin[w].text
               THEN "look" ELSE "clean")
    /\ UNCHANGED <<disk, pin, writes, outside, crashes>>

(* ... and, still_names, at the name. *)
LookAgain(w) ==
    /\ job[w].at = "look"
    /\ Goto(w, IF dir[Target] = job[w].handle THEN "rename" ELSE "clean")
    /\ UNCHANGED <<disk, pin, writes, outside, crashes>>

Rename(w) ==
    LET new == job[w].new IN
    /\ job[w].at = "rename"
    /\ dir' = [dir EXCEPT ![Target] = new, ![job[w].temp] = None]
    /\ device' = device \cup {dir'}
    /\ Goto(w, "syncdir")
    /\ UNCHANGED <<text, synced, links, pin, writes, outside, crashes>>

(* A mistake: report a directory that would not sync as a failed write. *)
SyncDirOrFail(w) ==
    /\ job[w].at = "syncdir"
    /\ UNCHANGED <<dir, text, synced, links, writes, outside, crashes>>
    /\ \/ /\ device' = {dir} /\ Return(w)
          /\ pin' = [pin EXCEPT ![w] = [ino |-> job[w].new, text |-> job[w].bytes]]
       \/ UNCHANGED <<device, pin>> /\ Goto(w, "clean")

(* Best effort; the caller gets the pin of what it put there. *)
SyncDir(w) ==
    /\ job[w].at = "syncdir"
    /\ device' \in {device, {dir}}
    /\ pin' = [pin EXCEPT ![w] = [ino |-> job[w].new, text |-> job[w].bytes]]
    /\ Return(w)
    /\ UNCHANGED <<dir, text, synced, links, writes, outside, crashes>>

(* An I/O error once there is a file to remove. *)
Fails(w) ==
    /\ job[w].at \in {"fill", "sync", "compare", "rename"}
    /\ job[w].kind = "create" => job[w].at \in {"fill", "sync"}
    /\ Goto(w, "clean")
    /\ UNCHANGED <<disk, pin, writes, outside, crashes>>

(* A mistake: leave the temp file. *)
CleanNothing(w) ==
    /\ job[w].at = "clean"
    /\ Return(w)
    /\ UNCHANGED <<disk, pin, writes, outside, crashes>>

(* unlinkat, by name: the temp file's, or create_new's own. *)
Clean(w) ==
    /\ job[w].at = "clean"
    /\ Bind(job[w].temp, None)
    /\ Return(w)
    /\ UNCHANGED <<text, synced, links, pin, writes, outside, crashes>>

(* The removal fails, and nobody hears of it. *)
CleanFails(w) ==
    /\ job[w].at = "clean"
    /\ Return(w)
    /\ UNCHANGED <<disk, pin, writes, outside, crashes>>

-----------------------------------------------------------------------------
(* create_new: the name itself is created, empty, and then filled. *)

Create(w, ino) ==
    /\ job[w].at = "create"
    /\ dir[Target] = None /\ ino \in Free
    /\ Bind(Target, ino)
    /\ text' = [text EXCEPT ![ino] = Torn] /\ synced' = synced \ {ino}
    /\ links' = links \ {ino}
    /\ job' = [job EXCEPT ![w] = [@ EXCEPT !.at = "fill", !.temp = Target,
                                           !.new = ino]]
    /\ UNCHANGED <<pin, writes, outside, crashes>>

(* AlreadyExists, or an I/O error. *)
CreateFails(w) ==
    /\ job[w].at = "create"
    /\ Return(w)
    /\ UNCHANGED <<disk, pin, writes, outside, crashes>>

-----------------------------------------------------------------------------
(* The environment: other programs, whose own writes are whole and durable. *)

Interferes == outside < MaxOutside /\ outside' = outside + 1

WriteInPlace(t) ==
    /\ Interferes
    /\ dir[Target] \notin links \cup {None} /\ t # text[dir[Target]]
    /\ text' = [text EXCEPT ![dir[Target]] = t]
    /\ synced' = synced \cup {dir[Target]}
    /\ UNCHANGED <<dir, device, links, pin, job, writes, crashes>>

PutOver(ino, t, link) ==
    /\ Interferes
    /\ ino \in Free
    /\ Bind(Target, ino)
    /\ text' = [text EXCEPT ![ino] = t] /\ synced' = synced \cup {ino}
    /\ links' = IF link THEN links \cup {ino} ELSE links \ {ino}
    /\ UNCHANGED <<pin, job, writes, crashes>>

Remove ==
    /\ Interferes
    /\ dir[Target] # None
    /\ Bind(Target, None)
    /\ UNCHANGED <<text, synced, links, pin, job, writes, crashes>>

(* The file system commits its directories in its own time. *)
Settle ==
    /\ device # {dir} /\ device' = {dir}
    /\ UNCHANGED <<dir, text, synced, links, pin, job, writes, outside, crashes>>

(* The process is killed or the power fails: operations end where they are, *)
(* and what was not synced may be lost.                                     *)
Crash ==
    /\ crashes < MaxCrashes /\ crashes' = crashes + 1
    /\ dir' \in device /\ device' = {dir'}
    /\ \E torn \in SUBSET (Inodes \ synced) :
         text' = [i \in Inodes |-> IF i \in torn THEN Torn ELSE text[i]]
    /\ synced' = Inodes
    /\ pin' = [w \in Writers |-> None] /\ job' = [w \in Writers |-> Idle]
    /\ UNCHANGED <<links, writes, outside>>

-----------------------------------------------------------------------------
Looking(w) == job[w].at \in {"look", "rename"}

(* What a writer has looked at and somebody has changed since, and the *)
(* files that are allowed to be unfinished: "left" is one more.        *)
Remember(left) ==
    /\ litter' = IF crashes' > crashes
                 THEN litter \cup ({dir'[n] : n \in Temps} \ {None})
                 ELSE (litter \ (Free \cup (synced' \ synced)))
                      \cup {job'[w].new : w \in {v \in Writers :
                               job'[v].kind = "create" /\ job'[v].at \in {"fill", "sync"}}}
                      \cup left
    /\ late' = [w \in Writers |->
           IF job'[w].at \notin {"look", "rename"} THEN {}
           ELSE late[w]
                \cup {x \in {"text"} : /\ Looking(w) /\ job[w].handle # None
                                       /\ text'[job[w].handle] # text[job[w].handle]}
                \cup {x \in {"name"} : /\ job[w].at = "rename"
                                       /\ dir'[Target] # dir[Target]}]

Step(w) ==
    \/ Read(w)
    \/ \E kind \in Kinds, bytes \in Texts : Begin(w, kind, bytes)
    \/ OpenTarget(w) \/ OpenFails(w)
    \/ \E ino \in Inodes : \/ \E temp \in Temps : CreateTemp(w, temp, ino)
                           \/ Create(w, ino)
    \/ CreateTempFails(w) \/ CreateFails(w)
    \/ Fill(w) \/ Sync(w) \/ Compare(w) \/ LookAgain(w) \/ Rename(w)
    \/ SyncDir(w) \/ Fails(w) \/ Clean(w)

Outside ==
    \/ \E t \in Texts : \/ WriteInPlace(t)
                        \/ \E ino \in Inodes, link \in BOOLEAN :
                             PutOver(ino, t, link)
    \/ Remove \/ Settle

(* The temp file that stays where its removal fails. *)
Left(w) == IF job[w].kind = "create" THEN {} ELSE {job[w].new}

Next ==
    \/ ((\E w \in Writers : Step(w)) \/ Outside \/ Crash) /\ Remember({})
    \/ \E w \in Writers : CleanFails(w) /\ Remember(Left(w))

Spec == Init /\ [][Next]_vars
-----------------------------------------------------------------------------
TypeOK ==
    /\ dir \in Directory /\ device \in SUBSET Directory
    /\ text \in [Inodes -> Texts \cup {Torn}]
    /\ synced \subseteq Inodes /\ links \subseteq Inodes
    /\ pin \in [Writers -> Pin \cup {None}]
    /\ job \in [Writers -> Job]
    /\ writes \in Nat /\ outside \in Nat /\ crashes \in Nat
    /\ late \in [Writers -> SUBSET {"text", "name"}]
    /\ litter \subseteq Inodes

(* A pinned replacement replaces what its caller read, and nothing newer:    *)
(* whatever other programs and other writers do, and however inode numbers   *)
(* are reused, only a change after the last look goes unseen (pinned.rs 4).  *)
ReplacesWhatWasRead ==
    \A w \in Writers :
        job[w].at = "rename" /\ Expects(w) /\ late[w] = {} =>
            /\ dir[Target] = pin[w].ino
            /\ text[dir[Target]] = pin[w].text

(* Whatever moment the power fails at, the name holds a whole text, old or  *)
(* new (pinned.rs replace: sync_all, then renameat); only a file create_new *)
(* had not finished, and could not remove again, is seen half written.      *)
TargetIsWhole ==
    \/ dir[Target] \in links \cup litter \cup {None}
    \/ text[dir[Target]] \in Texts

(* Every operation that ended has seen to its temp file: it was renamed, or     *)
(* removed, or its removal was tried and failed (pinned.rs replace: the result  *)
(* of unlinkat is dropped).                                                     *)
TempsAreInUse ==
    \A temp \in Temps :
        dir[temp] \notin litter \cup {None} => \E w \in Writers : /\ job[w].temp = temp
                                               /\ dir[temp] = job[w].new

(* A replacement about to be reported as failed has left the file alone *)
(* (WriteError: "nothing was renamed into place").                      *)
FailedLeavesTheFile ==
    \A w \in Writers : job[w].at = "clean" /\ job[w].kind # "create"
                         => dir[Target] # job[w].new

(* What the file is to its callers, and a write they asked for: FileService. *)
FileIn(d) == CASE d[Target] = None -> None
               [] d[Target] \in links -> "link"
               [] OTHER -> text[d[Target]]
KeptOf(d) == {FileIn(d)} \cup {x \in {Torn} : d[Target] \in Inodes \ (synced \cup links)}
Makes(w) == job[w].kind = "create" /\ job[w].at \in {"fill", "sync", "clean"}
Waits(w) == Makes(w) \/ job[w].at \notin {"idle", "syncdir", "clean"}

File == FileIn(dir)
Kept == UNION {KeptOf(d) : d \in device}
Known == [w \in Writers |-> CASE job[w].at = "syncdir" -> job[w].bytes
                              [] job[w].at # "syncdir" /\ pin[w] = None -> None
                              [] OTHER -> pin[w].text]
Request == [w \in Writers |->
              IF Waits(w) THEN [kind |-> job[w].kind, bytes |-> job[w].bytes] ELSE None]
Checked == {w \in Writers : /\ Expects(w)
                            /\ \/ job[w].at = "look" /\ dir[Target] = job[w].handle
                               \/ job[w].at = "rename"}
Making == {w \in Writers : Makes(w)}

Service == INSTANCE FileService WITH
    Gone <- None, Link <- "link", file <- File, kept <- Kept, known <- Known,
    request <- Request, checked <- Checked, making <- Making

(* Every step of the system calls is a step of the promise, or none of it: what *)
(* changes the file is a whole replacement after a look, a creation, another    *)
(* program or a power failure, and a write that fails is none of these.         *)
ImplementsService == Service!Spec

(* create_new, failing, removes the partial file it made and no other. *)
CreateRemovesItsOwn ==
    [][\A w \in Writers :
          job[w].at = "clean" /\ job'[w].at = "idle" /\ dir'[Target] # dir[Target]
              => dir[Target] = job[w].new]_vars
=============================================================================

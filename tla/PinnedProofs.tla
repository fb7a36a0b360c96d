----------------------------- MODULE PinnedProofs -----------------------------
(***************************************************************************)
(* What a conditional write keeps, for any number of writers, of names, of   *)
(* inodes and of power failures.                                             *)
(***************************************************************************)
EXTENDS PinnedReplace, TLAPS

\* The stages before a writer has a file of its own, and those at which the file
\* it fills is a temp file that nobody may take for the target.
Early == {"idle", "open", "temp", "create"}
Hidden(j) == j.kind # "create" /\ j.at \in {"fill", "sync", "compare", "look", "rename", "clean"}

\* What a job holds at each stage, and how a replacement ties to its pin.
Shaped(j, p) ==
    /\ j.at = "idle" <=> j.kind = "none"
    /\ j.at = "create" => j.kind = "create"
    /\ j.at \in {"open", "temp", "compare", "look", "rename"} => j.kind \in {"replace", "atomic"}
    /\ j.at \in Early => j.new = None
    /\ j.at \notin Early => /\ j.new \in Inodes
                            /\ IF j.kind = "create" THEN j.temp = Target ELSE j.temp \in Temps
    /\ j.at # "idle" => j.bytes \in Texts
    /\ j.kind = "replace" => p # None /\ (j.at # "open" => j.handle = p.ino)
Staged == \A w \in Writers : Shaped(job[w], pin[w])

\* What a writer saw at its last look is there until its history says otherwise.
SeenIsThere ==
    \A w \in Writers :
        /\ job[w].at \in {"look", "rename"} /\ Expects(w) /\ "text" \notin late[w]
              => text[job[w].handle] = pin[w].text
        /\ job[w].at = "rename" /\ "name" \notin late[w] => dir[Target] = job[w].handle

\* No two writers fill one file.
NewsDiffer ==
    \A v, w \in Writers : v # w /\ job[v].new # None => job[v].new # job[w].new

\* A temp name that leads to a writer's file is that writer's, until the rename;
\* and no directory the device may hold has that file under the target's name.
NewIsUnderItsTemp ==
    \A w \in Writers : job[w].new # None =>
        /\ \A n \in Temps : dir[n] = job[w].new => job[w].temp = n /\ job[w].at # "syncdir"
        /\ Hidden(job[w]) => \A d \in device : d[Target] # job[w].new

\* What is renamed into place is whole, and durable.
FilledIsWhole ==
    \A w \in Writers :
        /\ job[w].at \in {"sync", "compare", "look", "rename"} => text[job[w].new] \in Texts
        /\ job[w].at \in {"compare", "look", "rename"} => job[w].new \in synced

\* Whichever directory the device holds after a power failure, the target's text
\* is whole and durable; and no temp name leads to the target's file.
Whole(ino) == \/ ino \in links \cup litter \cup {None}
              \/ text[ino] \in Texts /\ ino \in synced
DeviceIsWhole ==
    /\ dir \in device
    /\ \A d \in device : /\ Whole(d[Target])
                         /\ \A n \in Temps : d[n] # None => d[n] # d[Target]

PinnedInv ==
    TypeOK /\ Staged /\ SeenIsThere /\ NewsDiffer /\ NewIsUnderItsTemp /\ FilledIsWhole
    /\ DeviceIsWhole /\ TempsAreInUse

-----------------------------------------------------------------------------
(* What is free, and what the history remembers.                             *)

LEMMA FreeIsUnused ==
  ASSUME DeviceIsWhole, NEW ino \in Free
  PROVE  /\ ino \in Inodes /\ ino # None
         /\ \A n \in Names : dir[n] # ino /\ \A d \in device : d[n] # ino
         /\ \A w \in Writers : job[w].handle # ino /\ job[w].new # ino
  BY PinnedReplaceAssumption DEF Free, InUse, DeviceIsWhole

\* The history is kept, whatever was left behind.
Remembers == \E left \in SUBSET Inodes : Remember(left)

LEMMA RemembersLooks ==
  ASSUME TypeOK, Remembers, NEW w \in Writers, job'[w].at \in {"look", "rename"}
  PROVE  /\ late[w] \subseteq late'[w]
         /\ Looking(w) /\ job[w].handle # None /\ text'[job[w].handle] # text[job[w].handle]
               => "text" \in late'[w]
         /\ job[w].at = "rename" /\ dir'[Target] # dir[Target] => "name" \in late'[w]
<1> DEFINE text_ == {x \in {"text"} : /\ Looking(w) /\ job[w].handle # None
                                      /\ text'[job[w].handle] # text[job[w].handle]}
           name_ == {x \in {"name"} : /\ job[w].at = "rename"
                                      /\ dir'[Target] # dir[Target]}
<1>1. late'[w] = (late[w] \cup text_) \cup name_
  BY DEF Remember, Remembers
<1>2. Looking(w) /\ job[w].handle # None /\ text'[job[w].handle] # text[job[w].handle]
         => "text" \in text_
  OBVIOUS
<1>3. job[w].at = "rename" /\ dir'[Target] # dir[Target] => "name" \in name_
  OBVIOUS
<1> HIDE DEF text_, name_
<1> QED
  BY <1>1, <1>2, <1>3

LEMMA RemembersLitter ==
  ASSUME Remembers, NEW ino \in litter, ino \notin Free,
         crashes' = crashes, ino \notin synced' \ synced, crashes \in Nat
  PROVE  ino \in litter'
  BY DEF Remember, Remembers

LEMMA RemembersType ==
  ASSUME TypeOK, Remembers, dir' \in Directory, job' \in [Writers -> Job], Staged',
         crashes' \in Nat
  PROVE  late' \in [Writers -> SUBSET {"text", "name"}] /\ litter' \subseteq Inodes
<1>1. \A w \in Writers : job'[w].kind = "create" /\ job'[w].at \in {"fill", "sync"}
                           => job'[w].new \in Inodes
  BY DEF Staged, Shaped, Early
<1>2. \A n \in Temps : dir'[n] \in Inodes \cup {None}
  BY DEF Directory, Names
<1>3. litter' \subseteq Inodes
  BY <1>1, <1>2 DEF Remember, Remembers, TypeOK
<1>4. late' \in [Writers -> SUBSET {"text", "name"}]
  BY DEF Remember, Remembers, TypeOK
<1> QED
  BY <1>3, <1>4

LEMMA IdleType == Idle \in Job /\ \A p : Shaped(Idle, p)
  BY DEF Idle, Job, Stage, Shaped, Early

LEMMA InitInv == Init => PinnedInv
<1> SUFFICES ASSUME Init PROVE PinnedInv
  OBVIOUS
<1>1. PICK ino \in Inodes, t \in Texts :
        /\ dir = [n \in Names |-> IF n = Target THEN ino ELSE None]
        /\ text = [i \in Inodes |-> IF i = ino THEN t ELSE Torn]
  BY DEF Init
<1>2. TypeOK
  BY <1>1, IdleType DEF Init, TypeOK, Directory, Names
<1>3. Staged /\ SeenIsThere /\ NewsDiffer /\ NewIsUnderItsTemp /\ FilledIsWhole
  BY IdleType DEF Init, Staged, SeenIsThere, NewsDiffer, NewIsUnderItsTemp, FilledIsWhole, Idle
<1>4. DeviceIsWhole /\ TempsAreInUse
  BY <1>1, PinnedReplaceAssumption DEF Init, DeviceIsWhole, Whole, TempsAreInUse, Names
<1> QED
  BY <1>2, <1>3, <1>4 DEF PinnedInv

-----------------------------------------------------------------------------
(* One lemma per kind of step.  First the steps of a writer that leave the   *)
(* disk alone.                                                               *)

LEMMA JobMoves ==
  ASSUME PinnedInv, Remembers, NEW w \in Writers, NEW j \in Job,
         job' = [job EXCEPT ![w] = j],
         UNCHANGED <<disk, crashes>>, writes' \in Nat, outside' \in Nat,
         pin' \in [Writers -> Pin \cup {None}],
         \A v \in Writers : v # w => pin'[v] = pin[v],
         Shaped(j, pin'[w]), j.at # "syncdir",
         \* what it holds, and what that was
         \/ j.new = None /\ \A n \in Temps :
               job[w].new # None => dir[n] # job[w].new \/ job[w].new \in litter'
         \/ /\ j.new = job[w].new /\ j.temp = job[w].temp /\ job[w].at # "syncdir"
            /\ Hidden(j) => Hidden(job[w])
            /\ j.at \in {"sync", "compare", "look", "rename"}
                  => job[w].at \in {"compare", "look", "rename"},
         \* what it has seen
         j.at \in {"look", "rename"} /\ j.kind = "replace" /\ "text" \notin late'[w]
            => text[j.handle] = pin'[w].text,
         j.at = "rename" /\ "name" \notin late'[w] => dir[Target] = j.handle
  PROVE  PinnedInv'
<1>1. /\ job' \in [Writers -> Job] /\ job'[w] = j
      /\ \A v \in Writers : v # w => job'[v] = job[v]
  BY DEF PinnedInv, TypeOK
<1>2. Staged'
  BY <1>1 DEF PinnedInv, Staged
<1>3. TypeOK'
  BY <1>1, <1>2, RemembersType DEF PinnedInv, TypeOK, disk
<1>4. SeenIsThere'
  <2> SUFFICES ASSUME NEW v \in Writers
               PROVE  /\ job'[v].at \in {"look", "rename"} /\ job'[v].kind = "replace"
                         /\ "text" \notin late'[v] => text'[job'[v].handle] = pin'[v].text
                      /\ job'[v].at = "rename" /\ "name" \notin late'[v]
                            => dir'[Target] = job'[v].handle
    BY DEF SeenIsThere, Expects
  <2>1. CASE v = w
    BY <2>1, <1>1 DEF disk
  <2>2. CASE v # w
    BY <2>2, <1>1, RemembersLooks DEF PinnedInv, SeenIsThere, Expects, disk
  <2> QED
    BY <2>1, <2>2
<1>5. NewsDiffer'
  BY <1>1 DEF PinnedInv, NewsDiffer
<1>6. NewIsUnderItsTemp'
  BY <1>1 DEF PinnedInv, NewIsUnderItsTemp, disk
<1>7. FilledIsWhole'
  BY <1>1, PinnedReplaceAssumption DEF PinnedInv, FilledIsWhole, Shaped, Early, disk
<1>8. \A ino \in litter : ino \in Free \/ ino \in litter'
  BY RemembersLitter DEF PinnedInv, TypeOK, disk
<1>9. \A d \in device : d[Target] \notin Free /\ \A n \in Temps : d[n] \notin Free
  BY FreeIsUnused DEF PinnedInv, Names
<1>10. DeviceIsWhole'
  BY <1>8, <1>9 DEF PinnedInv, DeviceIsWhole, Whole, disk
<1>11. TempsAreInUse'
  BY <1>1, <1>8, <1>9 DEF PinnedInv, TempsAreInUse, DeviceIsWhole, disk
<1> QED
  BY <1>2, <1>3, <1>4, <1>5, <1>6, <1>7, <1>10, <1>11 DEF PinnedInv

LEMMA ReadKeepsInv ==
  ASSUME PinnedInv, Remembers, NEW w \in Writers, Read(w)
  PROVE  PinnedInv'
<1>1. pin' \in [Writers -> Pin \cup {None}] /\ \A v \in Writers : v # w => pin'[v] = pin[v]
  BY DEF Read, PinnedInv, TypeOK, Directory, Names, Pin
<1>2. job[w] \in Job /\ job[w].kind = "none" /\ job[w].new = None
  BY DEF Read, PinnedInv, TypeOK, Staged, Shaped, Early
<1>3. Shaped(job[w], pin'[w])
  BY <1>2 DEF Read, PinnedInv, Staged, Shaped
<1>4. job' = [job EXCEPT ![w] = job[w]]
  BY DEF Read, PinnedInv, TypeOK
<1> QED
  BY <1>1, <1>2, <1>3, <1>4, JobMoves DEF Read, disk, PinnedInv, TypeOK

LEMMA BeginKeepsInv ==
  ASSUME PinnedInv, Remembers, NEW w \in Writers, NEW kind \in Kinds, NEW bytes \in Texts,
         Begin(w, kind, bytes)
  PROVE  PinnedInv'
<1> DEFINE j == [Idle EXCEPT !.kind = kind, !.bytes = bytes,
                    !.at = IF kind = "create" THEN "create" ELSE "open"]
<1>1. j \in Job /\ j.new = None /\ j.at \in {"create", "open"}
  BY PinnedReplaceAssumption DEF Idle, Job, Stage
<1>2. Shaped(j, pin[w])
  BY PinnedReplaceAssumption DEF Begin, Idle, Shaped, Early
<1>3. job[w].new = None
  BY DEF Begin, PinnedInv, Staged, Shaped, Early
<1>4. job' = [job EXCEPT ![w] = j] /\ pin' = pin
  BY DEF Begin
<1>5. UNCHANGED <<disk, crashes>> /\ writes' \in Nat /\ outside' \in Nat
  BY DEF Begin, PinnedInv, TypeOK
<1>6. pin' \in [Writers -> Pin \cup {None}]
  BY <1>4 DEF PinnedInv, TypeOK
<1> HIDE DEF j
<1> QED
  BY <1>1, <1>2, <1>3, <1>4, <1>5, <1>6, JobMoves

\* A step back to idle of a writer that has no file of its own.
LEMMA ReturnKeepsInv ==
  ASSUME PinnedInv, Remembers, NEW w \in Writers,
         OpenFails(w) \/ CreateTempFails(w) \/ CreateFails(w)
  PROVE  PinnedInv'
<1>1. job[w].new = None
  BY DEF OpenFails, CreateTempFails, CreateFails, PinnedInv, Staged, Shaped, Early
<1>2. Idle.new = None /\ Idle.at = "idle"
  BY DEF Idle
<1> QED
  BY <1>1, <1>2, IdleType, JobMoves
     DEF OpenFails, CreateTempFails, CreateFails, Return, disk, PinnedInv, TypeOK

LEMMA OpenKeepsInv ==
  ASSUME PinnedInv, Remembers, NEW w \in Writers, OpenTarget(w)
  PROVE  PinnedInv'
<1> DEFINE j == [job[w] EXCEPT !.at = "temp", !.handle = dir[Target]]
<1>1. j \in Job /\ j.new = job[w].new /\ j.at = "temp"
  BY DEF PinnedInv, TypeOK, Job, Stage, Directory, Names
<1>2. job[w].new = None /\ Shaped(j, pin[w])
  BY DEF OpenTarget, Expects, PinnedInv, TypeOK, Job, Staged, Shaped, Early
<1>3. job' = [job EXCEPT ![w] = j] /\ pin' = pin
  BY DEF OpenTarget
<1> HIDE DEF j
<1> QED
  BY <1>1, <1>2, <1>3, JobMoves DEF OpenTarget, disk, PinnedInv, TypeOK

LEMMA GoesTo ==
  ASSUME TypeOK, NEW w \in Writers, NEW stage \in Stage, Goto(w, stage)
  PROVE  LET j == [job[w] EXCEPT !.at = stage]
         IN /\ j \in Job /\ j.at = stage /\ j.new = job[w].new /\ j.temp = job[w].temp
            /\ j.kind = job[w].kind /\ j.handle = job[w].handle /\ j.bytes = job[w].bytes
            /\ job' = [job EXCEPT ![w] = j] /\ job'[w] = j
  BY DEF Goto, TypeOK, Job

\* A writer goes to another stage with what it has.
LEMMA GotoKeepsInv ==
  ASSUME PinnedInv, Remembers, NEW w \in Writers, Compare(w) \/ LookAgain(w) \/ Fails(w)
  PROVE  PinnedInv'
<1>1. PICK stage \in {"look", "rename", "clean"} :
        /\ Goto(w, stage)
        /\ stage = "look" => /\ job[w].at = "compare"
                             /\ Expects(w) => text[job[w].handle] = pin[w].text
        /\ stage = "rename" => job[w].at = "look" /\ dir[Target] = job[w].handle
  BY DEF Compare, LookAgain, Fails
<1> DEFINE j == [job[w] EXCEPT !.at = stage]
<1>2. /\ j \in Job /\ j.at = stage
      /\ j.new = job[w].new /\ j.temp = job[w].temp /\ j.kind = job[w].kind
      /\ j.handle = job[w].handle /\ j.bytes = job[w].bytes
      /\ job' = [job EXCEPT ![w] = j] /\ job'[w] = j
  <2>1. stage \in Stage /\ TypeOK
    BY DEF PinnedInv, Stage
  <2> QED
    BY <1>1, <2>1, GoesTo
<1> HIDE DEF j
<1>3. /\ UNCHANGED <<disk, pin, writes, outside, crashes>>
      /\ job[w].at \in {"fill", "sync", "compare", "look", "rename"}
  BY DEF Compare, LookAgain, Fails
<1>4. Shaped(j, pin[w])
  BY <1>1, <1>2, <1>3 DEF PinnedInv, Staged, Shaped, Early
<1>5. stage \in {"look", "rename"} /\ j.kind = "replace" /\ "text" \notin late'[w]
         => text[j.handle] = pin[w].text
  BY <1>1, <1>2, RemembersLooks DEF Expects, PinnedInv, SeenIsThere
<1> QED
  BY <1>1, <1>2, <1>3, <1>4, <1>5, JobMoves
     DEF Hidden, disk, PinnedInv, TypeOK, Staged, Shaped

\* A writer makes an empty file of its own, under a temp name or the target's.
LEMMA MakeKeepsInv ==
  ASSUME PinnedInv, Remembers, NEW w \in Writers, NEW name \in Names, NEW ino \in Free,
         dir[name] = None, Bind(name, ino),
         text' = [text EXCEPT ![ino] = Torn], synced' = synced \ {ino}, links' = links \ {ino},
         job' = [job EXCEPT ![w] = [@ EXCEPT !.at = "fill", !.temp = name, !.new = ino]],
         UNCHANGED <<pin, writes, outside, crashes>>,
         \/ job[w].at = "temp" /\ name \in Temps
         \/ job[w].at = "create" /\ name = Target
  PROVE  PinnedInv'
<1> DEFINE j == [job[w] EXCEPT !.at = "fill", !.temp = name, !.new = ino]
<1>1. /\ ino \in Inodes /\ ino # None
      /\ \A n \in Names : dir[n] # ino /\ \A d \in device : d[n] # ino
      /\ \A v \in Writers : job[v].handle # ino /\ job[v].new # ino
  BY FreeIsUnused DEF PinnedInv
<1>2. /\ j \in Job /\ j.at = "fill" /\ j.temp = name /\ j.new = ino
      /\ j.kind = job[w].kind /\ j.handle = job[w].handle /\ j.bytes = job[w].bytes
  BY <1>1 DEF PinnedInv, TypeOK, Job, Stage
<1>3. /\ job' = [job EXCEPT ![w] = j] /\ job' \in [Writers -> Job] /\ job'[w] = j
      /\ \A v \in Writers : v # w => job'[v] = job[v]
  BY <1>2 DEF PinnedInv, TypeOK
<1> HIDE DEF j
<1>4. /\ dir' \in Directory /\ dir'[name] = ino /\ device' = device \cup {dir'}
      /\ \A n \in Names : n # name => dir'[n] = dir[n]
  BY <1>1 DEF Bind, PinnedInv, TypeOK, Directory
<1>5. job[w].at \in {"temp", "create"} /\ job[w].kind \in {"replace", "atomic", "create"}
      /\ (job[w].kind = "create" <=> name = Target)
  BY PinnedReplaceAssumption DEF PinnedInv, TypeOK, Job, Staged, Shaped
<1>6. Staged'
  BY <1>1, <1>2, <1>3, <1>5 DEF PinnedInv, Staged, Shaped, Early, Names
<1>7. TypeOK'
  <2>1. text' \in [Inodes -> Texts \cup {Torn}] /\ device' \in SUBSET Directory
    BY <1>4 DEF PinnedInv, TypeOK
  <2> QED
    BY <1>3, <1>4, <1>6, <2>1, RemembersType DEF PinnedInv, TypeOK
<1>8. SeenIsThere'
  <2> SUFFICES ASSUME NEW v \in Writers, job'[v].at \in {"look", "rename"}
               PROVE  /\ job'[v].kind = "replace" /\ "text" \notin late'[v]
                            => text'[job'[v].handle] = pin'[v].text
                      /\ job'[v].at = "rename" /\ "name" \notin late'[v]
                            => dir'[Target] = job'[v].handle
    BY DEF SeenIsThere, Expects
  <2>1. v # w /\ job'[v] = job[v]
    BY <1>2, <1>3
  <2>2. text'[job[v].handle] = text[job[v].handle]
    BY <1>1 DEF PinnedInv, TypeOK
  <2>3. name = Target => dir[Target] = None /\ dir'[Target] = ino
    BY <1>4
  <2> QED
    BY <1>1, <1>4, <2>1, <2>2, <2>3, RemembersLooks DEF PinnedInv, SeenIsThere, Expects, Names
<1>9. NewsDiffer'
  BY <1>1, <1>2, <1>3 DEF PinnedInv, NewsDiffer
<1>10. NewIsUnderItsTemp'
  BY <1>1, <1>2, <1>3, <1>4, <1>5, PinnedReplaceAssumption
     DEF PinnedInv, NewIsUnderItsTemp, Names, Hidden, DeviceIsWhole
<1>11. FilledIsWhole'
  BY <1>1, <1>2, <1>3 DEF PinnedInv, TypeOK, FilledIsWhole
<1>12. \A x \in litter : x \in Free \/ x \in litter'
  BY RemembersLitter DEF PinnedInv, TypeOK
<1>13. name = Target => ino \in litter'
  BY <1>2, <1>3, <1>5 DEF Remember, Remembers, PinnedInv, TypeOK
<1>14. \A d \in device : Whole(d[Target])'
  BY <1>1, <1>12, FreeIsUnused DEF PinnedInv, TypeOK, DeviceIsWhole, Whole, Names, Directory
<1>15. Whole(dir[Target])'
  BY <1>4, <1>13, <1>14 DEF Whole, Names, PinnedInv, DeviceIsWhole
<1>16. DeviceIsWhole'
  BY <1>1, <1>4, <1>14, <1>15, PinnedReplaceAssumption DEF PinnedInv, DeviceIsWhole, Names
<1>17. TempsAreInUse'
  BY <1>1, <1>2, <1>3, <1>4, <1>5, <1>12, FreeIsUnused
     DEF PinnedInv, TempsAreInUse, Names, Staged, Shaped, Early
<1> QED
  BY <1>6, <1>7, <1>8, <1>9, <1>10, <1>11, <1>16, <1>17 DEF PinnedInv

LEMMA CreateTempKeepsInv ==
  ASSUME PinnedInv, Remembers, NEW w \in Writers, NEW temp \in Temps, NEW ino \in Inodes,
         CreateTemp(w, temp, ino)
  PROVE  PinnedInv'
<1>1. temp \in Names
  BY DEF Names
<1> QED
  BY <1>1, MakeKeepsInv DEF CreateTemp

LEMMA CreateKeepsInv ==
  ASSUME PinnedInv, Remembers, NEW w \in Writers, NEW ino \in Inodes, Create(w, ino)
  PROVE  PinnedInv'
<1>1. Target \in Names
  BY DEF Names
<1> QED
  BY <1>1, MakeKeepsInv DEF Create

LEMMA FillKeepsInv ==
  ASSUME PinnedInv, Remembers, NEW w \in Writers, Fill(w)
  PROVE  PinnedInv'
<1> DEFINE j == [job[w] EXCEPT !.at = "sync"]
           new == job[w].new
<1>1. /\ j \in Job /\ j.at = "sync" /\ j.new = new /\ j.temp = job[w].temp
      /\ j.kind = job[w].kind /\ j.handle = job[w].handle /\ j.bytes = job[w].bytes
      /\ job' = [job EXCEPT ![w] = j] /\ job'[w] = j
  <2>1. "sync" \in Stage /\ TypeOK
    BY DEF PinnedInv, Stage
  <2> QED
    BY <2>1, GoesTo DEF Fill
<1>2. job' \in [Writers -> Job] /\ \A v \in Writers : v # w => job'[v] = job[v]
  BY <1>1 DEF PinnedInv, TypeOK
<1>3. /\ job[w].at = "fill" /\ new \in Inodes /\ new # None /\ job[w].bytes \in Texts
      /\ text' = [text EXCEPT ![new] = job[w].bytes] /\ synced' = synced \ {new}
      /\ UNCHANGED <<dir, device, links, pin, writes, outside, crashes>>
  BY PinnedReplaceAssumption DEF Fill, PinnedInv, Staged, Shaped, Early
<1> HIDE DEF j, new
<1>4. Staged'
  BY <1>1, <1>2, <1>3 DEF PinnedInv, Staged, Shaped, Early, new
<1>5. TypeOK'
  BY <1>2, <1>3, <1>4, RemembersType DEF PinnedInv, TypeOK
<1>6. SeenIsThere'
  <2> SUFFICES ASSUME NEW v \in Writers, job'[v].at \in {"look", "rename"}
               PROVE  /\ job'[v].kind = "replace" /\ "text" \notin late'[v]
                            => text'[job'[v].handle] = pin'[v].text
                      /\ job'[v].at = "rename" /\ "name" \notin late'[v]
                            => dir'[Target] = job'[v].handle
    BY DEF SeenIsThere, Expects
  <2>1. v # w /\ job'[v] = job[v]
    BY <1>1, <1>2
  <2>2. job[v].kind = "replace" => job[v].handle # None
    BY <2>1, PinnedReplaceAssumption DEF PinnedInv, TypeOK, Staged, Shaped, Pin
  <2> QED
    BY <1>3, <2>1, <2>2, RemembersLooks DEF PinnedInv, SeenIsThere, Expects, Looking
<1>7. NewsDiffer' /\ NewIsUnderItsTemp'
  BY <1>1, <1>2, <1>3 DEF PinnedInv, NewsDiffer, NewIsUnderItsTemp, Hidden, new
<1>8. FilledIsWhole'
  BY <1>1, <1>2, <1>3 DEF PinnedInv, TypeOK, FilledIsWhole, NewsDiffer, new
<1>9. \A x \in litter : x \in Free \/ x \in litter'
  BY <1>3, RemembersLitter DEF PinnedInv, TypeOK
<1>10. \A d \in device : d[Target] \notin Free /\ \A n \in Temps : d[n] \notin Free
  BY FreeIsUnused DEF PinnedInv, Names
<1>11. job[w].kind = "create" => new \in litter'
  BY <1>1, <1>2, <1>3 DEF Remember, Remembers, PinnedInv, TypeOK
<1>12. \A d \in device : Whole(d[Target])'
  <2> SUFFICES ASSUME NEW d \in device PROVE Whole(d[Target])'
    OBVIOUS
  <2>1. CASE d[Target] = new
    <3>1. job[w].kind = "create"
      BY <1>3, <2>1 DEF PinnedInv, NewIsUnderItsTemp, Hidden, new
    <3> QED
      BY <2>1, <3>1, <1>11 DEF Whole
  <2>2. CASE d[Target] # new
    BY <2>2, <1>3, <1>9, <1>10 DEF PinnedInv, TypeOK, DeviceIsWhole, Whole
  <2> QED
    BY <2>1, <2>2
<1>13. DeviceIsWhole'
  BY <1>3, <1>12 DEF PinnedInv, DeviceIsWhole
<1>14. TempsAreInUse'
  BY <1>1, <1>2, <1>3, <1>9, <1>10 DEF PinnedInv, TempsAreInUse, DeviceIsWhole, new
<1> QED
  BY <1>4, <1>5, <1>6, <1>7, <1>8, <1>13, <1>14 DEF PinnedInv

LEMMA SyncKeepsInv ==
  ASSUME PinnedInv, Remembers, NEW w \in Writers, Sync(w)
  PROVE  PinnedInv'
<1>1. PICK stage \in {"syncdir", "compare"} :
        Goto(w, stage) /\ (stage = "syncdir" <=> job[w].kind = "create")
  BY DEF Sync
<1> DEFINE j == [job[w] EXCEPT !.at = stage]
           new == job[w].new
<1>2. /\ j \in Job /\ j.at = stage /\ j.new = new /\ j.temp = job[w].temp
      /\ j.kind = job[w].kind /\ j.handle = job[w].handle /\ j.bytes = job[w].bytes
      /\ job' = [job EXCEPT ![w] = j] /\ job'[w] = j
  <2>1. stage \in Stage /\ TypeOK
    BY DEF PinnedInv, Stage
  <2> QED
    BY <1>1, <2>1, GoesTo
<1>3. job' \in [Writers -> Job] /\ \A v \in Writers : v # w => job'[v] = job[v]
  BY <1>2 DEF PinnedInv, TypeOK
<1>4. /\ job[w].at = "sync" /\ new \in Inodes /\ new # None /\ job[w].bytes \in Texts
      /\ text[new] \in Texts /\ synced' = synced \cup {new}
      /\ job[w].kind \in {"replace", "atomic", "create"}
      /\ UNCHANGED <<dir, device, text, links, pin, writes, outside, crashes>>
  BY PinnedReplaceAssumption DEF Sync, PinnedInv, TypeOK, Job, Staged, Shaped, Early, FilledIsWhole
<1> HIDE DEF j, new
<1>5. Staged'
  BY <1>1, <1>2, <1>3, <1>4 DEF PinnedInv, Staged, Shaped, Early, new
<1>6. TypeOK'
  BY <1>3, <1>4, <1>5, RemembersType DEF PinnedInv, TypeOK
<1>7. SeenIsThere'
  BY <1>2, <1>3, <1>4, RemembersLooks DEF PinnedInv, SeenIsThere, Expects
<1>8. NewsDiffer' /\ NewIsUnderItsTemp'
  <2>1. \A n \in Temps : job[w].kind = "create" => dir[n] # new
    BY <1>4, PinnedReplaceAssumption DEF PinnedInv, Staged, Shaped, Early, NewIsUnderItsTemp, new
  <2> QED
    BY <1>1, <1>2, <1>3, <1>4, <2>1 DEF PinnedInv, NewsDiffer, NewIsUnderItsTemp, Hidden, new
<1>9. FilledIsWhole'
  BY <1>2, <1>3, <1>4 DEF PinnedInv, TypeOK, FilledIsWhole, new
<1>10. \A x \in litter : x \in Free \/ x \in litter' \/ x = new
  BY <1>4, RemembersLitter DEF PinnedInv, TypeOK
<1>11. \A d \in device : d[Target] \notin Free /\ \A n \in Temps : d[n] \notin Free
  BY FreeIsUnused DEF PinnedInv, Names
<1>12. DeviceIsWhole'
  BY <1>4, <1>10, <1>11 DEF PinnedInv, DeviceIsWhole, Whole
<1>13. TempsAreInUse'
  <2>1. \A n \in Temps : dir[n] = new => job'[w].temp = n /\ job'[w].new = dir[n]
    BY <1>2, <1>4 DEF PinnedInv, NewIsUnderItsTemp, new
  <2> QED
    BY <1>2, <1>3, <1>4, <1>10, <1>11, <2>1 DEF PinnedInv, TempsAreInUse, DeviceIsWhole, new
<1> QED
  BY <1>5, <1>6, <1>7, <1>8, <1>9, <1>12, <1>13 DEF PinnedInv

LEMMA RenameKeepsInv ==
  ASSUME PinnedInv, Remembers, NEW w \in Writers, Rename(w)
  PROVE  PinnedInv'
<1> DEFINE j == [job[w] EXCEPT !.at = "syncdir"]
           new == job[w].new
<1>1. /\ j \in Job /\ j.at = "syncdir" /\ j.new = new /\ j.temp = job[w].temp
      /\ j.kind = job[w].kind /\ j.handle = job[w].handle /\ j.bytes = job[w].bytes
      /\ job' = [job EXCEPT ![w] = j] /\ job'[w] = j
  <2>1. "syncdir" \in Stage /\ TypeOK
    BY DEF PinnedInv, Stage
  <2> QED
    BY <2>1, GoesTo DEF Rename
<1>2. job' \in [Writers -> Job] /\ \A v \in Writers : v # w => job'[v] = job[v]
  BY <1>1 DEF PinnedInv, TypeOK
<1>3. /\ job[w].at = "rename" /\ job[w].kind \in {"replace", "atomic"}
      /\ new \in Inodes /\ new # None /\ job[w].temp \in Temps
      /\ text[new] \in Texts /\ new \in synced
      /\ UNCHANGED <<text, synced, links, pin, writes, outside, crashes>>
  BY PinnedReplaceAssumption DEF Rename, PinnedInv, Staged, Shaped, Early, FilledIsWhole
<1>4. /\ dir' \in Directory /\ device' = device \cup {dir'}
      /\ dir'[Target] = new /\ dir'[job[w].temp] = None
      /\ \A n \in Temps : n # job[w].temp => dir'[n] = dir[n] /\ dir[n] # new
  BY <1>3, PinnedReplaceAssumption
     DEF Rename, PinnedInv, TypeOK, Directory, Names, NewIsUnderItsTemp
<1> HIDE DEF j, new
<1>5. Staged'
  BY <1>1, <1>2, <1>3 DEF PinnedInv, Staged, Shaped, Early, new
<1>6. TypeOK'
  BY <1>2, <1>3, <1>4, <1>5, RemembersType DEF PinnedInv, TypeOK
<1>7. SeenIsThere'
  BY <1>1, <1>2, <1>3, RemembersLooks DEF PinnedInv, SeenIsThere, Expects
<1>8. NewsDiffer'
  BY <1>1, <1>2 DEF PinnedInv, NewsDiffer, new
<1>9. NewIsUnderItsTemp'
  <2>1. \A v \in Writers : v # w /\ job[v].new # None => job[v].new # new
    BY DEF PinnedInv, NewsDiffer, new
  <2>2. \A n \in Temps : dir'[n] # new
    BY <1>3, <1>4
  <2>3. \A v \in Writers, n \in Temps : job[v].new # None /\ dir'[n] = job[v].new => dir[n] = dir'[n]
    BY <1>4
  <2> QED
    BY <1>1, <1>2, <1>4, <2>1, <2>2, <2>3 DEF PinnedInv, NewIsUnderItsTemp, Hidden
<1>10. FilledIsWhole'
  BY <1>1, <1>2, <1>3 DEF PinnedInv, FilledIsWhole
<1>11. \A x \in litter : x \in Free \/ x \in litter'
  BY <1>3, RemembersLitter DEF PinnedInv, TypeOK
<1>12. \A d \in device : d[Target] \notin Free /\ \A n \in Temps : d[n] \notin Free
  BY FreeIsUnused DEF PinnedInv, Names
<1>13. DeviceIsWhole'
  BY <1>3, <1>4, <1>11, <1>12 DEF PinnedInv, DeviceIsWhole, Whole
<1>14. TempsAreInUse'
  BY <1>1, <1>2, <1>4, <1>11, <1>12 DEF PinnedInv, TempsAreInUse, DeviceIsWhole, new
<1> QED
  BY <1>5, <1>6, <1>7, <1>8, <1>9, <1>10, <1>13, <1>14 DEF PinnedInv

\* A writer that is done with its file: the directory is as it was, or without
\* the name the file has.
LEMMA EndKeepsInv ==
  ASSUME PinnedInv, Remembers, NEW w \in Writers, SyncDir(w) \/ Clean(w)
  PROVE  PinnedInv'
<1> DEFINE new == job[w].new
<1>1. /\ job[w].at \in {"syncdir", "clean"} /\ new \in Inodes /\ job[w].bytes \in Texts
      /\ IF job[w].kind = "create" THEN job[w].temp = Target ELSE job[w].temp \in Temps
  BY DEF SyncDir, Clean, PinnedInv, Staged, Shaped, Early
<1>2. /\ job' = [job EXCEPT ![w] = Idle] /\ job' \in [Writers -> Job] /\ job'[w] = Idle
      /\ \A v \in Writers : v # w => job'[v] = job[v]
  BY IdleType DEF SyncDir, Clean, Return, PinnedInv, TypeOK
<1>3. /\ UNCHANGED <<text, synced, links, writes, outside, crashes>>
      /\ pin' \in [Writers -> Pin \cup {None}]
      /\ \A v \in Writers : v # w => pin'[v] = pin[v]
  BY <1>1 DEF SyncDir, Clean, PinnedInv, TypeOK, Pin
<1>4. /\ dir' \in Directory /\ device' \in SUBSET Directory
      /\ dir' \in device' /\ device' \subseteq device \cup {dir'}
      /\ \A n \in Names : dir'[n] = dir[n] \/ dir'[n] = None
      /\ dir'[Target] # dir[Target] => job[w].at = "clean" /\ job[w].temp = Target
  <2>1. CASE SyncDir(w)
    BY <2>1 DEF SyncDir, PinnedInv, TypeOK, DeviceIsWhole
  <2>2. CASE Clean(w)
    <3>1. /\ job[w].temp \in Names /\ dir' = [dir EXCEPT ![job[w].temp] = None]
          /\ device' = device \cup {dir'} /\ job[w].at = "clean"
      BY <2>2, <1>1 DEF Clean, Bind, Names
    <3>2. dir' \in Directory /\ \A n \in Names : n # job[w].temp => dir'[n] = dir[n]
      BY <3>1 DEF PinnedInv, TypeOK, Directory
    <3>3. dir'[job[w].temp] = None
      BY <3>1 DEF PinnedInv, TypeOK, Directory
    <3> QED
      BY <3>1, <3>2, <3>3 DEF PinnedInv, TypeOK, Names
  <2> QED
    BY <2>1, <2>2
<1>5. \A n \in Temps : dir'[n] # None => dir'[n] # new
  <2>1. CASE SyncDir(w)
    BY <2>1, <1>1, PinnedReplaceAssumption DEF SyncDir, PinnedInv, NewIsUnderItsTemp
  <2>2. CASE Clean(w)
    BY <2>2, <1>1, PinnedReplaceAssumption
       DEF Clean, Bind, PinnedInv, TypeOK, Directory, Names, NewIsUnderItsTemp
  <2> QED
    BY <2>1, <2>2
<1> HIDE DEF new
<1>6. Idle.at = "idle" /\ Idle.new = None /\ Idle.kind = "none" /\ Shaped(Idle, pin'[w])
  BY IdleType DEF Idle
<1>7. Staged'
  BY <1>2, <1>3, <1>6 DEF PinnedInv, Staged
<1>8. TypeOK'
  BY <1>2, <1>3, <1>4, <1>7, RemembersType DEF PinnedInv, TypeOK
<1>9. SeenIsThere'
  BY <1>2, <1>3, <1>6, RemembersLooks DEF PinnedInv, SeenIsThere, Expects
<1>10. NewsDiffer'
  BY <1>2, <1>6 DEF PinnedInv, NewsDiffer
<1>11. NewIsUnderItsTemp'
  <2> SUFFICES ASSUME NEW v \in Writers, job'[v].new # None
               PROVE  /\ \A n \in Temps : dir'[n] = job'[v].new
                                            => job'[v].temp = n /\ job'[v].at # "syncdir"
                      /\ Hidden(job'[v]) => \A d \in device' : d[Target] # job'[v].new
    BY DEF NewIsUnderItsTemp
  <2>1. v # w /\ job'[v] = job[v]
    BY <1>2, <1>6
  <2>2. \A n \in Temps : dir'[n] = job[v].new => dir[n] = job[v].new
    BY <1>4, <2>1 DEF Names
  <2>3. dir'[Target] = job[v].new => dir[Target] = job[v].new
    BY <1>4, <2>1 DEF Names
  <2> QED
    BY <1>4, <2>1, <2>2, <2>3 DEF PinnedInv, NewIsUnderItsTemp, DeviceIsWhole
<1>12. FilledIsWhole'
  BY <1>2, <1>3, <1>6 DEF PinnedInv, FilledIsWhole
<1>13. \A x \in litter : x \in Free \/ x \in litter'
  BY <1>3, RemembersLitter DEF PinnedInv, TypeOK
<1>14. \A d \in device : d[Target] \notin Free /\ \A n \in Temps : d[n] \notin Free
  BY FreeIsUnused DEF PinnedInv, Names
<1>15. \A d \in device : Whole(d[Target])'
  BY <1>3, <1>13, <1>14 DEF PinnedInv, DeviceIsWhole, Whole
<1>16. Whole(dir[Target])'
  BY <1>3, <1>4, <1>15 DEF PinnedInv, DeviceIsWhole, Whole, Names
<1>17. \A n \in Temps : dir'[n] # None => dir'[n] # dir'[Target]
  BY <1>4 DEF PinnedInv, DeviceIsWhole, Names
<1>18. DeviceIsWhole'
  BY <1>4, <1>15, <1>16, <1>17 DEF PinnedInv, DeviceIsWhole
<1>19. TempsAreInUse'
  <2> SUFFICES ASSUME NEW n \in Temps, dir'[n] \notin litter' \cup {None}
               PROVE  \E v \in Writers : job'[v].temp = n /\ dir'[n] = job'[v].new
    BY DEF TempsAreInUse
  <2>1. dir'[n] = dir[n] /\ dir[n] \notin litter \cup {None}
    BY <1>4, <1>13, <1>14 DEF PinnedInv, DeviceIsWhole, Names
  <2>2. PICK v \in Writers : job[v].temp = n /\ dir[n] = job[v].new
    BY <2>1 DEF PinnedInv, TempsAreInUse
  <2>3. v # w
    BY <1>5, <2>1, <2>2 DEF new
  <2> QED
    BY <1>2, <2>1, <2>2, <2>3
<1> QED
  BY <1>7, <1>8, <1>9, <1>10, <1>11, <1>12, <1>18, <1>19 DEF PinnedInv

\* A writer that cannot remove its file leaves it, and the history has it.
LEMMA CleanFailsKeepsInv ==
  ASSUME PinnedInv, NEW w \in Writers, CleanFails(w), Remember(Left(w))
  PROVE  PinnedInv'
<1>1. /\ job[w].at = "clean" /\ job[w].new \in Inodes
      /\ IF job[w].kind = "create" THEN job[w].temp = Target ELSE job[w].temp \in Temps
  BY DEF CleanFails, PinnedInv, Staged, Shaped, Early
<1>2. Remembers
  BY <1>1 DEF Remembers, Left
<1>3. job' = [job EXCEPT ![w] = Idle]
      /\ UNCHANGED <<disk, pin, writes, outside, crashes>>
  BY DEF CleanFails, Return
<1>4. \A n \in Temps : dir[n] # job[w].new \/ job[w].new \in litter'
  <2>1. CASE job[w].kind = "create"
    BY <1>1, <2>1, PinnedReplaceAssumption DEF PinnedInv, NewIsUnderItsTemp
  <2>2. CASE job[w].kind # "create"
    BY <1>3, <2>2 DEF Left, Remember, PinnedInv, TypeOK
  <2> QED
    BY <2>1, <2>2
<1>5. Idle.new = None /\ Idle.at = "idle"
  BY DEF Idle
<1> QED
  BY <1>2, <1>3, <1>4, <1>5, IdleType, JobMoves DEF disk, PinnedInv, TypeOK

-----------------------------------------------------------------------------
(* The steps of everybody else.                                              *)

\* The directory changes under the target's name, or not at all, and texts only
\* where they become whole and durable.
LEMMA OutsideKeepsInv ==
  ASSUME PinnedInv, Remembers, Outside
  PROVE  PinnedInv'
<1>1. /\ UNCHANGED <<pin, job, writes, crashes>> /\ outside' \in Nat
  BY DEF Outside, WriteInPlace, PutOver, Remove, Settle, Interferes, PinnedInv, TypeOK
<1>2. /\ dir' \in Directory /\ device' \in SUBSET Directory
      /\ dir' \in device' /\ device' \subseteq device \cup {dir'}
      /\ \A n \in Temps : dir'[n] = dir[n]
      /\ dir'[Target] \in {dir[Target], None} \cup Free
  <2>1. CASE dir' = dir /\ device' \in {device, {dir}}
    BY <2>1 DEF PinnedInv, TypeOK, DeviceIsWhole
  <2>2. CASE \E i \in Free \cup {None} : Bind(Target, i)
    <3>1. PICK i \in Free \cup {None} : dir' = [dir EXCEPT ![Target] = i] /\ device' = device \cup {dir'}
      BY <2>2 DEF Bind
    <3>2. /\ dir' \in Directory /\ dir'[Target] = i
          /\ \A n \in Names : n # Target => dir'[n] = dir[n]
      BY <3>1 DEF PinnedInv, TypeOK, Directory, Names, Free
    <3> QED
      BY <3>1, <3>2, PinnedReplaceAssumption DEF PinnedInv, TypeOK, Names
  <2> QED
    BY <2>1, <2>2 DEF Outside, WriteInPlace, PutOver, Remove, Settle
<1>3. PICK ino \in Inodes \cup {None} :
        /\ ino \in Free \cup {dir[Target], None}
        /\ dir'[Target] \in Free => dir'[Target] = ino
        /\ \A x \in Inodes : x # ino => text'[x] = text[x] /\ (x \in links' <=> x \in links)
        /\ text' \in [Inodes -> Texts \cup {Torn}] /\ links' \subseteq Inodes
        /\ synced' = (IF ino = None THEN synced ELSE synced \cup {ino})
        /\ ino # None => text'[ino] \in Texts
        /\ ino \in links /\ ino \notin Free => ino \in links'
  <2>1. ASSUME NEW t \in Texts, WriteInPlace(t)
        PROVE  /\ dir[Target] \in Inodes /\ text' = [text EXCEPT ![dir[Target]] = t]
               /\ synced' = synced \cup {dir[Target]} /\ UNCHANGED <<dir, links>>
    BY <2>1 DEF WriteInPlace, PinnedInv, TypeOK, Directory, Names
  <2>2. ASSUME NEW t \in Texts, NEW i \in Inodes, NEW link \in BOOLEAN, PutOver(i, t, link)
        PROVE  /\ i \in Free /\ dir'[Target] = i /\ text' = [text EXCEPT ![i] = t]
               /\ synced' = synced \cup {i}
               /\ links' = (IF link THEN links \cup {i} ELSE links \ {i})
    BY <2>2 DEF PutOver, Bind, PinnedInv, TypeOK, Directory, Names
  <2>3. ASSUME Remove \/ Settle
        PROVE  UNCHANGED <<text, synced, links>> /\ dir'[Target] \in {dir[Target], None}
    BY <2>3 DEF Remove, Settle, Bind, PinnedInv, TypeOK, Directory, Names
  <2>4. dir[Target] \notin Free /\ None \notin Free
    BY FreeIsUnused, PinnedReplaceAssumption DEF PinnedInv, Names
  <2>5. CASE \E t \in Texts : WriteInPlace(t)
    <3>1. PICK t \in Texts : WriteInPlace(t)
      BY <2>5
    <3>2. dir[Target] \in Inodes /\ dir[Target] # None
      BY <2>1, <3>1, PinnedReplaceAssumption
    <3>3. dir[Target] \in Inodes \cup {None}
      BY <3>2
    <3> USE <3>3
    <3> WITNESS dir[Target] \in Inodes \cup {None}
    <3> QED
      BY <2>1, <2>4, <3>1, <3>2 DEF PinnedInv, TypeOK
  <2>6. CASE \E t \in Texts, i \in Inodes, link \in BOOLEAN : PutOver(i, t, link)
    <3>1. PICK t \in Texts, i \in Inodes, link \in BOOLEAN : PutOver(i, t, link)
      BY <2>6
    <3> HIDE DEF PutOver
    <3>2. /\ i \in Free /\ dir'[Target] = i /\ text' = [text EXCEPT ![i] = t]
          /\ synced' = synced \cup {i}
          /\ links' = (IF link THEN links \cup {i} ELSE links \ {i})
      BY <2>2, <3>1
    <3>3. i # None
      BY PinnedReplaceAssumption
    <3> WITNESS i \in Inodes \cup {None}
    <3> QED
      BY <2>4, <3>2, <3>3 DEF PinnedInv, TypeOK
  <2>7. CASE Remove \/ Settle
    BY <2>3, <2>4, <2>7 DEF PinnedInv, TypeOK
  <2> QED
    BY <2>5, <2>6, <2>7 DEF Outside
<1>4. Staged' /\ NewsDiffer'
  BY <1>1 DEF PinnedInv, Staged, NewsDiffer
<1>5. TypeOK'
  <2>1. synced' \subseteq Inodes
    BY <1>3 DEF PinnedInv, TypeOK
  <2> QED
    BY <1>1, <1>2, <1>3, <1>4, <2>1, RemembersType DEF PinnedInv, TypeOK
<1>6. SeenIsThere'
  <2> SUFFICES ASSUME NEW v \in Writers, job'[v].at \in {"look", "rename"}
               PROVE  /\ job'[v].kind = "replace" /\ "text" \notin late'[v]
                            => text'[job'[v].handle] = pin'[v].text
                      /\ job'[v].at = "rename" /\ "name" \notin late'[v]
                            => dir'[Target] = job'[v].handle
    BY DEF SeenIsThere, Expects
  <2>1. job[v].kind = "replace" => job[v].handle # None
    BY PinnedReplaceAssumption, <1>1 DEF PinnedInv, TypeOK, Staged, Shaped, Pin
  <2> QED
    BY <1>1, <2>1, RemembersLooks DEF PinnedInv, SeenIsThere, Expects, Looking
<1>7. NewIsUnderItsTemp'
  <2>1. \A v \in Writers : job[v].new # None => (dir'[Target] = job[v].new => dir[Target] = job[v].new)
    BY <1>2, FreeIsUnused DEF PinnedInv
  <2> QED
    BY <1>1, <1>2, <2>1 DEF PinnedInv, NewIsUnderItsTemp, DeviceIsWhole
<1>8. FilledIsWhole'
  <2> SUFFICES ASSUME NEW v \in Writers, job[v].at \in {"sync", "compare", "look", "rename"}
               PROVE  /\ text'[job[v].new] \in Texts
                      /\ job[v].new \in synced => job[v].new \in synced'
    BY <1>1 DEF PinnedInv, FilledIsWhole
  <2>1. job[v].new \in Inodes /\ text[job[v].new] \in Texts
    BY DEF PinnedInv, Staged, Shaped, Early, FilledIsWhole
  <2> QED
    BY <1>3, <2>1, PinnedReplaceAssumption
<1>9. \A x \in litter : x \in Free \/ x \in litter' \/ (x # None /\ text'[x] \in Texts /\ x \in synced')
  BY <1>1, <1>3, RemembersLitter DEF PinnedInv, TypeOK
<1>10. \A d \in device : d[Target] \in Inodes \cup {None} /\ d[Target] \notin Free
                          /\ \A n \in Temps : d[n] \notin Free
  BY FreeIsUnused DEF PinnedInv, Names, TypeOK, Directory
<1>11. \A d \in device : Whole(d[Target])'
  BY <1>3, <1>9, <1>10 DEF PinnedInv, TypeOK, DeviceIsWhole, Whole
<1>12. Whole(dir[Target])'
  BY <1>2, <1>3, <1>11 DEF PinnedInv, DeviceIsWhole, Whole, Free
<1>13. DeviceIsWhole'
  BY <1>2, <1>10, <1>11, <1>12 DEF PinnedInv, DeviceIsWhole
<1>14. TempsAreInUse'
  <2> SUFFICES ASSUME NEW n \in Temps, dir'[n] \notin litter' \cup {None}
               PROVE  \E v \in Writers : job'[v].temp = n /\ dir'[n] = job'[v].new
    BY DEF TempsAreInUse
  <2>1. dir'[n] = dir[n] /\ dir[n] \notin Free /\ dir[n] # None /\ dir[n] # dir[Target]
    BY <1>2, <1>10 DEF PinnedInv, DeviceIsWhole
  <2>2. dir[n] \notin synced' \ synced
    BY <1>3, <2>1
  <2>3. dir[n] \notin litter
    BY <1>1, <2>1, <2>2, RemembersLitter DEF PinnedInv, TypeOK
  <2> QED
    BY <1>1, <2>1, <2>3 DEF PinnedInv, TempsAreInUse
<1> QED
  BY <1>4, <1>5, <1>6, <1>7, <1>8, <1>13, <1>14 DEF PinnedInv

LEMMA CrashKeepsInv ==
  ASSUME PinnedInv, Remembers, Crash
  PROVE  PinnedInv'
<1>1. /\ dir' \in device /\ device' = {dir'} /\ synced' = Inodes
      /\ pin' = [w \in Writers |-> None] /\ job' = [w \in Writers |-> Idle]
      /\ crashes' = crashes + 1 /\ UNCHANGED <<links, writes, outside>>
  BY DEF Crash
<1>2. /\ text' \in [Inodes -> Texts \cup {Torn}]
      /\ \A i \in synced : text'[i] = text[i]
  BY DEF Crash, PinnedInv, TypeOK
<1>3. Idle.at = "idle" /\ Idle.new = None /\ Idle.kind = "none"
  BY DEF Idle
<1>4. Staged' /\ NewsDiffer' /\ NewIsUnderItsTemp' /\ FilledIsWhole' /\ SeenIsThere'
  BY <1>1, <1>3, IdleType
     DEF Staged, NewsDiffer, NewIsUnderItsTemp, FilledIsWhole, SeenIsThere, Expects
<1>5. litter \subseteq litter' /\ \A n \in Temps : dir'[n] \in litter' \cup {None}
  BY <1>1 DEF Remember, Remembers, PinnedInv, TypeOK
<1>6. TypeOK'
  <2>1. /\ dir' \in Directory /\ device' \in SUBSET Directory /\ crashes' \in Nat
        /\ job' \in [Writers -> Job] /\ pin' \in [Writers -> Pin \cup {None}]
    BY <1>1, IdleType DEF PinnedInv, TypeOK
  <2> QED
    BY <1>1, <1>2, <1>4, <2>1, RemembersType DEF PinnedInv, TypeOK
<1>7. \A d \in device : d[Target] \in Inodes \cup {None}
  BY DEF PinnedInv, TypeOK, Directory, Names
<1>8. DeviceIsWhole'
  BY <1>1, <1>2, <1>5, <1>7 DEF PinnedInv, DeviceIsWhole, Whole
<1>9. TempsAreInUse'
  BY <1>5 DEF TempsAreInUse
<1> QED
  BY <1>4, <1>6, <1>8, <1>9 DEF PinnedInv

LEMMA StutterKeepsInv == PinnedInv /\ UNCHANGED vars => PinnedInv'
<1> SUFFICES ASSUME PinnedInv, UNCHANGED vars PROVE PinnedInv'
  OBVIOUS
<1>1. TypeOK' /\ Staged' /\ SeenIsThere' /\ NewsDiffer'
  BY DEF vars, PinnedInv, TypeOK, Staged, SeenIsThere, Expects, NewsDiffer
<1>2. NewIsUnderItsTemp' /\ FilledIsWhole' /\ DeviceIsWhole' /\ TempsAreInUse'
  BY DEF vars, PinnedInv, NewIsUnderItsTemp, FilledIsWhole, DeviceIsWhole, Whole, TempsAreInUse
<1> QED
  BY <1>1, <1>2 DEF PinnedInv

LEMMA StepKeepsInv ==
  ASSUME PinnedInv, Remembers, NEW w \in Writers, Step(w)
  PROVE  PinnedInv'
<1>1. CASE Read(w) \/ (\E kind \in Kinds, bytes \in Texts : Begin(w, kind, bytes))
  BY <1>1, ReadKeepsInv, BeginKeepsInv
<1>2. CASE \E ino \in Inodes : (\E temp \in Temps : CreateTemp(w, temp, ino)) \/ Create(w, ino)
  BY <1>2, CreateTempKeepsInv, CreateKeepsInv
<1>3. CASE OpenTarget(w) \/ OpenFails(w) \/ CreateTempFails(w) \/ CreateFails(w)
  BY <1>3, OpenKeepsInv, ReturnKeepsInv
<1>4. CASE Fill(w) \/ Sync(w) \/ Rename(w)
  BY <1>4, FillKeepsInv, SyncKeepsInv, RenameKeepsInv
<1>5. CASE Compare(w) \/ LookAgain(w) \/ Fails(w) \/ SyncDir(w) \/ Clean(w)
  BY <1>5, GotoKeepsInv, EndKeepsInv
<1> QED
  BY <1>1, <1>2, <1>3, <1>4, <1>5 DEF Step

LEMMA NextKeepsInv == PinnedInv /\ [Next]_vars => PinnedInv'
<1> SUFFICES ASSUME PinnedInv, [Next]_vars PROVE PinnedInv'
  OBVIOUS
<1>1. Remember({}) => Remembers
  BY DEF Remembers
<1>2. CASE ((\E w \in Writers : Step(w)) \/ Outside \/ Crash) /\ Remember({})
  BY <1>1, <1>2, StepKeepsInv, OutsideKeepsInv, CrashKeepsInv
<1>3. CASE \E w \in Writers : CleanFails(w) /\ Remember(Left(w))
  BY <1>3, CleanFailsKeepsInv
<1> QED
  BY <1>2, <1>3, StutterKeepsInv DEF Next

\* Every variable keeps to its type, every temp file to its writer, and every
\* directory the device may hold to a whole target.
THEOREM PinnedInvariant == Spec => []PinnedInv
<1>1. PinnedInv /\ [Next]_vars => PinnedInv'
  BY NextKeepsInv
<1> QED
  BY InitInv, <1>1, PTL DEF Spec

-----------------------------------------------------------------------------
\* However many writers, programs and crashes there are, and however inode numbers
\* are reused, a replacement goes in only over what its caller read, unless it
\* was changed after the last look (pinned.rs replace: the identity, the content
\* through the descriptor, the name again).
THEOREM ReplacesOnlyWhatWasRead == Spec => []ReplacesWhatWasRead
<1>1. PinnedInv => ReplacesWhatWasRead
  BY DEF PinnedInv, Staged, Shaped, SeenIsThere, Expects, ReplacesWhatWasRead
<1> QED
  BY <1>1, PinnedInvariant, PTL

\* Whatever moment the power fails at, the name leads to a whole text (pinned.rs
\* replace: sync_all before renameat).
THEOREM TargetStaysWhole == Spec => []TargetIsWhole
<1>1. PinnedInv => TargetIsWhole
  BY DEF PinnedInv, DeviceIsWhole, Whole, TargetIsWhole
<1> QED
  BY <1>1, PinnedInvariant, PTL

\* A temp file in the directory is in use, or a crash left it, or a removal that
\* failed: whatever fails at whichever step, an operation ends only once it has
\* renamed its temp file or tried to remove it (pinned.rs replace).
THEOREM NoTempIsLeft == Spec => []TempsAreInUse
<1>1. PinnedInv => TempsAreInUse
  BY DEF PinnedInv
<1> QED
  BY <1>1, PinnedInvariant, PTL

\* What is reported as failed has not reached the file (pinned.rs WriteError).
THEOREM FailureLeavesTheFile == Spec => []FailedLeavesTheFile
<1>1. PinnedInv => FailedLeavesTheFile
  BY PinnedReplaceAssumption
     DEF PinnedInv, Staged, Shaped, Early, NewIsUnderItsTemp, Hidden, DeviceIsWhole,
         FailedLeavesTheFile
<1> QED
  BY <1>1, PinnedInvariant, PTL

-----------------------------------------------------------------------------
(* The conditional write implements FileService.  What that needs beyond the *)
(* invariant: a writer's own file and the one it opened are no links, and    *)
(* nobody has opened a temp file.                                            *)
OpensFiles ==
    \A w \in Writers :
        /\ job[w].new \notin links /\ job[w].handle \notin links
        /\ \A v \in Writers : Hidden(job[v]) => job[v].new # job[w].handle

\* What a step of a writer may make of its file and its handle.
MovesFiles(w) ==
    /\ job'[w].new \in Free \cup {None, job[w].new}
    /\ job'[w].handle \in {None, job[w].handle, dir[Target]} \ links'
    /\ Hidden(job'[w]) => job'[w].new \in Free \/ (Hidden(job[w]) /\ job'[w].new = job[w].new)

LEMMA LinksAreFree ==
  ASSUME PinnedInv, Next
  PROVE  links' \ links \subseteq Free
<1>1. ASSUME NEW w \in Writers, Step(w) PROVE links' \subseteq links
  BY <1>1 DEF Step, Read, Begin, OpenTarget, OpenFails, CreateTemp, Create, CreateTempFails,
     CreateFails, Fill, Sync, Compare, LookAgain, Rename, SyncDir, Fails, Clean, CleanFails, disk
<1>3. ASSUME NEW w \in Writers, CleanFails(w) PROVE links' = links
  BY <1>3 DEF CleanFails, disk
<1>2. ASSUME Outside PROVE links' \ links \subseteq Free
  BY <1>2 DEF Outside, WriteInPlace, PutOver, Remove, Settle
<1> QED
  BY <1>1, <1>2, <1>3 DEF Next, Crash

LEMMA OneWriterMoves ==
  ASSUME PinnedInv, NEW w \in Writers, Step(w) \/ CleanFails(w)
  PROVE  \A v \in Writers : v # w => job'[v] = job[v] /\ pin'[v] = pin[v]
  BY DEF Step, Read, Begin, OpenTarget, OpenFails, CreateTemp, Create, CreateTempFails, CreateFails,
         Fill, Sync, Compare, LookAgain, Rename, SyncDir, Fails, Clean, CleanFails, Goto, Return, disk,
         PinnedInv, TypeOK

LEMMA StepMakes ==
  ASSUME PinnedInv, NEW w \in Writers, NEW ino \in Inodes,
         (\E temp \in Temps : CreateTemp(w, temp, ino)) \/ Create(w, ino)
  PROVE  /\ ino \in Free /\ links' = links \ {ino}
         /\ job'[w].new = ino /\ job'[w].handle = job[w].handle
<1>1. PICK name : /\ job' = [job EXCEPT ![w] = [@ EXCEPT !.at = "fill", !.temp = name, !.new = ino]]
                  /\ ino \in Free /\ links' = links \ {ino}
  BY DEF CreateTemp, Create
<1>2. job[w] \in Job /\ job \in [Writers -> Job]
  BY DEF PinnedInv, TypeOK
<1>3. job'[w] = [job[w] EXCEPT !.at = "fill", !.temp = name, !.new = ino]
  BY <1>1, <1>2
<1> QED
  BY <1>1, <1>2, <1>3 DEF Job

LEMMA StepMovesFiles ==
  ASSUME PinnedInv, OpensFiles, NEW w \in Writers, Step(w) \/ CleanFails(w)
  PROVE  MovesFiles(w)
<1>1. Idle.new = None /\ Idle.handle = None /\ Idle.at = "idle"
  BY DEF Idle
<1>2. CASE \/ Read(w) \/ OpenFails(w) \/ CreateTempFails(w) \/ CreateFails(w)
           \/ SyncDir(w) \/ Clean(w) \/ CleanFails(w)
  BY <1>1, <1>2, PinnedReplaceAssumption
     DEF MovesFiles, Hidden, OpensFiles, Read, OpenFails, CreateTempFails, CreateFails, SyncDir,
         Clean, CleanFails, Return, disk, PinnedInv, TypeOK
<1>3. CASE \E kind \in Kinds, bytes \in Texts : Begin(w, kind, bytes)
  BY <1>1, <1>3, PinnedReplaceAssumption DEF MovesFiles, Hidden, Begin, Idle, disk, PinnedInv, TypeOK
<1>4. CASE \E ino \in Inodes : (\E temp \in Temps : CreateTemp(w, temp, ino)) \/ Create(w, ino)
  <2>1. PICK ino \in Free : links' = links \ {ino} /\ job'[w].new = ino /\ job'[w].handle = job[w].handle
    BY <1>4, StepMakes
  <2> QED
    BY <2>1 DEF MovesFiles, OpensFiles
<1>5. CASE OpenTarget(w)
  BY <1>5 DEF MovesFiles, Hidden, OpenTarget, disk, PinnedInv, TypeOK, Job
<1>6. CASE Fill(w) \/ Sync(w) \/ Compare(w) \/ LookAgain(w) \/ Rename(w) \/ Fails(w)
  <2>1. PICK stage \in Stage : Goto(w, stage) /\ links' = links
    BY <1>6 DEF Fill, Sync, Compare, LookAgain, Rename, Fails, disk, Stage
  <2>2. job[w].at \in {"fill", "sync", "compare", "look", "rename"}
    BY <1>6 DEF Fill, Sync, Compare, LookAgain, Rename, Fails
  <2>3. /\ job'[w].new = job[w].new /\ job'[w].kind = job[w].kind
        /\ job'[w].handle = job[w].handle
    BY <2>1, GoesTo DEF PinnedInv
  <2> QED
    BY <2>1, <2>2, <2>3 DEF MovesFiles, Hidden, OpensFiles
<1> QED
  BY <1>2, <1>3, <1>4, <1>5, <1>6 DEF Step

LEMMA OpensFilesHolds ==
  ASSUME PinnedInv, OpensFiles, [Next]_vars
  PROVE  OpensFiles'
<1>1. CASE UNCHANGED vars
  BY <1>1 DEF vars, OpensFiles
<1>2. CASE Crash
  BY <1>2, PinnedReplaceAssumption DEF Crash, OpensFiles, Idle, Hidden, PinnedInv, TypeOK
<1>3. \A w \in Writers : job[w].new \notin Free /\ job[w].handle \notin Free
  BY FreeIsUnused DEF PinnedInv
<1>4. CASE Outside /\ Next
  BY <1>3, <1>4, LinksAreFree
     DEF OpensFiles, Outside, WriteInPlace, PutOver, Remove, Settle
<1>5. ASSUME NEW w \in Writers, Step(w) \/ CleanFails(w), Next PROVE OpensFiles'
  <2>1. /\ MovesFiles(w) /\ links' \ links \subseteq Free
        /\ \A v \in Writers : v # w => job'[v] = job[v]
    BY <1>5, StepMovesFiles, LinksAreFree, OneWriterMoves
  <2>2. job'[w].new \notin links' /\ links' \subseteq links
    <3>1. CASE \E ino \in Inodes : (\E temp \in Temps : CreateTemp(w, temp, ino)) \/ Create(w, ino)
      BY <3>1, StepMakes
    <3>2. CASE ~\E ino \in Inodes : (\E temp \in Temps : CreateTemp(w, temp, ino)) \/ Create(w, ino)
      <4>1. links' = links
        BY <1>5, <3>2 DEF Step, Read, Begin, OpenTarget, OpenFails, CreateTempFails,
           CreateFails, Fill, Sync, Compare, LookAgain, Rename, SyncDir, Fails, Clean, CleanFails, disk
      <4>2. job'[w].new \in {None, job[w].new}
        <5>1. CASE \/ Read(w) \/ OpenFails(w) \/ CreateTempFails(w) \/ CreateFails(w)
                   \/ SyncDir(w) \/ Clean(w) \/ CleanFails(w)
          BY <5>1 DEF Read, OpenFails, CreateTempFails, CreateFails, SyncDir, Clean, CleanFails,
             Return, Idle, PinnedInv, TypeOK
        <5>2. CASE \E kind \in Kinds, bytes \in Texts : Begin(w, kind, bytes)
          BY <5>2 DEF Begin, Idle, PinnedInv, TypeOK
        <5>3. CASE OpenTarget(w)
          BY <5>3 DEF OpenTarget, PinnedInv, TypeOK, Job
        <5>4. CASE Fill(w) \/ Sync(w) \/ Compare(w) \/ LookAgain(w) \/ Rename(w) \/ Fails(w)
          <6>1. PICK stage \in Stage : Goto(w, stage)
            BY <5>4 DEF Fill, Sync, Compare, LookAgain, Rename, Fails, Stage
          <6> QED
            BY <6>1, GoesTo DEF PinnedInv
        <5> QED
          BY <1>5, <3>2, <5>1, <5>2, <5>3, <5>4 DEF Step
      <4> QED
        BY <4>1, <4>2, PinnedReplaceAssumption DEF OpensFiles, PinnedInv, TypeOK
    <3> QED
      BY <3>1, <3>2
  <2>3. \A v \in Writers : Hidden(job[v]) => job[v].new # dir[Target] /\ job[v].new \in Inodes
    <3>1. \A v \in Writers : Hidden(job[v]) => job[v].new \in Inodes
      BY DEF PinnedInv, Staged, Shaped, Early, Hidden
    <3> QED
      BY <3>1, PinnedReplaceAssumption DEF PinnedInv, NewIsUnderItsTemp, DeviceIsWhole
  <2>4. None \notin Inodes /\ dir[Target] \notin Free /\ Free \subseteq Inodes
    BY FreeIsUnused, PinnedReplaceAssumption DEF PinnedInv, Names, Free
  <2>5. \A v \in Writers : job'[v].handle \in {None, job[v].handle, dir[Target]} \ links'
    BY <2>1, <2>2 DEF OpensFiles, MovesFiles
  <2>6. \A v \in Writers : Hidden(job'[v]) =>
            job'[v].new \in Free \/ (Hidden(job[v]) /\ job'[v].new = job[v].new)
    BY <2>1 DEF MovesFiles
  <2>7. \A u, v \in Writers : Hidden(job'[v]) => job'[v].new # job'[u].handle
    BY <1>3, <2>3, <2>4, <2>5, <2>6 DEF OpensFiles
  <2>8. \A v \in Writers : job'[v].new \notin links'
    BY <2>1, <2>2 DEF OpensFiles
  <2> QED
    BY <2>5, <2>7, <2>8 DEF OpensFiles
<1> QED
  BY <1>1, <1>2, <1>4, <1>5 DEF Next

\* What a writer will rename into place is what it was asked to write.
FilledAsAsked ==
    \A w \in Writers :
        Hidden(job[w]) /\ job[w].at \in {"sync", "compare", "look", "rename"}
            => text[job[w].new] = job[w].bytes

\* The texts a step changes: new files, the one a writer fills, the target's.
LEMMA TextsThatChange ==
  ASSUME PinnedInv, (\E w \in Writers : Step(w) \/ CleanFails(w)) \/ Outside
  PROVE  \A i \in Inodes : text'[i] # text[i] =>
            \/ i \in Free \/ i = dir[Target]
            \/ \E w \in Writers : Fill(w) /\ i = job[w].new
<1>1. text \in [Inodes -> Texts \cup {Torn}]
  BY DEF PinnedInv, TypeOK
<1>2. ASSUME NEW w \in Writers, Step(w) \/ CleanFails(w)
      PROVE  \A i \in Inodes : text'[i] # text[i] => i \in Free \/ (Fill(w) /\ i = job[w].new)
  BY <1>1, <1>2 DEF Step, Read, Begin, OpenTarget, OpenFails, CreateTemp, Create, CreateTempFails,
     CreateFails, Fill, Sync, Compare, LookAgain, Rename, SyncDir, Fails, Clean, CleanFails, disk
<1>3. ASSUME Outside
      PROVE  \A i \in Inodes : text'[i] # text[i] => i \in Free \/ i = dir[Target]
  BY <1>1, <1>3 DEF Outside, WriteInPlace, PutOver, Remove, Settle
<1> QED
  BY <1>2, <1>3

LEMMA FilledAsAskedHolds ==
  ASSUME PinnedInv, FilledAsAsked, [Next]_vars
  PROVE  FilledAsAsked'
<1>1. CASE UNCHANGED vars
  BY <1>1 DEF vars, FilledAsAsked
<1>2. CASE Crash
  BY <1>2 DEF Crash, FilledAsAsked, Idle
<1>3. ASSUME (\E u \in Writers : Step(u) \/ CleanFails(u)) \/ Outside, NEW w \in Writers, Hidden(job[w]),
             job[w].at \in {"sync", "compare", "look", "rename"}, ~Fill(w)
      PROVE  text'[job[w].new] = job[w].bytes
  <2>1. /\ job[w].new \in Inodes /\ job[w].new \notin Free /\ job[w].new # dir[Target]
        /\ job[w].new # None
    BY <1>3, FreeIsUnused, PinnedReplaceAssumption
       DEF PinnedInv, Staged, Shaped, Early, Hidden, NewIsUnderItsTemp, DeviceIsWhole
  <2>2. \A v \in Writers : Fill(v) => job[v].new # job[w].new
    BY <1>3, <2>1 DEF PinnedInv, NewsDiffer
  <2> QED
    BY <1>3, <2>1, <2>2, TextsThatChange DEF FilledAsAsked
<1>4. CASE Outside
  BY <1>3, <1>4 DEF Outside, WriteInPlace, PutOver, Remove, Settle, FilledAsAsked, Fill, Hidden
<1>5. ASSUME NEW w \in Writers, Step(w) \/ CleanFails(w) PROVE FilledAsAsked'
  <2>1. ASSUME NEW v \in Writers, v # w, Hidden(job'[v]),
               job'[v].at \in {"sync", "compare", "look", "rename"}
        PROVE  text'[job'[v].new] = job'[v].bytes
    <3>1. job'[v] = job[v] /\ ~Fill(v)
      BY <1>5, <2>1, OneWriterMoves DEF Fill
    <3> QED
      BY <1>3, <1>5, <2>1, <3>1
  <2>2. ASSUME Hidden(job'[w]), job'[w].at \in {"sync", "compare", "look", "rename"}
        PROVE  text'[job'[w].new] = job'[w].bytes
    <3>1. Fill(w) \/ Sync(w) \/ Compare(w) \/ LookAgain(w) \/ Rename(w)
      <4>1. ~(\/ Read(w) \/ OpenFails(w) \/ CreateTempFails(w) \/ CreateFails(w)
              \/ SyncDir(w) \/ Clean(w) \/ CleanFails(w))
        BY <2>2 DEF Read, OpenFails, CreateTempFails, CreateFails, SyncDir, Clean, CleanFails,
           Return, Idle, PinnedInv, TypeOK
      <4>2. ~\E kind \in Kinds, bytes \in Texts : Begin(w, kind, bytes)
        BY <2>2 DEF Begin, Idle, PinnedInv, TypeOK
      <4>3. job[w] \in Job /\ job \in [Writers -> Job] /\ "clean" \in Stage
        BY DEF PinnedInv, TypeOK, Stage
      <4>4. ~OpenTarget(w) /\ ~Fails(w)
        BY <2>2, <4>3 DEF OpenTarget, Fails, Goto, Job
      <4>5. ASSUME NEW ino \in Inodes, (\E temp \in Temps : CreateTemp(w, temp, ino)) \/ Create(w, ino)
            PROVE  FALSE
        <5>1. PICK name : job' = [job EXCEPT ![w] = [@ EXCEPT !.at = "fill", !.temp = name, !.new = ino]]
          BY <4>5 DEF CreateTemp, Create
        <5>2. job'[w] = [job[w] EXCEPT !.at = "fill", !.temp = name, !.new = ino]
          BY <4>3, <5>1
        <5> QED
          BY <2>2, <4>3, <5>2 DEF Job
      <4> QED
        BY <1>5, <4>1, <4>2, <4>4, <4>5 DEF Step
    <3>2. PICK stage \in Stage : Goto(w, stage)
      BY <3>1 DEF Fill, Sync, Compare, LookAgain, Rename, Stage
    <3>3. /\ job'[w].new = job[w].new /\ job'[w].kind = job[w].kind /\ job'[w].bytes = job[w].bytes
      BY <3>2, GoesTo DEF PinnedInv
    <3>4. CASE Fill(w)
      BY <3>3, <3>4 DEF Fill, PinnedInv, TypeOK, Staged, Shaped, Early
    <3>5. CASE ~Fill(w)
      BY <1>3, <1>5, <2>2, <3>1, <3>3, <3>5 DEF Hidden, Sync, Compare, LookAgain, Rename
    <3> QED
      BY <3>4, <3>5
  <2> QED
    BY <2>1, <2>2 DEF FilledAsAsked
<1> QED
  BY <1>1, <1>2, <1>4, <1>5 DEF Next

-----------------------------------------------------------------------------
(* What a caller sees of a step of the system calls.                         *)

ServiceInv == PinnedInv /\ OpensFiles /\ FilledAsAsked

Serves == Service!Next \/ UNCHANGED Service!vars

LEMMA KeptFollows ==
  ASSUME NEW more, dir' \in device', \A d \in device' : KeptOf(d)' \subseteq Kept \cup more
  PROVE  Service!Keeps(more)
<1>1. Kept' = UNION {KeptOf(d)' : d \in device'}
  BY DEF Kept, KeptOf
<1>2. PICK d \in device' : d = dir'
  OBVIOUS
<1>3. File' \in KeptOf(d)'
  BY <1>2 DEF File, KeptOf, FileIn
<1> QED
  BY <1>1, <1>3 DEF Service!Keeps

\* A directory whose file is as it was is what it was to the callers.
LEMMA DirectoryStays ==
  ASSUME PinnedInv, NEW d \in device,
         d[Target] # None => text'[d[Target]] = text[d[Target]],
         d[Target] \in links' <=> d[Target] \in links, d[Target] \in synced => d[Target] \in synced'
  PROVE  FileIn(d)' = FileIn(d) /\ KeptOf(d)' \subseteq KeptOf(d)
  BY DEF FileIn, KeptOf

LEMMA DirectoryIsKept ==
  ASSUME PinnedInv, NEW d \in device
  PROVE  KeptOf(d) \subseteq Kept /\ File \in Kept /\ d[Target] \in Inodes \cup {None}
         /\ d[Target] \notin Free
  BY FreeIsUnused DEF Kept, KeptOf, File, PinnedInv, DeviceIsWhole, TypeOK, Directory, Names

LEMMA DiskStays ==
  ASSUME PinnedInv, UNCHANGED disk
  PROVE  File' = File /\ Kept' = Kept /\ Service!Keeps({})
<1>1. File' = File /\ Kept' = Kept
  BY DEF disk, File, Kept, KeptOf, FileIn
<1> QED
  BY <1>1, DirectoryIsKept DEF PinnedInv, DeviceIsWhole, Service!Keeps

\* The requests of the other writers are what they were.
LEMMA OthersWait ==
  ASSUME PinnedInv, NEW w \in Writers,
         \A v \in Writers : v # w => job'[v] = job[v] /\ pin'[v] = pin[v]
  PROVE  /\ \A x : (Waits(w) => x = [kind |-> job[w].kind, bytes |-> job[w].bytes])' /\ (~Waits(w) => x = None)'
                      => Request' = [Request EXCEPT ![w] = x]
         /\ \A x : x = Known'[w] => Known' = [Known EXCEPT ![w] = x]
         /\ \A v \in Writers : v # w => (v \in Making' <=> v \in Making)
         /\ \A v \in Writers : v # w /\ dir'[Target] = dir[Target] => (v \in Checked' <=> v \in Checked)
         /\ \A v \in Writers : v # w /\ dir'[Target] # job[v].handle => (v \in Checked' => v \in Checked)
<1>1. ASSUME NEW x, (Waits(w) => x = [kind |-> job[w].kind, bytes |-> job[w].bytes])',
                    (~Waits(w) => x = None)'
      PROVE  Request' = [Request EXCEPT ![w] = x]
  BY <1>1 DEF Request, Waits, Makes
<1>2. Known' = [Known EXCEPT ![w] = Known'[w]]
  BY DEF Known
<1>3. \A v \in Writers : v # w => (v \in Making' <=> v \in Making)
  BY DEF Making, Makes
<1>4. \A v \in Writers : v # w => (Expects(v)' <=> Expects(v))
  BY DEF Expects
<1> QED
  BY <1>1, <1>2, <1>3, <1>4 DEF Checked

LEMMA ReadServes ==
  ASSUME ServiceInv, NEW w \in Writers, Read(w)
  PROVE  Serves
<1>1. UNCHANGED <<disk, job, outside, crashes>> /\ job[w].at = "idle"
  BY DEF Read
<1>2. Request' = Request /\ Checked' = Checked /\ Making' = Making
  BY <1>1 DEF disk, Request, Checked, Making, Waits, Makes, Expects
<1>3. Request[w] = None
  BY <1>1 DEF Request, Waits, Makes
<1>4. File \in Texts /\ pin'[w] # None /\ File = pin'[w].text
  BY PinnedReplaceAssumption
     DEF Read, File, FileIn, ServiceInv, PinnedInv, TypeOK, Directory, Names, Pin
<1>5. \A v \in Writers : v # w => job'[v] = job[v] /\ pin'[v] = pin[v]
  BY <1>1 DEF Read, ServiceInv, PinnedInv, TypeOK
<1>6. File = Known'[w]
  BY <1>1, <1>4 DEF Known
<1>7. Known' = [Known EXCEPT ![w] = File]
  BY <1>5, <1>6, OthersWait DEF ServiceInv
<1>8. Service!Read(w)
  BY <1>1, <1>2, <1>3, <1>4, <1>7, DiskStays DEF Service!Read, Service!world, ServiceInv
<1> QED
  BY <1>8 DEF Serves, Service!Next

LEMMA BeginServes ==
  ASSUME ServiceInv, NEW w \in Writers, NEW kind \in Kinds, NEW bytes \in Texts,
         Begin(w, kind, bytes)
  PROVE  Serves
<1> DEFINE j == [Idle EXCEPT !.kind = kind, !.bytes = bytes,
                    !.at = IF kind = "create" THEN "create" ELSE "open"]
<1>1. j.kind = kind /\ j.bytes = bytes /\ j.at \in {"create", "open"}
  BY DEF Idle
<1>2. job' = [job EXCEPT ![w] = j]
  BY DEF Begin
<1> HIDE DEF j
<1>3. /\ UNCHANGED <<disk, pin, outside, crashes>> /\ job[w].at = "idle" /\ job'[w] = j
      /\ \A v \in Writers : v # w => job'[v] = job[v] /\ pin'[v] = pin[v]
  BY <1>2 DEF Begin, ServiceInv, PinnedInv, TypeOK
<1>4. Request[w] = None
  BY <1>3 DEF Request, Waits, Makes
<1>5. Request' = [Request EXCEPT ![w] = [kind |-> kind, bytes |-> bytes]]
  <2>1. Waits(w)' /\ [kind |-> kind, bytes |-> bytes] = [kind |-> job[w].kind, bytes |-> job[w].bytes]'
    BY <1>1, <1>3 DEF Waits
  <2> QED
    BY <1>3, <2>1, OthersWait DEF ServiceInv
<1>6. Known' = Known
  <2>1. Known'[w] = Known[w]
    BY <1>1, <1>3 DEF Known
  <2>2. Known' = [Known EXCEPT ![w] = Known[w]]
    BY <1>3, <2>1, OthersWait DEF ServiceInv
  <2> QED
    BY <2>2 DEF Known
<1>7. Checked' = Checked /\ Making' = Making
  <2>1. w \notin Checked /\ w \notin Checked' /\ w \notin Making /\ w \notin Making'
    BY <1>1, <1>3 DEF Checked, Making, Makes
  <2>2. dir' = dir /\ Checked \subseteq Writers /\ Checked' \subseteq Writers
        /\ Making \subseteq Writers /\ Making' \subseteq Writers
    BY <1>3 DEF disk, Checked, Making
  <2>3. \A v \in Writers : v # w => (v \in Making' <=> v \in Making) /\ (v \in Checked' <=> v \in Checked)
    BY <1>3, <2>2, OthersWait DEF ServiceInv
  <2> QED
    BY <2>1, <2>2, <2>3
<1>8. kind = "replace" => Known[w] # None
  BY <1>3, PinnedReplaceAssumption DEF Begin, Known, ServiceInv, PinnedInv, TypeOK, Pin
<1>9. Service!Ask(w, kind, bytes)
  BY <1>3, <1>4, <1>5, <1>6, <1>7, <1>8, DiskStays DEF Service!Ask, Service!world, ServiceInv
<1> QED
  BY <1>9 DEF Serves, Service!Next

\* A step on the way of a request that its caller does not see, whatever becomes
\* of the directories a power failure may leave.
LEMMA QuietServes ==
  ASSUME ServiceInv, NEW w \in Writers,
         \A v \in Writers : v # w => job'[v] = job[v] /\ pin'[v] = pin[v],
         Waits(w)' <=> Waits(w), Makes(w)' <=> Makes(w),
         Waits(w) => job'[w].kind = job[w].kind /\ job'[w].bytes = job[w].bytes,
         Known'[w] = Known[w], w \in Checked' <=> w \in Checked,
         dir'[Target] = dir[Target], File' = File, Service!Keeps({}), UNCHANGED <<outside, crashes>>
  PROVE  Serves
<1>1. Request' = Request
  <2>1. Request' = [Request EXCEPT ![w] = Request[w]]
    BY OthersWait DEF Request, ServiceInv
  <2> QED
    BY <2>1 DEF Request
<1>2. Known' = Known
  <2>1. Known' = [Known EXCEPT ![w] = Known[w]]
    BY OthersWait DEF ServiceInv
  <2> QED
    BY <2>1 DEF Known
<1>3. Checked' = Checked /\ Making' = Making
  <2>1. Checked \subseteq Writers /\ Checked' \subseteq Writers
        /\ Making \subseteq Writers /\ Making' \subseteq Writers
    BY DEF Checked, Making
  <2>2. w \in Making' <=> w \in Making
    BY DEF Making
  <2>3. \A v \in Writers : v # w => (v \in Making' <=> v \in Making) /\ (v \in Checked' <=> v \in Checked)
    BY OthersWait DEF ServiceInv
  <2> QED
    BY <2>1, <2>2, <2>3
<1>4. Service!Settle
  BY <1>1, <1>2, <1>3 DEF Service!Settle, Service!calls, Service!world
<1> QED
  BY <1>4 DEF Serves, Service!Next

\* A request that ends without its file.
LEMMA RefusalServes ==
  ASSUME ServiceInv, NEW w \in Writers, UNCHANGED <<disk, pin, outside, crashes>>,
         \A v \in Writers : v # w => job'[v] = job[v] /\ pin'[v] = pin[v],
         Waits(w), ~Waits(w)', ~Makes(w), job[w].at # "syncdir", job'[w].at \in {"idle", "clean"}
  PROVE  Serves
<1>1. Request' = [Request EXCEPT ![w] = None]
  BY OthersWait DEF ServiceInv
<1>2. Known' = Known
  <2>1. Known'[w] = Known[w]
    BY DEF Known
  <2>2. Known' = [Known EXCEPT ![w] = Known[w]]
    BY <2>1, OthersWait DEF ServiceInv
  <2> QED
    BY <2>2 DEF Known
<1>3. Checked' = Checked \ {w} /\ Making' = Making /\ w \notin Making
  <2>1. Checked \subseteq Writers /\ Checked' \subseteq Writers
        /\ Making \subseteq Writers /\ Making' \subseteq Writers /\ dir' = dir
    BY DEF Checked, Making, disk
  <2>2. w \notin Making' /\ w \notin Making /\ w \notin Checked'
    BY DEF Making, Checked, Waits
  <2>3. \A v \in Writers : v # w => (v \in Making' <=> v \in Making) /\ (v \in Checked' <=> v \in Checked)
    BY <2>1, OthersWait DEF ServiceInv
  <2> QED
    BY <2>1, <2>2, <2>3
<1>4. Request[w] # None
  <2>1. job[w].kind \in {"replace", "atomic", "create"} /\ job[w].bytes \in Texts
    BY DEF ServiceInv, PinnedInv, TypeOK, Job, Staged, Shaped, Waits, Makes
  <2> QED
    BY <2>1, PinnedReplaceAssumption DEF Request
<1>5. Service!Refuse(w)
  BY <1>1, <1>2, <1>3, <1>4, DiskStays DEF Service!Refuse, Service!world, ServiceInv
<1> QED
  BY <1>5 DEF Serves, Service!Next

LEMMA OpenServes ==
  ASSUME ServiceInv, NEW w \in Writers, OpenTarget(w)
  PROVE  Serves
<1>1. /\ job[w].at = "open" /\ job[w] \in Job /\ job \in [Writers -> Job]
      /\ job' = [job EXCEPT ![w] = [@ EXCEPT !.at = "temp", !.handle = dir[Target]]]
      /\ UNCHANGED <<disk, pin, outside, crashes>>
  BY DEF OpenTarget, ServiceInv, PinnedInv, TypeOK
<1>2. /\ job'[w].at = "temp" /\ job'[w].kind = job[w].kind /\ job'[w].bytes = job[w].bytes
      /\ \A v \in Writers : v # w => job'[v] = job[v] /\ pin'[v] = pin[v]
  BY <1>1 DEF Job
<1>3. Waits(w)' /\ Waits(w) /\ ~Makes(w)' /\ ~Makes(w) /\ w \notin Checked' /\ w \notin Checked
  BY <1>1, <1>2 DEF Waits, Makes, Checked
<1>4. Known'[w] = Known[w]
  BY <1>1, <1>2 DEF Known
<1>5. dir' = dir
  BY <1>1 DEF disk
<1> QED
  BY <1>1, <1>2, <1>3, <1>4, <1>5, DiskStays, QuietServes DEF ServiceInv

LEMMA FailureServes ==
  ASSUME ServiceInv, NEW w \in Writers, OpenFails(w) \/ CreateTempFails(w) \/ CreateFails(w)
  PROVE  Serves
<1>1. /\ job[w].at \in {"open", "temp", "create"} /\ job' = [job EXCEPT ![w] = Idle]
      /\ UNCHANGED <<disk, pin, outside, crashes>>
  BY DEF OpenFails, CreateTempFails, CreateFails, Return
<1>2. job'[w].at = "idle" /\ \A v \in Writers : v # w => job'[v] = job[v] /\ pin'[v] = pin[v]
  BY <1>1 DEF Idle, ServiceInv, PinnedInv, TypeOK
<1> QED
  BY <1>1, <1>2, RefusalServes DEF Waits, Makes

\* A writer that goes from one stage to another.
LEMMA GotoServes ==
  ASSUME ServiceInv, NEW w \in Writers, Compare(w) \/ LookAgain(w) \/ Fails(w)
  PROVE  Serves
<1>1. PICK stage \in {"look", "rename", "clean"} :
        /\ Goto(w, stage)
        /\ stage = "look" => /\ job[w].at = "compare"
                             /\ Expects(w) => text[job[w].handle] = pin[w].text
        /\ stage = "rename" => job[w].at = "look" /\ dir[Target] = job[w].handle
  BY DEF Compare, LookAgain, Fails
<1>2. /\ job[w].at \in {"fill", "sync", "compare", "look", "rename"}
      /\ UNCHANGED <<disk, pin, outside, crashes>>
      /\ job[w].at \in {"compare", "look", "rename"} => job[w].kind # "create"
  BY DEF Compare, LookAgain, Fails, ServiceInv, PinnedInv, Staged, Shaped
<1>3. /\ job'[w].at = stage /\ job'[w].kind = job[w].kind /\ job'[w].bytes = job[w].bytes
      /\ job'[w].handle = job[w].handle
  <2>1. stage \in Stage /\ TypeOK
    BY DEF ServiceInv, PinnedInv, Stage
  <2>2. job'[w] = [job[w] EXCEPT !.at = stage] /\ job[w] \in Job
    BY <1>1, <2>1 DEF Goto, TypeOK
  <2> QED
    BY <2>2 DEF Job
<1>4. \A v \in Writers : v # w => job'[v] = job[v] /\ pin'[v] = pin[v]
  BY <1>1, <1>2 DEF Goto, ServiceInv, PinnedInv, TypeOK
<1>5. dir' = dir /\ Known'[w] = Known[w]
  BY <1>2, <1>3 DEF disk, Known
<1>6. CASE stage = "clean" /\ ~Makes(w)
  <2>1. Waits(w) /\ ~Waits(w)'
    BY <1>2, <1>3, <1>6 DEF Waits, Makes
  <2> QED
    BY <1>2, <1>3, <1>4, <1>6, <2>1, RefusalServes
<1>7. CASE stage = "clean" /\ Makes(w)
  <2>1. /\ Waits(w) /\ Waits(w)' /\ Makes(w)' /\ w \notin Checked /\ w \notin Checked'
    BY <1>2, <1>3, <1>7 DEF Waits, Makes, Checked, Expects
  <2> QED
    BY <1>2, <1>3, <1>4, <1>5, <1>7, <2>1, DiskStays, QuietServes DEF ServiceInv
<1>8. CASE stage = "rename"
  <2>1. /\ Waits(w) /\ Waits(w)' /\ ~Makes(w) /\ ~Makes(w)' /\ (w \in Checked <=> w \in Checked')
    BY <1>1, <1>3, <1>5, <1>8 DEF Waits, Makes, Checked, Expects
  <2> QED
    BY <1>2, <1>3, <1>4, <1>5, <1>8, <2>1, DiskStays, QuietServes DEF ServiceInv
<1>9. CASE stage = "look"
  <2>1. Waits(w) /\ Waits(w)' /\ ~Makes(w) /\ ~Makes(w)' /\ w \notin Checked
    BY <1>1, <1>3, <1>9 DEF Waits, Makes, Checked
  <2>2. CASE w \notin Checked'
    BY <1>2, <1>3, <1>4, <1>5, <1>9, <2>1, <2>2, DiskStays, QuietServes DEF ServiceInv
  <2>3. CASE w \in Checked'
    <3>1. Expects(w) /\ dir[Target] = job[w].handle /\ text[dir[Target]] = pin[w].text
      BY <1>1, <1>3, <1>5, <1>9, <2>3 DEF Checked, Expects
    <3>2. pin[w] # None /\ job[w].handle = pin[w].ino /\ pin[w] \in Pin
      BY <1>1, <1>9, <3>1 DEF Expects, ServiceInv, PinnedInv, TypeOK, Staged, Shaped
    <3>3. dir[Target] # None /\ dir[Target] \notin links
      BY <3>1, <3>2, PinnedReplaceAssumption DEF ServiceInv, OpensFiles, Pin
    <3>4. File = Known[w]
      BY <1>1, <1>9, <3>1, <3>2, <3>3 DEF File, FileIn, Known
    <3>5. Request' = Request
      <4>1. Request' = [Request EXCEPT ![w] = Request[w]]
        BY <1>3, <1>4, <2>1, OthersWait DEF Request, ServiceInv
      <4> QED
        BY <4>1 DEF Request
    <3>6. Known' = Known
      <4>1. Known' = [Known EXCEPT ![w] = Known[w]]
        BY <1>4, <1>5, OthersWait DEF ServiceInv
      <4> QED
        BY <4>1 DEF Known
    <3>7. Making' = Making /\ Checked' = Checked \cup {w}
      <4>1. Checked \subseteq Writers /\ Checked' \subseteq Writers
            /\ Making \subseteq Writers /\ Making' \subseteq Writers
        BY DEF Checked, Making
      <4>2. \A v \in Writers : v # w => (v \in Making' <=> v \in Making) /\ (v \in Checked' <=> v \in Checked)
        BY <1>4, <1>5, OthersWait DEF ServiceInv
      <4>3. w \notin Making /\ w \notin Making'
        BY <2>1 DEF Making
      <4> QED
        BY <2>3, <4>1, <4>2, <4>3
    <3>8. Request[w] # None /\ Request[w].kind = "replace"
      BY <2>1, <3>1, PinnedReplaceAssumption
         DEF Request, Expects, ServiceInv, PinnedInv, TypeOK, Job, Staged, Shaped, Waits, Makes
    <3>9. Service!Check(w)
      BY <1>2, <3>4, <3>5, <3>6, <3>7, <3>8, DiskStays
         DEF Service!Check, Service!Asked, Service!world, ServiceInv
    <3> QED
      BY <3>9 DEF Serves, Service!Next
  <2> QED
    BY <2>2, <2>3
<1> QED
  BY <1>6, <1>7, <1>8, <1>9

\* A new file changes nothing in the directories that do not have it.
LEMMA NewFileIsNowhere ==
  ASSUME ServiceInv, NEW ino \in Free, text' = [text EXCEPT ![ino] = Torn],
         synced' = synced \ {ino}, links' = links \ {ino}, NEW d \in device
  PROVE  FileIn(d)' = FileIn(d) /\ KeptOf(d)' \subseteq KeptOf(d)
<1>1. d[Target] # ino /\ text \in [Inodes -> Texts \cup {Torn}] /\ d[Target] \in Inodes \cup {None}
  BY DirectoryIsKept DEF ServiceInv, PinnedInv, TypeOK
<1> QED
  BY <1>1, DirectoryStays DEF ServiceInv

LEMMA CreateTempServes ==
  ASSUME ServiceInv, NEW w \in Writers, NEW temp \in Temps, NEW ino \in Inodes,
         CreateTemp(w, temp, ino)
  PROVE  Serves
<1>1. /\ job[w].at = "temp" /\ job[w] \in Job /\ job \in [Writers -> Job] /\ ino \in Free
      /\ job' = [job EXCEPT ![w] = [@ EXCEPT !.at = "fill", !.temp = temp, !.new = ino]]
      /\ text' = [text EXCEPT ![ino] = Torn] /\ synced' = synced \ {ino} /\ links' = links \ {ino}
      /\ UNCHANGED <<pin, outside, crashes>>
  BY DEF CreateTemp, ServiceInv, PinnedInv, TypeOK
<1>2. /\ job'[w].at = "fill" /\ job'[w].kind = job[w].kind /\ job'[w].bytes = job[w].bytes
      /\ \A v \in Writers : v # w => job'[v] = job[v] /\ pin'[v] = pin[v]
  BY <1>1 DEF Job
<1>3. dir'[Target] = dir[Target] /\ device' = device \cup {dir'} /\ Target # temp
  BY PinnedReplaceAssumption DEF CreateTemp, Bind, ServiceInv, PinnedInv, TypeOK, Directory, Names
<1>4. job[w].kind # "create"
  BY <1>1 DEF ServiceInv, PinnedInv, Staged, Shaped
<1>5. Waits(w)' /\ Waits(w) /\ ~Makes(w)' /\ ~Makes(w) /\ w \notin Checked' /\ w \notin Checked
  BY <1>1, <1>2, <1>4 DEF Waits, Makes, Checked
<1>6. Known'[w] = Known[w]
  BY <1>1, <1>2 DEF Known
<1>7. dir \in device
  BY DEF ServiceInv, PinnedInv, DeviceIsWhole
<1>8. File' = File
  <2>1. FileIn(dir)' = FileIn(dir)'
    OBVIOUS
  <2>2. PICK d \in device : d = dir
    BY <1>7
  <2>3. FileIn(d)' = FileIn(d)
    BY <1>1, NewFileIsNowhere
  <2> QED
    BY <1>3, <2>2, <2>3 DEF File, FileIn
<1>9. ASSUME NEW d \in device' PROVE KeptOf(d)' \subseteq Kept \cup {}
  <2>1. PICK e \in device : e[Target] = d[Target]
    BY <1>3, <1>7
  <2>2. KeptOf(e)' \subseteq Kept
    BY <1>1, NewFileIsNowhere, DirectoryIsKept DEF ServiceInv
  <2> QED
    BY <2>1, <2>2 DEF KeptOf, FileIn
<1>10. Service!Keeps({})
  BY <1>3, <1>9, KeptFollows
<1> QED
  BY <1>1, <1>2, <1>3, <1>5, <1>6, <1>8, <1>10, QuietServes

LEMMA CreateServes ==
  ASSUME ServiceInv, NEW w \in Writers, NEW ino \in Inodes, Create(w, ino)
  PROVE  Serves
<1>1. /\ job[w].at = "create" /\ job[w] \in Job /\ job \in [Writers -> Job] /\ ino \in Free
      /\ job' = [job EXCEPT ![w] = [@ EXCEPT !.at = "fill", !.temp = Target, !.new = ino]]
      /\ text' = [text EXCEPT ![ino] = Torn] /\ synced' = synced \ {ino} /\ links' = links \ {ino}
      /\ UNCHANGED <<pin, outside, crashes>>
  BY DEF Create, ServiceInv, PinnedInv, TypeOK
<1>2. /\ job'[w].at = "fill" /\ job'[w].kind = job[w].kind /\ job'[w].bytes = job[w].bytes
      /\ \A v \in Writers : v # w => job'[v] = job[v] /\ pin'[v] = pin[v]
  BY <1>1 DEF Job
<1>3. dir[Target] = None /\ dir'[Target] = ino /\ device' = device \cup {dir'} /\ ino # None
  BY <1>1, PinnedReplaceAssumption DEF Create, Bind, ServiceInv, PinnedInv, TypeOK, Directory, Names
<1>4. job[w].kind = "create"
  BY <1>1 DEF ServiceInv, PinnedInv, Staged, Shaped
<1>5. Waits(w)' /\ Waits(w) /\ Makes(w)' /\ ~Makes(w) /\ w \notin Checked' /\ w \notin Checked
  BY <1>1, <1>2, <1>4 DEF Waits, Makes, Checked
<1>6. File = None /\ File' = Torn
  <2>1. File = None
    BY <1>3, PinnedReplaceAssumption DEF File, FileIn, ServiceInv, PinnedInv, TypeOK
  <2>2. ino \notin links' /\ text'[ino] = Torn
    BY <1>1 DEF ServiceInv, PinnedInv, TypeOK
  <2>3. File' = Torn
    BY <1>3, <2>2 DEF File, FileIn
  <2> QED
    BY <2>1, <2>3
<1>7. ASSUME NEW d \in device' PROVE KeptOf(d)' \subseteq Kept \cup {Torn}
  <2>1. CASE d \in device
    BY <1>1, <2>1, NewFileIsNowhere, DirectoryIsKept DEF ServiceInv
  <2>2. CASE d = dir'
    BY <1>6, <2>2 DEF KeptOf, File, FileIn
  <2> QED
    BY <1>3, <2>1, <2>2
<1>8. Service!Keeps({Torn})
  BY <1>3, <1>7, KeptFollows
<1>9. Request' = Request
  <2>1. Request' = [Request EXCEPT ![w] = Request[w]]
    BY <1>2, <1>5, OthersWait DEF Request, ServiceInv
  <2> QED
    BY <2>1 DEF Request
<1>10. Known' = Known
  <2>1. Known'[w] = Known[w]
    BY <1>1, <1>2 DEF Known
  <2>2. Known' = [Known EXCEPT ![w] = Known[w]]
    BY <1>2, <2>1, OthersWait DEF ServiceInv
  <2> QED
    BY <2>2 DEF Known
<1>11. Making' = Making \cup {w} /\ Checked' = Checked
  <2>1. Checked \subseteq Writers /\ Checked' \subseteq Writers
        /\ Making \subseteq Writers /\ Making' \subseteq Writers
    BY DEF Checked, Making
  <2>2. \A v \in Writers : v # w => (v \in Making' <=> v \in Making)
    BY <1>2, OthersWait DEF ServiceInv
  <2>3. w \in Making' /\ w \notin Making
    BY <1>5 DEF Making
  <2>4. \A v \in Writers : job[v].at = "look" => job[v].handle # ino
    BY <1>1, FreeIsUnused DEF ServiceInv, PinnedInv
  <2>5. \A v \in Writers : v \in Checked' => v \in Checked
    BY <1>2, <1>3, <1>5, <2>4, OthersWait DEF ServiceInv, Checked, Expects
  <2>6. \A v \in Writers : v \in Checked => v \in Checked'
    <3>1. \A v \in Writers : Expects(v) /\ job[v].at = "look" => job[v].handle # dir[Target]
      BY <1>3, PinnedReplaceAssumption DEF Expects, ServiceInv, PinnedInv, TypeOK, Staged, Shaped, Pin
    <3> QED
      BY <1>2, <1>5, <3>1 DEF Checked, Expects
  <2> QED
    BY <2>1, <2>2, <2>3, <2>5, <2>6
<1>12. Request[w] # None /\ Request[w].kind = "create" /\ w \notin Making
  <2>1. job[w].bytes \in Texts
    BY <1>1 DEF ServiceInv, PinnedInv, Staged, Shaped
  <2> QED
    BY <1>4, <1>5, <2>1, PinnedReplaceAssumption DEF Request, Making
<1>13. Service!Make(w)
  BY <1>1, <1>6, <1>8, <1>9, <1>10, <1>11, <1>12 DEF Service!Make, Service!Asked, Service!world
<1> QED
  BY <1>13 DEF Serves, Service!Next

LEMMA FillServes ==
  ASSUME ServiceInv, NEW w \in Writers, Fill(w)
  PROVE  Serves
<1> DEFINE new == job[w].new
           bytes == job[w].bytes
<1>1. /\ job[w].at = "fill" /\ new \in Inodes /\ bytes \in Texts /\ Goto(w, "sync")
      /\ text' = [text EXCEPT ![new] = bytes] /\ synced' = synced \ {new}
      /\ text \in [Inodes -> Texts \cup {Torn}] /\ job[w].kind \in {"replace", "atomic", "create"}
      /\ UNCHANGED <<dir, device, links, pin, outside, crashes>>
  BY DEF Fill, ServiceInv, PinnedInv, TypeOK, Staged, Shaped, Early, Job
<1>2. /\ job'[w].at = "sync" /\ job'[w].kind = job[w].kind /\ job'[w].bytes = job[w].bytes
      /\ \A v \in Writers : v # w => job'[v] = job[v] /\ pin'[v] = pin[v]
  <2>1. job'[w] = [job[w] EXCEPT !.at = "sync"] /\ job[w] \in Job
    BY <1>1 DEF Goto, ServiceInv, PinnedInv, TypeOK
  <2>2. job'[w].at = "sync" /\ job'[w].kind = job[w].kind /\ job'[w].bytes = job[w].bytes
    BY <2>1 DEF Job
  <2> QED
    BY <1>1, <2>2 DEF Goto, ServiceInv, PinnedInv, TypeOK
<1> HIDE DEF new, bytes
<1>3. Waits(w)' /\ Waits(w) /\ w \notin Checked' /\ w \notin Checked
      /\ (Makes(w) <=> job[w].kind = "create") /\ (Makes(w)' <=> Makes(w))
  BY <1>1, <1>2 DEF Waits, Makes, Checked
<1>4. Known'[w] = Known[w]
  BY <1>1, <1>2 DEF Known
<1>5. ASSUME NEW d \in device, d[Target] # new
      PROVE  FileIn(d)' = FileIn(d) /\ KeptOf(d)' \subseteq KeptOf(d)
  BY <1>1, <1>5, DirectoryStays, DirectoryIsKept DEF ServiceInv
<1>6. ASSUME NEW d \in device
      PROVE  FileIn(d)' \in {FileIn(d), bytes} /\ KeptOf(d)' \subseteq Kept \cup {bytes, Torn}
  <2>1. CASE d[Target] # new
    BY <1>5, <2>1, DirectoryIsKept DEF ServiceInv
  <2>2. CASE d[Target] = new
    <3>1. FileIn(d)' = bytes
      BY <1>1, <2>2, PinnedReplaceAssumption
         DEF FileIn, new, ServiceInv, OpensFiles
    <3> QED
      BY <3>1 DEF KeptOf
  <2> QED
    BY <2>1, <2>2
<1>7. PICK here \in device : here = dir
  BY DEF ServiceInv, PinnedInv, DeviceIsWhole
<1>8. CASE job[w].kind # "create"
  <2>1. \A d \in device : d[Target] # new
    BY <1>1, <1>8, PinnedReplaceAssumption DEF ServiceInv, PinnedInv, NewIsUnderItsTemp, Hidden, new
  <2>2. File' = File
    BY <1>1, <1>5, <1>7, <2>1 DEF File, FileIn
  <2>3. Service!Keeps({})
    <3>1. \A d \in device' : KeptOf(d)' \subseteq Kept \cup {}
      BY <1>1, <1>5, <2>1, DirectoryIsKept DEF ServiceInv
    <3> QED
      BY <1>1, <1>7, <3>1, KeptFollows
  <2> QED
    BY <1>1, <1>2, <1>3, <1>4, <2>2, <2>3, QuietServes
<1>9. CASE job[w].kind = "create"
  <2>1. File' \in {File, bytes}
    BY <1>1, <1>6, <1>7 DEF File, FileIn
  <2>2. Service!Keeps({bytes, Torn})
    <3>1. \A d \in device' : KeptOf(d)' \subseteq Kept \cup {bytes, Torn}
      BY <1>1, <1>6
    <3> QED
      BY <1>1, <1>7, <3>1, KeptFollows
  <2>3. Request' = Request
    <3>1. Request' = [Request EXCEPT ![w] = Request[w]]
      BY <1>2, <1>3, OthersWait DEF Request, ServiceInv
    <3> QED
      BY <3>1 DEF Request
  <2>4. Known' = Known
    <3>1. Known' = [Known EXCEPT ![w] = Known[w]]
      BY <1>2, <1>4, OthersWait DEF ServiceInv
    <3> QED
      BY <3>1 DEF Known
  <2>5. Making' = Making /\ Checked' = Checked
    <3>1. Checked \subseteq Writers /\ Checked' \subseteq Writers
          /\ Making \subseteq Writers /\ Making' \subseteq Writers
      BY DEF Checked, Making
    <3>2. \A v \in Writers : v # w => (v \in Making' <=> v \in Making) /\ (v \in Checked' <=> v \in Checked)
      BY <1>1, <1>2, OthersWait DEF ServiceInv
    <3>3. w \in Making' <=> w \in Making
      BY <1>3 DEF Making
    <3> QED
      BY <1>3, <3>1, <3>2, <3>3
  <2>6. w \in Making /\ Request[w].bytes = bytes
    BY <1>3, <1>9 DEF Making, Request, bytes
  <2>7. Service!Fill(w)
    <3>1. File' \in {File, Request[w].bytes} /\ Service!Keeps({Request[w].bytes, Torn})
      BY <2>1, <2>2, <2>6
    <3> QED
      BY <1>1, <2>3, <2>4, <2>5, <2>6, <3>1 DEF Service!Fill, Service!calls, Service!world
  <2> QED
    BY <2>7 DEF Serves, Service!Next
<1> QED
  BY <1>8, <1>9

\* The writer's file is durable; a file that was created is finished.
LEMMA SyncServes ==
  ASSUME ServiceInv, NEW w \in Writers, Sync(w)
  PROVE  Serves
<1>0. PICK stage \in Stage : /\ stage = IF job[w].kind = "create" THEN "syncdir" ELSE "compare"
                            /\ Goto(w, stage)
  BY DEF Sync, Stage
<1>1. /\ job[w].at = "sync" /\ job[w].new \in Inodes /\ job[w].bytes \in Texts
      /\ synced' = synced \cup {job[w].new}
      /\ UNCHANGED <<dir, device, text, links, pin, outside, crashes>>
  BY DEF Sync, ServiceInv, PinnedInv, Staged, Shaped, Early
<1>2. /\ job'[w].at = stage /\ job'[w].kind = job[w].kind /\ job'[w].bytes = job[w].bytes
      /\ \A v \in Writers : v # w => job'[v] = job[v] /\ pin'[v] = pin[v]
  <2>1. job'[w] = [job[w] EXCEPT !.at = stage] /\ job[w] \in Job
    BY <1>0 DEF Goto, ServiceInv, PinnedInv, TypeOK
  <2>2. job'[w].at = stage /\ job'[w].kind = job[w].kind /\ job'[w].bytes = job[w].bytes
    BY <2>1 DEF Job
  <2> QED
    BY <1>0, <1>1, <2>2 DEF Goto, ServiceInv, PinnedInv, TypeOK
<1>3. File' = File
  BY <1>1 DEF File, FileIn
<1>4. Service!Keeps({})
  <2>1. \A d \in device' : KeptOf(d)' \subseteq Kept \cup {}
    BY <1>1, DirectoryStays, DirectoryIsKept DEF ServiceInv
  <2> QED
    BY <1>1, <2>1, KeptFollows DEF ServiceInv, PinnedInv, DeviceIsWhole
<1>5. Waits(w) /\ w \notin Checked /\ w \notin Checked'
  BY <1>0, <1>1, <1>2 DEF Waits, Checked
<1>6. CASE job[w].kind # "create"
  <2>1. Waits(w)' /\ ~Makes(w) /\ ~Makes(w)' /\ Known'[w] = Known[w]
    BY <1>0, <1>1, <1>2, <1>6 DEF Waits, Makes, Known
  <2> QED
    BY <1>1, <1>2, <1>3, <1>4, <1>5, <2>1, QuietServes
<1>7. CASE job[w].kind = "create"
  <2>1. Makes(w) /\ ~Makes(w)' /\ ~Waits(w)' /\ Known'[w] = job[w].bytes
    BY <1>0, <1>1, <1>2, <1>7 DEF Waits, Makes, Known
  <2>2. Request[w].bytes = job[w].bytes
    BY <1>5 DEF Request
  <2>3. Request' = [Request EXCEPT ![w] = None] /\ Known' = [Known EXCEPT ![w] = Request[w].bytes]
    BY <1>2, <2>1, <2>2, OthersWait DEF ServiceInv
  <2>4. Making' = Making \ {w} /\ Checked' = Checked /\ w \in Making
    <3>1. Checked \subseteq Writers /\ Checked' \subseteq Writers
          /\ Making \subseteq Writers /\ Making' \subseteq Writers
      BY DEF Checked, Making
    <3>2. \A v \in Writers : v # w => (v \in Making' <=> v \in Making) /\ (v \in Checked' <=> v \in Checked)
      BY <1>1, <1>2, OthersWait DEF ServiceInv
    <3>3. w \in Making /\ w \notin Making'
      BY <2>1 DEF Making
    <3> QED
      BY <1>5, <3>1, <3>2, <3>3
  <2>5. Service!Complete(w)
    BY <1>1, <1>3, <1>4, <2>3, <2>4 DEF Service!Complete, Service!Ends, Service!world
  <2> QED
    BY <2>5 DEF Serves, Service!Next
<1> QED
  BY <1>6, <1>7

\* The rename is the replacement.
LEMMA RenameServes ==
  ASSUME ServiceInv, NEW w \in Writers, Rename(w)
  PROVE  Serves
<1> DEFINE new == job[w].new
           bytes == job[w].bytes
<1>1. /\ job[w].at = "rename" /\ new \in Inodes /\ bytes \in Texts /\ Goto(w, "syncdir")
      /\ job[w].kind \in {"replace", "atomic"} /\ Hidden(job[w])
      /\ text[new] = bytes /\ new \in synced /\ new \notin links
      /\ UNCHANGED <<text, synced, links, pin, outside, crashes>>
  BY DEF Rename, Hidden, ServiceInv, OpensFiles, FilledAsAsked, PinnedInv, FilledIsWhole, Staged, Shaped, Early
<1>2. dir'[Target] = new /\ device' = device \cup {dir'}
  BY <1>1, PinnedReplaceAssumption
     DEF Rename, ServiceInv, PinnedInv, TypeOK, Directory, Names, Staged, Shaped, Early
<1>3. /\ job'[w].at = "syncdir" /\ job'[w].kind = job[w].kind /\ job'[w].bytes = bytes
      /\ \A v \in Writers : v # w => job'[v] = job[v] /\ pin'[v] = pin[v]
  <2>1. job'[w] = [job[w] EXCEPT !.at = "syncdir"] /\ job[w] \in Job
    BY <1>1 DEF Goto, ServiceInv, PinnedInv, TypeOK
  <2>2. job'[w].at = "syncdir" /\ job'[w].kind = job[w].kind /\ job'[w].bytes = job[w].bytes
    BY <2>1 DEF Job
  <2> QED
    BY <1>1, <2>2 DEF Goto, ServiceInv, PinnedInv, TypeOK
<1>4. \A v \in Writers : job[v].handle # new
  BY <1>1 DEF ServiceInv, OpensFiles
<1>5. Request[w].bytes = bytes /\ Request[w].kind = job[w].kind /\ Request[w] # None
  BY <1>1, PinnedReplaceAssumption DEF Request, Waits
<1> HIDE DEF new, bytes
<1>6. PICK there \in device' : there = dir'
  BY <1>2
<1>7. FileIn(there)' = bytes /\ KeptOf(there)' = {bytes} /\ File' = bytes
  <2>1. FileIn(there)' = bytes
    BY <1>1, <1>2, <1>6, PinnedReplaceAssumption DEF FileIn
  <2> QED
    BY <1>1, <1>2, <1>6, <2>1 DEF KeptOf, File, FileIn
<1>8. Service!Keeps({File'})
  <2>1. ASSUME NEW d \in device' PROVE KeptOf(d)' \subseteq Kept \cup {File'}
    <3>1. CASE d \in device
      BY <1>1, <3>1, DirectoryStays, DirectoryIsKept DEF ServiceInv
    <3>2. CASE d = there
      BY <1>7, <3>2
    <3> QED
      BY <1>2, <1>6, <3>1, <3>2
  <2> QED
    BY <1>2, <2>1, KeptFollows
<1>9. Request' = [Request EXCEPT ![w] = None] /\ Known' = [Known EXCEPT ![w] = Request[w].bytes]
  <2>1. ~Waits(w)' /\ Known'[w] = bytes
    BY <1>3 DEF Waits, Makes, Known
  <2> QED
    BY <1>3, <1>5, <2>1, OthersWait DEF ServiceInv
<1>10. Making' = Making /\ Checked' \subseteq Checked \ {w}
  <2>1. Checked \subseteq Writers /\ Checked' \subseteq Writers
        /\ Making \subseteq Writers /\ Making' \subseteq Writers
    BY DEF Checked, Making
  <2>2. w \notin Making /\ w \notin Making' /\ w \notin Checked'
    BY <1>1, <1>3 DEF Making, Makes, Checked
  <2>3. \A v \in Writers : v # w => (v \in Making' <=> v \in Making) /\ (v \in Checked' => v \in Checked)
    BY <1>2, <1>3, <1>4, OthersWait DEF ServiceInv
  <2> QED
    BY <2>1, <2>2, <2>3
<1>11. job[w].kind = "replace" => w \in Checked
  BY <1>1 DEF Checked, Expects
<1>12. Service!Replace(w)
  BY <1>1, <1>5, <1>7, <1>8, <1>9, <1>10, <1>11
     DEF Service!Replace, Service!Asked, Service!Ends, Service!world
<1> QED
  BY <1>12 DEF Serves, Service!Next

LEMMA SyncDirServes ==
  ASSUME ServiceInv, NEW w \in Writers, SyncDir(w)
  PROVE  Serves
<1>1. /\ job[w].at = "syncdir" /\ job[w].bytes \in Texts /\ job[w].new \in Inodes
      /\ pin' = [pin EXCEPT ![w] = [ino |-> job[w].new, text |-> job[w].bytes]]
      /\ job' = [job EXCEPT ![w] = Idle]
      /\ dir \in device /\ device' \in {device, {dir}}
      /\ UNCHANGED <<dir, text, synced, links, outside, crashes>>
  BY DEF SyncDir, Return, ServiceInv, PinnedInv, DeviceIsWhole, Staged, Shaped, Early
<1>2. /\ job'[w].at = "idle" /\ pin'[w] = [ino |-> job[w].new, text |-> job[w].bytes]
      /\ \A v \in Writers : v # w => job'[v] = job[v] /\ pin'[v] = pin[v]
  BY <1>1 DEF Idle, ServiceInv, PinnedInv, TypeOK
<1>3. ~Waits(w) /\ ~Waits(w)' /\ ~Makes(w) /\ ~Makes(w)' /\ w \notin Checked /\ w \notin Checked'
  BY <1>1, <1>2 DEF Waits, Makes, Checked
<1>4. Known'[w] = Known[w]
  <2>1. pin'[w] # None /\ pin'[w].text = job[w].bytes
    BY <1>1, <1>2, PinnedReplaceAssumption
  <2> QED
    BY <1>1, <1>2, <2>1 DEF Known
<1>5. File' = File
  BY <1>1 DEF File, FileIn
<1>6. Service!Keeps({})
  <2>1. \A d \in device' : d \in device
    BY <1>1
  <2>2. \A d \in device' : KeptOf(d)' \subseteq Kept \cup {}
    BY <1>1, <2>1, DirectoryStays, DirectoryIsKept DEF ServiceInv
  <2> QED
    BY <1>1, <2>2, KeptFollows
<1> QED
  BY <1>1, <1>2, <1>3, <1>4, <1>5, <1>6, QuietServes

\* The temp file is removed; a created file, with its name.
LEMMA CleanServes ==
  ASSUME ServiceInv, NEW w \in Writers, Clean(w)
  PROVE  Serves
<1>1. /\ job[w].at = "clean" /\ job' = [job EXCEPT ![w] = Idle]
      /\ dir' = [dir EXCEPT ![job[w].temp] = None] /\ device' = device \cup {dir'}
      /\ dir \in device /\ dir \in Directory
      /\ UNCHANGED <<text, synced, links, pin, outside, crashes>>
  BY DEF Clean, Bind, Return, ServiceInv, PinnedInv, DeviceIsWhole, TypeOK
<1>2. /\ job'[w].at = "idle" /\ job'[w].kind = "none"
      /\ \A v \in Writers : v # w => job'[v] = job[v] /\ pin'[v] = pin[v]
  BY <1>1 DEF Idle, ServiceInv, PinnedInv, TypeOK
<1>3. ~Waits(w)' /\ ~Makes(w)' /\ w \notin Checked /\ w \notin Checked' /\ Known'[w] = Known[w]
  BY <1>1, <1>2 DEF Waits, Makes, Checked, Known
<1>4. \A d \in device : FileIn(d)' = FileIn(d) /\ KeptOf(d)' \subseteq Kept
  BY <1>1, DirectoryStays, DirectoryIsKept DEF ServiceInv
<1>5. CASE job[w].kind # "create"
  <2>1. dir'[Target] = dir[Target]
    BY <1>1, <1>5, PinnedReplaceAssumption
       DEF ServiceInv, PinnedInv, Staged, Shaped, Early, Directory, Names
  <2>2. File' = File
    BY <1>1, <2>1 DEF File, FileIn
  <2>3. Service!Keeps({})
    <3>1. ASSUME NEW d \in device' PROVE KeptOf(d)' \subseteq Kept \cup {}
      <4>1. PICK e \in device : e[Target] = d[Target]
        BY <1>1, <2>1
      <4> QED
        BY <1>4, <4>1 DEF KeptOf, FileIn
    <3> QED
      BY <1>1, <3>1, KeptFollows
  <2>4. ~Waits(w) /\ ~Makes(w)
    BY <1>1, <1>5 DEF Waits, Makes
  <2> QED
    BY <1>1, <1>2, <1>3, <2>1, <2>2, <2>3, <2>4, QuietServes
<1>6. CASE job[w].kind = "create"
  <2>1. dir'[Target] = None /\ None \notin links /\ None \notin Inodes
    BY <1>1, <1>6, PinnedReplaceAssumption DEF TypeOK, ServiceInv, PinnedInv, Staged, Shaped, Early, Directory, Names
  <2>2. PICK there \in device' : there = dir'
    BY <1>1
  <2>3. KeptOf(there)' = {None} /\ File' = None
    <3>1. FileIn(there)' = None
      BY <1>1, <2>1, <2>2 DEF FileIn
    <3> QED
      BY <2>1, <2>2, <3>1 DEF KeptOf, File, FileIn
  <2>4. Service!Keeps({None})
    <3>1. \A d \in device' : d \in device \/ d = there
      BY <1>1, <2>2
    <3>2. \A d \in device' : KeptOf(d)' \subseteq Kept \cup {None}
      BY <1>4, <2>3, <3>1
    <3> QED
      BY <1>1, <3>2, KeptFollows
  <2>5. Request' = [Request EXCEPT ![w] = None]
    BY <1>2, <1>3, OthersWait DEF ServiceInv
  <2>6. Known' = Known
    <3>1. Known' = [Known EXCEPT ![w] = Known[w]]
      BY <1>2, <1>3, OthersWait DEF ServiceInv
    <3> QED
      BY <3>1 DEF Known
  <2>7. Making' = Making \ {w} /\ w \in Making
    <3>1. Making \subseteq Writers /\ Making' \subseteq Writers
      BY DEF Making
    <3>2. w \in Making /\ w \notin Making'
      BY <1>1, <1>3, <1>6 DEF Making, Makes
    <3>3. \A v \in Writers : v # w => (v \in Making' <=> v \in Making)
      BY <1>2, OthersWait DEF ServiceInv
    <3> QED
      BY <3>1, <3>2, <3>3
  <2>8. Checked' \subseteq Checked
    <3>1. \A v \in Writers : Expects(v) /\ job[v].at = "look" => job[v].handle # None
      BY PinnedReplaceAssumption DEF Expects, ServiceInv, PinnedInv, TypeOK, Staged, Shaped, Pin
    <3> QED
      BY <1>2, <1>3, <2>1, <3>1 DEF Checked, Expects
  <2>9. Service!Undo(w)
    BY <1>1, <2>3, <2>4, <2>5, <2>6, <2>7, <2>8 DEF Service!Undo, Service!world
  <2> QED
    BY <2>9 DEF Serves, Service!Next
<1> QED
  BY <1>5, <1>6

\* The temp file stays, which nobody sees; a created file stays as it is.
LEMMA CleanFailsServes ==
  ASSUME ServiceInv, NEW w \in Writers, CleanFails(w)
  PROVE  Serves
<1>1. /\ job[w].at = "clean" /\ job' = [job EXCEPT ![w] = Idle]
      /\ UNCHANGED <<disk, pin, outside, crashes>> /\ dir' = dir
  BY DEF CleanFails, Return, disk
<1>2. /\ job'[w].at = "idle" /\ job'[w].kind = "none"
      /\ \A v \in Writers : v # w => job'[v] = job[v] /\ pin'[v] = pin[v]
  BY <1>1 DEF Idle, ServiceInv, PinnedInv, TypeOK
<1>3. ~Waits(w)' /\ ~Makes(w)' /\ w \notin Checked /\ w \notin Checked' /\ Known'[w] = Known[w]
  BY <1>1, <1>2 DEF Waits, Makes, Checked, Known
<1>4. CASE job[w].kind # "create"
  <2>1. ~Waits(w) /\ ~Makes(w)
    BY <1>1, <1>4 DEF Waits, Makes
  <2> QED
    BY <1>1, <1>2, <1>3, <2>1, DiskStays, QuietServes DEF ServiceInv
<1>5. CASE job[w].kind = "create"
  <2>1. Request' = [Request EXCEPT ![w] = None]
    BY <1>2, <1>3, OthersWait DEF ServiceInv
  <2>2. Known' = Known
    <3>1. Known' = [Known EXCEPT ![w] = Known[w]]
      BY <1>2, <1>3, OthersWait DEF ServiceInv
    <3> QED
      BY <3>1 DEF Known
  <2>3. Making' = Making \ {w} /\ w \in Making /\ Checked' = Checked
    <3>1. Making \subseteq Writers /\ Making' \subseteq Writers
          /\ Checked \subseteq Writers /\ Checked' \subseteq Writers
      BY DEF Making, Checked
    <3>2. w \in Making /\ w \notin Making'
      BY <1>1, <1>3, <1>5 DEF Making, Makes
    <3>3. \A v \in Writers : v # w => (v \in Making' <=> v \in Making) /\ (v \in Checked' <=> v \in Checked)
      BY <1>1, <1>2, OthersWait DEF ServiceInv
    <3> QED
      BY <1>3, <3>1, <3>2, <3>3
  <2>4. Service!Abandon(w)
    BY <1>1, <2>1, <2>2, <2>3, DiskStays DEF Service!Abandon, Service!world, ServiceInv
  <2> QED
    BY <2>4 DEF Serves, Service!Next
<1> QED
  BY <1>4, <1>5

\* What other programs, the file system and a power failure do.
LEMMA CallsStay ==
  ASSUME UNCHANGED <<job, pin>>
  PROVE  Request' = Request /\ Known' = Known /\ Making' = Making
         /\ \A v \in Writers : (dir'[Target] = dir[Target] \/ dir'[Target] # job[v].handle)
                                  /\ v \in Checked' => v \in Checked
  BY DEF Request, Known, Making, Checked, Waits, Makes, Expects

LEMMA OutsideServes ==
  ASSUME ServiceInv, Outside
  PROVE  Serves
<1>1. UNCHANGED <<job, pin, crashes>>
  BY DEF Outside, WriteInPlace, PutOver, Remove, Settle
<1>2. /\ dir \in device /\ dir \in Directory /\ TypeOK
      /\ \A d \in device : d[Target] \in Inodes \cup {None} /\ d[Target] \notin Free
  BY DirectoryIsKept DEF ServiceInv, PinnedInv, DeviceIsWhole, TypeOK
<1>3. ASSUME File' \in Texts \cup {None, "link"}, Service!Keeps({File'}), outside' = outside + 1,
             \A v \in Writers : v \in Checked' => v \in Checked
      PROVE  Serves
  <2>1. Checked' \subseteq Checked
    BY <1>3 DEF Checked
  <2>2. Service!Elsewhere
    BY <1>1, <1>3, <2>1, CallsStay DEF Service!Elsewhere
  <2> QED
    BY <2>2 DEF Serves, Service!Next
<1>4. ASSUME NEW t \in Texts, WriteInPlace(t) PROVE Serves
  <2> DEFINE ino == dir[Target]
  <2>1. /\ ino \in Inodes /\ ino # None /\ ino \notin links
        /\ text' = [text EXCEPT ![ino] = t] /\ synced' = synced \cup {ino}
        /\ UNCHANGED <<dir, device, links>> /\ outside' = outside + 1
    BY <1>2, <1>4, PinnedReplaceAssumption DEF WriteInPlace, Interferes
  <2>2. ASSUME NEW d \in device, d[Target] = ino PROVE KeptOf(d)' = {t} /\ FileIn(d)' = t
    <3>1. FileIn(d)' = t
      BY <1>2, <2>1, <2>2 DEF FileIn, TypeOK
    <3> QED
      BY <2>1, <2>2, <3>1 DEF KeptOf
  <2>3. \A d \in device : d[Target] # ino => KeptOf(d)' \subseteq Kept
    <3>1. ASSUME NEW d \in device, d[Target] # ino PROVE KeptOf(d)' \subseteq Kept
      <4>1. d[Target] # None => text'[d[Target]] = text[d[Target]]
        BY <1>2, <2>1, <3>1 DEF TypeOK
      <4>2. KeptOf(d)' \subseteq KeptOf(d)
        BY <2>1, <4>1, DirectoryStays DEF ServiceInv
      <4> QED
        BY <4>2, DirectoryIsKept DEF ServiceInv
    <3> QED
      BY <3>1
  <2>4. PICK here \in device : here = dir
    BY <1>2
  <2>5. File' = t
    BY <2>1, <2>2, <2>4 DEF File, FileIn
  <2> HIDE DEF ino
  <2>6. Service!Keeps({File'})
    <3>1. \A d \in device' : KeptOf(d)' \subseteq Kept \cup {File'}
      BY <2>1, <2>2, <2>3, <2>5
    <3> QED
      BY <2>1, <2>4, <3>1, KeptFollows
  <2> QED
    BY <1>1, <1>3, <2>1, <2>5, <2>6, CallsStay
<1>5. ASSUME NEW t \in Texts, NEW ino \in Inodes, NEW link \in BOOLEAN, PutOver(ino, t, link)
      PROVE  Serves
  <2>1. /\ ino \in Free /\ ino # None /\ dir'[Target] = ino /\ device' = device \cup {dir'}
        /\ text' = [text EXCEPT ![ino] = t] /\ synced' = synced \cup {ino}
        /\ links' = IF link THEN links \cup {ino} ELSE links \ {ino}
        /\ outside' = outside + 1
    BY <1>2, <1>5, PinnedReplaceAssumption DEF PutOver, Bind, Interferes, Directory, Names
  <2>2. PICK there \in device' : there = dir'
    BY <2>1
  <2>3. FileIn(there)' = (IF link THEN "link" ELSE t)
    BY <1>2, <2>1, <2>2, PinnedReplaceAssumption DEF FileIn, TypeOK
  <2>4. File' = (IF link THEN "link" ELSE t) /\ KeptOf(there)' = {File'}
    BY <2>1, <2>2, <2>3 DEF File, FileIn, KeptOf
  <2>5. ASSUME NEW d \in device PROVE KeptOf(d)' \subseteq Kept
    <3>1. d[Target] # ino /\ (d[Target] # None => text'[d[Target]] = text[d[Target]])
      BY <1>2, <2>1 DEF TypeOK
    <3>2. KeptOf(d)' \subseteq KeptOf(d)
      BY <2>1, <3>1, DirectoryStays DEF ServiceInv
    <3> QED
      BY <3>2, DirectoryIsKept DEF ServiceInv
  <2>6. Service!Keeps({File'})
    <3>1. \A d \in device' : d \in device \/ d = there
      BY <2>1, <2>2
    <3>2. \A d \in device' : KeptOf(d)' \subseteq Kept \cup {File'}
      BY <2>4, <2>5, <3>1
    <3> QED
      BY <2>2, <3>2, KeptFollows
  <2>7. \A v \in Writers : job[v].handle # dir'[Target]
    BY <2>1, FreeIsUnused DEF ServiceInv, PinnedInv
  <2> QED
    BY <1>1, <1>3, <2>1, <2>4, <2>6, <2>7, CallsStay
<1>6. ASSUME Remove PROVE Serves
  <2>1. /\ dir'[Target] = None /\ device' = device \cup {dir'} /\ outside' = outside + 1
        /\ None \notin links /\ None \notin Inodes /\ UNCHANGED <<text, synced, links>>
    BY <1>2, <1>6, PinnedReplaceAssumption DEF Remove, Bind, Interferes, Directory, Names, TypeOK
  <2>2. PICK there \in device' : there = dir'
    BY <2>1
  <2>3. KeptOf(there)' = {None} /\ File' = None
    <3>1. FileIn(there)' = None
      BY <2>1, <2>2 DEF FileIn
    <3> QED
      BY <2>1, <2>2, <3>1 DEF KeptOf, File, FileIn
  <2>4. \A d \in device : KeptOf(d)' \subseteq Kept
    BY <2>1, DirectoryStays, DirectoryIsKept DEF ServiceInv
  <2>5. Service!Keeps({File'})
    <3>1. \A d \in device' : d \in device \/ d = there
      BY <2>1, <2>2
    <3>2. \A d \in device' : KeptOf(d)' \subseteq Kept \cup {File'}
      BY <2>3, <2>4, <3>1
    <3> QED
      BY <2>2, <3>2, KeptFollows
  <2>6. \A v \in Writers : v \in Checked' => v \in Checked
    <3>1. \A v \in Writers : Expects(v) /\ job[v].at = "look" => job[v].handle # None
      BY PinnedReplaceAssumption DEF Expects, ServiceInv, PinnedInv, TypeOK, Staged, Shaped, Pin
    <3> QED
      BY <1>1, <2>1, <3>1 DEF Checked, Expects
  <2> QED
    BY <1>1, <1>3, <2>1, <2>3, <2>5, <2>6
<1>7. ASSUME Settle PROVE Serves
  <2>1. device' = {dir} /\ UNCHANGED <<dir, text, synced, links, outside>>
    BY <1>7 DEF Settle
  <2>2. File' = File /\ Checked' = Checked
    BY <1>1, <2>1 DEF File, FileIn, Checked, Expects
  <2>3. Service!Keeps({})
    <3>1. \A d \in device' : KeptOf(d)' \subseteq Kept \cup {}
      BY <1>2, <2>1, DirectoryStays, DirectoryIsKept DEF ServiceInv
    <3> QED
      BY <2>1, <3>1, KeptFollows
  <2>4. Service!Settle
    BY <1>1, <2>1, <2>2, <2>3, CallsStay DEF Service!Settle, Service!calls, Service!world
  <2> QED
    BY <2>4 DEF Serves, Service!Next
<1> QED
  BY <1>4, <1>5, <1>6, <1>7 DEF Outside

\* A power failure leaves one of the directories it may, and of an unsynced file
\* what it may.
LEMMA CrashServes ==
  ASSUME ServiceInv, Crash
  PROVE  Serves
<1>1. /\ dir' \in device /\ device' = {dir'} /\ synced' = Inodes /\ crashes' = crashes + 1
      /\ pin' = [w \in Writers |-> None] /\ job' = [w \in Writers |-> Idle]
      /\ UNCHANGED <<links, outside>>
      /\ \A i \in Inodes : text'[i] = text[i] \/ (i \notin synced /\ text'[i] = Torn)
  BY DEF Crash
<1>2. PICK left \in device : left = dir'
  BY <1>1
<1>3. left[Target] \in Inodes \cup {None} /\ KeptOf(left) \subseteq Kept
  BY DirectoryIsKept DEF ServiceInv
<1>4. FileIn(left)' \in KeptOf(left)
  <2>1. None \notin Inodes /\ None \notin links
    BY PinnedReplaceAssumption DEF ServiceInv, PinnedInv, TypeOK
  <2>2. CASE left[Target] = None
    BY <1>1, <2>1, <2>2 DEF FileIn, KeptOf
  <2>3. CASE left[Target] \in links
    BY <1>1, <2>1, <2>3 DEF FileIn, KeptOf
  <2>4. CASE left[Target] \in Inodes \ links
    BY <1>1, <2>1, <2>4 DEF FileIn, KeptOf
  <2> QED
    BY <1>3, <2>2, <2>3, <2>4
<1>5. File' = FileIn(left)' /\ KeptOf(left)' = {FileIn(left)'}
  <2>1. File' = FileIn(left)'
    BY <1>2 DEF File, FileIn
  <2>2. KeptOf(left)' = {FileIn(left)'}
    BY <1>1 DEF KeptOf
  <2> QED
    BY <2>1, <2>2
<1>6. Kept' = {File'}
  <2>1. Kept' = UNION {KeptOf(d)' : d \in device'}
    BY DEF Kept, KeptOf
  <2>2. device' = {left}
    BY <1>1, <1>2
  <2> QED
    BY <1>5, <2>1, <2>2
<1>7. \A w \in Writers : job'[w].at = "idle" /\ pin'[w] = None
  BY <1>1 DEF Idle
<1>8. Known' = [w \in Writers |-> None] /\ Request' = [w \in Writers |-> None]
  BY <1>7 DEF Known, Request, Waits, Makes
<1>9. Checked' = {} /\ Making' = {}
  BY <1>7 DEF Checked, Making, Makes
<1>10. Service!Crash
  BY <1>1, <1>3, <1>4, <1>5, <1>6, <1>8, <1>9 DEF Service!Crash
<1> QED
  BY <1>10 DEF Serves, Service!Next

\* A write of the file leaves it alone, or puts a whole text there at once after
\* a moment at which the file said what the caller knew of it; and a power failure
\* leaves one of the texts it had since it was last on the device (pinned.rs 4,
\* replace, create_new).
THEOREM ImplementsFileService == Spec => ImplementsService
<1>1. Init => ServiceInv /\ Service!Init
  <2> SUFFICES ASSUME Init PROVE ServiceInv /\ Service!Init
    OBVIOUS
  <2>1. PinnedInv /\ dir[Target] \in Inodes /\ text[dir[Target]] \in Texts
    BY InitInv DEF Init, Names
  <2>2. \A w \in Writers : job[w].new = None /\ job[w].handle = None /\ job[w].at = "idle"
                           /\ job[w].kind = "none" /\ pin[w] = None
    BY DEF Init, Idle
  <2>3. links = {} /\ synced = Inodes /\ device = {dir} /\ outside = 0 /\ crashes = 0
    BY DEF Init
  <2>4. ServiceInv
    BY <2>1, <2>2, <2>3 DEF ServiceInv, OpensFiles, FilledAsAsked, Hidden
  <2>5. File \in Texts /\ Kept = {File}
    <3>1. PICK here \in device : here = dir
      BY <2>3
    <3>2. FileIn(here) = text[dir[Target]]
      BY <2>1, <2>3, <3>1, PinnedReplaceAssumption DEF FileIn
    <3>3. KeptOf(here) = {File} /\ device = {here} /\ File = FileIn(here)
      BY <2>3, <3>1 DEF KeptOf, File
    <3> QED
      BY <2>1, <3>2, <3>3 DEF Kept
  <2>6. /\ Known = [w \in Writers |-> None] /\ Request = [w \in Writers |-> None]
        /\ Checked = {} /\ Making = {}
    BY <2>2 DEF Known, Request, Checked, Making, Waits, Makes, Expects
  <2> QED
    BY <2>3, <2>4, <2>5, <2>6 DEF Service!Init
<1>2. ServiceInv /\ [Next]_vars => ServiceInv'
  BY NextKeepsInv, OpensFilesHolds, FilledAsAskedHolds DEF ServiceInv
<1>3. ServiceInv /\ [Next]_vars => [Service!Next]_Service!vars
  <2>1. ASSUME ServiceInv, UNCHANGED vars PROVE UNCHANGED Service!vars
    <3>1. UNCHANGED <<disk, pin, job, outside, crashes>>
      BY <2>1 DEF vars, disk
    <3>2. Request' = Request /\ Known' = Known /\ Making' = Making /\ Checked' = Checked
      BY <3>1 DEF disk, Request, Known, Making, Checked, Waits, Makes, Expects
    <3> QED
      BY <2>1, <3>1, <3>2, DiskStays DEF ServiceInv, Service!vars, Service!calls, Service!world
  <2>2. ASSUME ServiceInv, NEW w \in Writers, Step(w) PROVE Serves
    BY <2>2, ReadServes, BeginServes, OpenServes, FailureServes, CreateTempServes, CreateServes,
       FillServes, SyncServes, GotoServes, RenameServes, SyncDirServes, CleanServes DEF Step
  <2> QED
    BY <2>1, <2>2, CleanFailsServes, OutsideServes, CrashServes DEF Next, Serves
<1> QED
  BY <1>1, <1>2, <1>3, PTL DEF Spec, ImplementsService, Service!Spec
=============================================================================

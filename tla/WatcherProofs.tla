---------------------------- MODULE WatcherProofs ----------------------------
(* Theorems about Watcher, for every number of files, texts and saves: when  *)
(* the watcher has dealt with its events, what is served is what is on disk. *)
(* The journal's files are in one directory: README says why.                *)
EXTENDS Watcher, TLAPS

(* One directory holds the journal, so that from the start all are watched. *)
OneDirectory == \A f, g \in Files : Dir[f] = Dir[g]

-----------------------------------------------------------------------------
(* A journal served is a whole one, and a reload under way has read the main *)
(* file first.                                                               *)

IsWhole(texts) ==
    /\ texts \in Journal /\ texts[Main] \in Texts
    /\ \A f \in Files \ {Main} : texts[f] # None <=> f \in Includes[texts[Main]]

ReadsInOrder ==
    at = "reload" =>
        \/ read = NoStamps /\ left = {Main}
        \/ /\ read[Main] \in Texts /\ left \subseteq Includes[read[Main]]
           /\ \A f \in Files \ {Main} :
                read[f] # None <=> f \in Includes[read[Main]] \ left

MadeOf ==
    /\ disk \in [Files -> Texts \cup {Missing}] /\ read \in Journal
    /\ stamp \in Stamps /\ last \in Stamps
    /\ left \subseteq Files
    /\ at \in {"off", "recv", "drain", "stamp", "reload", "restamp"}
    /\ IsWhole(served) /\ ReadsInOrder
    /\ at # "off" => \A f \in Files : Dir[f] \in watched

-----------------------------------------------------------------------------
(* A source that is not as it was stamped is on its way to be looked at.     *)

Underway(f) ==
    \/ f \in inflight \/ pending \/ at = "drain"
    \/ at = "stamp" /\ (f \in left \/ stamp[f] # last[f])

ChangesAreSeen ==
    /\ at \in {"recv", "drain", "stamp"} =>
         \A f \in SourcesOf(served) : disk[f] # last[f] => Underway(f)
    /\ at = "restamp" =>
         \A f \in SourcesOf(served) \ left :
            disk[f] # stamp[f] => f \in inflight \/ pending

(* What is served is what was stamped, unless it is known not to be. *)
ServedIsStamped ==
    missed = {} /\ ~failed /\ ~edited =>
        /\ at \in {"off", "restamp"} => \A f \in SourcesOf(served) : served[f] = disk[f]
        /\ at = "restamp" => \A f \in SourcesOf(served) \ left : stamp[f] = served[f]
        /\ at \in {"recv", "drain", "stamp"} =>
             \A f \in SourcesOf(served) : served[f] = last[f]

ReloadReadsTheDisk ==
    at = "reload" => /\ ~edited
                     /\ missed = {} =>
                          \A f \in Files : read[f] # None => read[f] = disk[f]

WatcherInv == MadeOf /\ ChangesAreSeen /\ ServedIsStamped /\ ReloadReadsTheDisk

LEMMA SourcesAreFiles ==
    ASSUME NEW texts PROVE SourcesOf(texts) \subseteq Files /\ Main \in SourcesOf(texts)
  BY WatcherAssumption DEF SourcesOf

(* A whole journal has no other sources than the file it starts from and the *)
(* files that one includes.                                                  *)
LEMMA WholeSources ==
    ASSUME NEW texts, IsWhole(texts)
    PROVE  SourcesOf(texts) = {Main} \cup Includes[texts[Main]]
  BY WatcherAssumption DEF IsWhole, SourcesOf

-----------------------------------------------------------------------------
(* How the journal is read and served. *)

LEMMA ReadStaysInOrder ==
    ASSUME MadeOf, [Next]_vars
    PROVE  ReadsInOrder' /\ read' \in Journal
  <1>0. /\ ReadsInOrder /\ read \in Journal /\ disk \in [Files -> Texts \cup {Missing}]
        /\ \A t \in Texts : Includes[t] \subseteq Files \ {Main}
    BY WatcherAssumption DEF MadeOf
  <1>1. ASSUME NEW f \in Files, ReadFile(f) PROVE ReadsInOrder' /\ read' \in Journal
    <2>1. /\ at = "reload" /\ at' = "reload" /\ f \in left /\ disk[f] \in Texts
          /\ read' = [read EXCEPT ![f] = disk[f]]
          /\ left' = IF f = Main THEN Includes[disk[f]] ELSE left \ {f}
      BY <1>0, <1>1 DEF ReadFile
    <2>2. CASE f = Main
      <3>1. read = NoStamps
        BY <1>0, <2>1, <2>2 DEF ReadsInOrder
      <3>. QED
        BY <1>0, <2>1, <2>2, <3>1 DEF ReadsInOrder, Journal, NoStamps
    <2>3. CASE f # Main
      <3>1. /\ read[Main] \in Texts /\ left \subseteq Includes[read[Main]]
            /\ \A g \in Files \ {Main} :
                 read[g] # None <=> g \in Includes[read[Main]] \ left
        BY <1>0, <2>1, <2>3 DEF ReadsInOrder
      <3>2. /\ read'[Main] = read[Main] /\ left' = left \ {f}
            /\ read'[f] # None /\ \A g \in Files \ {f} : read'[g] = read[g]
        BY <1>0, <2>1, <2>3, WatcherAssumption DEF Journal
      <3>. QED
        BY <1>0, <2>1, <3>1, <3>2 DEF ReadsInOrder, Journal
    <2>. QED
      BY <2>2, <2>3
  <1>2. CASE StartReload
    BY <1>2 DEF StartReload, ReadsInOrder, Journal, NoStamps
  <1>3. CASE UNCHANGED <<at, read, left>>
    BY <1>0, <1>3 DEF ReadsInOrder
  <1>4. CASE at' # "reload" /\ read' = read
    BY <1>0, <1>4 DEF ReadsInOrder
  <1>5. \/ \E f \in Files : ReadFile(f)
        \/ StartReload \/ UNCHANGED <<at, read, left>> \/ (at' # "reload" /\ read' = read)
    BY DEF Next, Thread, Notice, vars, Spawn, Callback, TakeEvent, Drain, Quiet, StampFile,
           Unchanged, ReloadDone, ReloadFails, Restamped, Save, Edit
  <1>. QED
    BY <1>1, <1>2, <1>3, <1>4, <1>5

(* An edit of the program's own is to a source, and leaves the includes.     *)
LEMMA EditedSource ==
    ASSUME MadeOf, NEW f \in Files, NEW found \in Texts, Edit(f, found)
    PROVE  /\ f \in SourcesOf(served) /\ served[f] = disk[f] /\ served[f] \in Texts
           /\ disk' = [disk EXCEPT ![f] = found] /\ served' = [served EXCEPT ![f] = found]
           /\ (f \in inflight' /\ inflight \subseteq inflight') \/ at = "off"
           /\ edited' /\ at # "reload"
           /\ IsWhole(served') /\ SourcesOf(served') = SourcesOf(served)
  <1>1. /\ served[f] = disk[f] /\ found \in Texts /\ at # "reload" /\ edited'
        /\ f = Main => Includes[found] = Includes[disk[f]]
        /\ disk' = [disk EXCEPT ![f] = found] /\ served' = [served EXCEPT ![f] = found]
    BY DEF Edit
  <1>2. served[f] \in Texts /\ IsWhole(served)
    BY <1>1, WatcherAssumption DEF MadeOf, IsWhole, Journal
  <1>3. f \in SourcesOf(served)
    BY <1>2, WatcherAssumption DEF SourcesOf
  <1>4. IsWhole(served')
    BY <1>1, <1>2, WatcherAssumption DEF IsWhole, Journal
  <1>5. Includes[served'[Main]] = Includes[served[Main]]
    BY <1>1, <1>2, WatcherAssumption DEF IsWhole, Journal
  <1>6. SourcesOf(served') = SourcesOf(served)
    BY <1>2, <1>4, <1>5, WholeSources
  <1>7. (f \in inflight' /\ inflight \subseteq inflight') \/ at = "off"
    BY DEF Edit, Notify, MadeOf
  <1>. QED
    BY <1>1, <1>2, <1>3, <1>4, <1>6, <1>7

LEMMA ServedStaysWhole ==
    ASSUME MadeOf, [Next]_vars
    PROVE  IsWhole(served)'
  <1>1. ASSUME NEW f \in Files, NEW found \in Texts, Edit(f, found) PROVE IsWhole(served)'
    BY <1>1, EditedSource DEF IsWhole
  <1>2. CASE ReloadDone
    <2>1. at = "reload" /\ left = {} /\ served' = read
      BY <1>2 DEF ReloadDone
    <2>2. /\ read[Main] \in Texts
          /\ \A f \in Files \ {Main} : read[f] # None <=> f \in Includes[read[Main]]
      BY <2>1 DEF MadeOf, ReadsInOrder
    <2>. QED
      BY <2>1, <2>2 DEF MadeOf, IsWhole
  <1>3. CASE served' = served
    BY <1>3 DEF MadeOf, IsWhole
  <1>4. \/ \E f \in Files, found \in Texts : Edit(f, found)
        \/ ReloadDone \/ served' = served
    BY DEF Next, Thread, Notice, vars, Spawn, Callback, TakeEvent, Drain, Quiet, StampFile,
           Unchanged, StartReload, ReadFile, ReloadFails, Restamped, Save
  <1>. QED
    BY <1>1, <1>2, <1>3, <1>4

LEMMA NextMade ==
    ASSUME OneDirectory, MadeOf, [Next]_vars
    PROVE  MadeOf'
  <1>0. /\ disk \in [Files -> Texts \cup {Missing}] /\ left \subseteq Files
        /\ stamp \in Stamps /\ last \in Stamps
        /\ \A texts : SourcesOf(texts) \subseteq Files
        /\ \A t \in Texts : Includes[t] \subseteq Files
    BY WatcherAssumption DEF MadeOf, SourcesOf
  <1>1. disk' \in [Files -> Texts \cup {Missing}]
    BY <1>0 DEF Next, Thread, Notice, vars, Spawn, Callback, TakeEvent, Drain, Quiet,
         StampFile, Unchanged, StartReload, ReadFile, ReloadDone, ReloadFails, Restamped, Save,
         Edit
  <1>2. stamp' \in Stamps /\ last' \in Stamps
    BY <1>0 DEF Next, Thread, Notice, vars, Spawn, Callback, TakeEvent, Drain, Quiet,
         StampFile, Unchanged, StartReload, ReadFile, ReloadDone, ReloadFails, Restamped, Save,
         Edit, Stamps, NoStamps
  <1>3. left' \subseteq Files
    BY <1>0, WatcherAssumption DEF Next, Thread, Notice, vars, Spawn, Callback, TakeEvent,
         Drain, Quiet, StampFile, Unchanged, StartReload, ReadFile, ReloadDone, ReloadFails,
         Restamped, Save, Edit
  <1>4. at' \in {"off", "recv", "drain", "stamp", "reload", "restamp"}
    BY DEF MadeOf, Next, Thread, Notice, vars, Spawn, Callback, TakeEvent, Drain, Quiet,
         StampFile, Unchanged, StartReload, ReadFile, ReloadDone, ReloadFails, Restamped, Save,
         Edit
  <1>5. at' # "off" => \A f \in Files : Dir[f] \in watched'
    <2>1. CASE Spawn
      <3>1. Dir[Main] \in watched'
        BY <2>1, SourcesAreFiles DEF Spawn
      <3>. QED
        BY <3>1, WatcherAssumption DEF OneDirectory
    <2>2. CASE ~Spawn
      BY <2>2 DEF MadeOf, Next, Thread, Notice, vars, Callback, TakeEvent, Drain, Quiet,
           StampFile, Unchanged, StartReload, ReadFile, ReloadDone, ReloadFails, Restamped,
           Save, Edit
    <2>. QED
      BY <2>1, <2>2
  <1>. QED
    BY <1>1, <1>2, <1>3, <1>4, <1>5, ReadStaysInOrder, ServedStaysWhole DEF MadeOf

-----------------------------------------------------------------------------
(* No change of a source is overlooked. *)

LEMMA ChangesStaySeen ==
    ASSUME MadeOf, ChangesAreSeen, [Next]_vars
    PROVE  ChangesAreSeen'
  <1>0. /\ disk \in [Files -> Texts \cup {Missing}] /\ stamp \in Stamps /\ last \in Stamps
        /\ SourcesOf(served) \subseteq Files
        /\ at # "off" => \A f \in Files : Dir[f] \in watched
    BY SourcesAreFiles DEF MadeOf
  <1>1. ASSUME NEW f \in Files, NEW found,
               disk' = [disk EXCEPT ![f] = found], UNCHANGED <<pending, at, left, stamp, last>>,
               SourcesOf(served') = SourcesOf(served),
               (f \in inflight' /\ inflight \subseteq inflight') \/ at = "off"
        PROVE  ChangesAreSeen'
    BY <1>0, <1>1 DEF ChangesAreSeen, Underway
  <1>2. ASSUME NEW f \in Files, NEW found \in Texts, Edit(f, found) PROVE ChangesAreSeen'
    <2>1. UNCHANGED <<pending, at, left, stamp, last>>
      BY <1>2 DEF Edit
    <2>. QED
      BY <1>1, <1>2, <2>1, EditedSource
  <1>3. ASSUME NEW f \in Files, NEW found, Save(f, found) PROVE ChangesAreSeen'
    <2>1. /\ UNCHANGED <<pending, at, left, stamp, last, served>>
          /\ disk' = [disk EXCEPT ![f] = found]
          /\ (f \in inflight' /\ inflight \subseteq inflight') \/ at = "off"
      BY <1>0, <1>3 DEF Save, Notify
    <2>. QED
      BY <1>1, <2>1
  <1>4. ASSUME NEW f \in Files, Callback(f) PROVE ChangesAreSeen'
    BY <1>4 DEF Callback, ChangesAreSeen, Underway, SourcesOf
  <1>5. ASSUME NEW f \in Files, StampFile(f) PROVE ChangesAreSeen'
    <2>1. /\ stamp' = [stamp EXCEPT ![f] = disk[f]] /\ left' = left \ {f}
          /\ UNCHANGED <<disk, served, inflight, pending, at, last>>
      BY <1>5 DEF StampFile
    <2>2. /\ stamp'[f] = disk[f] /\ SourcesOf(served') = SourcesOf(served)
          /\ \A g \in Files \ {f} : stamp'[g] = stamp[g]
      BY <1>0, <2>1 DEF Stamps
    <2>. QED
      BY <1>0, <2>1, <2>2 DEF ChangesAreSeen, Underway
  <1>6. CASE Quiet \/ Unchanged \/ Restamped \/ TakeEvent \/ Drain
    BY <1>6 DEF Quiet, Unchanged, Restamped, TakeEvent, Drain, ChangesAreSeen, Underway, SourcesOf
  <1>7. CASE Spawn \/ ReloadDone \/ \E f \in Files : ReloadFails(f)
    BY <1>7 DEF Spawn, ReloadDone, ReloadFails, ChangesAreSeen, SourcesOf
  <1>8. CASE StartReload \/ \E f \in Files : ReadFile(f)
    BY <1>8 DEF StartReload, ReadFile, ChangesAreSeen
  <1>9. CASE UNCHANGED vars
    BY <1>9 DEF vars, ChangesAreSeen, Underway, SourcesOf
  <1>. QED
    BY <1>2, <1>3, <1>4, <1>5, <1>6, <1>7, <1>8, <1>9 DEF Next, Thread, Notice

-----------------------------------------------------------------------------
(* What was reloaded, and stamped, is what is served. *)

LEMMA ReloadStaysTrue ==
    ASSUME MadeOf, ReloadReadsTheDisk, [Next]_vars
    PROVE  ReloadReadsTheDisk'
  <1>1. ASSUME NEW f \in Files, ReadFile(f) PROVE ReloadReadsTheDisk'
    <2>1. /\ at = "reload" /\ read' = [read EXCEPT ![f] = disk[f]]
          /\ UNCHANGED <<disk, at, missed, edited>>
      BY <1>1 DEF ReadFile
    <2>. QED
      BY <2>1 DEF MadeOf, Journal, ReloadReadsTheDisk
  <1>2. CASE StartReload
    BY <1>2 DEF StartReload, NoStamps, ReloadReadsTheDisk
  <1>3. ASSUME NEW f \in Files, NEW found, Save(f, found) PROVE ReloadReadsTheDisk'
    BY <1>3 DEF Save, ReloadReadsTheDisk
  <1>4. CASE at' # "reload"
    BY <1>4 DEF ReloadReadsTheDisk
  <1>5. CASE UNCHANGED <<disk, at, missed, edited, read>>
    BY <1>5 DEF ReloadReadsTheDisk
  <1>6. \/ \E f \in Files : ReadFile(f) \/ \E found \in Texts \cup {Missing} : Save(f, found)
        \/ StartReload \/ at' # "reload"
        \/ UNCHANGED <<disk, at, missed, edited, read>>
    BY DEF Next, Thread, Notice, vars, Spawn, Callback, TakeEvent, Drain, Quiet, StampFile,
           Unchanged, ReloadDone, ReloadFails, Restamped, Edit
  <1>. QED
    BY <1>1, <1>2, <1>3, <1>4, <1>5, <1>6

LEMMA ServedStaysStamped ==
    ASSUME MadeOf, ServedIsStamped, ReloadReadsTheDisk, [Next]_vars
    PROVE  ServedIsStamped'
  <1>0. /\ disk \in [Files -> Texts \cup {Missing}] /\ stamp \in Stamps /\ last \in Stamps
        /\ SourcesOf(served) \subseteq Files
    BY SourcesAreFiles DEF MadeOf
  <1>1. ASSUME NEW f \in Files, NEW found, Edit(f, found) PROVE ServedIsStamped'
    BY <1>1 DEF Edit, ServedIsStamped
  <1>2. ASSUME NEW f \in Files, NEW found, Save(f, found) PROVE ServedIsStamped'
    <2>1. /\ UNCHANGED <<at, served, left, stamp, last, failed, edited>>
          /\ missed' = {} => missed = {} /\ at \notin {"off", "restamp"}
      BY <1>2 DEF Save
    <2>. QED
      BY <2>1 DEF ServedIsStamped, SourcesOf
  <1>3. ASSUME NEW f \in Files, StampFile(f) PROVE ServedIsStamped'
    <2>1. /\ stamp' = [stamp EXCEPT ![f] = disk[f]] /\ left' = left \ {f}
          /\ UNCHANGED <<disk, served, at, last, missed, failed, edited>>
      BY <1>3 DEF StampFile
    <2>2. /\ stamp'[f] = disk[f] /\ SourcesOf(served') = SourcesOf(served)
          /\ \A g \in Files \ {f} : stamp'[g] = stamp[g]
      BY <1>0, <2>1 DEF Stamps
    <2>. QED
      BY <1>0, <2>1, <2>2 DEF ServedIsStamped
  <1>4. CASE ReloadDone
    <2>1. /\ at = "reload" /\ served' = read /\ at' = "restamp" /\ left' = SourcesOf(read)
          /\ disk' = disk /\ left = {} /\ missed' = missed /\ edited' = edited
      BY <1>4 DEF ReloadDone
    <2>2. read[Main] \in Texts
      BY <2>1 DEF MadeOf, ReadsInOrder
    <2>3. \A f \in SourcesOf(read) : f \in Files /\ read[f] # None
      BY <2>2, WatcherAssumption DEF SourcesOf
    <2>4. SourcesOf(served') = SourcesOf(read)
      BY <2>1
    <2>. QED
      BY <2>1, <2>3, <2>4 DEF ServedIsStamped, ReloadReadsTheDisk
  <1>5. ASSUME NEW f \in Files, ReloadFails(f) PROVE ServedIsStamped'
    BY <1>5 DEF ReloadFails, ServedIsStamped
  <1>6. CASE Spawn
    BY <1>6 DEF Spawn, ServedIsStamped, SourcesOf
  <1>7. CASE Restamped
    BY <1>7 DEF Restamped, ServedIsStamped, SourcesOf
  <1>8. CASE StartReload \/ \E f \in Files : ReadFile(f)
    BY <1>8 DEF StartReload, ReadFile, ServedIsStamped
  <1>9. CASE TakeEvent \/ Drain \/ Quiet \/ Unchanged \/ Notice \/ UNCHANGED vars
    <2>1. /\ UNCHANGED <<disk, served, last, missed, failed, edited>>
          /\ \/ UNCHANGED <<at, left, stamp>>
             \/ at \in {"recv", "drain", "stamp"} /\ at' \in {"recv", "drain", "stamp"}
      BY <1>9 DEF TakeEvent, Drain, Quiet, Unchanged, Notice, Callback, vars
    <2>. QED
      BY <2>1 DEF ServedIsStamped, SourcesOf
  <1>. QED
    BY <1>1, <1>2, <1>3, <1>4, <1>5, <1>6, <1>7, <1>8, <1>9 DEF Next, Thread

-----------------------------------------------------------------------------
(* The journal on disk starts whole. *)
LEMMA OnDiskIsWhole ==
    ASSUME disk \in [Files -> Texts \cup {Missing}], Parses
    PROVE  IsWhole(OnDisk)
  <1>1. /\ Main \in Parts(disk) /\ Main \in Files /\ disk[Main] \in Texts
        /\ \A f \in Files : disk[f] # None
    BY WatcherAssumption DEF Parses, Parts
  <1>2. Parts(disk) = {Main} \cup Includes[disk[Main]] /\ Parts(disk) \subseteq Files
    BY <1>1, WatcherAssumption DEF Parts
  <1>3. \A f \in Files : OnDisk[f] = IF f \in Parts(disk) THEN disk[f] ELSE None
    BY DEF OnDisk
  <1>4. OnDisk \in Journal
    BY <1>2 DEF OnDisk, Journal, Parses
  <1>. QED
    BY <1>1, <1>2, <1>3, <1>4 DEF IsWhole

(* Once its events have been dealt with, the watcher serves what is on disk, *)
(* the include tree included, however many files are saved, edited, removed  *)
(* and created at whatever point: but for what the property names.           *)
THEOREM ServesTheDiskWhenQuiet ==
    ASSUME \A f, g \in Files : Dir[f] = Dir[g]
    PROVE  Spec => []QuietServesTheDisk
  <1>0. OneDirectory
    BY DEF OneDirectory
  <1>1. Init => WatcherInv
    <2> SUFFICES ASSUME Init PROVE WatcherInv
      OBVIOUS
    <2>1. /\ at = "off" /\ left = {} /\ stamp = NoStamps /\ last = NoStamps /\ read = NoStamps
          /\ served = OnDisk /\ Parses /\ disk \in [Files -> Texts \cup {Missing}]
      BY DEF Init
    <2>2. NoStamps \in Stamps /\ NoStamps \in Journal
      BY DEF NoStamps, Stamps, Journal
    <2>3. IsWhole(served)
      BY <2>1, OnDiskIsWhole
    <2>4. \A f \in SourcesOf(served) : served[f] = disk[f]
      BY <2>1, WatcherAssumption DEF OnDisk, SourcesOf, Parts
    <2>5. MadeOf
      BY <2>1, <2>2, <2>3 DEF MadeOf, ReadsInOrder
    <2>. QED
      BY <2>1, <2>4, <2>5
         DEF WatcherInv, ChangesAreSeen, ServedIsStamped, ReloadReadsTheDisk
  <1>2. WatcherInv /\ [Next]_vars => WatcherInv'
    BY <1>0, NextMade, ChangesStaySeen, ReloadStaysTrue, ServedStaysStamped DEF WatcherInv
  <1>3. WatcherInv => QuietServesTheDisk
    <2> SUFFICES ASSUME WatcherInv, Settled, missed = {}, ~failed
                 PROVE  \/ served = OnDisk
                        \/ edited /\ \A f \in SourcesOf(served) : last[f] = disk[f]
      BY DEF QuietServesTheDisk
    <2>1. \A f \in SourcesOf(served) : last[f] = disk[f]
      BY DEF WatcherInv, ChangesAreSeen, Underway, Settled
    <2>2. ASSUME ~edited PROVE served = OnDisk
      <3>1. /\ IsWhole(served) /\ served \in Journal /\ served[Main] \in Texts
            /\ \A f \in SourcesOf(served) : served[f] = disk[f]
        BY <2>1, <2>2 DEF WatcherInv, MadeOf, IsWhole, ServedIsStamped, Settled
      <3>2. Parts(disk) = SourcesOf(served)
        BY <3>1, WholeSources, SourcesAreFiles DEF Parts
      <3>3. \A f \in Files : served[f] = OnDisk[f]
        BY <3>1, <3>2 DEF OnDisk, SourcesOf
      <3>. QED
        BY <3>1, <3>3 DEF OnDisk, Journal
    <2>. QED
      BY <2>1, <2>2
  <1>. QED
    BY <1>1, <1>2, <1>3, PTL DEF Spec
=============================================================================

----------------------------- MODULE WriterProofs -----------------------------
(***************************************************************************)
(* What the writers beside the editor keep, for any number of tabs, lines    *)
(* and values.                                                               *)
(***************************************************************************)
EXTENDS SiblingWrite, TLAPS

\* The main journal is there, and what is served was read whole.
ServedIsLoaded ==
    /\ disk[Main] # Absent
    /\ Main \in served.src /\ served.src \subseteq {Main, Part, Table}
    /\ \A f \in served.src : served.text[f] # Absent

\* What a tab shows is what its revision says, where the two are read together.
PagesShow ==
    \A r \in Requests :
        /\ page[r].rev = Absent => page[r].shown = Header.lines
        /\ page[r].rev # Absent /\ page[r].kind \in {"text", "table", "rules"}
              => page[r].shown = page[r].rev.lines
        /\ page[r].rev # Absent /\ page[r].kind = "rules" => page[r].file = Rules

\* A request is of its tab's kind, and writes where that kind writes.
OfItsTab(r) ==
    /\ job[r].at = "idle" <=> job[r].kind = "none"
    /\ job[r].at # "idle" => job[r].kind = page[r].kind /\ job[r].line \in Lines
    /\ job[r].kind = "create" => job[r].file = Main
    /\ job[r].kind = "rules" => job[r].file = Rules
    /\ Fresh(r) => job[r].file \in {Part, Table}
    /\ job[r].at = "create" => job[r].kind = "create"
    /\ job[r].ok => job[r].at \in {"reopen", "answer"} /\ job[r].new \in FileTexts /\ disk[job[r].file] # Absent
JobsAreOfTheirTab == \A r \in Requests : OfItsTab(r)

\* What is about to be written: the text read, with an include more or with the
\* requested line in place of the one the tab showed.
Planned(r) ==
    LET old == IF Fresh(r) THEN Header ELSE job[r].base
    IN /\ job[r].new \in FileTexts
       /\ job[r].base = Absent <=> Fresh(r)
       /\ IF job[r].kind = "create"
          THEN /\ job[r].new = [job[r].base EXCEPT !.inc = @ \cup {Part}]
               /\ job[r].at = "replace" => disk[Part] # Absent
          ELSE /\ job[r].new = [old EXCEPT !.lines[job[r].line] = job[r].value]
               /\ job[r].kind = "prices" => old.lines[job[r].line] = Blank
               /\ job[r].kind \notin {"prices", "budget"}
                     => old.lines[job[r].line] = page[r].shown[job[r].line]
HoldsItsPlan(r) == job[r].at \in {"create", "replace"} => Planned(r)
PlansHold == \A r \in Requests : HoldsItsPlan(r)

\* A request past the mutex holds the one of its kind.
Inside == {"read", "create", "replace", "reopen", "answer"}
MutexesAreHeld ==
    \A r \in Requests, l \in Locks :
        lock[l] = r <=> job[r].at \in Inside /\ l = LockOf(job[r].kind)

\* The editor knows its disk, or the writer that holds the mutex is about to
\* have it read again.
EditorIsToldSoon ==
    bound => \/ \A f \in served.src \ foreign : served.text[f] = disk[f]
             \/ \E r \in Requests : lock["journal"] = r /\ job[r].at = "reopen"

WriterInv ==
    SiblingTypeOK /\ ServedIsLoaded /\ PagesShow /\ JobsAreOfTheirTab /\ PlansHold
    /\ MutexesAreHeld /\ EditorIsToldSoon /\ IncludeHasItsFile

-----------------------------------------------------------------------------
(* Texts, and what reading the journal gives.                                *)

LEMMA HeaderType == Header \in FileTexts /\ \A l \in Lines : Header.lines[l] = Blank
  BY SiblingAssumption DEF Header, FileTexts

LEMMA AbsentIsNoText == Absent \notin FileTexts
  BY SiblingAssumption DEF FileTexts, JournalFiles

LEMMA NoRequestType ==
  /\ NoRequest \in JobState /\ NoRequest.at = "idle" /\ NoRequest.kind = "none"
  /\ NoRequest.ok = FALSE
  BY HeaderType, SiblingAssumption DEF NoRequest, JobState, RequestStages, JournalFiles

LEMMA NoPageType ==
  ASSUME NEW kind \in AllKinds
  PROVE  /\ NoPage(kind) \in PageState /\ NoPage(kind).kind = kind
         /\ NoPage(kind).rev = Absent /\ NoPage(kind).shown = Header.lines
  BY HeaderType DEF NoPage, PageState, JournalFiles, FileTexts

\* A parse holds the files that are there, and they are the disk's.
LEMMA ParsedType ==
  ASSUME NEW d \in [JournalFiles -> FileTexts \cup {Absent}], d[Main] # Absent
  PROVE  /\ Parsed(d) \in [src : SUBSET JournalFiles,
                           text : [JournalFiles -> FileTexts \cup {Absent}]]
         /\ Main \in Parsed(d).src /\ Parsed(d).src \subseteq {Main, Part, Table}
         /\ \A f \in Parsed(d).src : Parsed(d).text[f] = d[f]
         /\ Loadable(d) => \A f \in Parsed(d).src : Parsed(d).text[f] # Absent
<1>1. d[Main].inc \subseteq {Part, Table}
  BY DEF FileTexts, JournalFiles
<1>2. Sources(d) \subseteq {Main, Part, Table} /\ Main \in Sources(d)
  BY <1>1 DEF Sources
<1>3. [f \in JournalFiles |-> IF f \in Sources(d) THEN d[f] ELSE Absent]
        \in [JournalFiles -> FileTexts \cup {Absent}]
  OBVIOUS
<1> QED
  BY <1>2, <1>3 DEF Parsed, Loadable, JournalFiles

\* A request that did not move is still of its tab, with its plan.
LEMMA Unmoved ==
  ASSUME WriterInv, NEW p \in Requests, job'[p] = job[p], page'[p] = page[p],
         \A f \in JournalFiles : disk[f] # Absent => disk'[f] # Absent
  PROVE  OfItsTab(p)' /\ HoldsItsPlan(p)'
<1>1. job[p].file \in JournalFiles /\ Part \in JournalFiles
  BY DEF WriterInv, SiblingTypeOK, JobState, JournalFiles
<1>2. OfItsTab(p)'
  BY <1>1 DEF WriterInv, JobsAreOfTheirTab, OfItsTab, Fresh
<1>3. HoldsItsPlan(p)'
  BY <1>1 DEF WriterInv, PlansHold, HoldsItsPlan, Planned, Fresh
<1> QED
  BY <1>2, <1>3

LEMMA InitInv == SiblingInit => WriterInv
<1> SUFFICES ASSUME SiblingInit PROVE WriterInv
  OBVIOUS
<1>1. disk \in [JournalFiles -> FileTexts \cup {Absent}] /\ disk[Main] = Header
  BY HeaderType DEF SiblingInit
<1>2. disk[Main] # Absent /\ Loadable(disk)
  BY <1>1, HeaderType, AbsentIsNoText DEF Loadable, Sources, Header
<1>3. ServedIsLoaded /\ EditorIsToldSoon
  BY <1>1, <1>2, ParsedType DEF SiblingInit, ServedIsLoaded, EditorIsToldSoon
<1>4. PICK mix \in Mixes : page = [r \in Requests |-> NoPage(mix[r])]
  BY DEF SiblingInit
<1>5. \A r \in Requests : mix[r] \in AllKinds
  BY SiblingAssumption
<1>6. page \in [Requests -> PageState] /\ PagesShow
  BY <1>4, <1>5, NoPageType DEF PagesShow
<1>7. job \in [Requests -> JobState]
  BY NoRequestType DEF SiblingInit
<1>8. dice \in [saves : 0 .. MaxSaves, others : 0 .. MaxOthers]
  BY SiblingAssumption DEF SiblingInit
<1>9. SiblingTypeOK
  BY <1>1, <1>2, <1>6, <1>7, <1>8, ParsedType DEF SiblingInit, SiblingTypeOK
<1>10. JobsAreOfTheirTab /\ PlansHold
  BY NoRequestType
     DEF SiblingInit, JobsAreOfTheirTab, OfItsTab, PlansHold, HoldsItsPlan, Fresh, NoRequest
<1>11. MutexesAreHeld
  BY NoRequestType, SiblingAssumption DEF SiblingInit, MutexesAreHeld, Inside
<1>12. IncludeHasItsFile
  BY <1>1 DEF IncludeHasItsFile, Header
<1> QED
  BY <1>3, <1>6, <1>9, <1>10, <1>11, <1>12 DEF WriterInv


-----------------------------------------------------------------------------
(* The steps of everybody else.                                              *)

\* A step that leaves tabs and requests alone, and takes no file away.
LEMMA NobodyMoves ==
  ASSUME WriterInv, UNCHANGED <<lock, page, job>>,
         disk' \in [JournalFiles -> FileTexts \cup {Absent}],
         \A f \in JournalFiles : disk[f] # Absent => disk'[f] # Absent
  PROVE  PagesShow' /\ JobsAreOfTheirTab' /\ PlansHold' /\ MutexesAreHeld'
<1>1. PagesShow' /\ MutexesAreHeld'
  BY DEF WriterInv, PagesShow, MutexesAreHeld
<1>2. \A p \in Requests : OfItsTab(p)' /\ HoldsItsPlan(p)'
  BY Unmoved DEF WriterInv
<1> QED
  BY <1>1, <1>2 DEF JobsAreOfTheirTab, PlansHold

LEMMA OthersWriteKeepsInv ==
  ASSUME WriterInv, NEW f \in JournalFiles, OthersWrite(f)
  PROVE  WriterInv'
<1> USE DEF OthersWrite
<1>1. /\ disk' \in [JournalFiles -> FileTexts \cup {Absent}]
      /\ \A g \in JournalFiles : g # f => disk'[g] = disk[g]
      /\ disk[f] \in FileTexts /\ disk'[f] \in FileTexts
      /\ f = Main /\ Part \in disk'[f].inc \ disk[f].inc => disk[Part] # Absent
      /\ disk'[f].inc # disk[f].inc => f = Main
  <2>1. disk[f] \in FileTexts
    BY DEF WriterInv, SiblingTypeOK
  <2>2. ASSUME NEW l \in Lines, NEW v \in Values, disk' = [disk EXCEPT ![f].lines[l] = v]
        PROVE  disk' = [disk EXCEPT ![f] = [@ EXCEPT !.lines[l] = v]]
               /\ [disk[f] EXCEPT !.lines[l] = v] \in FileTexts
               /\ [disk[f] EXCEPT !.lines[l] = v].inc = disk[f].inc
    BY <2>1, <2>2 DEF FileTexts
  <2>3. ASSUME NEW g \in {Part, Table}, disk' = [disk EXCEPT ![f].inc = (@ \ {g}) \cup ({g} \ @)]
        PROVE  LET t == [disk[f] EXCEPT !.inc = (@ \ {g}) \cup ({g} \ @)]
               IN /\ disk' = [disk EXCEPT ![f] = t] /\ t \in FileTexts
                  /\ t.inc = (disk[f].inc \ {g}) \cup ({g} \ disk[f].inc)
    BY <2>1, <2>3 DEF FileTexts
  <2>4. PICK t \in FileTexts :
          /\ disk' = [disk EXCEPT ![f] = t]
          /\ t.inc # disk[f].inc => f = Main
          /\ f = Main /\ Part \in t.inc \ disk[f].inc => disk[Part] # Absent
    <3>1. CASE \E l \in Lines, v \in Values : disk' = [disk EXCEPT ![f].lines[l] = v]
      BY <2>2, <3>1
    <3>2. CASE f = Main /\ \E g \in {Part, Table} :
                 /\ disk[g] # Absent
                 /\ disk' = [disk EXCEPT ![f].inc = (@ \ {g}) \cup ({g} \ @)]
      BY <2>3, <3>2
    <3> QED
      BY <3>1, <3>2
  <2> QED
    BY <2>1, <2>4 DEF WriterInv, SiblingTypeOK
<1>2. \A g \in JournalFiles : disk[g] # Absent => disk'[g] # Absent
  BY <1>1, AbsentIsNoText
<1>3. SiblingTypeOK'
  <2>1. dice' \in [saves : 0 .. MaxSaves, others : 0 .. MaxOthers]
    BY SiblingAssumption DEF WriterInv, SiblingTypeOK
  <2> QED
    BY <1>1, <2>1 DEF WriterInv, SiblingTypeOK
<1>4. ServedIsLoaded'
  BY <1>2 DEF WriterInv, ServedIsLoaded, JournalFiles
<1>5. EditorIsToldSoon'
  BY <1>1 DEF WriterInv, EditorIsToldSoon, ServedIsLoaded, JournalFiles
<1>6. IncludeHasItsFile'
  BY <1>1, <1>2 DEF WriterInv, IncludeHasItsFile, JournalFiles
<1> QED
  BY <1>1, <1>2, <1>3, <1>4, <1>5, <1>6, NobodyMoves DEF WriterInv

LEMMA OthersCreateKeepsInv ==
  ASSUME WriterInv, OthersCreate
  PROVE  WriterInv'
<1> USE DEF OthersCreate
<1>1. /\ disk' \in [JournalFiles -> FileTexts \cup {Absent}] /\ disk'[Part] = Header
      /\ \A g \in JournalFiles : g # Part => disk'[g] = disk[g]
      /\ \A g \in JournalFiles : disk[g] # Absent => disk'[g] # Absent
  BY HeaderType, AbsentIsNoText DEF WriterInv, SiblingTypeOK, JournalFiles
<1>2. SiblingTypeOK'
  <2>1. dice' \in [saves : 0 .. MaxSaves, others : 0 .. MaxOthers]
    BY SiblingAssumption DEF WriterInv, SiblingTypeOK
  <2> QED
    BY <1>1, <2>1 DEF WriterInv, SiblingTypeOK, JournalFiles
<1>3. ServedIsLoaded' /\ EditorIsToldSoon'
  BY <1>1 DEF WriterInv, ServedIsLoaded, EditorIsToldSoon, JournalFiles
<1>4. IncludeHasItsFile'
  BY <1>1, HeaderType, AbsentIsNoText DEF IncludeHasItsFile
<1> QED
  BY <1>1, <1>2, <1>3, <1>4, NobodyMoves DEF WriterInv

\* After a re-reading the editor, if there is one, knows its disk.
LEMMA ReopenTells ==
  ASSUME WriterInv, ReopenEditor \/ (Loadable(disk) /\ served' = Parsed(disk) /\ foreign' = {} /\ UNCHANGED bound),
         UNCHANGED disk
  PROVE  /\ served' \in [src : SUBSET JournalFiles,
                         text : [JournalFiles -> FileTexts \cup {Absent}]]
         /\ bound' \in BOOLEAN /\ foreign' \subseteq JournalFiles
         /\ ServedIsLoaded'
         /\ bound' => \A f \in served'.src \ foreign' : served'.text[f] = disk[f]
<1>1. /\ Parsed(disk) \in [src : SUBSET JournalFiles,
                           text : [JournalFiles -> FileTexts \cup {Absent}]]
      /\ Main \in Parsed(disk).src /\ Parsed(disk).src \subseteq {Main, Part, Table}
      /\ \A f \in Parsed(disk).src : Parsed(disk).text[f] = disk[f]
      /\ Loadable(disk) => \A f \in Parsed(disk).src : Parsed(disk).text[f] # Absent
  BY ParsedType DEF WriterInv, SiblingTypeOK, ServedIsLoaded
<1>2. Loadable(disk) \in BOOLEAN
  BY DEF Loadable
<1>3. CASE Loadable(disk) /\ served' = Parsed(disk) /\ foreign' = {} /\ bound' \in BOOLEAN
  BY <1>1, <1>3 DEF WriterInv, ServedIsLoaded
<1>4. CASE ~bound' /\ served' = served /\ foreign' = foreign /\ bound' \in BOOLEAN
  BY <1>4 DEF WriterInv, SiblingTypeOK, ServedIsLoaded
<1> QED
  BY <1>2, <1>3, <1>4 DEF ReopenEditor, WriterInv, SiblingTypeOK

LEMMA WatcherKeepsInv ==
  ASSUME WriterInv, WatcherReloads
  PROVE  WriterInv'
<1>1. /\ served' \in [src : SUBSET JournalFiles,
                      text : [JournalFiles -> FileTexts \cup {Absent}]]
      /\ bound' \in BOOLEAN /\ foreign' \subseteq JournalFiles
      /\ ServedIsLoaded'
      /\ bound' => \A f \in served'.src \ foreign' : served'.text[f] = disk[f]
  BY ReopenTells DEF WatcherReloads
<1>2. UNCHANGED <<disk, lock, page, job, dice>>
  BY DEF WatcherReloads
<1>3. SiblingTypeOK'
  BY <1>1, <1>2 DEF WriterInv, SiblingTypeOK
<1>4. EditorIsToldSoon' /\ IncludeHasItsFile'
  BY <1>1, <1>2 DEF WriterInv, EditorIsToldSoon, IncludeHasItsFile
<1>5. disk' \in [JournalFiles -> FileTexts \cup {Absent}]
      /\ \A f \in JournalFiles : disk[f] # Absent => disk'[f] # Absent
  BY <1>2 DEF WriterInv, SiblingTypeOK
<1> QED
  BY <1>1, <1>2, <1>3, <1>4, <1>5, NobodyMoves DEF WriterInv

LEMMA EditorSavesKeepsInv ==
  ASSUME WriterInv, NEW f \in JournalFiles, NEW l \in Lines, NEW v \in Values,
         EditorSaves(f, l, v)
  PROVE  WriterInv'
<1> USE DEF EditorSaves
<1> DEFINE t == [disk[f] EXCEPT !.lines[l] = v]
<1>1. disk[f] \in FileTexts /\ served.text[f] = disk[f] /\ f \in served.src
  BY DEF WriterInv, SiblingTypeOK, ServedIsLoaded
<1>2. t \in FileTexts /\ t.inc = disk[f].inc
  BY <1>1 DEF FileTexts
<1>3. disk' = [disk EXCEPT ![f] = t]
  OBVIOUS
<1>4. /\ served'.src = served.src /\ served'.text = [served.text EXCEPT ![f] = t]
      /\ served' \in [src : SUBSET JournalFiles,
                      text : [JournalFiles -> FileTexts \cup {Absent}]]
  BY <1>1, <1>2 DEF WriterInv, SiblingTypeOK
<1> HIDE DEF t
<1>5. /\ disk' \in [JournalFiles -> FileTexts \cup {Absent}] /\ disk'[f] = t
      /\ \A g \in JournalFiles : g # f => disk'[g] = disk[g]
      /\ \A g \in JournalFiles : disk[g] # Absent => disk'[g] # Absent
  BY <1>2, <1>3, AbsentIsNoText DEF WriterInv, SiblingTypeOK
<1>6. SiblingTypeOK'
  <2>1. dice' \in [saves : 0 .. MaxSaves, others : 0 .. MaxOthers]
    BY SiblingAssumption DEF WriterInv, SiblingTypeOK
  <2> QED
    BY <1>4, <1>5, <2>1 DEF WriterInv, SiblingTypeOK
<1>7. /\ served'.text[f] = t
      /\ \A g \in JournalFiles : g # f => served'.text[g] = served.text[g]
  BY <1>4 DEF WriterInv, SiblingTypeOK
<1>8. ServedIsLoaded'
  BY <1>2, <1>4, <1>5, <1>7, AbsentIsNoText DEF WriterInv, ServedIsLoaded, JournalFiles
<1>9. EditorIsToldSoon'
  BY <1>4, <1>5, <1>7 DEF WriterInv, EditorIsToldSoon, ServedIsLoaded, JournalFiles
<1>10. IncludeHasItsFile'
  BY <1>2, <1>5 DEF WriterInv, IncludeHasItsFile, JournalFiles
<1> QED
  BY <1>5, <1>6, <1>8, <1>9, <1>10, NobodyMoves DEF WriterInv

LEMMA RestartKeepsInv ==
  ASSUME WriterInv, ServerRestarts
  PROVE  WriterInv'
<1> USE DEF ServerRestarts
<1>1. /\ served' \in [src : SUBSET JournalFiles,
                      text : [JournalFiles -> FileTexts \cup {Absent}]]
      /\ ServedIsLoaded' /\ EditorIsToldSoon'
  BY ParsedType DEF WriterInv, SiblingTypeOK, ServedIsLoaded, EditorIsToldSoon
<1>2. SiblingTypeOK'
  <2>1. dice' \in [saves : 0 .. MaxSaves, others : 0 .. MaxOthers]
    BY SiblingAssumption DEF WriterInv, SiblingTypeOK
  <2>2. job' \in [Requests -> JobState]
    BY NoRequestType
  <2> QED
    BY <1>1, <2>1, <2>2 DEF WriterInv, SiblingTypeOK
<1>3. JobsAreOfTheirTab' /\ PlansHold'
  BY NoRequestType DEF JobsAreOfTheirTab, OfItsTab, PlansHold, HoldsItsPlan, Fresh, NoRequest
<1>4. MutexesAreHeld'
  BY NoRequestType, SiblingAssumption DEF MutexesAreHeld, Inside
<1>5. PagesShow' /\ IncludeHasItsFile'
  BY DEF WriterInv, PagesShow, IncludeHasItsFile
<1> QED
  BY <1>1, <1>2, <1>3, <1>4, <1>5 DEF WriterInv


-----------------------------------------------------------------------------
(* The steps of a route.                                                     *)

\* A step of one request that leaves the other tabs alone, and takes no file away.
LEMMA OneRequest ==
  ASSUME WriterInv, NEW r \in Requests, NEW j \in JobState, job' = [job EXCEPT ![r] = j],
         page' = page,
         \A f \in JournalFiles : disk[f] # Absent => disk'[f] # Absent,
         OfItsTab(r)', HoldsItsPlan(r)'
  PROVE  /\ job' \in [Requests -> JobState] /\ job'[r] = j
         /\ \A p \in Requests : p # r => job'[p] = job[p]
         /\ JobsAreOfTheirTab' /\ PlansHold' /\ PagesShow'
<1>1. /\ job' \in [Requests -> JobState] /\ job'[r] = j
      /\ \A p \in Requests : p # r => job'[p] = job[p]
  BY DEF WriterInv, SiblingTypeOK
<1>2. \A p \in Requests : OfItsTab(p)' /\ HoldsItsPlan(p)'
  BY <1>1, Unmoved
<1>3. JobsAreOfTheirTab' /\ PlansHold'
  BY <1>2 DEF JobsAreOfTheirTab, PlansHold
<1>4. PagesShow'
  BY DEF WriterInv, PagesShow
<1> QED
  BY <1>1, <1>3, <1>4

LEMMA ListKeepsInv ==
  ASSUME WriterInv, NEW r \in Requests, NEW f \in JournalFiles, ListLines(r, f)
  PROVE  WriterInv'
<1> USE DEF ListLines
<1> DEFINE kind == page[r].kind
           p == [page[r] EXCEPT !.file = f, !.shown = Shown(kind, f), !.rev = disk[f]]
<1>1. disk[f] \in FileTexts /\ kind \in AllKinds
  BY DEF WriterInv, SiblingTypeOK, PageState
<1>2. Shown(kind, f) \in [Lines -> Values]
         /\ (kind \notin {"auto", "budget"} => Shown(kind, f) = disk[f].lines)
  BY <1>1 DEF Shown, Listed, WriterInv, SiblingTypeOK, ServedIsLoaded, FileTexts
<1>3. /\ p \in PageState /\ p.kind = kind /\ p.file = f /\ p.rev = disk[f]
      /\ p.shown = Shown(kind, f)
  BY <1>1, <1>2 DEF WriterInv, SiblingTypeOK, PageState
<1>4. page' = [page EXCEPT ![r] = p]
  BY DEF WriterInv, SiblingTypeOK, PageState
<1>5. page' \in [Requests -> PageState] /\ page'[r] = p
      /\ \A q \in Requests : q # r => page'[q] = page[q]
  BY <1>3, <1>4 DEF WriterInv, SiblingTypeOK
<1> HIDE DEF p
<1>6. kind = "rules" => f = Rules
  BY DEF Listed
<1>7. PagesShow'
  BY <1>1, <1>2, <1>3, <1>5, <1>6, AbsentIsNoText DEF WriterInv, PagesShow, kind
<1>8. OfItsTab(r)' /\ HoldsItsPlan(r)'
  BY <1>3, <1>5 DEF WriterInv, JobsAreOfTheirTab, OfItsTab, PlansHold, HoldsItsPlan, Fresh
<1>9. \A q \in Requests : OfItsTab(q)' /\ HoldsItsPlan(q)'
  BY <1>5, <1>8, Unmoved
<1>10. SiblingTypeOK'
  BY <1>5 DEF WriterInv, SiblingTypeOK
<1> QED
  BY <1>7, <1>9, <1>10
     DEF WriterInv, ServedIsLoaded, JobsAreOfTheirTab, PlansHold, MutexesAreHeld,
         EditorIsToldSoon, IncludeHasItsFile

LEMMA SendKeepsInv ==
  ASSUME WriterInv, NEW r \in Requests, NEW f \in JournalFiles, NEW l \in Lines,
         NEW v \in Values, SendSave(r, f, l, v)
  PROVE  WriterInv'
<1> USE DEF SendSave
<1> DEFINE kind == page[r].kind
           sources == IF kind = "table" THEN served.src ELSE {}
           j == [NoRequest EXCEPT !.kind = kind, !.at = "sent", !.file = f, !.line = l,
                                  !.value = v, !.sources = sources]
<1>1. kind \in AllKinds /\ sources \in SUBSET JournalFiles
  BY DEF WriterInv, SiblingTypeOK, PageState
<1>2. /\ j \in JobState /\ j.kind = kind /\ j.at = "sent" /\ j.file = f /\ j.line = l
      /\ j.ok = FALSE
  BY <1>1, NoRequestType DEF NoRequest, JobState, RequestStages
<1>3. job' = [job EXCEPT ![r] = j]
  OBVIOUS
<1> HIDE DEF j
<1>4. job'[r] = j /\ job[r].at = "idle" /\ dice' \in [saves : 0 .. MaxSaves, others : 0 .. MaxOthers]
  BY <1>3, SiblingAssumption DEF WriterInv, SiblingTypeOK
<1>5. UNCHANGED <<disk, served, bound, lock, page, foreign>>
  OBVIOUS
<1>6. /\ kind = "create" => f = Main
      /\ kind = "rules" => f = Rules
      /\ kind = "table" /\ page[r].rev = Absent => f \in {Part, Table}
      /\ kind # "none"
  BY <1>1 DEF WriterInv, PagesShow, AllKinds
<1> HIDE DEF SendSave, kind
<1>7. OfItsTab(r)' /\ HoldsItsPlan(r)'
  BY <1>2, <1>4, <1>5, <1>6 DEF OfItsTab, HoldsItsPlan, Fresh, kind
<1>8. /\ job' \in [Requests -> JobState]
      /\ \A p \in Requests : p # r => job'[p] = job[p]
      /\ JobsAreOfTheirTab' /\ PlansHold' /\ PagesShow'
  BY <1>2, <1>3, <1>5, <1>7, OneRequest
<1>9. SiblingTypeOK'
  BY <1>4, <1>5, <1>8 DEF WriterInv, SiblingTypeOK
<1>10. MutexesAreHeld'
  BY <1>2, <1>4, <1>5, <1>8 DEF WriterInv, MutexesAreHeld, Inside
<1>11. EditorIsToldSoon'
  BY <1>4, <1>5, <1>8 DEF WriterInv, EditorIsToldSoon
<1> QED
  BY <1>5, <1>8, <1>9, <1>10, <1>11 DEF WriterInv, ServedIsLoaded, IncludeHasItsFile

LEMMA TakeKeepsInv ==
  ASSUME WriterInv, NEW r \in Requests, TakeMutex(r)
  PROVE  WriterInv'
<1> USE DEF TakeMutex
<1> DEFINE j == [job[r] EXCEPT !.at = "read"]
<1>1. /\ j \in JobState /\ j.at = "read" /\ j.kind = job[r].kind /\ j.file = job[r].file
      /\ j.line = job[r].line /\ j.ok = job[r].ok /\ j.new = job[r].new
      /\ job' = [job EXCEPT ![r] = j]
  BY DEF WriterInv, SiblingTypeOK, JobState, RequestStages
<1> HIDE DEF j
<1>2. job'[r] = j /\ UNCHANGED <<disk, served, bound, page, foreign, dice>>
  BY <1>1 DEF WriterInv, SiblingTypeOK
<1>3. OfItsTab(r)' /\ HoldsItsPlan(r)'
  BY <1>1, <1>2 DEF WriterInv, JobsAreOfTheirTab, OfItsTab, HoldsItsPlan, Fresh
<1>4. /\ job' \in [Requests -> JobState]
      /\ \A p \in Requests : p # r => job'[p] = job[p]
      /\ JobsAreOfTheirTab' /\ PlansHold' /\ PagesShow'
  BY <1>1, <1>2, <1>3, OneRequest
<1>5. /\ LockOf(job[r].kind) \in Locks /\ lock' \in [Locks -> Requests \cup {Nobody}]
      /\ lock'[LockOf(job[r].kind)] = r
      /\ \A l \in Locks : l # LockOf(job[r].kind) => lock'[l] = lock[l]
  BY DEF LockOf, Locks, WriterInv, SiblingTypeOK
<1>6. SiblingTypeOK'
  BY <1>2, <1>4, <1>5 DEF WriterInv, SiblingTypeOK
<1>7. MutexesAreHeld'
  <2> SUFFICES ASSUME NEW p \in Requests, NEW l \in Locks
               PROVE  lock'[l] = p <=> job'[p].at \in Inside /\ l = LockOf(job'[p].kind)
    BY DEF MutexesAreHeld
  <2>1. CASE p = r
    BY <2>1, <1>1, <1>2, <1>5 DEF WriterInv, MutexesAreHeld, Inside
  <2>2. CASE p # r
    BY <2>2, <1>4, <1>5, SiblingAssumption DEF WriterInv, MutexesAreHeld
  <2> QED
    BY <2>1, <2>2
<1>8. EditorIsToldSoon'
  <2>1. \A p \in Requests : lock["journal"] = p => p # r /\ lock'["journal"] = p
    BY <1>5, SiblingAssumption DEF WriterInv, MutexesAreHeld, Inside, Locks
  <2> QED
    BY <1>2, <1>4, <2>1 DEF WriterInv, EditorIsToldSoon
<1> QED
  BY <1>2, <1>4, <1>6, <1>7, <1>8 DEF WriterInv, ServedIsLoaded, IncludeHasItsFile


\* A step of the request that holds the mutex and keeps it, with a file written at most.
LEMMA InsideStep ==
  ASSUME WriterInv, NEW r \in Requests, NEW j \in JobState, job' = [job EXCEPT ![r] = j],
         job[r].at \in Inside, j.at \in Inside, j.kind = job[r].kind,
         UNCHANGED <<lock, page, dice>>,
         served' \in [src : SUBSET JournalFiles,
                      text : [JournalFiles -> FileTexts \cup {Absent}]],
         bound' \in BOOLEAN, foreign' \subseteq JournalFiles,
         disk' \in [JournalFiles -> FileTexts \cup {Absent}],
         \A f \in JournalFiles : disk[f] # Absent => disk'[f] # Absent,
         OfItsTab(r)', HoldsItsPlan(r)', ServedIsLoaded', EditorIsToldSoon', IncludeHasItsFile'
  PROVE  WriterInv'
<1>1. /\ job' \in [Requests -> JobState] /\ job'[r] = j
      /\ \A p \in Requests : p # r => job'[p] = job[p]
      /\ JobsAreOfTheirTab' /\ PlansHold' /\ PagesShow'
  BY OneRequest
<1>2. SiblingTypeOK'
  BY <1>1 DEF WriterInv, SiblingTypeOK
<1>3. MutexesAreHeld'
  BY <1>1 DEF WriterInv, MutexesAreHeld
<1> QED
  BY <1>1, <1>2, <1>3 DEF WriterInv

\* One that holds the journal's mutex and is not about to re-open the editor, while
\* the editor knows its disk.
LEMMA EditorKnows ==
  ASSUME WriterInv, NEW r \in Requests, job[r].at \in Inside, job[r].at # "reopen",
         LockOf(job[r].kind) = "journal", bound, NEW f \in served.src, f \notin foreign
  PROVE  served.text[f] = disk[f]
<1>1. lock["journal"] = r
  BY DEF WriterInv, MutexesAreHeld, Locks
<1> QED
  BY <1>1 DEF WriterInv, EditorIsToldSoon

LEMMA GivesUpType ==
  ASSUME WriterInv, NEW r \in Requests, GivesUp(r), job[r].at \in {"read", "create", "replace"}
  PROVE  LET j == [job[r] EXCEPT !.at = "answer"]
         IN /\ j \in JobState /\ j.at = "answer" /\ j.kind = job[r].kind /\ j.file = job[r].file
            /\ j.line = job[r].line /\ j.ok = job[r].ok /\ j.new = job[r].new
            /\ job' = [job EXCEPT ![r] = j] /\ job'[r] = j
  BY DEF GivesUp, WriterInv, SiblingTypeOK, JobState, RequestStages

\* A request that gives up has written nothing.
LEMMA GivingUpKeepsInv ==
  ASSUME WriterInv, NEW r \in Requests, GivesUp(r), job[r].at \in {"read", "create", "replace"},
         UNCHANGED <<disk, served, bound, lock, page, foreign, dice>>
  PROVE  WriterInv'
<1> DEFINE j == [job[r] EXCEPT !.at = "answer"]
<1>1. /\ j \in JobState /\ j.at = "answer" /\ j.kind = job[r].kind /\ j.file = job[r].file
      /\ j.line = job[r].line /\ j.ok = job[r].ok /\ j.new = job[r].new
      /\ job' = [job EXCEPT ![r] = j] /\ job'[r] = j
  BY GivesUpType
<1> HIDE DEF j
<1>2. OfItsTab(r)' /\ HoldsItsPlan(r)'
  BY <1>1 DEF WriterInv, JobsAreOfTheirTab, OfItsTab, HoldsItsPlan, Fresh
<1>3. \A p \in Requests : p # r => job'[p] = job[p]
  BY <1>1 DEF WriterInv, SiblingTypeOK
<1>4. ServedIsLoaded' /\ EditorIsToldSoon' /\ IncludeHasItsFile'
  BY <1>1, <1>3 DEF WriterInv, ServedIsLoaded, EditorIsToldSoon, IncludeHasItsFile
<1> QED
  BY <1>1, <1>2, <1>4, InsideStep DEF WriterInv, SiblingTypeOK, Inside

LEMMA ChangedType ==
  ASSUME WriterInv, NEW r \in Requests, job[r].at = "read", Writable(r)
  PROVE  LET old == IF Fresh(r) THEN Header ELSE disk[job[r].file]
         IN /\ old \in FileTexts /\ ChangedText(r) \in FileTexts
            /\ \/ ChangedText(r) = old /\ ~Fresh(r)
               \/ /\ ChangedText(r) = [old EXCEPT !.lines[job[r].line] = job[r].value]
                  /\ job[r].kind = "prices" => old.lines[job[r].line] = Blank
<1> DEFINE old == IF Fresh(r) THEN Header ELSE disk[job[r].file]
<1>1. job[r].file \in JournalFiles /\ job[r].line \in Lines /\ job[r].value \in Values
  BY DEF WriterInv, JobsAreOfTheirTab, OfItsTab, SiblingTypeOK, JobState
<1>2. old \in FileTexts
  BY <1>1, HeaderType DEF Writable, WriterInv, SiblingTypeOK
<1>3. [old EXCEPT !.lines[job[r].line] = job[r].value] \in FileTexts
  BY <1>1, <1>2 DEF FileTexts
<1> QED
  BY <1>2, <1>3 DEF ChangedText, Fresh

LEMMA PlanKeepsInv ==
  ASSUME WriterInv, NEW r \in Requests, ReadAndPlan(r)
  PROVE  WriterInv'
<1> DEFINE f == job[r].file
           old == IF Fresh(r) THEN Header ELSE disk[f]
           j == [job[r] EXCEPT !.at = "replace", !.base = disk[f], !.new = ChangedText(r)]
<1>1. UNCHANGED <<disk, served, bound, lock, page, foreign, dice>>
      /\ job[r].at = "read" /\ job[r].kind # "create"
  BY DEF ReadAndPlan
<1>2. CASE GivesUp(r)
  BY <1>1, <1>2, GivingUpKeepsInv
<1>3. CASE /\ Writable(r) /\ UpToDate(r) /\ ChangedText(r) # disk[f]
           /\ job' = [job EXCEPT ![r].at = "replace", ![r].base = disk[f], ![r].new = ChangedText(r)]
  <2>1. f \in JournalFiles /\ disk[f] \in FileTexts \cup {Absent}
    BY DEF WriterInv, SiblingTypeOK, JobState
  <2>2. /\ old \in FileTexts /\ ChangedText(r) \in FileTexts
        /\ ChangedText(r) = [old EXCEPT !.lines[job[r].line] = job[r].value]
        /\ job[r].kind = "prices" => old.lines[job[r].line] = Blank
    BY <1>1, <1>3, ChangedType
  <2>3. job[r] \in JobState /\ job \in [Requests -> JobState]
    BY DEF WriterInv, SiblingTypeOK
  <2>4. job' = [job EXCEPT ![r] = j]
    BY <1>3, <2>3 DEF JobState
  <2>5. /\ j \in JobState /\ j.at = "replace" /\ j.kind = job[r].kind /\ j.file = f
        /\ j.line = job[r].line /\ j.ok = job[r].ok /\ j.value = job[r].value
        /\ j.base = disk[f] /\ j.new = ChangedText(r)
    BY <2>1, <2>2, <2>3 DEF JobState, RequestStages
  <2> HIDE DEF j
  <2>6. job'[r] = j /\ \A p \in Requests : p # r => job'[p] = job[p]
    BY <2>3, <2>4
  <2>7. OfItsTab(r)'
    BY <1>1, <2>5, <2>6 DEF WriterInv, JobsAreOfTheirTab, OfItsTab, Fresh
  <2>8. (disk[f] = Absent <=> Fresh(r)) /\ Fresh(r)' = Fresh(r)
    BY <1>1, <1>3, <2>1, <2>5, <2>6 DEF Writable, Fresh
  <2>9. job[r].kind \notin {"prices", "budget"} => old.lines[job[r].line] = page[r].shown[job[r].line]
    <3>1. job[r].kind = page[r].kind /\ job[r].line \in Lines /\ page[r].kind \in AllKinds
      BY <1>1 DEF WriterInv, JobsAreOfTheirTab, OfItsTab, SiblingTypeOK, PageState
    <3>2. job[r].kind # "prices" => disk[f] = page[r].rev
      BY <1>3 DEF UpToDate
    <3>3. CASE Fresh(r)
      BY <3>3 DEF WriterInv, PagesShow, Fresh
    <3>4. CASE ~Fresh(r) /\ job[r].kind \in {"text", "table", "rules"}
      BY <1>3, <3>1, <3>2, <3>4 DEF WriterInv, PagesShow, Writable
    <3>5. CASE job[r].kind = "auto"
      BY <1>3, <3>5 DEF UpToDate, Fresh
    <3> QED
      BY <1>1, <3>1, <3>3, <3>4, <3>5 DEF AllKinds
  <2>10. HoldsItsPlan(r)'
    <3> HIDE DEF f
    <3>1. job'[r].base = Absent <=> Fresh(r)'
      BY <2>5, <2>6, <2>8
    <3>2. (IF Fresh(r)' THEN Header ELSE job'[r].base) = old
      BY <2>5, <2>6, <2>8
    <3> HIDE DEF old
    <3> QED
      BY <1>1, <2>2, <2>5, <2>6, <2>9, <3>1, <3>2 DEF HoldsItsPlan, Planned
  <2>11. ServedIsLoaded' /\ EditorIsToldSoon' /\ IncludeHasItsFile'
    BY <1>1, <2>5, <2>6 DEF WriterInv, ServedIsLoaded, EditorIsToldSoon, IncludeHasItsFile
  <2> QED
    BY <1>1, <2>4, <2>5, <2>7, <2>10, <2>11, InsideStep DEF WriterInv, SiblingTypeOK, Inside
<1> QED
  BY <1>2, <1>3 DEF ReadAndPlan

LEMMA PlanFileKeepsInv ==
  ASSUME WriterInv, NEW r \in Requests, PlanFile(r)
  PROVE  WriterInv'
<1> DEFINE new == [disk[Main] EXCEPT !.inc = @ \cup {Part}]
           j == [job[r] EXCEPT !.at = "create", !.base = disk[Main], !.new = new]
<1>1. UNCHANGED <<disk, served, bound, lock, page, foreign, dice>>
      /\ job[r].at = "read" /\ job[r].kind = "create"
  BY DEF PlanFile
<1>2. CASE GivesUp(r)
  BY <1>1, <1>2, GivingUpKeepsInv
<1>3. CASE job' = [job EXCEPT ![r].at = "create", ![r].base = disk[Main], ![r].new = new]
  <2>1. disk[Main] \in FileTexts /\ new \in FileTexts
    BY DEF WriterInv, SiblingTypeOK, ServedIsLoaded, FileTexts, JournalFiles
  <2>2. job[r] \in JobState /\ job \in [Requests -> JobState]
    BY DEF WriterInv, SiblingTypeOK
  <2>3. job' = [job EXCEPT ![r] = j]
    BY <1>3, <2>2 DEF JobState
  <2>4. /\ j \in JobState /\ j.at = "create" /\ j.kind = "create" /\ j.file = job[r].file
        /\ j.line = job[r].line /\ j.ok = job[r].ok
        /\ j.base = disk[Main] /\ j.new = new
    BY <1>1, <2>1, <2>2 DEF JobState, RequestStages
  <2> HIDE DEF j
  <2>5. job'[r] = j /\ \A p \in Requests : p # r => job'[p] = job[p]
    BY <2>2, <2>3
  <2>6. OfItsTab(r)'
    BY <1>1, <2>4, <2>5 DEF WriterInv, JobsAreOfTheirTab, OfItsTab, Fresh
  <2>7. ~Fresh(r)'
    BY <2>4, <2>5 DEF Fresh
  <2>8. HoldsItsPlan(r)'
    <3> HIDE DEF new
    <3>1. job'[r].base # Absent
      BY <2>1, <2>4, <2>5, AbsentIsNoText
    <3>2. job'[r].new = [job'[r].base EXCEPT !.inc = @ \cup {Part}]
      BY <2>4, <2>5 DEF new
    <3> QED
      BY <2>1, <2>4, <2>5, <2>7, <3>1, <3>2 DEF HoldsItsPlan, Planned
  <2>9. ServedIsLoaded' /\ EditorIsToldSoon' /\ IncludeHasItsFile'
    BY <1>1, <2>4, <2>5 DEF WriterInv, ServedIsLoaded, EditorIsToldSoon, IncludeHasItsFile
  <2> QED
    BY <1>1, <2>3, <2>4, <2>6, <2>8, <2>9, InsideStep DEF WriterInv, SiblingTypeOK, Inside
<1> QED
  BY <1>2, <1>3 DEF PlanFile

\* No writer creates a file the editor holds: one it holds is there, or the editor
\* has been told otherwise.
LEMMA CreateKeepsInv ==
  ASSUME WriterInv, NEW r \in Requests, CreateFile(r)
  PROVE  WriterInv'
<1> DEFINE j == [job[r] EXCEPT !.at = "replace"]
<1>1. UNCHANGED <<served, bound, lock, page, foreign, dice>> /\ job[r].at = "create"
      /\ job[r].kind = "create"
  BY DEF CreateFile, WriterInv, JobsAreOfTheirTab, OfItsTab
<1>2. CASE GivesUp(r) /\ UNCHANGED disk
  BY <1>1, <1>2, GivingUpKeepsInv
<1>3. CASE /\ disk[Part] = Absent
           /\ disk' = [disk EXCEPT ![Part] = Header]
           /\ job' = [job EXCEPT ![r].at = "replace"]
  <2>1. job[r] \in JobState /\ job \in [Requests -> JobState]
        /\ disk \in [JournalFiles -> FileTexts \cup {Absent}]
    BY DEF WriterInv, SiblingTypeOK
  <2>2. /\ disk' \in [JournalFiles -> FileTexts \cup {Absent}] /\ disk'[Part] = Header
        /\ \A g \in JournalFiles : g # Part => disk'[g] = disk[g]
        /\ \A g \in JournalFiles : disk[g] # Absent => disk'[g] # Absent
        /\ Header # Absent
    BY <1>3, <2>1, HeaderType, AbsentIsNoText DEF JournalFiles
  <2>3. /\ j \in JobState /\ j.at = "replace" /\ j.kind = "create" /\ j.file = job[r].file
        /\ j.line = job[r].line /\ j.ok = job[r].ok /\ j.base = job[r].base /\ j.new = job[r].new
        /\ job' = [job EXCEPT ![r] = j]
    BY <1>1, <1>3, <2>1 DEF JobState, RequestStages
  <2> HIDE DEF j
  <2>4. job'[r] = j /\ \A p \in Requests : p # r => job'[p] = job[p]
    BY <2>1, <2>3
  <2>5. OfItsTab(r)'
    BY <1>1, <2>3, <2>4 DEF WriterInv, JobsAreOfTheirTab, OfItsTab, Fresh
  <2>6. HoldsItsPlan(r)'
    <3>1. Planned(r)
      BY <1>1 DEF WriterInv, PlansHold, HoldsItsPlan
    <3>2. Fresh(r)' = Fresh(r) /\ ~Fresh(r)
      BY <1>1, <2>3, <2>4 DEF Fresh
    <3> QED
      BY <1>1, <2>2, <2>3, <2>4, <3>1, <3>2 DEF HoldsItsPlan, Planned
  <2>7. ServedIsLoaded' /\ IncludeHasItsFile'
    BY <1>1, <2>2 DEF WriterInv, ServedIsLoaded, IncludeHasItsFile, JournalFiles
  <2>8. EditorIsToldSoon'
    <3>1. \A f \in served.src \ foreign : bound => served.text[f] = disk[f] /\ f # Part
      BY <1>1, <1>3, EditorKnows DEF LockOf, Inside, WriterInv, ServedIsLoaded
    <3> QED
      BY <1>1, <2>2, <3>1 DEF EditorIsToldSoon, WriterInv, ServedIsLoaded, JournalFiles
  <2> QED
    BY <1>1, <2>1, <2>2, <2>3, <2>5, <2>6, <2>7, <2>8, InsideStep DEF WriterInv, SiblingTypeOK, Inside
<1> QED
  BY <1>2, <1>3 DEF CreateFile

\* The write lands on the text that was read.  A writer of the journal re-opens the
\* editor next, with its mutex still held; a projection is marked as changed beside
\* the editor, and a rules file is none of the editor's.
LEMMA ReplaceKeepsInv ==
  ASSUME WriterInv, NEW r \in Requests, ReplaceFile(r)
  PROVE  WriterInv'
<1> DEFINE f == job[r].file
           next == IF OfJournal(job[r].kind) THEN "reopen" ELSE "answer"
           j == [job[r] EXCEPT !.at = next, !.ok = TRUE]
<1>1. UNCHANGED <<served, bound, lock, page, dice>> /\ job[r].at = "replace"
  BY DEF ReplaceFile
<1>2. CASE GivesUp(r) /\ UNCHANGED <<disk, foreign>>
  BY <1>1, <1>2, GivingUpKeepsInv
<1>3. CASE /\ disk[f] = job[r].base
           /\ disk' = [disk EXCEPT ![f] = job[r].new]
           /\ foreign' = foreign \cup (IF job[r].kind = "table" THEN {f} ELSE {})
           /\ job' = [job EXCEPT ![r].at = next, ![r].ok = TRUE]
  <2>1. /\ job[r] \in JobState /\ job \in [Requests -> JobState]
        /\ disk \in [JournalFiles -> FileTexts \cup {Absent}]
        /\ f \in JournalFiles /\ Planned(r) /\ job[r].new \in FileTexts /\ OfItsTab(r)
    BY <1>1 DEF WriterInv, SiblingTypeOK, JobState, JobsAreOfTheirTab, PlansHold, HoldsItsPlan, Planned
  <2>2. /\ disk' \in [JournalFiles -> FileTexts \cup {Absent}] /\ disk'[f] = job[r].new
        /\ \A g \in JournalFiles : g # f => disk'[g] = disk[g]
        /\ \A g \in JournalFiles : disk[g] # Absent => disk'[g] # Absent
        /\ disk'[f] # Absent
    BY <1>3, <2>1, AbsentIsNoText
  <2>3. next \in {"reopen", "answer"} /\ job' = [job EXCEPT ![r] = j]
    BY <1>3, <2>1 DEF JobState
  <2>4. /\ j \in JobState /\ j.at = next /\ j.kind = job[r].kind /\ j.file = f
        /\ j.line = job[r].line /\ j.ok = TRUE /\ j.new = job[r].new
    BY <2>1, <2>3 DEF JobState, RequestStages
  <2> HIDE DEF j
  <2>5. job'[r] = j /\ \A p \in Requests : p # r => job'[p] = job[p]
    BY <2>1, <2>3
  <2>6. OfItsTab(r)' /\ HoldsItsPlan(r)'
    BY <1>1, <2>1, <2>2, <2>3, <2>4, <2>5 DEF OfItsTab, HoldsItsPlan, Fresh
  <2>7. ServedIsLoaded'
    BY <1>1, <2>2 DEF WriterInv, ServedIsLoaded, JournalFiles
  <2>8. IncludeHasItsFile'
    <3>1. CASE f = Main
      <4>1. ~Fresh(r) /\ disk[Main] \in FileTexts
        BY <3>1, <2>1, SiblingAssumption DEF OfItsTab, WriterInv, ServedIsLoaded
      <4>2. Part \in disk'[Main].inc \ disk[Main].inc => disk[Part] # Absent
        BY <1>1, <1>3, <3>1, <2>1, <2>2, <4>1 DEF Planned, FileTexts
      <4> QED
        BY <2>2, <4>2 DEF WriterInv, IncludeHasItsFile, JournalFiles
    <3>2. CASE f # Main
      BY <3>2, <2>2 DEF WriterInv, IncludeHasItsFile, JournalFiles
    <3> QED
      BY <3>1, <3>2
  <2>9. EditorIsToldSoon'
    <3>1. CASE OfJournal(job[r].kind)
      <4>1. lock'["journal"] = r /\ job'[r].at = "reopen"
        BY <1>1, <2>4, <2>5, <3>1 DEF WriterInv, MutexesAreHeld, LockOf, Locks, OfJournal, Inside
      <4> QED
        BY <4>1 DEF EditorIsToldSoon
    <3>2. CASE job[r].kind = "table"
      <4>1. bound => \A g \in served.src \ foreign : served.text[g] = disk[g]
        BY <1>1, <3>2, EditorKnows DEF LockOf, Inside
      <4> QED
        BY <1>1, <1>3, <2>2, <3>2, <4>1 DEF EditorIsToldSoon, WriterInv, ServedIsLoaded, JournalFiles
    <3>3. CASE job[r].kind = "rules"
      <4>1. f \notin served.src /\ foreign' = foreign
        BY <1>3, <2>1, <3>3, SiblingAssumption DEF OfItsTab, WriterInv, ServedIsLoaded
      <4> QED
        BY <1>1, <2>2, <2>5, <4>1 DEF EditorIsToldSoon, WriterInv, ServedIsLoaded, JournalFiles
    <3> QED
      BY <3>1, <3>2, <3>3 DEF OfJournal
  <2>10. foreign' \subseteq JournalFiles /\ served' = served /\ bound' = bound
    BY <1>1, <1>3, <2>1 DEF WriterInv, SiblingTypeOK
  <2>11. /\ served' \in [src : SUBSET JournalFiles,
                         text : [JournalFiles -> FileTexts \cup {Absent}]]
         /\ bound' \in BOOLEAN
    BY <2>10 DEF WriterInv, SiblingTypeOK
  <2> HIDE DEF next, f
  <2>12. job[r].at \in Inside /\ j.at \in Inside
    BY <1>1, <2>3, <2>4 DEF Inside
  <2> QED
    BY <1>1, <2>2, <2>3, <2>4, <2>6, <2>7, <2>8, <2>9, <2>10, <2>11, <2>12, InsideStep
<1> QED
  BY <1>2, <1>3 DEF ReplaceFile

LEMMA ReopenKeepsInv ==
  ASSUME WriterInv, NEW r \in Requests, ReopenAfterWrite(r)
  PROVE  WriterInv'
<1> DEFINE j == [job[r] EXCEPT !.at = "answer"]
<1>1. UNCHANGED <<disk, lock, page, dice>> /\ job[r].at = "reopen" /\ ReopenEditor
      /\ job' = [job EXCEPT ![r].at = "answer"]
  BY DEF ReopenAfterWrite
<1>2. /\ j \in JobState /\ j.at = "answer" /\ j.kind = job[r].kind /\ j.file = job[r].file
      /\ j.line = job[r].line /\ j.ok = job[r].ok /\ j.new = job[r].new
      /\ job' = [job EXCEPT ![r] = j] /\ job'[r] = j
  <2>1. job[r] \in JobState /\ job \in [Requests -> JobState]
    BY DEF WriterInv, SiblingTypeOK
  <2>2. j \in JobState /\ j.at = "answer" /\ j.kind = job[r].kind /\ j.file = job[r].file
        /\ j.line = job[r].line /\ j.ok = job[r].ok /\ j.new = job[r].new
    BY <2>1 DEF JobState, RequestStages
  <2>3. job' = [job EXCEPT ![r] = j]
    BY <1>1
  <2> QED
    BY <2>1, <2>2, <2>3
<1> HIDE DEF j
<1>3. /\ served' \in [src : SUBSET JournalFiles,
                      text : [JournalFiles -> FileTexts \cup {Absent}]]
      /\ bound' \in BOOLEAN /\ foreign' \subseteq JournalFiles
      /\ ServedIsLoaded'
      /\ bound' => \A f \in served'.src \ foreign' : served'.text[f] = disk[f]
  BY <1>1, ReopenTells
<1>4. OfItsTab(r)' /\ HoldsItsPlan(r)'
  BY <1>1, <1>2 DEF WriterInv, JobsAreOfTheirTab, OfItsTab, HoldsItsPlan, Fresh
<1>5. EditorIsToldSoon' /\ IncludeHasItsFile'
  BY <1>1, <1>3 DEF WriterInv, EditorIsToldSoon, IncludeHasItsFile
<1> QED
  BY <1>1, <1>2, <1>3, <1>4, <1>5, InsideStep DEF WriterInv, SiblingTypeOK, Inside

LEMMA AnswerKeepsInv ==
  ASSUME WriterInv, NEW r \in Requests, AnswerAndRelease(r)
  PROVE  WriterInv'
<1> USE DEF AnswerAndRelease
<1> DEFINE f == job[r].file
           kind == job[r].kind
           l0 == LockOf(kind)
           shown == IF kind \in {"auto", "budget"} /\ f \in served.src
                    THEN served.text[f].lines ELSE job[r].new.lines
           rev == IF kind = "auto" THEN disk[f] ELSE job[r].new
           p == IF ~job[r].ok \/ kind \in {"prices", "create"} THEN NoPage(kind)
                ELSE [kind |-> kind, file |-> f, shown |-> shown, rev |-> rev]
<1>1. /\ UNCHANGED <<disk, served, bound, foreign, dice>> /\ job[r].at = "answer"
      /\ page' = [page EXCEPT ![r] = p]
      /\ job' = [job EXCEPT ![r] = NoRequest] /\ lock' = [lock EXCEPT ![l0] = Nobody]
  OBVIOUS
<1>2. /\ OfItsTab(r) /\ kind \in AllKinds /\ f \in JournalFiles
      /\ page \in [Requests -> PageState] /\ job \in [Requests -> JobState]
      /\ lock \in [Locks -> Requests \cup {Nobody}] /\ l0 \in Locks
  BY <1>1 DEF WriterInv, JobsAreOfTheirTab, OfItsTab, SiblingTypeOK, JobState, Locks, LockOf
<1>3. job[r].ok => shown \in [Lines -> Values] /\ rev \in FileTexts
  BY <1>1, <1>2 DEF OfItsTab, WriterInv, ServedIsLoaded, SiblingTypeOK, FileTexts
<1>4. /\ p \in PageState /\ p.kind = kind
      /\ p.rev = Absent => p.shown = Header.lines
      /\ p.rev # Absent /\ kind \in {"text", "table", "rules"} => p.shown = p.rev.lines
      /\ p.rev # Absent /\ kind = "rules" => p.file = Rules
  <2>1. CASE ~job[r].ok \/ kind \in {"prices", "create"}
    BY <2>1, <1>2, NoPageType
  <2>2. CASE job[r].ok /\ kind \notin {"prices", "create"}
    <3>1. p = [kind |-> kind, file |-> f, shown |-> shown, rev |-> rev]
      BY <2>2
    <3>2. kind \in {"text", "table", "rules"} => shown = rev.lines
      OBVIOUS
    <3>3. kind = "rules" => f = Rules
      BY <1>2 DEF OfItsTab
    <3> HIDE DEF p, shown, rev, f
    <3> QED
      BY <1>2, <1>3, <2>2, <3>1, <3>2, <3>3, AbsentIsNoText DEF PageState, f
  <2> QED
    BY <2>1, <2>2
<1> HIDE DEF p
<1>5. /\ page' \in [Requests -> PageState] /\ page'[r] = p
      /\ job' \in [Requests -> JobState] /\ job'[r] = NoRequest
      /\ \A q \in Requests : q # r => page'[q] = page[q] /\ job'[q] = job[q]
  BY <1>1, <1>2, <1>4, NoRequestType
<1>6. /\ lock' \in [Locks -> Requests \cup {Nobody}] /\ lock'[l0] = Nobody
      /\ \A l \in Locks : l # l0 => lock'[l] = lock[l]
      /\ lock[l0] = r
  BY <1>1, <1>2 DEF WriterInv, MutexesAreHeld, Inside
<1> HIDE DEF AnswerAndRelease, l0
<1>7. SiblingTypeOK'
  BY <1>1, <1>5, <1>6 DEF WriterInv, SiblingTypeOK
<1>8. PagesShow'
  <2> SUFFICES ASSUME NEW q \in Requests
               PROVE  /\ page'[q].rev = Absent => page'[q].shown = Header.lines
                      /\ page'[q].rev # Absent /\ page'[q].kind \in {"text", "table", "rules"}
                            => page'[q].shown = page'[q].rev.lines
                      /\ page'[q].rev # Absent /\ page'[q].kind = "rules" => page'[q].file = Rules
    BY DEF PagesShow
  <2>1. CASE q = r
    BY <2>1, <1>4, <1>5
  <2>2. CASE q # r
    BY <2>2, <1>5 DEF WriterInv, PagesShow
  <2> QED
    BY <2>1, <2>2
<1>9. \A q \in Requests : OfItsTab(q)' /\ HoldsItsPlan(q)'
  <2>1. OfItsTab(r)' /\ HoldsItsPlan(r)'
    BY <1>5, NoRequestType DEF OfItsTab, HoldsItsPlan, Fresh
  <2>2. \A q \in Requests : q # r => OfItsTab(q)' /\ HoldsItsPlan(q)'
    BY <1>1, <1>5, Unmoved
  <2> QED
    BY <2>1, <2>2
<1>10. MutexesAreHeld'
  <2> SUFFICES ASSUME NEW q \in Requests, NEW l \in Locks
               PROVE  lock'[l] = q <=> job'[q].at \in Inside /\ l = LockOf(job'[q].kind)
    BY DEF MutexesAreHeld
  <2>1. CASE q = r
    <3>1. lock[l] = r => l = l0
      BY <2>1 DEF WriterInv, MutexesAreHeld, l0
    <3> QED
      BY <2>1, <3>1, <1>5, <1>6, NoRequestType, SiblingAssumption DEF Inside
  <2>2. CASE q # r
    BY <2>2, <1>5, <1>6, SiblingAssumption DEF WriterInv, MutexesAreHeld
  <2> QED
    BY <2>1, <2>2
<1>11. EditorIsToldSoon'
  <2>1. \A q \in Requests : lock["journal"] = q /\ job[q].at = "reopen"
          => q # r /\ lock'["journal"] = q /\ job'[q].at = "reopen"
    BY <1>1, <1>5, <1>6 DEF Locks
  <2> QED
    BY <1>1, <2>1 DEF WriterInv, EditorIsToldSoon
<1> QED
  BY <1>1, <1>7, <1>8, <1>9, <1>10, <1>11
     DEF WriterInv, ServedIsLoaded, JobsAreOfTheirTab, PlansHold, IncludeHasItsFile

-----------------------------------------------------------------------------
(* The invariant.                                                            *)

LEMMA NextKeepsInv == WriterInv /\ [SiblingNext]_siblingVars => WriterInv'
<1> SUFFICES ASSUME WriterInv, [SiblingNext]_siblingVars PROVE WriterInv'
  OBVIOUS
<1>1. ASSUME NEW f \in JournalFiles, OthersWrite(f) PROVE WriterInv'
  BY <1>1, OthersWriteKeepsInv
<1>2. CASE OthersCreate
  BY <1>2, OthersCreateKeepsInv
<1>3. CASE WatcherReloads
  BY <1>3, WatcherKeepsInv
<1>4. CASE ServerRestarts
  BY <1>4, RestartKeepsInv
<1>5. ASSUME NEW f \in JournalFiles, NEW l \in Lines, NEW v \in Values, EditorSaves(f, l, v)
      PROVE  WriterInv'
  BY <1>5, EditorSavesKeepsInv
<1>6. ASSUME NEW r \in Requests, NEW f \in JournalFiles, ListLines(r, f) PROVE WriterInv'
  BY <1>6, ListKeepsInv
<1>7. ASSUME NEW r \in Requests, NEW f \in JournalFiles, NEW l \in Lines, NEW v \in Values,
             SendSave(r, f, l, v)
      PROVE  WriterInv'
  BY <1>7, SendKeepsInv
<1>8. ASSUME NEW r \in Requests, SiblingStep(r) PROVE WriterInv'
  BY <1>8, TakeKeepsInv, PlanKeepsInv, PlanFileKeepsInv, CreateKeepsInv, ReplaceKeepsInv,
     ReopenKeepsInv, AnswerKeepsInv
     DEF SiblingStep
<1>9. CASE UNCHANGED siblingVars
  BY <1>9 DEF siblingVars, WriterInv, SiblingTypeOK, ServedIsLoaded, PagesShow, JobsAreOfTheirTab,
              OfItsTab, PlansHold, HoldsItsPlan, Planned, Fresh, MutexesAreHeld,
              EditorIsToldSoon, IncludeHasItsFile
<1> QED
  BY <1>1, <1>2, <1>3, <1>4, <1>5, <1>6, <1>7, <1>8, <1>9 DEF SiblingNext

\* The routes that write beside the editor keep their mutex, their plan and their
\* tab's listing together, whatever others write, with any number of tabs.
THEOREM WriterInvariant == SiblingSpec => []WriterInv
<1>1. SiblingInit => WriterInv
  BY InitInv
<1>2. WriterInv /\ [SiblingNext]_siblingVars => WriterInv'
  BY NextKeepsInv
<1> QED
  BY <1>1, <1>2, PTL DEF SiblingSpec

\* create_*_file: the journal never includes a plan file that is not there, also
\* when the server dies between the two writes.
THEOREM NoDanglingInclude == SiblingSpec => []IncludeHasItsFile
<1>1. WriterInv => IncludeHasItsFile
  BY DEF WriterInv
<1> QED
  BY <1>1, WriterInvariant, PTL

\* The handlers' reopen_editor before they release import_writes: with the mutex
\* free, the editor holds no text a writer beside it has replaced.
THEOREM NoStaleEditor == SiblingSpec => []EditorKnowsItsDisk
<1>1. WriterInv => EditorKnowsItsDisk
  BY SiblingAssumption DEF WriterInv, EditorIsToldSoon, EditorKnowsItsDisk
<1> QED
  BY <1>1, WriterInvariant, PTL

\* A write changes the requested line of the file as it is on disk then, and that
\* line said what the tab showed: of all routes but the goals' (budget_api).
THEOREM WritesWhatWasAsked == SiblingSpec => ChangesWhatWasShown
<1> DEFINE Step == \A r \in Requests : Written(r) /\ job[r].kind # "budget" => ReplaceKeepsOthers(r)
<1>1. WriterInv /\ [SiblingNext]_siblingVars => [Step]_siblingVars
  <2> SUFFICES ASSUME WriterInv, SiblingNext, NEW r \in Requests, Written(r), job[r].kind # "budget"
               PROVE  ReplaceKeepsOthers(r)
    OBVIOUS
  <2> DEFINE f == job[r].file
             old == IF Fresh(r) THEN Header ELSE disk[f]
  <2>1. /\ job[r] \in JobState /\ f \in JournalFiles /\ job \in [Requests -> JobState]
        /\ disk \in [JournalFiles -> FileTexts \cup {Absent}]
        /\ Planned(r) /\ OfItsTab(r) /\ job[r].at = "replace" /\ job'[r].ok
    BY DEF Written, WriterInv, SiblingTypeOK, JobState, JobsAreOfTheirTab, PlansHold, HoldsItsPlan
  <2>2. job[r].ok = FALSE
    BY <2>1 DEF OfItsTab, JobState
  <2>3. job'[r] # job[r]
    BY <2>1, <2>2
  <2>4. disk[f] = job[r].base /\ disk' = [disk EXCEPT ![f] = job[r].new]
    <3>1. ASSUME NEW g \in JournalFiles, OthersWrite(g) PROVE FALSE
      BY <2>3, <3>1 DEF OthersWrite
    <3>2. ~OthersCreate /\ ~WatcherReloads
      BY <2>3 DEF OthersCreate, WatcherReloads
    <3>3. ~ServerRestarts
      BY <2>1, NoRequestType DEF ServerRestarts
    <3>4. ASSUME NEW g \in JournalFiles, NEW l \in Lines, NEW v \in Values, EditorSaves(g, l, v)
          PROVE  FALSE
      BY <2>3, <3>4 DEF EditorSaves
    <3>5. ASSUME NEW q \in Requests, NEW g \in JournalFiles, ListLines(q, g) PROVE FALSE
      BY <2>3, <3>5 DEF ListLines
    <3>6. ASSUME NEW q \in Requests, NEW g \in JournalFiles, NEW l \in Lines, NEW v \in Values,
                 SendSave(q, g, l, v)
          PROVE  FALSE
      BY <2>1, <2>3, <3>6 DEF SendSave
    <3>7. ASSUME NEW q \in Requests, SiblingStep(q) PROVE ReplaceFile(r)
      <4>1. q = r
        BY <2>3, <3>7, <2>1
           DEF SiblingStep, TakeMutex, ReadAndPlan, GivesUp, PlanFile, CreateFile, ReplaceFile,
               ReopenAfterWrite, AnswerAndRelease
      <4> QED
        BY <2>1, <3>7, <4>1
           DEF SiblingStep, TakeMutex, ReadAndPlan, PlanFile, CreateFile, ReopenAfterWrite,
               AnswerAndRelease
    <3>8. ReplaceFile(r)
      BY <3>1, <3>2, <3>3, <3>4, <3>5, <3>6, <3>7 DEF SiblingNext
    <3>9. ~GivesUp(r)
      BY <2>1, <2>2 DEF GivesUp, JobState
    <3> QED
      BY <3>8, <3>9 DEF ReplaceFile
  <2>5. disk'[f] = job[r].new
    BY <2>1, <2>4
  <2>6. old \in FileTexts /\ (Fresh(r) => disk[f] = Absent)
    BY <2>1, <2>4, HeaderType DEF Planned
  <2>7. CASE job[r].kind = "create"
    <3>1. ~Fresh(r) /\ job[r].new = [disk[f] EXCEPT !.inc = @ \cup {Part}]
      BY <2>1, <2>4, <2>7 DEF Planned, Fresh
    <3> QED
      BY <2>5, <2>6, <2>7, <3>1 DEF ReplaceKeepsOthers, FileTexts
  <2>8. CASE job[r].kind # "create"
    <3>1. /\ job[r].new = [old EXCEPT !.lines[job[r].line] = job[r].value]
          /\ job[r].kind = "prices" => old.lines[job[r].line] = Blank
          /\ job[r].kind \notin {"prices", "budget"}
                => old.lines[job[r].line] = page[r].shown[job[r].line]
      BY <2>1, <2>4, <2>8 DEF Planned
    <3>2. /\ job[r].new.inc = old.inc
          /\ \A l \in Lines : l # job[r].line => job[r].new.lines[l] = old.lines[l]
          /\ job[r].line \in Lines => job[r].new.lines[job[r].line] = job[r].value
      BY <2>6, <3>1 DEF FileTexts
    <3> HIDE DEF old
    <3>3. /\ disk'[f].inc = old.inc \cup (IF job[r].kind = "create" THEN {Part} ELSE {})
          /\ \A l \in Lines : disk'[f].lines[l] # old.lines[l] =>
               /\ l = job[r].line /\ disk'[f].lines[l] = job[r].value
               /\ IF job[r].kind = "prices" THEN old.lines[l] = Blank
                  ELSE old.lines[l] = page[r].shown[l]
      BY <2>5, <2>8, <3>1, <3>2
    <3> QED
      BY <2>6, <3>3 DEF ReplaceKeepsOthers, old
  <2> QED
    BY <2>7, <2>8
<1> QED
  BY <1>1, WriterInvariant, PTL DEF SiblingSpec, ChangesWhatWasShown
=============================================================================

--------------------------- MODULE AppStateProofs ---------------------------
(* Theorems about AppState, for every number of journals, files, edits,      *)
(* threads and requests, in three parts:                                     *)
(*  1. its types, its inductive invariant, and what follows from it: the     *)
(*     editor is clean between requests, and a write makes exactly the       *)
(*     request's edits;                                                      *)
(*  2. AppState implements EditService;                                      *)
(*  3. what readers are served: a text each file has had on disk, and,       *)
(*     between requests, the journal the editor has.  Each of these two      *)
(*     assumes away the requests without which it is false: README names     *)
(*     the run that shows the counterexample.                                *)
EXTENDS AppState, TLAPS

-----------------------------------------------------------------------------
(* 1. The inductive invariant. *)

(* The operators a state is built from keep to their types. *)

LEMMA ToggleType ==
    ASSUME NEW texts \in [Files -> Text], NEW edits
    PROVE  Toggle(texts, edits) \in [Files -> Text]
  BY DEF Toggle, Text

LEMMA BlankType == Blank \in Revision
  <1>1. Inodes # {}
    BY AppStateAssumption
  <1>. QED
    BY <1>1 DEF Blank, Revision, Text

LEMMA IdleTaskType == IdleTask \in Task
  BY BlankType, AppStateAssumption
     DEF IdleTask, Task, Edits, Snapshot, Reason, Text

LEMMA OpenedType ==
    ASSUME NEW home \in Journals, NEW read \in [Files -> Revision]
    PROVE  Opened(home, read) \in Editor
  BY DEF Opened, Editor, Revision

LEMMA ViewType ==
    ASSUME TypeOK, NEW location \in Journals
    PROVE  /\ EditorView(location) \in Snapshot
           /\ \A t \in Threads : ReadView(t, location) \in Snapshot
  BY DEF TypeOK, EditorView, ReadView, Snapshot, Editor, Task, Revision

-----------------------------------------------------------------------------
(* Every variable keeps to its type: one lemma per group of actions. *)

LEMMA InitType == Init => TypeOK
  <1> SUFFICES ASSUME Init PROVE TypeOK
    OBVIOUS
  <1>1. disk \in [Journals -> [Files -> Revision]]
    BY BlankType DEF Init
  <1>2. editor \in Editor
    BY <1>1, OpenedType, AppStateAssumption DEF Init
  <1>3. snapshot \in Snapshot
    BY AppStateAssumption DEF Init, IdleTask, Snapshot, Text
  <1>4. task \in [Threads -> Task]
    BY IdleTaskType DEF Init
  <1>5. pc \in [Threads -> Label]
    BY DEF Init, Label, Unlocked
  <1>6. onDisk \in [Journals -> [Files -> SUBSET Text]]
    BY DEF Init, Text
  <1>. QED
    BY <1>1, <1>2, <1>3, <1>4, <1>5, <1>6 DEF Init, TypeOK

LEMMA TaskType == ASSUME TypeOK PROVE task \in [Threads -> Task]
  BY DEF TypeOK

LEMMA ReturnType ==
    ASSUME TypeOK, NEW t \in Threads, Return(t)
    PROVE  /\ lock' \in Threads \cup {NoThread}
           /\ pc' \in [Threads -> Label]
           /\ task' \in [Threads -> Task]
           /\ wrote' \in SUBSET Files
  BY IdleTaskType DEF TypeOK, Return, Goto, Label, Unlocked

LEMMA StartReadingType ==
    ASSUME TypeOK, NEW t \in Threads, NEW home \in Journals,
           NEW label \in Label, StartReading(t, home, label)
    PROVE  pc' \in [Threads -> Label] /\ task' \in [Threads -> Task]
  <1>1. task' \in [Threads -> Task]
    BY TaskType DEF StartReading, Task
  <1>. QED
    BY <1>1 DEF TypeOK, StartReading

LEMMA ReadType ==
    ASSUME TypeOK, NEW t \in Threads, NEW f \in Files,
           ReadFile(t, f) \/ ReadFails(t, f)
    PROVE  TypeOK'
  <1>1. CASE ReadFile(t, f)
    <2>1. task[t].home \in Journals /\ task[t].read \in [Files -> Revision]
      BY DEF TypeOK, Task
    <2>2. disk[task[t].home][f] \in Revision
      BY <2>1 DEF TypeOK
    <2>3. [task[t].read EXCEPT ![f] = disk[task[t].home][f]]
            \in [Files -> Revision]
      BY <2>1, <2>2
    <2>4. task' \in [Threads -> Task]
      <3>1. [task[t] EXCEPT !.read = [task[t].read EXCEPT
                                        ![f] = disk[task[t].home][f]],
                            !.left = task[t].left \ {f}] \in Task
        BY <2>3, TaskType DEF Task
      <3>. QED
        BY <1>1, <3>1, TaskType DEF ReadFile
    <2>. QED
      BY <1>1, <2>4 DEF TypeOK, ReadFile, budget
  <1>2. CASE ReadFails(t, f)
    BY <1>2, IdleTaskType DEF TypeOK, ReadFails, Goto, Label, Unlocked, budget
  <1>. QED
    BY <1>1, <1>2

LEMMA RequestType ==
    ASSUME TypeOK, NEW t \in Threads, Request(t)
    PROVE  TypeOK'
  <1>1. requests' \in Nat
    <2>1. requests' = requests + 1
      BY DEF Request, Edit, EditRecovers, EditDisabled, Reload, ReloadUnbound,
             Republish, Open, Asks
    <2>. QED
      BY <2>1 DEF TypeOK
  <1>2. ASSUME NEW edits \in Edits, NEW whole \in BOOLEAN, Edit(t, edits, whole)
        PROVE  TypeOK'
    <2>1. task' \in [Threads -> Task]
      BY <1>2, TaskType DEF Edit, Task
    <2>. QED
      BY <1>1, <1>2, <2>1 DEF TypeOK, Edit, Goto, Label, Locked
  <1>3. ASSUME NEW edits \in Edits, NEW whole \in BOOLEAN,
               EditRecovers(t, edits, whole)
        PROVE  TypeOK'
    <2>1. editor.home \in Journals
      BY DEF TypeOK, Editor
    <2>2. task' \in [Threads -> Task]
      BY <1>3, <2>1, TaskType DEF EditRecovers, Task
    <2>. QED
      BY <1>1, <1>3, <2>2 DEF TypeOK, EditRecovers, Label, Locked
  <1>4. CASE EditDisabled(t)
    BY <1>1, <1>4 DEF TypeOK, EditDisabled
  <1>5. CASE Reload(t)
    <2>1. pc' \in [Threads -> Label] /\ task' \in [Threads -> Task]
      BY <1>5, StartReadingType DEF Reload, TypeOK, Editor, Label, Locked
    <2>. QED
      BY <1>1, <1>5, <2>1 DEF TypeOK, Reload
  <1>6. CASE ReloadUnbound(t)
    <2>1. pc' \in [Threads -> Label] /\ task' \in [Threads -> Task]
      BY <1>6, StartReadingType
         DEF ReloadUnbound, TypeOK, Snapshot, Label, Unlocked
    <2>. QED
      BY <1>1, <1>6, <2>1 DEF TypeOK, ReloadUnbound
  <1>7. CASE Republish(t)
    <2>1. (IF bound THEN EditorView(editor.home) ELSE snapshot) \in Snapshot
      BY ViewType DEF TypeOK, Editor
    <2>2. task' \in [Threads -> Task]
      BY <1>7, <2>1, TaskType DEF Republish, Task, Reason
    <2>. QED
      BY <1>1, <1>7, <2>2 DEF TypeOK, Republish, Goto, Label, Locked
  <1>8. ASSUME NEW home \in Journals, Open(t, home)
        PROVE  TypeOK'
    <2>1. pc' \in [Threads -> Label] /\ task' \in [Threads -> Task]
      BY <1>8, StartReadingType DEF Open, Label, Unlocked
    <2>. QED
      BY <1>1, <1>8, <2>1 DEF TypeOK, Open
  <1>. QED
    BY <1>2, <1>3, <1>4, <1>5, <1>6, <1>7, <1>8 DEF Request

LEMMA ToSaveType ==
    ASSUME TypeOK, NEW t \in Threads, NEW dirty \in SUBSET Files,
           ToSave(t, dirty)
    PROVE  pc' \in [Threads -> Label] /\ task' \in [Threads -> Task]
  <1>1. {} \in Edits
    BY DEF Edits
  <1>2. task' \in [Threads -> Task]
    BY <1>1, TaskType DEF ToSave, Task, Reason
  <1>. QED
    BY <1>2 DEF TypeOK, ToSave, Goto, Label, Locked

LEMMA ApplyType ==
    ASSUME TypeOK, NEW t \in Threads,
           \/ ApplyWhole(t) \/ ApplyRefused(t) \/ ApplyDone(t) \/ ApplyFails(t)
           \/ \E edit \in Files \X Marks : ApplyNext(t, edit)
    PROVE  TypeOK'
  <1>1. ASSUME NEW edits \in Edits, NEW dirty \in SUBSET Files,
               editor' = [editor EXCEPT !.rope = Toggle(@, edits),
                                        !.dirty = @ \cup dirty]
        PROVE  editor' \in Editor
    <2>1. Toggle(editor.rope, edits) \in [Files -> Text]
      BY ToggleType DEF TypeOK, Editor
    <2>. QED
      BY <1>1, <2>1 DEF TypeOK, Editor
  <1>2. CASE ApplyWhole(t)
    <2>1. task[t].todo \in Edits /\ Touched(task[t].todo) \in SUBSET Files
      BY DEF TypeOK, Task, Touched
    <2>2. editor' \in Editor
      BY <1>1, <1>2, <2>1 DEF ApplyWhole
    <2>3. editor.dirty \cup Touched(task[t].todo) \in SUBSET Files
      BY <2>1 DEF TypeOK, Editor
    <2>4. pc' \in [Threads -> Label] /\ task' \in [Threads -> Task]
      BY <1>2, <2>3, ToSaveType DEF ApplyWhole
    <2>. QED
      BY <1>2, <2>2, <2>4 DEF TypeOK, ApplyWhole, budget
  <1>3. CASE ApplyRefused(t)
    BY <1>3, ReturnType DEF TypeOK, ApplyRefused, budget
  <1>4. CASE ApplyDone(t)
    <2>1. editor.dirty \in SUBSET Files
      BY DEF TypeOK, Editor
    <2>2. pc' \in [Threads -> Label] /\ task' \in [Threads -> Task]
      BY <1>4, <2>1, ToSaveType DEF ApplyDone
    <2>. QED
      BY <1>4, <2>2 DEF TypeOK, ApplyDone, budget
  <1>5. CASE ApplyFails(t)
    <2>1. pc' \in [Threads -> Label] /\ task' \in [Threads -> Task]
      BY <1>5, StartReadingType DEF ApplyFails, TypeOK, Editor, Label, Locked
    <2>. QED
      BY <1>5, <2>1 DEF TypeOK, ApplyFails, budget
  <1>6. ASSUME NEW edit \in Files \X Marks, ApplyNext(t, edit)
        PROVE  TypeOK'
    <2>1. {edit} \in Edits /\ {edit[1]} \in SUBSET Files
      BY DEF Edits
    <2>2. editor' \in Editor
      BY <1>1, <1>6, <2>1 DEF ApplyNext
    <2>3. task[t].todo \ {edit} \in Edits
      BY TaskType DEF Task, Edits
    <2>4. task' \in [Threads -> Task]
      <3>1. [task[t] EXCEPT !.todo = task[t].todo \ {edit}] \in Task
        BY <2>3, TaskType DEF Task
      <3>. QED
        BY <1>6, <3>1, TaskType DEF ApplyNext
    <2>. QED
      BY <1>6, <2>2, <2>4 DEF TypeOK, ApplyNext, budget
  <1>. QED
    BY <1>2, <1>3, <1>4, <1>5, <1>6

LEMMA SaveType ==
    ASSUME TypeOK, NEW t \in Threads, NEW f \in Files,
           \/ CheckFile(t, f) \/ CheckRefuses(t, f)
           \/ WriteFile(t, f) \/ WriteFails(t, f)
    PROVE  TypeOK'
  <1>1. CASE CheckFile(t, f)
    <2>1. editor.dirty \in SUBSET Files
      BY DEF TypeOK, Editor
    <2>2. task' \in [Threads -> Task]
      <3>1. [task[t] EXCEPT !.left = IF task[t].left = {f} THEN editor.dirty
                                     ELSE task[t].left \ {f}] \in Task
        BY <2>1, TaskType DEF Task
      <3>. QED
        BY <1>1, <3>1, TaskType DEF CheckFile
    <2>. QED
      BY <1>1, <2>2 DEF TypeOK, CheckFile, Goto, Label, Locked, budget
  <1>2. CASE CheckRefuses(t, f) \/ WriteFails(t, f)
    <2>1. pc' \in [Threads -> Label] /\ task' \in [Threads -> Task]
      BY <1>2, StartReadingType
         DEF CheckRefuses, WriteFails, TypeOK, Editor, Label, Locked
    <2>. QED
      BY <1>2, <2>1 DEF TypeOK, CheckRefuses, WriteFails, budget
  <1>3. CASE WriteFile(t, f)
    <2>1. PICK ino \in Inodes :
            LET written == [text |-> editor.rope[f], ino |-> ino,
                            readable |-> TRUE]
            IN  /\ disk' = [disk EXCEPT ![editor.home][f] = written]
                /\ editor' = [editor EXCEPT !.rev[f] = written,
                                            !.dirty = @ \ {f}]
      BY <1>3 DEF WriteFile
    <2>2. editor.rope[f] \in Text /\ editor.home \in Journals
      BY DEF TypeOK, Editor
    <2>3. [text |-> editor.rope[f], ino |-> ino, readable |-> TRUE] \in Revision
      BY <2>2 DEF Revision
    <2>4. disk' \in [Journals -> [Files -> Revision]]
      BY <2>1, <2>2, <2>3 DEF TypeOK
    <2>5. editor' \in Editor
      BY <2>1, <2>3 DEF TypeOK, Editor
    <2>6. task' \in [Threads -> Task]
      <3>1. [task[t] EXCEPT !.left = task[t].left \ {f}] \in Task
        BY TaskType DEF Task
      <3>. QED
        BY <1>3, <3>1, TaskType DEF WriteFile
    <2>7. onDisk' \in [Journals -> [Files -> SUBSET Text]]
      BY <1>3, <2>2 DEF TypeOK, WriteFile
    <2>. QED
      BY <1>3, <2>4, <2>5, <2>6, <2>7
         DEF TypeOK, WriteFile, Goto, Label, Locked, budget
  <1>. QED
    BY <1>1, <1>2, <1>3

LEMMA PublishType ==
    ASSUME TypeOK, NEW t \in Threads,
           \/ ReadDone(t) \/ Locate(t) \/ Store(t) \/ StoreResynced(t)
           \/ StoreRecovered(t) \/ StoreReparsed(t) \/ Reopened(t)
           \/ BindStore(t) \/ Bind(t)
    PROVE  TypeOK'
  <1>1. task[t].view \in Snapshot /\ task[t].home \in Journals
    BY DEF TypeOK, Task
  <1>2. Opened(task[t].home, task[t].read) \in Editor
    BY OpenedType DEF TypeOK, Task
  <1>3. ReadView(t, task[t].home) \in Snapshot
    BY <1>1, ViewType
  <1>4. CASE ReadDone(t)
    <2>1. task' \in [Threads -> Task]
      BY <1>4, TaskType DEF ReadDone, Task, Reason
    <2>. QED
      BY <1>4, <2>1 DEF TypeOK, ReadDone, Goto, Label, Locked, Unlocked, budget
  <1>5. CASE Locate(t)
    <2>1. snapshot.location \in Journals
      BY DEF TypeOK, Snapshot
    <2>2. /\ EditorView(snapshot.location) \in Snapshot
          /\ ReadView(t, snapshot.location) \in Snapshot
      BY <2>1, ViewType
    <2>3. task' \in [Threads -> Task]
      BY <1>5, <2>2, TaskType DEF Locate, Task
    <2>. QED
      BY <1>5, <2>3 DEF TypeOK, Locate, Goto, Label, Locked, Unlocked, budget
  <1>6. CASE Store(t)
    BY <1>1, <1>6, ReturnType DEF TypeOK, Store, budget
  <1>7. CASE StoreResynced(t)
    BY <1>1, <1>2, <1>7, ReturnType DEF TypeOK, StoreResynced, budget
  <1>8. CASE StoreRecovered(t)
    <2>1. task' \in [Threads -> Task]
      BY <1>8, TaskType DEF StoreRecovered, Task, Reason
    <2>. QED
      BY <1>1, <1>2, <1>8, <2>1
         DEF TypeOK, StoreRecovered, Goto, Label, Locked, budget
  <1>9. CASE StoreReparsed(t)
    BY <1>1, <1>9, IdleTaskType
       DEF TypeOK, StoreReparsed, Goto, Label, Unlocked, budget
  <1>10. CASE Reopened(t)
    BY <1>2, <1>3, <1>10, ReturnType DEF TypeOK, Reopened, budget
  <1>11. CASE BindStore(t)
    BY <1>3, <1>11 DEF TypeOK, BindStore, Goto, Label, Unlocked, budget
  <1>12. CASE Bind(t)
    BY <1>2, <1>12, IdleTaskType
       DEF TypeOK, Bind, Goto, Label, Unlocked, budget
  <1>. QED
    BY <1>4, <1>5, <1>6, <1>7, <1>8, <1>9, <1>10, <1>11, <1>12

LEMMA EnvironmentType ==
    ASSUME TypeOK, External \/ \E t \in Threads : Panic(t)
    PROVE  TypeOK'
  <1>1. ASSUME NEW t \in Threads, Panic(t) PROVE TypeOK'
    BY <1>1, ReturnType DEF TypeOK, Panic
  <1>2. ASSUME NEW j \in Journals, NEW f \in Files, Break(j, f) PROVE TypeOK'
    <2>0. disk[j][f] \in Revision
      BY DEF TypeOK
    <2>1. [disk[j][f] EXCEPT !.readable = FALSE] \in Revision
      BY <2>0 DEF Revision
    <2>2. disk' \in [Journals -> [Files -> Revision]]
      BY <1>2, <2>1 DEF TypeOK, Break
    <2>. QED
      BY <1>2, <2>2 DEF TypeOK, Break
  <1>3. ASSUME NEW j \in Journals, NEW f \in Files, NEW found \in Revision,
               Rewrite(j, f, found)
        PROVE  TypeOK'
    <2>1. disk' \in [Journals -> [Files -> Revision]]
      BY <1>3 DEF TypeOK, Rewrite
    <2>2. onDisk' \in [Journals -> [Files -> SUBSET Text]]
      BY <1>3 DEF TypeOK, Rewrite, Revision
    <2>. QED
      BY <1>3, <2>1, <2>2 DEF TypeOK, Rewrite
  <1>. QED
    BY <1>1, <1>2, <1>3 DEF External

LEMMA StutterType == ASSUME TypeOK, UNCHANGED vars PROVE TypeOK'
  BY DEF TypeOK, vars, budget

LEMMA NextType == TypeOK /\ [Next]_vars => TypeOK'
  BY ReadType, RequestType, ApplyType, SaveType, PublishType, EnvironmentType,
     StutterType DEF Next, ThreadStep

(* Every variable keeps to its type, whatever the constants. *)
THEOREM TypeCorrect == Spec => []TypeOK
  BY InitType, NextType, PTL DEF Spec

-----------------------------------------------------------------------------
(* Toggling marks. *)

LEMMA ToggleUntouched ==
    ASSUME NEW texts \in [Files -> Text], NEW edits, NEW f \in Files,
           f \notin Touched(edits)
    PROVE  Toggle(texts, edits)[f] = texts[f]
  <1>1. {m \in Marks : <<f, m>> \in edits} = {}
    BY DEF Touched
  <1>. QED
    BY <1>1 DEF Toggle

LEMMA ToggleNothing ==
    ASSUME NEW texts \in [Files -> Text]
    PROVE  Touched({}) = {} /\ Toggle(texts, {}) = texts
  <1>1. Touched({}) = {}
    BY DEF Touched
  <1>2. \A f \in Files : Toggle(texts, {})[f] = texts[f]
    BY <1>1, ToggleUntouched
  <1>. QED
    BY <1>1, <1>2, ToggleType

(* A file's text after an edit depends on its text before, and no other's. *)
LEMMA ToggleLocal ==
    ASSUME NEW texts, NEW others, NEW edits, NEW f \in Files,
           texts[f] = others[f]
    PROVE  Toggle(texts, edits)[f] = Toggle(others, edits)[f]
  BY DEF Toggle

(* One more edit, made after the others. *)
LEMMA ToggleOneMore ==
    ASSUME NEW texts \in [Files -> Text], NEW done \in Edits,
           NEW edit \in Files \X Marks, edit \notin done
    PROVE  /\ Toggle(Toggle(texts, done), {edit}) =
                Toggle(texts, done \cup {edit})
           /\ Touched(done \cup {edit}) = Touched(done) \cup {edit[1]}
  <1>0. PICK g \in Files, k \in Marks : edit = <<g, k>>
    OBVIOUS
  <1>1. Touched(done \cup {edit}) = Touched(done) \cup {g}
    BY <1>0 DEF Touched, Edits
  <1>2. ASSUME NEW f \in Files
        PROVE  Toggle(Toggle(texts, done), {edit})[f] =
                 Toggle(texts, done \cup {edit})[f]
    <2>1. Toggle(texts, done)[f] =
            (texts[f] \ {m \in Marks : <<f, m>> \in done})
               \cup ({m \in Marks : <<f, m>> \in done} \ texts[f])
      BY DEF Toggle
    <2>2. Toggle(texts, done \cup {edit})[f] =
            (texts[f] \ {m \in Marks : <<f, m>> \in done \cup {edit}})
               \cup ({m \in Marks : <<f, m>> \in done \cup {edit}} \ texts[f])
      BY DEF Toggle
    <2>3. Toggle(Toggle(texts, done), {edit})[f] =
            (Toggle(texts, done)[f] \ {m \in Marks : <<f, m>> \in {edit}})
               \cup ({m \in Marks : <<f, m>> \in {edit}}
                        \ Toggle(texts, done)[f])
      BY DEF Toggle
    <2>4. CASE f = g
      <3>1. /\ {m \in Marks : <<f, m>> \in {edit}} = {k}
            /\ {m \in Marks : <<f, m>> \in done \cup {edit}} =
                 {m \in Marks : <<f, m>> \in done} \cup {k}
            /\ k \notin {m \in Marks : <<f, m>> \in done}
        BY <1>0, <2>4
      <3>. HIDE <1>0
      <3>. DEFINE D == {m \in Marks : <<f, m>> \in done}
      <3>2. k \notin D
        BY <3>1
      <3>3. Toggle(Toggle(texts, done), {edit})[f] =
              (((texts[f] \ D) \cup (D \ texts[f])) \ {k})
                \cup ({k} \ ((texts[f] \ D) \cup (D \ texts[f])))
        BY <2>1, <2>3, <3>1
      <3>4. Toggle(texts, done \cup {edit})[f] =
              (texts[f] \ (D \cup {k})) \cup ((D \cup {k}) \ texts[f])
        BY <2>2, <3>1
      <3>. HIDE DEF D
      <3>. QED
        BY <3>2, <3>3, <3>4
    <2>5. CASE f # g
      <3>1. /\ {m \in Marks : <<f, m>> \in {edit}} = {}
            /\ {m \in Marks : <<f, m>> \in done \cup {edit}} =
                 {m \in Marks : <<f, m>> \in done}
        BY <1>0, <2>5
      <3>. QED
        BY <2>1, <2>2, <2>3, <3>1
    <2>. QED
      BY <2>4, <2>5
  <1>3. Toggle(Toggle(texts, done), {edit}) = Toggle(texts, done \cup {edit})
    <2>1. \A f \in Files : Toggle(Toggle(texts, done), {edit})[f] =
                             Toggle(texts, done \cup {edit})[f]
      BY <1>2
    <2>2. /\ Toggle(Toggle(texts, done), {edit}) \in [Files -> Text]
          /\ Toggle(texts, done \cup {edit}) \in [Files -> Text]
      BY ToggleType
    <2>. QED
      BY <2>1, <2>2
  <1>. QED
    BY <1>0, <1>1, <1>3

LEMMA RevTextsType == TypeOK => RevTexts \in [Files -> Text]
  BY DEF TypeOK, Editor, Revision, RevTexts

LEMMA OpenedIsClean ==
    ASSUME NEW home \in Journals, NEW read \in [Files -> Revision],
           editor' = Opened(home, read)
    PROVE  Clean'
  BY DEF Clean, RevTexts, Opened, Revision

-----------------------------------------------------------------------------
(* The invariant, thread by thread. *)

Stage(t) ==
    /\ Editing(t) => bound /\ ~poisoned
    /\ pc[t] \in {"check", "write"} => task[t].why = "saved"
    /\ pc[t] = "locate" => task[t].why \in {"saved", "resynced", "recovered"}
    /\ pc[t] = "store" =>
         task[t].why \in {"saved", "resynced", "recovered", "conf"}
    /\ Recovering(t) => bound /\ task[t].todo = task[t].edits
    /\ pc[t] = "apply" =>
         /\ task[t].todo \subseteq task[t].edits
         /\ task[t].whole => task[t].todo = task[t].edits
         /\ Draft(task[t].edits \ task[t].todo)
    /\ pc[t] = "check" =>
         /\ task[t].left \subseteq editor.dirty
         /\ Draft(task[t].edits)
    /\ pc[t] = "write" =>
         /\ task[t].left = editor.dirty
         /\ editor.dirty \subseteq Touched(task[t].edits)
         /\ \A f \in Files :
              editor.rope[f] = IF f \in editor.dirty
                               THEN Toggle(RevTexts, task[t].edits)[f]
                               ELSE RevTexts[f]

LEMMA InvOfStages ==
    IInv <=> /\ TypeOK /\ Mutex /\ CleanUnlessDrafting
             /\ \A t \in Threads : Stage(t)
  BY DEF IInv, EditingIsBound, PublishesFor, RecoversFirst, Applying, Checking,
         Writing, Stage

LEMMA InvOfStagesNext ==
    IInv' <=> /\ TypeOK' /\ Mutex' /\ CleanUnlessDrafting'
              /\ \A t \in Threads : Stage(t)'
  BY DEF IInv, EditingIsBound, PublishesFor, RecoversFirst, Applying, Checking,
         Writing, Stage

(* Outside the mutex a thread claims nothing. *)
LEMMA UnlockedStage ==
    ASSUME NEW t \in Threads, pc[t] \notin Locked
    PROVE  Stage(t) /\ ~Drafting(t)
  BY DEF Stage, Editing, Recovering, Drafting, Locked

LEMMA UnlockedStageNext ==
    ASSUME NEW t \in Threads, pc'[t] \notin Locked
    PROVE  Stage(t)' /\ ~Drafting(t)'
  BY DEF Stage, Editing, Recovering, Drafting, Locked

(* A step inside the mutex, or one that takes it, concerns its thread alone. *)
LEMMA OneInside ==
    ASSUME IInv, NEW t \in Threads, TypeOK',
           lock \in {t, NoThread}, lock' \in {t, NoThread},
           \A u \in Threads \ {t} : pc'[u] = pc[u],
           pc'[t] \in Locked <=> lock' = t,
           Stage(t)', CleanUnlessDrafting'
    PROVE  IInv'
  <1>1. \A u \in Threads \ {t} : pc[u] \notin Locked
    BY AppStateAssumption DEF IInv, Mutex
  <1>2. \A u \in Threads \ {t} : pc'[u] \notin Locked /\ lock' # u
    BY <1>1, AppStateAssumption
  <1>3. Mutex'
    BY <1>2 DEF Mutex
  <1>4. \A u \in Threads : Stage(u)'
    BY <1>2, UnlockedStageNext
  <1>. QED
    BY <1>3, <1>4, InvOfStagesNext

(* While a thread is inside and not drafting, nobody is. *)
LEMMA CleanInside ==
    ASSUME IInv, NEW t \in Threads, lock \in {t, NoThread}, ~Drafting(t),
           bound, ~poisoned
    PROVE  Clean
  <1>1. \A u \in Threads \ {t} : pc[u] \notin Locked
    BY AppStateAssumption DEF IInv, Mutex
  <1>2. \A u \in Threads : ~Drafting(u)
    BY <1>1, UnlockedStage
  <1>. QED
    BY <1>2 DEF IInv, CleanUnlessDrafting

(* A step outside the mutex that leaves the editor alone. *)
LEMMA StaysOutside ==
    ASSUME IInv, NEW t \in Threads, TypeOK',
           UNCHANGED <<editor, bound, lock, poisoned>>,
           pc[t] \notin Locked, pc'[t] \notin Locked,
           \A u \in Threads \ {t} : pc'[u] = pc[u] /\ task'[u] = task[u]
    PROVE  IInv'
  <1>1. Mutex'
    BY DEF IInv, Mutex
  <1>2. ASSUME NEW u \in Threads \ {t}
        PROVE  (Stage(u) => Stage(u)') /\ (Drafting(u) <=> Drafting(u)')
    BY DEF Stage, Editing, Recovering, Drafting, Draft, RevTexts
  <1>3. \A u \in Threads : Stage(u)'
    BY <1>2, UnlockedStageNext, InvOfStages
  <1>4. CleanUnlessDrafting'
    <2>1. ~Drafting(t) /\ ~Drafting(t)'
      BY UnlockedStage, UnlockedStageNext
    <2>2. (\A u \in Threads : ~Drafting(u)') => \A u \in Threads : ~Drafting(u)
      BY <1>2, <2>1
    <2>. QED
      BY <2>2 DEF IInv, CleanUnlessDrafting, Clean, RevTexts
  <1>. QED
    BY <1>1, <1>3, <1>4, InvOfStagesNext

(* A step of the environment alone. *)
LEMMA NobodyMoves ==
    ASSUME IInv, TypeOK', UNCHANGED <<editor, bound, lock, poisoned, pc, task>>
    PROVE  IInv'
  BY DEF IInv, Mutex, EditingIsBound, PublishesFor, RecoversFirst, Applying,
         Checking, Writing, CleanUnlessDrafting, Editing, Recovering, Drafting,
         Draft, Clean, RevTexts

-----------------------------------------------------------------------------
(* Every step keeps the invariant: one lemma per group of actions. *)

LEMMA ReadKeeps ==
    ASSUME IInv, TypeOK', NEW t \in Threads, NEW f \in Files,
           ReadFile(t, f) \/ ReadFails(t, f)
    PROVE  IInv'
  <1>0. /\ pc \in [Threads -> Label] /\ task \in [Threads -> Task]
        /\ pc[t] \in Locked <=> lock = t
    BY DEF IInv, TypeOK, Mutex
  <1>1. CASE ReadFile(t, f)
    <2>1. /\ UNCHANGED <<pc, lock, bound, poisoned, editor>>
          /\ task'[t].why = task[t].why
          /\ task'[t].todo = task[t].todo /\ task'[t].edits = task[t].edits
          /\ \A u \in Threads \ {t} : task'[u] = task[u]
      BY <1>0, <1>1 DEF ReadFile
    <2>2. pc[t] \in Reading
      BY <1>1 DEF ReadFile
    <2>3. CASE pc[t] \in Locked
      <3>1. Stage(t)'
        BY <2>1, <2>2, InvOfStages DEF Stage, Editing, Recovering, Reading
      <3>2. CleanUnlessDrafting'
        <4>1. Drafting(t) <=> Drafting(t)'
          BY <2>1 DEF Drafting
        <4>2. ~Drafting(t) /\ bound /\ ~poisoned => Clean
          BY <1>0, <2>3, CleanInside
        <4>. QED
          BY <2>1, <4>1, <4>2 DEF CleanUnlessDrafting, Clean, RevTexts
      <3>. QED
        BY <1>0, <2>1, <2>3, <3>1, <3>2, OneInside
    <2>4. CASE pc[t] \notin Locked
      BY <2>1, <2>4, StaysOutside
    <2>. QED
      BY <2>3, <2>4
  <1>2. CASE ReadFails(t, f)
    <2>1. pc'[t] = "idle" /\ \A u \in Threads \ {t} : pc'[u] = pc[u]
      BY <1>0, <1>2 DEF ReadFails, Goto
    <2>2. pc'[t] \notin Locked
      BY <2>1 DEF Locked
    <2>3. CASE pc[t] \in Locked
      <3>1. bound' = FALSE /\ lock' = NoThread
        BY <1>2, <2>3 DEF ReadFails
      <3>2. CleanUnlessDrafting'
        BY <3>1 DEF CleanUnlessDrafting
      <3>. QED
        BY <1>0, <2>1, <2>2, <2>3, <3>1, <3>2, UnlockedStageNext, OneInside,
           AppStateAssumption
    <2>4. CASE pc[t] \notin Locked
      <3>1. /\ UNCHANGED <<bound, lock, editor, poisoned>>
            /\ \A u \in Threads \ {t} : task'[u] = task[u]
        BY <1>0, <1>2, <2>4 DEF ReadFails, IInv, TypeOK, Locked
      <3>. QED
        BY <2>1, <2>2, <2>4, <3>1, StaysOutside
    <2>. QED
      BY <2>3, <2>4
  <1>. QED
    BY <1>1, <1>2

(* Between requests the mutex is free and nobody is inside. *)
LEMMA FreeMutex ==
    ASSUME IInv, lock = NoThread
    PROVE  \A u \in Threads : pc[u] \notin Locked
  BY AppStateAssumption DEF IInv, Mutex

LEMMA RequestKeeps ==
    ASSUME IInv, TypeOK', NEW t \in Threads, Request(t)
    PROVE  IInv'
  <1>0. /\ pc \in [Threads -> Label] /\ task \in [Threads -> Task]
        /\ t # NoThread
    BY AppStateAssumption DEF IInv, TypeOK
  <1>1. ASSUME lock = NoThread, lock' = t, pc'[t] \in Locked,
               \A u \in Threads \ {t} : pc'[u] = pc[u],
               UNCHANGED <<editor, bound, poisoned>>, Stage(t)'
        PROVE  IInv'
    <2>1. \A u \in Threads : pc[u] \notin Locked
      BY <1>1, FreeMutex
    <2>2. bound /\ ~poisoned => Clean
      BY <1>1, <2>1, UnlockedStage, CleanInside
    <2>3. CleanUnlessDrafting'
      BY <1>1, <2>2 DEF CleanUnlessDrafting, Clean, RevTexts
    <2>. QED
      BY <1>1, <2>3, OneInside
  <1>2. ASSUME NEW edits \in Edits, NEW whole \in BOOLEAN, Edit(t, edits, whole)
        PROVE  IInv'
    <2>1. /\ pc'[t] = "apply" /\ task'[t].todo = edits /\ task'[t].edits = edits
          /\ bound' = bound /\ poisoned' = poisoned /\ editor' = editor
          /\ lock = NoThread /\ lock' = t /\ bound /\ ~poisoned
          /\ \A u \in Threads \ {t} : pc'[u] = pc[u]
      BY <1>0, <1>2 DEF Edit, Goto
    <2>2. Clean
      BY <2>1, FreeMutex, UnlockedStage, CleanInside
    <2>3. Draft({})
      BY <2>2, RevTextsType, ToggleNothing DEF Clean, Draft, IInv
    <2>4. task'[t].edits \ task'[t].todo = {}
      BY <2>1
    <2>5. Draft(task[t].edits \ task[t].todo)'
      BY <2>1, <2>3, <2>4 DEF Draft, RevTexts
    <2>6. Stage(t)'
      BY <2>1, <2>5 DEF Stage, Editing, Recovering
    <2>. QED
      BY <1>1, <2>1, <2>6 DEF Locked
  <1>3. ASSUME NEW edits \in Edits, NEW whole \in BOOLEAN,
               EditRecovers(t, edits, whole)
        PROVE  IInv'
    <2>1. /\ pc'[t] = "recover" /\ task'[t].todo = edits /\ task'[t].edits = edits
          /\ bound' = bound /\ poisoned' = poisoned /\ editor' = editor
          /\ lock = NoThread /\ lock' = t /\ bound
          /\ \A u \in Threads \ {t} : pc'[u] = pc[u]
      BY <1>0, <1>3 DEF EditRecovers
    <2>2. Stage(t)'
      BY <2>1 DEF Stage, Editing, Recovering
    <2>. QED
      BY <1>1, <2>1, <2>2 DEF Locked
  <1>4. CASE EditDisabled(t)
    <2>1. \A u \in Threads : pc'[u] = pc[u] /\ pc[u] \notin Locked
      BY <1>4, FreeMutex DEF EditDisabled
    <2>2. CleanUnlessDrafting'
      BY <1>4 DEF EditDisabled, CleanUnlessDrafting
    <2>. QED
      BY <1>0, <1>4, <2>1, <2>2, UnlockedStageNext, OneInside DEF EditDisabled
  <1>5. CASE Reload(t)
    <2>1. /\ pc'[t] = "reopen"
          /\ bound' = bound /\ poisoned' = poisoned /\ editor' = editor
          /\ lock = NoThread /\ lock' = t
          /\ \A u \in Threads \ {t} : pc'[u] = pc[u]
      BY <1>0, <1>5 DEF Reload, StartReading
    <2>2. Stage(t)'
      BY <2>1 DEF Stage, Editing, Recovering
    <2>. QED
      BY <1>1, <2>1, <2>2 DEF Locked
  <1>6. CASE ReloadUnbound(t) \/ \E home \in Journals : Open(t, home)
    <2>1. /\ pc[t] = "idle" /\ pc'[t] \in {"reparse", "open"}
          /\ UNCHANGED <<editor, bound, lock, poisoned>>
          /\ \A u \in Threads \ {t} : pc'[u] = pc[u] /\ task'[u] = task[u]
      BY <1>0, <1>6 DEF ReloadUnbound, Open, StartReading, Asks
    <2>. QED
      BY <2>1, StaysOutside DEF Locked
  <1>7. CASE Republish(t)
    <2>1. /\ pc'[t] = "store" /\ task'[t].why = "conf"
          /\ bound' = bound /\ poisoned' = poisoned /\ editor' = editor
          /\ lock = NoThread /\ lock' = t
          /\ \A u \in Threads \ {t} : pc'[u] = pc[u]
      BY <1>0, <1>7 DEF Republish, Goto
    <2>2. Stage(t)'
      BY <2>1 DEF Stage, Editing, Recovering
    <2>. QED
      BY <1>1, <2>1, <2>2 DEF Locked
  <1>. QED
    BY <1>2, <1>3, <1>4, <1>5, <1>6, <1>7 DEF Request

(* Handing the ropes to save: with nothing dirty there is nothing to lose. *)
LEMMA ToSaveKeeps ==
    ASSUME IInv, TypeOK', NEW t \in Threads, pc[t] = "apply",
           NEW dirty \in SUBSET Files, ToSave(t, dirty),
           editor'.dirty = dirty, Draft(task[t].edits)',
           UNCHANGED <<bound, lock, poisoned>>
    PROVE  IInv'
  <1>0. /\ pc \in [Threads -> Label] /\ task \in [Threads -> Task]
        /\ pc[t] \in Locked /\ lock = t /\ Editing(t)
    BY DEF IInv, TypeOK, Mutex, Locked, Editing
  <1>1. /\ pc'[t] = IF dirty = {} THEN "locate" ELSE "check"
        /\ task'[t].edits = task[t].edits /\ task'[t].left = dirty
        /\ task'[t].why = "saved"
        /\ \A u \in Threads \ {t} : pc'[u] = pc[u]
    BY <1>0 DEF ToSave, Goto
  <1>2. bound /\ ~poisoned
    BY <1>0, InvOfStages DEF Stage
  <1>4. Stage(t)'
    BY <1>1, <1>2 DEF Stage, Editing, Recovering, Draft
  <1>5. CleanUnlessDrafting'
    <2>1. CASE dirty = {}
      <3>1. /\ RevTexts' \in [Files -> Text]
            /\ editor'.rope \in [Files -> Text]
        BY DEF TypeOK, Editor, Revision, RevTexts
      <3>2. Touched(task[t].edits) = {}
            /\ editor'.rope = Toggle(RevTexts', task[t].edits)
        BY <1>1, <2>1 DEF Draft
      <3>3. \A f \in Files : editor'.rope[f] = (RevTexts')[f]
        BY <3>1, <3>2, ToggleUntouched
      <3>. QED
        BY <2>1, <3>1, <3>3 DEF CleanUnlessDrafting, Clean
    <2>2. CASE dirty # {}
      BY <1>1, <2>2 DEF CleanUnlessDrafting, Drafting
    <2>. QED
      BY <2>1, <2>2
  <1>. QED
    BY <1>0, <1>1, <1>4, <1>5, OneInside DEF Locked

(* Leaving the mutex with a clean editor. *)
LEMMA ReturnKeeps ==
    ASSUME IInv, TypeOK', NEW t \in Threads, pc[t] \in Locked, Return(t),
           bound' /\ ~poisoned' => Clean'
    PROVE  IInv'
  <1>1. /\ pc \in [Threads -> Label]
        /\ lock = t
    BY DEF IInv, TypeOK, Mutex
  <1>2. /\ pc'[t] = "idle" /\ lock' = NoThread
        /\ \A u \in Threads \ {t} : pc'[u] = pc[u]
    BY <1>1 DEF Return, Goto
  <1>3. pc'[t] \notin Locked
    BY <1>2 DEF Locked
  <1>4. CleanUnlessDrafting'
    BY DEF CleanUnlessDrafting
  <1>. QED
    BY <1>1, <1>2, <1>3, <1>4, UnlockedStageNext, OneInside, AppStateAssumption

(* A refusal that re-reads the files leaves the ropes to be replaced. *)
LEMMA ResyncKeeps ==
    ASSUME IInv, TypeOK', NEW t \in Threads,
           pc[t] \in {"apply", "check", "write"}, NEW home,
           StartReading(t, home, "resync"),
           UNCHANGED <<bound, lock, poisoned, editor>>
    PROVE  IInv'
  <1>0. /\ pc \in [Threads -> Label] /\ lock = t /\ Editing(t)
    BY DEF IInv, TypeOK, Mutex, Locked, Editing
  <1>1. pc'[t] = "resync" /\ \A u \in Threads \ {t} : pc'[u] = pc[u]
    BY <1>0 DEF StartReading
  <1>2. bound /\ ~poisoned
    BY <1>0, InvOfStages DEF Stage
  <1>3. Stage(t)' /\ Drafting(t)'
    BY <1>1, <1>2 DEF Stage, Editing, Recovering, Drafting
  <1>4. CleanUnlessDrafting'
    BY <1>3 DEF CleanUnlessDrafting
  <1>. QED
    BY <1>0, <1>1, <1>3, <1>4, OneInside DEF Locked

LEMMA ApplyKeeps ==
    ASSUME IInv, TypeOK', NEW t \in Threads,
           \/ ApplyWhole(t) \/ ApplyRefused(t) \/ ApplyDone(t) \/ ApplyFails(t)
           \/ \E edit \in Files \X Marks : ApplyNext(t, edit)
    PROVE  IInv'
  <1>0. /\ pc[t] = "apply"
        /\ pc \in [Threads -> Label] /\ task \in [Threads -> Task]
        /\ editor \in Editor /\ RevTexts \in [Files -> Text]
    BY RevTextsType
       DEF IInv, TypeOK, ApplyWhole, ApplyRefused, ApplyDone, ApplyFails, ApplyNext
  <1>1. /\ task[t].todo \subseteq task[t].edits
        /\ task[t].whole => task[t].todo = task[t].edits
        /\ Draft(task[t].edits \ task[t].todo)
        /\ bound /\ ~poisoned
    BY <1>0, InvOfStages DEF Stage, Editing
  <1>2. /\ task[t].edits \in Edits /\ task[t].todo \in Edits
        /\ editor.dirty \in SUBSET Files
    BY <1>0 DEF Task, Editor
  <1>3. lock = t /\ pc[t] \in Locked
    BY <1>0 DEF IInv, Mutex, Locked
  <1>4. CASE ApplyWhole(t)
    <2>1. Clean
      <3>1. task[t].edits \ task[t].todo = {}
        BY <1>1, <1>4 DEF ApplyWhole
      <3>. QED
        BY <1>0, <1>1, <3>1, ToggleNothing DEF Draft, Clean
    <2>2. editor' = [editor EXCEPT !.rope = Toggle(editor.rope, task[t].todo),
                                   !.dirty = editor.dirty \cup Touched(task[t].todo)]
      BY <1>4 DEF ApplyWhole
    <2>3. /\ editor'.dirty = Touched(task[t].todo)
          /\ editor'.rope = Toggle(RevTexts, task[t].todo)
          /\ editor'.rev = editor.rev
      BY <1>0, <2>1, <2>2 DEF Clean, Editor
    <2>4. /\ task'[t].edits = task[t].edits /\ task[t].todo = task[t].edits
          /\ ToSave(t, editor'.dirty)
      BY <1>0, <1>1, <1>4, <2>1, <2>3 DEF ApplyWhole, ToSave, Clean
    <2>5. Draft(task[t].edits)'
      BY <2>3, <2>4 DEF Draft, RevTexts
    <2>6. editor'.dirty \in SUBSET Files
      BY <2>3 DEF Touched
    <2>. QED
      BY <1>0, <1>4, <2>4, <2>5, <2>6, ToSaveKeeps DEF ApplyWhole
  <1>5. CASE ApplyRefused(t)
    <2>1. task[t].edits \ task[t].todo = {}
      BY <1>1, <1>5 DEF ApplyRefused
    <2>2. Clean
      BY <1>0, <1>1, <2>1, ToggleNothing DEF Draft, Clean
    <2>3. Clean'
      BY <1>5, <2>2 DEF ApplyRefused, Clean, RevTexts
    <2>. QED
      BY <1>3, <1>5, <2>3, ReturnKeeps DEF ApplyRefused
  <1>6. CASE ApplyDone(t)
    <2>1. task[t].edits \ task[t].todo = task[t].edits
      BY <1>6 DEF ApplyDone
    <2>2. task'[t].edits = task[t].edits
      BY <1>0, <1>6 DEF ApplyDone, ToSave
    <2>3. Draft(task[t].edits)'
      BY <1>1, <1>6, <2>1, <2>2 DEF ApplyDone, Draft, RevTexts
    <2>. QED
      BY <1>0, <1>2, <1>6, <2>3, ToSaveKeeps DEF ApplyDone
  <1>7. CASE ApplyFails(t)
    BY <1>0, <1>7, ResyncKeeps DEF ApplyFails
  <1>8. ASSUME NEW edit \in Files \X Marks, ApplyNext(t, edit)
        PROVE  IInv'
    <2>1. /\ edit \in task[t].todo
          /\ editor' = [editor EXCEPT !.rope = Toggle(editor.rope, {edit}),
                                      !.dirty = editor.dirty \cup {edit[1]}]
          /\ task'[t] = [task[t] EXCEPT !.todo = task[t].todo \ {edit}]
          /\ UNCHANGED <<pc, lock, bound, poisoned>>
      BY <1>0, <1>8 DEF ApplyNext
    <2>. DEFINE done == task[t].edits \ task[t].todo
    <2>2. /\ done \in Edits /\ edit \notin done
          /\ task'[t].edits \ task'[t].todo = done \cup {edit}
          /\ task'[t].todo \subseteq task'[t].edits
          /\ ~task'[t].whole
      <3>1. /\ task'[t].edits = task[t].edits
            /\ task'[t].whole = task[t].whole
            /\ task'[t].todo = task[t].todo \ {edit}
        BY <1>0, <2>1 DEF Task
      <3>2. done \in Edits
        BY <1>2 DEF Edits
      <3>3. ~task[t].whole
        BY <1>8 DEF ApplyNext
      <3>. QED
        BY <1>1, <2>1, <3>1, <3>2, <3>3
    <2>3. Draft(task[t].edits \ task[t].todo)'
      <3>1. /\ editor'.rope = Toggle(Toggle(RevTexts, done), {edit})
            /\ editor'.dirty = Touched(done) \cup {edit[1]}
            /\ editor'.rev = editor.rev
        BY <1>0, <1>1, <2>1 DEF Draft, Editor
      <3>2. /\ editor'.rope = Toggle(RevTexts, done \cup {edit})
            /\ editor'.dirty = Touched(done \cup {edit})
        <4>. HIDE DEF done
        <4>1. RevTexts \in [Files -> Text] /\ done \in Edits /\ edit \notin done
          BY <1>0, <2>2
        <4>2. /\ Toggle(Toggle(RevTexts, done), {edit}) =
                   Toggle(RevTexts, done \cup {edit})
              /\ Touched(done \cup {edit}) = Touched(done) \cup {edit[1]}
          BY <4>1, ToggleOneMore
        <4>. QED
          BY <3>1, <4>2
      <3>. QED
        BY <2>2, <3>1, <3>2 DEF Draft, RevTexts
    <2>4. Stage(t)'
      BY <1>0, <1>1, <2>1, <2>2, <2>3 DEF Stage, Editing, Recovering, Draft
    <2>5. CleanUnlessDrafting'
      BY <1>0, <2>1 DEF CleanUnlessDrafting, Drafting
    <2>. QED
      BY <1>3, <2>1, <2>4, <2>5, OneInside
  <1>. QED
    BY <1>4, <1>5, <1>6, <1>7, <1>8

LEMMA SaveKeeps ==
    ASSUME IInv, TypeOK', NEW t \in Threads, NEW f \in Files,
           \/ CheckFile(t, f) \/ CheckRefuses(t, f)
           \/ WriteFile(t, f) \/ WriteFails(t, f)
    PROVE  IInv'
  <1>0. /\ pc \in [Threads -> Label] /\ task \in [Threads -> Task]
        /\ editor \in Editor /\ RevTexts \in [Files -> Text]
    BY RevTextsType DEF IInv, TypeOK
  <1>1. pc[t] \in {"check", "write"} /\ lock = t /\ Editing(t)
    BY DEF IInv, Mutex, Locked, Editing,
           CheckFile, CheckRefuses, WriteFile, WriteFails
  <1>2. Stage(t) /\ bound /\ ~poisoned
    BY <1>1, InvOfStages DEF Stage
  <1>3. CASE CheckFile(t, f)
    <2>1. /\ UNCHANGED <<editor, bound, poisoned, lock>>
          /\ pc[t] = "check"
          /\ pc'[t] = IF task[t].left = {f} THEN "write" ELSE "check"
          /\ \A u \in Threads \ {t} : pc'[u] = pc[u]
          /\ task'[t].why = "saved" /\ task'[t].edits = task[t].edits
          /\ task'[t].left = IF task[t].left = {f} THEN editor.dirty
                             ELSE task[t].left \ {f}
      BY <1>0, <1>2, <1>3 DEF CheckFile, Goto, Stage
    <2>2. /\ editor.dirty = Touched(task[t].edits)
          /\ editor.rope = Toggle(RevTexts, task[t].edits)
          /\ task[t].left \subseteq editor.dirty
      BY <1>2, <2>1 DEF Stage, Draft
    <2>3. \A g \in Files : editor.rope[g] =
             IF g \in editor.dirty THEN Toggle(RevTexts, task[t].edits)[g]
             ELSE RevTexts[g]
      BY <1>0, <2>2, ToggleUntouched
    <2>4. Stage(t)'
      <3>1. CASE task[t].left = {f}
        BY <1>2, <2>1, <2>2, <2>3, <3>1
           DEF Stage, Editing, Recovering, Draft, RevTexts
      <3>2. CASE task[t].left # {f}
        BY <1>2, <2>1, <2>2, <3>2
           DEF Stage, Editing, Recovering, Draft, RevTexts
      <3>. QED
        BY <3>1, <3>2
    <2>5. CleanUnlessDrafting'
      BY <2>1 DEF CleanUnlessDrafting, Drafting
    <2>. QED
      BY <1>1, <2>1, <2>4, <2>5, OneInside DEF Locked
  <1>4. CASE CheckRefuses(t, f) \/ WriteFails(t, f)
    BY <1>1, <1>4, ResyncKeeps DEF CheckRefuses, WriteFails
  <1>5. CASE WriteFile(t, f)
    <2>1. PICK ino \in Inodes :
            editor' = [editor EXCEPT
                         !.rev[f] = [text |-> editor.rope[f], ino |-> ino,
                                     readable |-> TRUE],
                         !.dirty = editor.dirty \ {f}]
      BY <1>5 DEF WriteFile
    <2>2. /\ UNCHANGED <<bound, poisoned, lock>>
          /\ pc[t] = "write" /\ f \in task[t].left
          /\ pc'[t] = IF task[t].left = {f} THEN "locate" ELSE "write"
          /\ \A u \in Threads \ {t} : pc'[u] = pc[u]
          /\ task'[t].why = task[t].why /\ task'[t].edits = task[t].edits
          /\ task'[t].left = task[t].left \ {f}
      <3>1. /\ UNCHANGED <<bound, poisoned, lock>>
            /\ pc[t] = "write" /\ f \in task[t].left
            /\ Goto(t, IF task[t].left = {f} THEN "locate" ELSE "write")
            /\ task' = [task EXCEPT ![t] =
                          [task[t] EXCEPT !.left = task[t].left \ {f}]]
        BY <1>5 DEF WriteFile
      <3>2. task'[t] = [task[t] EXCEPT !.left = task[t].left \ {f}]
        BY <1>0, <3>1
      <3>3. /\ task'[t].why = task[t].why /\ task'[t].edits = task[t].edits
            /\ task'[t].left = task[t].left \ {f}
        <4>1. task[t] \in Task
          BY <1>0
        <4>. QED
          BY <3>2, <4>1 DEF Task
      <3>. QED
        BY <1>0, <3>1, <3>3 DEF Goto
    <2>3. /\ task[t].left = editor.dirty /\ task[t].why = "saved"
          /\ editor.dirty \subseteq Touched(task[t].edits)
          /\ \A g \in Files : editor.rope[g] =
               IF g \in editor.dirty THEN Toggle(RevTexts, task[t].edits)[g]
               ELSE RevTexts[g]
      BY <1>2, <2>2 DEF Stage
    <2>4. /\ editor'.dirty = editor.dirty \ {f}
          /\ editor'.rope = editor.rope
          /\ (RevTexts')[f] = editor.rope[f]
          /\ \A g \in Files \ {f} : (RevTexts')[g] = RevTexts[g]
      BY <1>0, <2>1 DEF RevTexts, Editor
    <2>5. \A g \in Files : editor'.rope[g] =
             IF g \in editor'.dirty THEN Toggle(RevTexts', task'[t].edits)[g]
             ELSE (RevTexts')[g]
      <3>1. ASSUME NEW g \in Files, g \in editor'.dirty
            PROVE  editor'.rope[g] = Toggle(RevTexts', task'[t].edits)[g]
        <4>1. g # f /\ g \in editor.dirty
          BY <2>4, <3>1
        <4>2. Toggle(RevTexts', task[t].edits)[g] = Toggle(RevTexts, task[t].edits)[g]
          BY <2>4, <4>1, ToggleLocal
        <4>. QED
          BY <2>2, <2>3, <2>4, <4>1, <4>2
      <3>2. ASSUME NEW g \in Files, g \notin editor'.dirty
            PROVE  editor'.rope[g] = (RevTexts')[g]
        BY <2>3, <2>4, <3>2
      <3>. QED
        BY <3>1, <3>2
    <2>6. Stage(t)'
      BY <1>2, <2>2, <2>3, <2>4, <2>5 DEF Stage, Editing, Recovering
    <2>7. CleanUnlessDrafting'
      <3>1. CASE task[t].left = {f}
        <4>1. editor'.dirty = {}
          BY <2>3, <2>4, <3>1
        <4>2. \A g \in Files : editor'.rope[g] = (RevTexts')[g]
          BY <2>5, <4>1
        <4>3. /\ editor'.rope \in [Files -> Text]
              /\ RevTexts' \in [Files -> Text]
          BY DEF TypeOK, Editor, Revision, RevTexts
        <4>. QED
          BY <4>1, <4>2, <4>3 DEF CleanUnlessDrafting, Clean
      <3>2. CASE task[t].left # {f}
        BY <2>2, <3>2 DEF CleanUnlessDrafting, Drafting
      <3>. QED
        BY <3>1, <3>2
    <2>. QED
      BY <1>1, <2>2, <2>6, <2>7, OneInside DEF Locked
  <1>. QED
    BY <1>3, <1>4, <1>5

LEMMA PublishKeeps ==
    ASSUME IInv, TypeOK', NEW t \in Threads,
           \/ ReadDone(t) \/ Locate(t) \/ Store(t) \/ StoreResynced(t)
           \/ StoreRecovered(t) \/ StoreReparsed(t) \/ Reopened(t)
           \/ BindStore(t) \/ Bind(t)
    PROVE  IInv'
  <1>0. /\ pc \in [Threads -> Label] /\ task \in [Threads -> Task]
        /\ t # NoThread /\ Stage(t) /\ (pc[t] \in Locked <=> lock = t)
        /\ task[t].home \in Journals /\ task[t].read \in [Files -> Revision]
    BY AppStateAssumption, InvOfStages DEF TypeOK, IInv, Mutex, Task
  <1>1. ASSUME pc[t] \in Locked, pc'[t] \in Locked,
               UNCHANGED <<editor, bound, poisoned, lock>>,
               Drafting(t) <=> Drafting(t)',
               \A u \in Threads \ {t} : pc'[u] = pc[u], Stage(t)'
        PROVE  IInv'
    <2>1. CleanUnlessDrafting'
      <3>1. ~Drafting(t) /\ bound /\ ~poisoned => Clean
        BY <1>0, <1>1, CleanInside
      <3>. QED
        BY <1>1, <3>1 DEF CleanUnlessDrafting, Clean, RevTexts
    <2>. QED
      BY <1>0, <1>1, <2>1, OneInside
  <1>2. CASE ReadDone(t)
    <2>1. /\ UNCHANGED <<editor, bound, poisoned, lock>>
          /\ \A u \in Threads \ {t} : pc'[u] = pc[u] /\ task'[u] = task[u]
          /\ task'[t].todo = task[t].todo /\ task'[t].edits = task[t].edits
          /\ \/ pc[t] = "resync" /\ pc'[t] = "locate" /\ task'[t].why = "resynced"
             \/ pc[t] = "recover" /\ pc'[t] = "locate" /\ task'[t].why = "recovered"
             \/ pc[t] = "reparse" /\ pc'[t] = "locateFree"
      BY <1>0, <1>2 DEF ReadDone, Goto
    <2>2. CASE pc[t] \in {"resync", "recover"}
      <3>1. Stage(t)' /\ (Drafting(t) <=> Drafting(t)')
        BY <1>0, <2>1, <2>2 DEF Stage, Editing, Recovering, Drafting
      <3>. QED
        BY <1>1, <2>1, <2>2, <3>1 DEF Locked
    <2>3. CASE pc[t] = "reparse"
      BY <2>1, <2>3, StaysOutside DEF Locked
    <2>. QED
      BY <2>1, <2>2, <2>3
  <1>3. CASE Locate(t)
    <2>1. /\ UNCHANGED <<editor, bound, poisoned, lock>>
          /\ \A u \in Threads \ {t} : pc'[u] = pc[u] /\ task'[u] = task[u]
          /\ task'[t].todo = task[t].todo /\ task'[t].edits = task[t].edits
          /\ task'[t].why = task[t].why
          /\ \/ pc[t] = "locate" /\ pc'[t] = "store"
             \/ pc[t] = "locateFree" /\ pc'[t] = "storeFree"
      BY <1>0, <1>3 DEF Locate, Goto
    <2>2. CASE pc[t] = "locate"
      <3>1. Stage(t)' /\ (Drafting(t) <=> Drafting(t)')
        BY <1>0, <2>1, <2>2 DEF Stage, Editing, Recovering, Drafting
      <3>. QED
        BY <1>1, <2>1, <2>2, <3>1 DEF Locked
    <2>3. CASE pc[t] = "locateFree"
      BY <2>1, <2>3, StaysOutside DEF Locked
    <2>. QED
      BY <2>1, <2>2, <2>3
  <1>4. CASE Store(t)
    <2>1. pc[t] \in Locked /\ ~Drafting(t)
      BY <1>4 DEF Store, Locked, Drafting
    <2>2. bound /\ ~poisoned => Clean
      BY <1>0, <2>1, CleanInside
    <2>3. bound' /\ ~poisoned' => Clean'
      BY <1>4, <2>2 DEF Store, Clean, RevTexts
    <2>. QED
      BY <1>4, <2>1, <2>3, ReturnKeeps DEF Store
  <1>5. CASE StoreResynced(t) \/ Reopened(t)
    <2>1. pc[t] \in Locked /\ Return(t)
      BY <1>5 DEF StoreResynced, Reopened, Locked
    <2>2. Clean'
      BY <1>0, <1>5, OpenedIsClean DEF StoreResynced, Reopened
    <2>. QED
      BY <2>1, <2>2, ReturnKeeps
  <1>6. CASE StoreRecovered(t)
    <2>1. /\ pc[t] = "store" /\ pc'[t] = "apply" /\ Recovering(t)
          /\ UNCHANGED <<bound, lock>> /\ ~poisoned'
          /\ \A u \in Threads \ {t} : pc'[u] = pc[u]
          /\ task'[t].todo = task[t].todo /\ task'[t].edits = task[t].edits
      BY <1>0, <1>6 DEF StoreRecovered, Goto, Recovering
    <2>2. bound /\ task[t].todo = task[t].edits
      BY <1>0, <2>1 DEF Stage
    <2>3. Clean'
      BY <1>0, <1>6, OpenedIsClean DEF StoreRecovered
    <2>4. Draft(task[t].edits \ task[t].todo)'
      <3>1. RevTexts' \in [Files -> Text]
        BY DEF TypeOK, Editor, Revision, RevTexts
      <3>2. task'[t].edits \ task'[t].todo = {}
        BY <2>1, <2>2
      <3>. QED
        BY <2>3, <3>1, <3>2, ToggleNothing DEF Draft, Clean
    <2>5. Stage(t)'
      BY <2>1, <2>2, <2>4 DEF Stage, Editing, Recovering
    <2>6. CleanUnlessDrafting'
      BY <2>3 DEF CleanUnlessDrafting
    <2>. QED
      BY <1>0, <2>1, <2>5, <2>6, OneInside DEF Locked
  <1>7. CASE StoreReparsed(t) \/ BindStore(t)
    <2>1. /\ UNCHANGED <<editor, bound, poisoned, lock>>
          /\ \A u \in Threads \ {t} : pc'[u] = pc[u] /\ task'[u] = task[u]
          /\ pc[t] \in {"storeFree", "open"} /\ pc'[t] \in {"idle", "bind"}
      BY <1>0, <1>7 DEF StoreReparsed, BindStore, Goto
    <2>. QED
      BY <2>1, StaysOutside DEF Locked
  <1>8. CASE Bind(t)
    <2>1. /\ lock = NoThread /\ lock' = lock /\ pc'[t] = "idle"
          /\ \A u \in Threads \ {t} : pc'[u] = pc[u]
      BY <1>0, <1>8 DEF Bind, Goto
    <2>2. Clean'
      BY <1>0, <1>8, OpenedIsClean DEF Bind
    <2>3. pc'[t] \notin Locked
      BY <2>1 DEF Locked
    <2>. QED
      BY <1>0, <2>1, <2>2, <2>3, UnlockedStageNext, OneInside
         DEF CleanUnlessDrafting
  <1>. QED
    BY <1>2, <1>3, <1>4, <1>5, <1>6, <1>7, <1>8

LEMMA EnvironmentKeeps ==
    ASSUME IInv, TypeOK', External \/ \E t \in Threads : Panic(t)
    PROVE  IInv'
  <1>1. CASE External
    BY <1>1, NobodyMoves DEF External, Break, Rewrite
  <1>2. ASSUME NEW t \in Threads, Panic(t) PROVE IInv'
    BY <1>2, ReturnKeeps DEF Panic
  <1>. QED
    BY <1>1, <1>2

LEMMA InitInv == Init => IInv
  <1> SUFFICES ASSUME Init PROVE IInv
    OBVIOUS
  <1>1. TypeOK
    BY InitType
  <1>2. \A t \in Threads : pc[t] \notin Locked /\ lock # t
    BY AppStateAssumption DEF Init, Locked
  <1>3. Clean
    BY <1>1 DEF TypeOK, Init, Opened, Clean, RevTexts
  <1>. QED
    BY <1>1, <1>2, <1>3, UnlockedStage, InvOfStages DEF Mutex, CleanUnlessDrafting

LEMMA NextInv == IInv /\ [Next]_vars => IInv'
  <1> SUFFICES ASSUME IInv, [Next]_vars PROVE IInv'
    OBVIOUS
  <1>1. TypeOK'
    BY NextType DEF IInv
  <1>2. CASE UNCHANGED vars
    BY <1>1, <1>2, NobodyMoves DEF vars
  <1>. QED
    BY <1>1, <1>2, ReadKeeps, RequestKeeps, ApplyKeeps, SaveKeeps, PublishKeeps,
       EnvironmentKeeps DEF Next, ThreadStep

(* Who holds the mutex, and what the editor holds at each stage of a request. *)
THEOREM Invariant == Spec => []IInv
  BY InitInv, NextInv, PTL DEF Spec

(* Between requests the editor holds no unsaved edit, whatever failed before. *)
THEOREM EditorIsCleanWhenQuiet == Spec => []QuietEditorIsClean
  <1>1. ASSUME IInv PROVE QuietEditorIsClean
    <2> SUFFICES ASSUME bound, ~poisoned, lock = NoThread
                 PROVE  editor.dirty = {}
                        /\ \A f \in Files : editor.rope[f] = editor.rev[f].text
      BY DEF QuietEditorIsClean
    <2>1. \A t \in Threads : ~Drafting(t)
      BY <1>1, FreeMutex, UnlockedStage
    <2>. QED
      BY <1>1, <2>1 DEF IInv, CleanUnlessDrafting, Clean, RevTexts
  <1>. QED
    BY <1>1, Invariant, PTL

(* Only a save changes a file, and it makes exactly the request's edits to    *)
(* what the file says at that moment: nobody's change is lost, no earlier     *)
(* failed edit rides along.                                                   *)
THEOREM WritesAreTheRequests == Spec => WritesOnlyTheRequest
  <1>. DEFINE Step == \A j \in Journals, f \in Files :
                disk'[j][f] # disk[j][f] /\ external' = external =>
                  /\ j = editor.home
                  /\ disk'[j][f].text =
                       Toggle([g \in Files |-> disk[j][g].text],
                              task[lock].edits)[f]
  <1>1. ASSUME IInv, Next PROVE Step
    <2>1. ASSUME NEW t \in Threads, NEW f \in Files, WriteFile(t, f)
          PROVE  Step
      <3>1. /\ pc[t] = "write" /\ f \in task[t].left
            /\ editor.rev[f].text = disk[editor.home][f].text
            /\ \A j \in Journals, g \in Files :
                 disk'[j][g] # disk[j][g] =>
                   /\ j = editor.home /\ g = f
                   /\ disk'[j][g].text = editor.rope[f]
        BY <1>1, <2>1 DEF WriteFile, Matches, IInv, TypeOK
      <3>2. lock = t
        BY <1>1, <3>1 DEF IInv, Mutex, Locked
      <3>3. editor.rope[f] = Toggle(RevTexts, task[lock].edits)[f]
        BY <1>1, <3>1, <3>2 DEF IInv, Writing
      <3>4. ASSUME NEW texts, texts[f] = RevTexts[f]
            PROVE  Toggle(texts, task[lock].edits)[f] = editor.rope[f]
        BY <3>3, <3>4, ToggleLocal
      <3>5. RevTexts[f] = [g \in Files |-> disk[editor.home][g].text][f]
        BY <3>1 DEF RevTexts
      <3>. QED
        BY <3>1, <3>4, <3>5
    <2>2. CASE UNCHANGED disk
      BY <2>2
    <2>3. CASE External
      BY <1>1, <2>3 DEF External, Break, Rewrite, IInv, TypeOK
    <2>4. ASSUME NEW t \in Threads, Request(t) \/ Panic(t) PROVE UNCHANGED disk
      BY <2>4 DEF Request, Edit, EditRecovers, EditDisabled, Reload,
                  ReloadUnbound, Republish, Open, Panic
    <2>5. ASSUME NEW t \in Threads, ThreadStep(t)
          PROVE  UNCHANGED disk \/ \E f \in Files : WriteFile(t, f)
      BY <2>5 DEF ThreadStep, ReadFile, ReadFails, CheckFile, CheckRefuses,
                  WriteFails, ApplyNext, ApplyWhole, ApplyRefused, ApplyDone,
                  ApplyFails, ReadDone, Locate, Store, StoreResynced,
                  StoreRecovered, StoreReparsed, Reopened, BindStore, Bind
    <2>. QED
      BY <1>1, <2>1, <2>2, <2>3, <2>4, <2>5 DEF Next
  <1>2. IInv /\ [Next]_vars => [Step]_vars
    BY <1>1
  <1>. QED
    BY <1>2, Invariant, PTL DEF Spec, WritesOnlyTheRequest

-----------------------------------------------------------------------------
(* 2. AppState implements EditService. *)

(* What a request has written, thread by thread. *)

HasWritten(t) ==
    \/ pc[t] \in {"write", "resync"}
    \/ pc[t] \in {"locate", "store"} /\ task[t].why \in {"saved", "resynced"}

Wrote(t) ==
    /\ task[t].edits # {} => \/ Editing(t)
                             \/ pc[t] = "recover"
                             \/ pc[t] \in {"locate", "store"}
    /\ pc[t] = "write" => wrote = Touched(task[t].edits) \ editor.dirty

LEMMA WroteByThread ==
    WroteWhat <=> /\ \A t \in Threads : Wrote(t)
                  /\ (\A t \in Threads : ~HasWritten(t)) => wrote = {}
  BY DEF WroteWhat, Wrote, HasWritten

LEMMA WroteByThreadNext ==
    WroteWhat' <=> /\ \A t \in Threads : Wrote(t)'
                   /\ (\A t \in Threads : ~HasWritten(t)') => wrote' = {}
  BY DEF WroteWhat, Wrote, HasWritten

(* A step of one thread that writes no file. *)
LEMMA WritesNothing ==
    ASSUME IInv, WroteWhat, NEW t \in Threads, wrote' = wrote,
           lock \in {t, NoThread} \/ editor' = editor,
           \A u \in Threads \ {t} : pc'[u] = pc[u] /\ task'[u] = task[u],
           Wrote(t)', HasWritten(t) => HasWritten(t)'
    PROVE  WroteWhat'
  <1>1. ASSUME NEW u \in Threads \ {t} PROVE Wrote(u)'
    <2>1. pc[u] = "write" => lock = u
      BY DEF IInv, Mutex, Locked
    <2>2. pc[u] = "write" => editor' = editor
      BY <2>1, AppStateAssumption
    <2>. QED
      BY <2>2, WroteByThread DEF Wrote, Editing
  <1>2. \A u \in Threads : HasWritten(u) => HasWritten(u)'
    BY DEF HasWritten
  <1>. QED
    BY <1>1, <1>2, WroteByThread, WroteByThreadNext

(* A request that ends, or goes on with nothing written. *)
LEMMA ForgetsWrites ==
    ASSUME IInv, WroteWhat, NEW t \in Threads, wrote' = {}, lock = t,
           \A u \in Threads \ {t} : pc'[u] = pc[u] /\ task'[u] = task[u],
           pc'[t] = "idle", task'[t] = IdleTask
    PROVE  WroteWhat'
  <1>1. Wrote(t)'
    BY DEF Wrote, IdleTask
  <1>2. ASSUME NEW u \in Threads \ {t} PROVE Wrote(u)'
    <2>1. pc[u] # "write"
      BY AppStateAssumption DEF IInv, Mutex, Locked
    <2>. QED
      BY <2>1, WroteByThread DEF Wrote, Editing
  <1>. QED
    BY <1>1, <1>2, WroteByThreadNext

LEMMA ReturnForgets ==
    ASSUME IInv, WroteWhat, NEW t \in Threads, pc[t] \in Locked, Return(t)
    PROVE  WroteWhat'
  <1>1. lock = t
    BY DEF IInv, Mutex
  <1>2. /\ wrote' = {} /\ pc'[t] = "idle" /\ task'[t] = IdleTask
        /\ \A u \in Threads \ {t} : pc'[u] = pc[u] /\ task'[u] = task[u]
    BY DEF IInv, TypeOK, Return, Goto
  <1>. QED
    BY <1>1, <1>2, ForgetsWrites

LEMMA InitWrote == Init => WroteWhat
  BY DEF Init, WroteWhat, IdleTask

LEMMA ThreadWrote ==
    ASSUME IInv, WroteWhat, NEW t \in Threads, ThreadStep(t)
    PROVE  WroteWhat'
  <1>0. /\ pc \in [Threads -> Label] /\ task \in [Threads -> Task]
        /\ (pc[t] \in Locked <=> lock = t) /\ Wrote(t) /\ task[t] \in Task
        /\ t # NoThread /\ Stage(t)
    BY WroteByThread, InvOfStages, AppStateAssumption DEF IInv, TypeOK, Mutex
  <1>1. ASSUME NEW f \in Files, ReadFile(t, f) PROVE WroteWhat'
    <2>1. /\ UNCHANGED <<pc, editor, wrote>>
          /\ task'[t].edits = task[t].edits /\ task'[t].why = task[t].why
          /\ \A u \in Threads \ {t} : task'[u] = task[u]
          /\ pc[t] # "write"
      BY <1>0, <1>1 DEF ReadFile, Reading
    <2>. QED
      BY <1>0, <2>1, WritesNothing DEF Wrote, HasWritten, Editing
  <1>2. ASSUME NEW f \in Files, ReadFails(t, f) PROVE WroteWhat'
    <2>1. /\ pc'[t] = "idle" /\ task'[t] = IdleTask /\ editor' = editor
          /\ \A u \in Threads \ {t} : pc'[u] = pc[u] /\ task'[u] = task[u]
      BY <1>0, <1>2 DEF ReadFails, Goto
    <2>2. CASE pc[t] \in Locked
      BY <1>0, <1>2, <2>1, <2>2, ForgetsWrites DEF ReadFails
    <2>3. CASE pc[t] \notin Locked
      <3>1. wrote' = wrote /\ ~HasWritten(t)
        BY <1>2, <2>3 DEF ReadFails, Locked, HasWritten
      <3>. QED
        BY <2>1, <3>1, WritesNothing DEF Wrote, IdleTask
    <2>. QED
      BY <2>2, <2>3
  <1>3. ASSUME NEW f \in Files, CheckFile(t, f) PROVE WroteWhat'
    <2>1. /\ UNCHANGED <<editor, wrote>> /\ lock = t
          /\ pc[t] = "check" /\ pc'[t] \in {"check", "write"}
          /\ \A u \in Threads \ {t} : pc'[u] = pc[u] /\ task'[u] = task[u]
          /\ task'[t].edits = task[t].edits
      BY <1>0, <1>3 DEF CheckFile, Goto, Locked
    <2>2. wrote = {}
      <3>1. \A u \in Threads : ~HasWritten(u)
        BY <2>1 DEF HasWritten, IInv, Mutex, Locked
      <3>. QED
        BY <3>1, WroteByThread
    <2>3. editor.dirty = Touched(task[t].edits)
      BY <1>0, <2>1 DEF Stage, Draft
    <2>4. Wrote(t)'
      BY <2>1, <2>2, <2>3 DEF Wrote, Editing
    <2>. QED
      BY <2>1, <2>4, WritesNothing DEF HasWritten
  <1>4. ASSUME NEW f \in Files, CheckRefuses(t, f) \/ WriteFails(t, f)
        PROVE  WroteWhat'
    <2>1. /\ UNCHANGED <<editor, wrote>> /\ pc'[t] = "resync"
          /\ \A u \in Threads \ {t} : pc'[u] = pc[u] /\ task'[u] = task[u]
      BY <1>0, <1>4 DEF CheckRefuses, WriteFails, StartReading
    <2>. QED
      BY <2>1, WritesNothing DEF Wrote, HasWritten, Editing
  <1>5. ASSUME NEW f \in Files, WriteFile(t, f) PROVE WroteWhat'
    <2>1. /\ wrote' = wrote \cup {f} /\ pc[t] = "write" /\ f \in task[t].left
          /\ Goto(t, IF task[t].left = {f} THEN "locate" ELSE "write")
          /\ task' = [task EXCEPT ![t] =
                        [task[t] EXCEPT !.left = task[t].left \ {f}]]
          /\ editor'.dirty = editor.dirty \ {f}
      <3>1. editor \in Editor
        BY DEF IInv, TypeOK
      <3>. QED
        BY <1>5, <3>1 DEF WriteFile, Editor
    <2>2. /\ pc'[t] \in {"locate", "write"}
          /\ \A u \in Threads \ {t} : pc'[u] = pc[u] /\ task'[u] = task[u]
          /\ task'[t] = [task[t] EXCEPT !.left = task[t].left \ {f}]
      BY <1>0, <2>1 DEF Goto
    <2>3. task'[t].edits = task[t].edits /\ task'[t].why = task[t].why
      BY <1>0, <2>2 DEF Task
    <2>4. /\ wrote = Touched(task[t].edits) \ editor.dirty
          /\ f \in editor.dirty /\ editor.dirty \subseteq Touched(task[t].edits)
          /\ task[t].why = "saved"
      BY <1>0, <2>1 DEF Wrote, Stage
    <2>5. wrote' = Touched(task'[t].edits) \ editor'.dirty
      BY <2>1, <2>3, <2>4
    <2>6. Wrote(t)' /\ HasWritten(t)'
      BY <2>2, <2>3, <2>4, <2>5 DEF Wrote, HasWritten, Editing
    <2>7. ASSUME NEW u \in Threads \ {t} PROVE Wrote(u)'
      <3>1. pc[u] # "write"
        BY <1>0, <2>1 DEF IInv, Mutex, Locked
      <3>. QED
        BY <2>2, <3>1, WroteByThread DEF Wrote, Editing
    <2>. QED
      BY <2>6, <2>7, WroteByThreadNext
  <1>6. ASSUME NEW edit \in Files \X Marks, ApplyNext(t, edit) PROVE WroteWhat'
    <2>1. /\ UNCHANGED <<pc, wrote>> /\ pc[t] = "apply" /\ lock = t
          /\ \A u \in Threads \ {t} : task'[u] = task[u]
      BY <1>0, <1>6 DEF ApplyNext, Locked
    <2>. QED
      BY <2>1, WritesNothing DEF Wrote, HasWritten, Editing
  <1>7. CASE ApplyWhole(t) \/ ApplyDone(t)
    <2>1. /\ wrote' = wrote /\ pc[t] = "apply" /\ lock = t
          /\ \E dirty : ToSave(t, dirty)
      BY <1>0, <1>7 DEF ApplyWhole, ApplyDone, Locked
    <2>2. /\ pc'[t] \in {"locate", "check"} /\ task'[t].edits = task[t].edits
          /\ \A u \in Threads \ {t} : pc'[u] = pc[u] /\ task'[u] = task[u]
      BY <1>0, <2>1 DEF ToSave, Goto
    <2>. QED
      BY <2>1, <2>2, WritesNothing DEF Wrote, HasWritten, Editing
  <1>8. CASE ApplyRefused(t)
    BY <1>8, ReturnForgets DEF ApplyRefused, Locked
  <1>9. CASE ApplyFails(t)
    <2>1. /\ UNCHANGED <<editor, wrote>> /\ pc'[t] = "resync"
          /\ \A u \in Threads \ {t} : pc'[u] = pc[u] /\ task'[u] = task[u]
      BY <1>0, <1>9 DEF ApplyFails, StartReading
    <2>. QED
      BY <2>1, WritesNothing DEF Wrote, HasWritten, Editing
  <1>10. CASE ReadDone(t)
    <2>1. /\ UNCHANGED <<editor, wrote>>
          /\ \A u \in Threads \ {t} : pc'[u] = pc[u] /\ task'[u] = task[u]
          /\ task'[t].edits = task[t].edits
          /\ \/ pc[t] = "resync" /\ pc'[t] = "locate" /\ task'[t].why = "resynced"
             \/ pc[t] = "recover" /\ pc'[t] = "locate"
             \/ pc[t] = "reparse" /\ pc'[t] = "locateFree"
      BY <1>0, <1>10 DEF ReadDone, Goto
    <2>. QED
      BY <1>0, <2>1, WritesNothing DEF Wrote, HasWritten, Editing
  <1>11. CASE Locate(t)
    <2>1. /\ UNCHANGED <<editor, wrote>>
          /\ \A u \in Threads \ {t} : pc'[u] = pc[u] /\ task'[u] = task[u]
          /\ task'[t].edits = task[t].edits /\ task'[t].why = task[t].why
          /\ \/ pc[t] = "locate" /\ pc'[t] = "store"
             \/ pc[t] = "locateFree" /\ pc'[t] = "storeFree"
      BY <1>0, <1>11 DEF Locate, Goto
    <2>. QED
      BY <1>0, <2>1, WritesNothing DEF Wrote, HasWritten, Editing
  <1>12. CASE Store(t) \/ StoreResynced(t) \/ Reopened(t)
    BY <1>12, ReturnForgets DEF Store, StoreResynced, Reopened, Locked
  <1>13. CASE StoreRecovered(t)
    <2>1. /\ wrote' = wrote /\ lock = t /\ pc'[t] = "apply" /\ ~HasWritten(t)
          /\ \A u \in Threads \ {t} : pc'[u] = pc[u] /\ task'[u] = task[u]
      BY <1>0, <1>13 DEF StoreRecovered, Goto, Locked, HasWritten
    <2>. QED
      BY <2>1, WritesNothing DEF Wrote, Editing
  <1>14. CASE StoreReparsed(t) \/ Bind(t)
    <2>1. /\ wrote' = wrote /\ pc'[t] = "idle" /\ task'[t] = IdleTask
          /\ lock = NoThread \/ editor' = editor
          /\ ~HasWritten(t)
          /\ \A u \in Threads \ {t} : pc'[u] = pc[u] /\ task'[u] = task[u]
      BY <1>0, <1>14 DEF StoreReparsed, Bind, Goto, HasWritten
    <2>. QED
      BY <2>1, WritesNothing DEF Wrote, IdleTask
  <1>15. CASE BindStore(t)
    <2>1. /\ UNCHANGED <<wrote, editor, task>> /\ pc[t] = "open"
          /\ pc'[t] = "bind" /\ \A u \in Threads \ {t} : pc'[u] = pc[u]
      BY <1>0, <1>15 DEF BindStore, Goto
    <2>. QED
      BY <1>0, <2>1, WritesNothing DEF Wrote, HasWritten, Editing
  <1>. QED
    BY <1>1, <1>2, <1>3, <1>4, <1>5, <1>6, <1>7, <1>8, <1>9, <1>10, <1>11,
       <1>12, <1>13, <1>14, <1>15 DEF ThreadStep

LEMMA RequestWrote ==
    ASSUME IInv, WroteWhat, NEW t \in Threads, Request(t)
    PROVE  WroteWhat'
  <1> DEFINE Others == \A u \in Threads \ {t} :
                          pc'[u] = pc[u] /\ task'[u] = task[u]
             Starts == \/ pc'[t] \in {"apply", "recover", "store"}
                       \/ task'[t].edits = task[t].edits /\ pc'[t] # "write"
             Begins == /\ UNCHANGED <<wrote, editor>> /\ pc[t] = "idle"
                       /\ Others /\ Starts
  <1>0. /\ pc \in [Threads -> Label] /\ task \in [Threads -> Task]
        /\ task[t] \in Task /\ Wrote(t)
    BY WroteByThread DEF IInv, TypeOK
  <1>1. ASSUME NEW edits \in Edits, NEW whole \in BOOLEAN,
               Edit(t, edits, whole) \/ EditRecovers(t, edits, whole)
        PROVE  Begins
    <2>1. /\ UNCHANGED <<wrote, editor>> /\ pc[t] = "idle"
          /\ \/ pc' = [pc EXCEPT ![t] = "apply"]
             \/ pc' = [pc EXCEPT ![t] = "recover"]
      BY <1>1 DEF Edit, EditRecovers, Goto, Asks
    <2>2. \A u \in Threads \ {t} : task'[u] = task[u]
      BY <1>0, <1>1 DEF Edit, EditRecovers
    <2>. QED
      BY <1>0, <2>1, <2>2
  <1>2. ASSUME EditDisabled(t)
        PROVE  Begins
    BY <1>0, <1>2 DEF EditDisabled, Asks
  <1>3. ASSUME NEW home \in Journals, NEW label \in {"open", "reopen", "reparse"},
               Asks(t, "open") \/ Asks(t, "reload"), UNCHANGED <<wrote, editor>>,
               StartReading(t, home, label)
        PROVE  Begins
    BY <1>0, <1>3 DEF StartReading, Asks, Task
  <1>4. ASSUME Reload(t) \/ ReloadUnbound(t)
        PROVE  Begins
    BY <1>3, <1>4 DEF Reload, ReloadUnbound, IInv, TypeOK, Editor, Snapshot
  <1>5. ASSUME \E home \in Journals : Open(t, home)
        PROVE  Begins
    BY <1>3, <1>5 DEF Open
  <1>6. ASSUME Republish(t)
        PROVE  Begins
    BY <1>0, <1>6 DEF Republish, Goto, Asks
  <1>7. Begins
    BY <1>1, <1>2, <1>4, <1>5, <1>6 DEF Request
  <1>8. Wrote(t)' /\ ~HasWritten(t)
    BY <1>0, <1>7 DEF Wrote, HasWritten, Editing
  <1>. QED
    BY <1>7, <1>8, WritesNothing

LEMMA NextWrote == IInv /\ WroteWhat /\ [Next]_vars => WroteWhat'
  <1> SUFFICES ASSUME IInv, WroteWhat, [Next]_vars PROVE WroteWhat'
    OBVIOUS
  <1>1. CASE UNCHANGED vars \/ External
    BY <1>1 DEF WroteWhat, Editing, vars, External, Break, Rewrite
  <1>2. ASSUME NEW t \in Threads, Panic(t) PROVE WroteWhat'
    BY <1>2, ReturnForgets DEF Panic
  <1>. QED
    BY <1>1, <1>2, ThreadWrote, RequestWrote DEF Next

-----------------------------------------------------------------------------
(* What the service sees of a state. *)

Shown == [j \in Journals |-> [f \in Files |-> disk[j][f].text]]
Pending == IF lock = NoThread THEN {}
           ELSE {edit \in task[lock].edits : edit[1] \notin wrote}

Answers == Service!Next \/ UNCHANGED Service!vars

LEMMA Seen == /\ Service!vars = <<Shown, Pending, external>>
              /\ Service!vars' = <<Shown', Pending', external'>>
  BY DEF Service!vars, Shown, Pending

LEMMA Unseen ==
    ASSUME UNCHANGED <<disk, external>>, Pending' = Pending
    PROVE  Answers
  BY Seen DEF Answers, Shown

(* A thread that stays inside or outside, with its edits kept. *)
LEMMA Carries ==
    ASSUME NEW t \in Threads, UNCHANGED <<disk, external, lock, wrote>>,
           \A u \in Threads \ {t} : task'[u] = task[u],
           lock \in Threads \cup {NoThread},
           lock = t => task'[t].edits = task[t].edits
    PROVE  Answers
  BY Unseen DEF Pending

LEMMA Returns ==
    ASSUME UNCHANGED <<disk, external>>, lock' = NoThread
    PROVE  Answers
  <1>1. Service!Abandon
    BY DEF Service!Abandon
  <1>. QED
    BY <1>1 DEF Answers, Service!Next

LEMMA NothingWritten == IInv /\ WroteWhat /\ lock = NoThread => wrote = {}
  BY AppStateAssumption DEF IInv, Mutex, WroteWhat, Locked

LEMMA ExternalAnswers ==
    ASSUME IInv, NEW j \in Journals, NEW f \in Files, NEW found \in Revision,
           Break(j, f) \/ Rewrite(j, f, found)
    PROVE  Answers
  <1>0. disk \in [Journals -> [Files -> Revision]] /\ external \in Nat
    BY DEF IInv, TypeOK
  <1>1. PICK new \in Revision : disk' = [disk EXCEPT ![j][f] = new]
    <2> DEFINE broken == [disk[j][f] EXCEPT !.readable = FALSE]
    <2>1. broken \in Revision
      <3>1. disk[j][f] \in Revision
        BY <1>0
      <3>. QED
        BY <3>1 DEF Revision
    <2>2. Break(j, f) => disk' = [disk EXCEPT ![j][f] = broken]
      BY <1>0 DEF Break
    <2>3. Rewrite(j, f, found) => disk' = [disk EXCEPT ![j][f] = found]
      BY DEF Rewrite
    <2> HIDE DEF broken
    <2>. QED
      BY <2>1, <2>2, <2>3
  <1>2. external' = external + 1 /\ UNCHANGED <<lock, task, wrote>>
    BY DEF Break, Rewrite
  <1>3. Shown' = [Shown EXCEPT ![j][f] = new.text] /\ new.text \in SUBSET Marks
    BY <1>0, <1>1 DEF Shown, Revision, Text
  <1>4. Service!Outside(j, f)
    BY <1>2, <1>3 DEF Service!Outside, Shown
  <1>. QED
    BY <1>4 DEF Answers, Service!Next

LEMMA WriteAnswers ==
    ASSUME IInv, WroteWhat, NEW t \in Threads, NEW f \in Files, WriteFile(t, f)
    PROVE  Answers
  <1> PICK home \in Journals : home = editor.home
    BY DEF IInv, TypeOK, Editor
  <1> DEFINE edits == task[t].edits
             mine == {m \in Marks : <<f, m>> \in edits}
  <1>0. /\ disk \in [Journals -> [Files -> Revision]]
        /\ task \in [Threads -> Task] /\ task[t] \in Task /\ Stage(t)
    BY InvOfStages DEF IInv, TypeOK, Editor
  <1>1. lock = t /\ t # NoThread /\ pc[t] = "write"
    BY AppStateAssumption DEF WriteFile, IInv, Mutex, Locked
  <1>2. /\ f \in editor.dirty /\ editor.dirty \subseteq Touched(edits)
        /\ editor.rope[f] = Toggle(RevTexts, edits)[f]
        /\ wrote = Touched(edits) \ editor.dirty
    BY <1>0, <1>1, WroteByThread DEF WriteFile, Stage, Wrote
  <1>3. /\ UNCHANGED <<lock, external>> /\ wrote' = wrote \cup {f}
        /\ task'[t].edits = edits
    BY <1>0 DEF WriteFile, budget, Task
  <1>4. PICK ino \in Inodes :
          disk' = [disk EXCEPT ![home][f] =
                     [text |-> editor.rope[f], ino |-> ino, readable |-> TRUE]]
    BY DEF WriteFile
  <1>5. editor.rope[f] = (disk[home][f].text \ mine) \cup (mine \ disk[home][f].text)
    BY <1>2 DEF WriteFile, Matches, Toggle, RevTexts
  <1>6. Shown' = [Shown EXCEPT ![home][f] = editor.rope[f]]
    BY <1>0, <1>4 DEF Shown
  <1>7. /\ Pending = {edit \in edits : edit[1] \notin wrote}
        /\ Pending' = {edit \in Pending : edit[1] # f}
    BY <1>1, <1>3 DEF Pending
  <1>8. {m \in Marks : <<f, m>> \in Pending} = mine /\ mine # {}
    BY <1>2, <1>7 DEF Touched
  <1>9. Service!Save(home, f)
    BY <1>3, <1>5, <1>6, <1>7, <1>8 DEF Service!Save, Service!EditsOf, Shown, Pending
  <1>. QED
    BY <1>9 DEF Answers, Service!Next

LEMMA RequestAnswers ==
    ASSUME IInv, WroteWhat, NEW t \in Threads, Request(t)
    PROVE  Answers
  <1>0. /\ task \in [Threads -> Task] /\ task[t] \in Task
        /\ lock \in Threads \cup {NoThread}
        /\ t # NoThread /\ UNCHANGED <<disk, external, wrote>>
        /\ pc[t] = "idle" /\ task[t].edits = {}
    <2>1. UNCHANGED <<disk, external, wrote>> /\ pc[t] = "idle"
      BY DEF Request, Edit, EditRecovers, EditDisabled, Reload, ReloadUnbound,
             Republish, Open, Asks
    <2>2. task[t].edits = {}
      BY <2>1, WroteByThread DEF Wrote, Editing
    <2>. QED
      BY <2>1, <2>2, AppStateAssumption DEF IInv, TypeOK
  <1>1. ASSUME NEW edits \in Edits, NEW whole \in BOOLEAN,
               Edit(t, edits, whole) \/ EditRecovers(t, edits, whole)
        PROVE  Answers
    <2>1. lock = NoThread /\ lock' = t /\ task'[t].edits = edits
      BY <1>0, <1>1 DEF Edit, EditRecovers, Task
    <2>2. wrote' = {}
      BY <1>0, <2>1, NothingWritten
    <2>3. Pending = {} /\ Pending' = edits
      BY <1>0, <2>1, <2>2 DEF Pending
    <2>4. Service!Accept(edits)
      BY <1>0, <2>3 DEF Service!Accept, Pending
    <2>. QED
      BY <2>4 DEF Answers, Service!Next, Edits
  <1>2. CASE EditDisabled(t)
    BY <1>0, <1>2, Carries DEF EditDisabled
  <1>3. CASE Reload(t) \/ Republish(t)
    <2>1. lock = NoThread /\ lock' = t
      BY <1>3 DEF Reload, Republish
    <2>2. task'[t].edits = {}
      <3>1. CASE Reload(t)
        BY <1>0, <3>1 DEF Reload, StartReading, Task
      <3>2. CASE Republish(t)
        BY <1>0, <3>2 DEF Republish, Task
      <3>. QED
        BY <1>3, <3>1, <3>2
    <2>3. Pending = {} /\ Pending' = {}
      BY <1>0, <2>1, <2>2 DEF Pending
    <2>. QED
      BY <1>0, <2>3, Unseen
  <1>4. CASE ReloadUnbound(t) \/ \E home \in Journals : Open(t, home)
    <2>1. /\ lock' = lock /\ task'[t].edits = {}
          /\ \A u \in Threads \ {t} : task'[u] = task[u]
      BY <1>0, <1>4 DEF ReloadUnbound, Open, StartReading, Task
    <2>. QED
      BY <1>0, <2>1, Carries
  <1>. QED
    BY <1>1, <1>2, <1>3, <1>4 DEF Request

LEMMA ThreadAnswers ==
    ASSUME IInv, WroteWhat, NEW t \in Threads, ThreadStep(t)
    PROVE  Answers
  <1>0. /\ task \in [Threads -> Task] /\ task[t] \in Task
        /\ lock \in Threads \cup {NoThread}
        /\ (pc[t] \in Locked <=> lock = t)
    BY DEF IInv, TypeOK, Mutex
  <1>1. ASSUME NEW f \in Files,
               \/ ReadFile(t, f) \/ CheckFile(t, f)
               \/ CheckRefuses(t, f) \/ WriteFails(t, f)
        PROVE  Answers
    <2>1. /\ UNCHANGED <<disk, external, lock, wrote>>
          /\ \A u \in Threads \ {t} : task'[u] = task[u]
      BY <1>0, <1>1
         DEF ReadFile, CheckFile, CheckRefuses, WriteFails, StartReading, budget
    <2>2. CASE ReadFile(t, f) \/ CheckFile(t, f)
      BY <1>0, <2>1, <2>2, Carries DEF ReadFile, CheckFile, Task
    <2>3. CASE CheckRefuses(t, f) \/ WriteFails(t, f)
      BY <1>0, <2>1, <2>3, Carries
         DEF CheckRefuses, WriteFails, StartReading, Task
    <2>. QED
      BY <1>1, <2>2, <2>3
  <1>2. ASSUME NEW f \in Files, ReadFails(t, f) PROVE Answers
    <2>1. UNCHANGED <<disk, external>>
          /\ \A u \in Threads \ {t} : task'[u] = task[u]
      BY <1>0, <1>2 DEF ReadFails, budget
    <2>2. CASE pc[t] \in Locked
      BY <1>2, <2>1, <2>2, Returns DEF ReadFails
    <2>3. CASE pc[t] \notin Locked
      BY <1>0, <1>2, <2>1, <2>3, Carries DEF ReadFails
    <2>. QED
      BY <2>2, <2>3
  <1>3. ASSUME NEW edit \in Files \X Marks, ApplyNext(t, edit) PROVE Answers
    BY <1>0, <1>3, Carries DEF ApplyNext, budget, Task
  <1>4. CASE ApplyWhole(t) \/ ApplyDone(t)
    <2>1. /\ UNCHANGED <<disk, external, lock, wrote>>
          /\ \E dirty : ToSave(t, dirty)
      BY <1>4 DEF ApplyWhole, ApplyDone, budget
    <2>2. /\ task'[t].edits = task[t].edits
          /\ \A u \in Threads \ {t} : task'[u] = task[u]
      BY <1>0, <2>1 DEF ToSave, Task
    <2>. QED
      BY <1>0, <2>1, <2>2, Carries
  <1>5. CASE ReadDone(t) \/ Locate(t)
    BY <1>0, <1>5, Carries DEF ReadDone, Locate, budget, Task
  <1>6. CASE ApplyRefused(t) \/ Store(t) \/ StoreResynced(t) \/ Reopened(t)
    BY <1>6, Returns DEF ApplyRefused, Store, StoreResynced, Reopened, Return, budget
  <1>7. CASE StoreRecovered(t)
    BY <1>0, <1>7, Carries DEF StoreRecovered, budget, Task
  <1>8. CASE StoreReparsed(t) \/ BindStore(t) \/ Bind(t)
    BY <1>0, <1>8, Carries DEF StoreReparsed, BindStore, Bind, budget, Locked
  <1>9. CASE ApplyFails(t)
    BY <1>0, <1>9, Carries DEF ApplyFails, StartReading, budget, Task
  <1>. QED
    BY <1>1, <1>2, <1>3, <1>4, <1>5, <1>6, <1>7, <1>8, <1>9, WriteAnswers
       DEF ThreadStep

LEMMA NextAnswers == IInv /\ WroteWhat /\ [Next]_vars => Answers
  <1> SUFFICES ASSUME IInv, WroteWhat, [Next]_vars PROVE Answers
    OBVIOUS
  <1>1. CASE UNCHANGED vars
    BY <1>1, Unseen DEF vars, Pending
  <1>2. CASE External
    <2>1. PICK j \in Journals, f \in Files :
            Break(j, f) \/ \E found \in Revision : Rewrite(j, f, found)
      BY <1>2 DEF External
    <2>2. disk[j][f] \in Revision
      BY DEF IInv, TypeOK
    <2>. QED
      BY <2>1, <2>2, ExternalAnswers
  <1>3. ASSUME NEW t \in Threads, Panic(t) PROVE Answers
    BY <1>3, Returns DEF Panic, Return
  <1>. QED
    BY <1>1, <1>2, <1>3, ThreadAnswers, RequestAnswers DEF Next

LEMMA InitAnswers == Init => Service!Init
  BY DEF Init, Service!Init, Blank, Pending

(* Whatever other programs do to the files, a request changes no file but    *)
(* those it names, each at most once, by exactly its own edits, on top of    *)
(* what the file said at that moment (edit.rs save, edit_api.rs lock_editor, *)
(* save_and_publish and resync_from_disk).                                   *)
THEOREM Implements == Spec => ImplementsService
  <1>1. Init => WroteWhat
    BY InitWrote
  <1>2. IInv /\ WroteWhat /\ [Next]_vars => WroteWhat'
    BY NextWrote
  <1>3. IInv /\ WroteWhat /\ [Next]_vars => [Service!Next]_Service!vars
    BY NextAnswers DEF Answers
  <1>4. Init => Service!Init
    BY InitAnswers
  <1>. QED
    BY <1>1, <1>2, <1>3, <1>4, Invariant, PTL
       DEF Spec, ImplementsService, Service!Spec

-----------------------------------------------------------------------------
(* 3. What readers are served. *)

(* Every text in memory was read from the disk, or written to it, before it  *)
(* is served.                                                                *)

WasOnDisk(home, texts) == \A f \in Files : texts[f] \in onDisk[home][f]

(* Stages at which a thread holds a whole journal it has read. *)
HoldsReads(t) ==
    \/ pc[t] \in {"bind", "locateFree"}
    \/ pc[t] \in {"locate", "store"} /\ task[t].why \in {"resynced", "recovered"}

(* What a thread has read, and what it is about to serve. *)
CarriesTheDisk(t) ==
    /\ pc[t] \in Reading => \A f \in Files \ task[t].left :
                              task[t].read[f].text \in onDisk[task[t].home][f]
    /\ HoldsReads(t) => \A f \in Files : task[t].read[f].text \in onDisk[task[t].home][f]
    /\ pc[t] = "locateFree" => task[t].why = "reparsed"
    /\ pc[t] \in {"store", "storeFree"} => WasOnDisk(task[t].view.home, task[t].view.text)

FilesAreRecorded ==
    \A j \in Journals, f \in Files : disk[j][f].text \in onDisk[j][f]

EditorWasOnDisk == WasOnDisk(editor.home, RevTexts)

PoisonIsPanic == panics <= MaxPanics /\ (poisoned => panics > 0)

DiskInv ==
    /\ IInv /\ FilesAreRecorded /\ EditorWasOnDisk /\ PoisonIsPanic
    /\ ServedWasOnDisk
    /\ \A t \in Threads : CarriesTheDisk(t)

-----------------------------------------------------------------------------
(* With one journal, what is served is the editor's but while a request is   *)
(* between changing the one and the other.                                   *)

Diverging(t) ==
    \/ pc[t] \in {"check", "write", "resync"}
    \/ pc[t] = "apply" /\ ~task[t].whole
    \/ pc[t] \in {"locate", "store"} /\ task[t].why \in {"saved", "resynced"}

(* What a thread inside is about to serve. *)
OffersTheEditors(t) ==
    pc[t] = "store" =>
        CASE task[t].why = "conf"  -> bound => task[t].view = EditorView(Home)
          [] task[t].why = "saved" -> task[t].view = EditorView(Home)
          [] OTHER                 -> task[t].view = ReadView(t, Home)

(* A thread outside publishes only where there is no editor. *)
AtHome(t) ==
    /\ task[t].home = Home
    /\ pc[t] \notin {"open", "bind"}
    /\ pc[t] \in {"reparse", "locateFree", "storeFree"} => ~bound
    /\ pc[t] \in {"store", "storeFree"} => task[t].view.location = Home

EditorIsServed ==
    bound /\ ~poisoned /\ (\A t \in Threads : ~Diverging(t))
        => snapshot = EditorView(Home)

OneJournalInv ==
    /\ IInv
    /\ editor.home = Home /\ snapshot.location = Home
    /\ EditorIsServed
    /\ \A t \in Threads : AtHome(t) /\ OffersTheEditors(t)

-----------------------------------------------------------------------------
(* One thread at a time. *)

Acts(t) == ThreadStep(t) \/ Request(t) \/ Panic(t)

LEMMA OthersStay ==
    ASSUME TypeOK, NEW t \in Threads, Acts(t)
    PROVE  \A u \in Threads \ {t} : pc'[u] = pc[u] /\ task'[u] = task[u]
  BY DEF TypeOK, Acts, ThreadStep, Request, Panic, ReadFile, ReadFails, CheckFile,
         CheckRefuses, WriteFile, WriteFails, ApplyNext, ApplyWhole, ApplyRefused,
         ApplyDone, ApplyFails, ReadDone, Locate, Store, StoreResynced,
         StoreRecovered, StoreReparsed, Reopened, BindStore, Bind, Edit,
         EditRecovers, EditDisabled, Reload, ReloadUnbound, Republish, Open,
         Return, StartReading, ToSave, Goto

LEMMA NobodyActs ==
    ASSUME External
    PROVE  UNCHANGED <<bound, editor, snapshot, lock, poisoned, pc, task, panics>>
  BY DEF External, Break, Rewrite

(* The editor is changed under the mutex, or while nobody holds it. *)
LEMMA EditorIsGuarded ==
    ASSUME IInv, NEW t \in Threads, Acts(t)
    PROVE  editor' = editor \/ \A u \in Threads \ {t} : pc[u] \notin Locked
  <1>1. editor' = editor \/ pc[t] \in Locked \/ lock = NoThread
    BY DEF Acts, ThreadStep, Request, Panic, ReadFile, ReadFails, CheckFile,
           CheckRefuses, WriteFile, WriteFails, ApplyNext, ApplyWhole, ApplyRefused,
           ApplyDone, ApplyFails, ReadDone, Locate, Store, StoreResynced,
           StoreRecovered, StoreReparsed, Reopened, BindStore, Bind, Edit,
           EditRecovers, EditDisabled, Reload, ReloadUnbound, Republish, Open, Locked
  <1>. QED
    BY <1>1, AppStateAssumption DEF IInv, Mutex

-----------------------------------------------------------------------------
(* The record of the disk only grows, and covers it. *)

(* A write of ours, or another program's: nothing else touches the files. *)
LEMMA WhatChangesFiles ==
    ASSUME [Next]_vars
    PROVE  \/ UNCHANGED <<disk, onDisk>>
           \/ \E t \in Threads, f \in Files : WriteFile(t, f)
           \/ \E j \in Journals, f \in Files :
                Break(j, f) \/ \E found \in Revision : Rewrite(j, f, found)
  <1>1. ASSUME NEW t \in Threads, Request(t) \/ Panic(t) PROVE UNCHANGED <<disk, onDisk>>
    BY <1>1 DEF Request, Edit, EditRecovers, EditDisabled, Reload, ReloadUnbound,
                Republish, Open, Panic
  <1>2. ASSUME NEW t \in Threads, ThreadStep(t)
        PROVE  UNCHANGED <<disk, onDisk>> \/ \E f \in Files : WriteFile(t, f)
    BY <1>2 DEF ThreadStep, ReadFile, ReadFails, CheckFile, CheckRefuses, WriteFails,
                ApplyNext, ApplyWhole, ApplyRefused, ApplyDone, ApplyFails, ReadDone,
                Locate, Store, StoreResynced, StoreRecovered, StoreReparsed, Reopened,
                BindStore, Bind
  <1>. QED
    BY <1>1, <1>2 DEF Next, vars, External

LEMMA RecordGrows ==
    ASSUME TypeOK, [Next]_vars
    PROVE  \A j \in Journals, f \in Files : onDisk[j][f] \subseteq onDisk'[j][f]
  <1>2. ASSUME NEW t \in Threads, NEW f \in Files, WriteFile(t, f)
        PROVE  onDisk' = [onDisk EXCEPT ![editor.home][f] = @ \cup {editor.rope[f]}]
               /\ editor.home \in Journals
    BY <1>2 DEF WriteFile, TypeOK, Editor
  <1>3. ASSUME NEW j \in Journals, NEW f \in Files, NEW found, Rewrite(j, f, found)
        PROVE  onDisk' = [onDisk EXCEPT ![j][f] = @ \cup {found.text}]
    BY <1>3 DEF Rewrite
  <1>4. CASE \E t \in Threads, f \in Files : WriteFile(t, f)
    <2>1. PICK t \in Threads, f \in Files : WriteFile(t, f)
      BY <1>4
    <2>2. /\ onDisk' = [onDisk EXCEPT ![editor.home][f] = @ \cup {editor.rope[f]}]
          /\ editor.home \in Journals
      BY <1>2, <2>1
    <2>. QED
      BY <2>2 DEF TypeOK
  <1>5. CASE \E j \in Journals, f \in Files, found \in Revision : Rewrite(j, f, found)
    <2>1. PICK j \in Journals, f \in Files, found \in Revision : Rewrite(j, f, found)
      BY <1>5
    <2>2. onDisk' = [onDisk EXCEPT ![j][f] = @ \cup {found.text}]
      BY <1>3, <2>1
    <2>. QED
      BY <2>2 DEF TypeOK
  <1>6. CASE UNCHANGED onDisk
    BY <1>6
  <1>7. ASSUME NEW j \in Journals, NEW f \in Files, Break(j, f) PROVE UNCHANGED onDisk
    BY <1>7 DEF Break
  <1>. QED
    BY <1>4, <1>5, <1>6, <1>7, WhatChangesFiles

LEMMA FilesStayRecorded ==
    ASSUME DiskInv, [Next]_vars
    PROVE  FilesAreRecorded'
  <1>1. ASSUME NEW t \in Threads, NEW f \in Files, WriteFile(t, f)
        PROVE  FilesAreRecorded'
    <2>1. editor.home \in Journals
      BY DEF DiskInv, IInv, TypeOK, Editor
    <2>2. PICK ino \in Inodes :
            disk' = [disk EXCEPT ![editor.home][f] =
                       [text |-> editor.rope[f], ino |-> ino, readable |-> TRUE]]
      BY <1>1 DEF WriteFile
    <2>3. onDisk' = [onDisk EXCEPT ![editor.home][f] = @ \cup {editor.rope[f]}]
      BY <1>1 DEF WriteFile
    <2>. QED
      BY <2>1, <2>2, <2>3 DEF DiskInv, IInv, TypeOK, FilesAreRecorded
  <1>2. ASSUME NEW j \in Journals, NEW f \in Files, NEW found, Rewrite(j, f, found)
        PROVE  FilesAreRecorded'
    BY <1>2 DEF Rewrite, DiskInv, IInv, TypeOK, FilesAreRecorded
  <1>3. ASSUME NEW j \in Journals, NEW f \in Files, Break(j, f)
        PROVE  FilesAreRecorded'
    <2>1. disk[j][f] \in Revision
      BY DEF DiskInv, IInv, TypeOK
    <2>2. /\ disk' = [disk EXCEPT ![j][f] = [@ EXCEPT !.readable = FALSE]]
          /\ onDisk' = onDisk
      BY <1>3 DEF Break
    <2>3. [disk[j][f] EXCEPT !.readable = FALSE].text = disk[j][f].text
      BY <2>1 DEF Revision
    <2>. QED
      BY <2>2, <2>3 DEF DiskInv, IInv, TypeOK, FilesAreRecorded
  <1>. QED
    BY <1>1, <1>2, <1>3, WhatChangesFiles DEF DiskInv, FilesAreRecorded
-----------------------------------------------------------------------------
(* What a thread carries: one lemma per way it can move. *)

(* A thread that does not move still carries what it did. *)
LEMMA CarriedStays ==
    ASSUME DiskInv, [Next]_vars, NEW u \in Threads,
           pc'[u] = pc[u], task'[u] = task[u]
    PROVE  CarriesTheDisk(u)'
  <1>1. task[u].home \in Journals /\ task[u].view.home \in Journals
    BY DEF DiskInv, IInv, TypeOK, Task, Snapshot
  <1>2. \A j \in Journals, f \in Files : onDisk[j][f] \subseteq onDisk'[j][f]
    BY RecordGrows DEF DiskInv, IInv
  <1>. QED
    BY <1>1, <1>2 DEF DiskInv, CarriesTheDisk, HoldsReads, WasOnDisk, Reading

(* Nothing is carried into these stages, ... *)
LEMMA NothingCarried ==
    ASSUME NEW t \in Threads,
           \/ pc'[t] \in {"idle", "apply", "check", "write"}
           \/ pc'[t] = "locate" /\ task'[t].why = "saved"
    PROVE  CarriesTheDisk(t)'
  BY DEF CarriesTheDisk, HoldsReads, Reading

(* ... nor into a reading that has not begun. *)
LEMMA NothingReadYet ==
    ASSUME NEW t \in Threads, pc'[t] \in Reading, task'[t].left = Files
    PROVE  CarriesTheDisk(t)'
  BY DEF CarriesTheDisk, HoldsReads, Reading

LEMMA StartsWithNothing ==
    ASSUME TypeOK, NEW t \in Threads, NEW home, NEW label \in Reading,
           StartReading(t, home, label)
    PROVE  CarriesTheDisk(t)'
  <1>1. pc'[t] \in Reading
    BY DEF StartReading, TypeOK
  <1>2. task[t] \in Task
    BY DEF TypeOK
  <1>3. task' = [task EXCEPT ![t] = [task[t] EXCEPT !.home = home, !.left = Files]]
    BY DEF StartReading
  <1>4. task'[t].left = Files
    BY <1>2, <1>3 DEF TypeOK, Task
  <1>. QED
    BY <1>1, <1>4, NothingReadYet

LEMMA ReadCarries ==
    ASSUME DiskInv, [Next]_vars, NEW t \in Threads, NEW f \in Files, ReadFile(t, f)
    PROVE  CarriesTheDisk(t)'
  <1>1. /\ task[t] \in Task /\ task[t].home \in Journals
        /\ task[t].read \in [Files -> Revision]
    BY DEF DiskInv, IInv, TypeOK, Task
  <1>2. pc'[t] \in Reading /\ pc[t] \in Reading
    BY DEF ReadFile
  <1>3. /\ task'[t].home = task[t].home /\ task'[t].left = task[t].left \ {f}
        /\ task'[t].read = [task[t].read EXCEPT ![f] = disk[task[t].home][f]]
    BY <1>1 DEF ReadFile, DiskInv, IInv, TypeOK, Task
  <1>4. ASSUME NEW g \in Files \ task'[t].left
        PROVE  task'[t].read[g].text \in onDisk'[task'[t].home][g]
    <2>1. onDisk' = onDisk
      BY DEF ReadFile
    <2>2. CASE g = f
      BY <1>1, <1>3, <2>1, <2>2 DEF DiskInv, FilesAreRecorded
    <2>3. CASE g # f
      BY <1>1, <1>2, <1>3, <2>1, <2>3 DEF DiskInv, CarriesTheDisk
    <2>. QED
      BY <2>2, <2>3
  <1>. QED
    BY <1>2, <1>4 DEF CarriesTheDisk, HoldsReads, Reading

LEMMA ReadDoneCarries ==
    ASSUME DiskInv, NEW t \in Threads, ReadDone(t)
    PROVE  CarriesTheDisk(t)'
  <1>1. task[t] \in Task /\ pc[t] \in Reading /\ task[t].left = {} /\ onDisk' = onDisk
    BY DEF DiskInv, IInv, TypeOK, ReadDone, Reading
  <1>2. \A f \in Files : task[t].read[f].text \in onDisk[task[t].home][f]
    BY <1>1 DEF DiskInv, CarriesTheDisk
  <1>3. task'[t].read = task[t].read /\ task'[t].home = task[t].home
    BY <1>1 DEF DiskInv, IInv, TypeOK, ReadDone, Task
  <1>4. \/ pc'[t] = "locateFree" /\ task'[t].why = "reparsed"
        \/ pc'[t] = "locate"
    BY <1>1 DEF DiskInv, IInv, TypeOK, ReadDone, Goto, Task
  <1>. QED
    BY <1>1, <1>2, <1>3, <1>4 DEF CarriesTheDisk, Reading

LEMMA BindStoreCarries ==
    ASSUME DiskInv, NEW t \in Threads, BindStore(t)
    PROVE  CarriesTheDisk(t)'
  <1>1. pc[t] \in Reading /\ task[t].left = {} /\ UNCHANGED <<task, onDisk>>
    BY DEF BindStore, Reading
  <1>2. pc'[t] = "bind"
    BY DEF BindStore, Goto, DiskInv, IInv, TypeOK
  <1>. QED
    BY <1>1, <1>2 DEF DiskInv, CarriesTheDisk, Reading, HoldsReads

(* What is published is the editor's, clean, or what was read. *)
LEMMA LocateCarries ==
    ASSUME DiskInv, NEW t \in Threads, Locate(t)
    PROVE  CarriesTheDisk(t)'
  <1>1. task[t] \in Task /\ onDisk' = onDisk /\ pc[t] \in {"locate", "locateFree"}
    BY DEF DiskInv, IInv, TypeOK, Locate
  <1>2. /\ task'[t].why = task[t].why /\ task'[t].home = task[t].home
        /\ task'[t].read = task[t].read
        /\ task'[t].view = IF task[t].why = "saved" THEN EditorView(snapshot.location)
                           ELSE ReadView(t, snapshot.location)
    BY <1>1 DEF DiskInv, IInv, TypeOK, Locate, Task
  <1>3. /\ pc'[t] = IF pc[t] = "locate" THEN "store" ELSE "storeFree"
    BY DEF DiskInv, IInv, TypeOK, Locate, Goto
  <1>4. WasOnDisk(task'[t].view.home, task'[t].view.text)
    <2>1. CASE task[t].why = "saved"
      <3>1. pc[t] = "locate"
        BY <1>1, <2>1 DEF DiskInv, CarriesTheDisk
      <3>2. /\ lock = t /\ ~Drafting(t) /\ bound /\ ~poisoned
        BY <2>1, <3>1
           DEF DiskInv, IInv, Mutex, Locked, Drafting, EditingIsBound, Editing
      <3>3. Clean
        BY <3>2, CleanInside DEF DiskInv
      <3>. QED
        BY <1>2, <2>1, <3>3 DEF DiskInv, EditorWasOnDisk, WasOnDisk, Clean, EditorView
    <2>2. CASE task[t].why # "saved"
      <3>1. HoldsReads(t)
        BY <1>1, <2>2 DEF DiskInv, IInv, PublishesFor, HoldsReads
      <3>. QED
        BY <1>2, <2>2, <3>1 DEF DiskInv, CarriesTheDisk, WasOnDisk, ReadView
    <2>. QED
      BY <2>1, <2>2
  <1>5. HoldsReads(t)' => HoldsReads(t)
    BY <1>1, <1>2, <1>3 DEF HoldsReads
  <1>. QED
    BY <1>1, <1>2, <1>3, <1>4, <1>5 DEF DiskInv, CarriesTheDisk, Reading, WasOnDisk

(* A change of hledger.conf serves the editor's journal again: clean, as no   *)
(* holder of the mutex has panicked where these requests are made.           *)
LEMMA RepublishCarries ==
    ASSUME MaxPanics = 0 \/ "conf" \notin Requests, DiskInv, NEW t \in Threads, Republish(t)
    PROVE  CarriesTheDisk(t)'
  <1>1. task[t] \in Task /\ onDisk' = onDisk /\ lock = NoThread
    BY DEF DiskInv, IInv, TypeOK, Republish
  <1>2. /\ pc'[t] = "store" /\ task'[t].why = "conf"
        /\ task'[t].view = IF bound THEN EditorView(editor.home) ELSE snapshot
    BY <1>1 DEF DiskInv, IInv, TypeOK, Republish, Goto, Task
  <1>3. ~poisoned
    BY DEF Republish, Asks, DiskInv, PoisonIsPanic, IInv, TypeOK
  <1>4. bound => Clean
    <2>1. ~Drafting(t)
      BY <1>1, FreeMutex, UnlockedStage DEF DiskInv
    <2>. QED
      BY <1>1, <1>3, <2>1, CleanInside DEF DiskInv
  <1>5. WasOnDisk(task'[t].view.home, task'[t].view.text)
    BY <1>2, <1>4
       DEF DiskInv, EditorWasOnDisk, WasOnDisk, Clean, EditorView, ServedWasOnDisk
  <1>. QED
    BY <1>1, <1>2, <1>5 DEF CarriesTheDisk, HoldsReads, Reading, WasOnDisk
(* Any step of a thread. *)
LEMMA StepCarries ==
    ASSUME MaxPanics = 0 \/ "conf" \notin Requests, DiskInv, NEW t \in Threads, Acts(t)
    PROVE  CarriesTheDisk(t)'
  <1>0. /\ TypeOK /\ pc \in [Threads -> Label] /\ task \in [Threads -> Task]
        /\ task[t] \in Task /\ [Next]_vars
    BY DEF DiskInv, IInv, TypeOK, Next, Acts
  <1>1. ASSUME NEW f \in Files,
               ReadFails(t, f) \/ CheckFile(t, f)
        PROVE  CarriesTheDisk(t)'
    BY <1>0, <1>1, NothingCarried DEF ReadFails, CheckFile, Goto
  <1>2. ASSUME NEW f \in Files, CheckRefuses(t, f) \/ WriteFails(t, f)
        PROVE  CarriesTheDisk(t)'
    BY <1>0, <1>2, StartsWithNothing DEF CheckRefuses, WriteFails, Reading
  <1>3. ASSUME NEW f \in Files, WriteFile(t, f) PROVE CarriesTheDisk(t)'
    <2>1. task'[t].why = "saved" /\ pc'[t] \in {"locate", "write"}
      BY <1>0, <1>3 DEF WriteFile, Goto, Task, DiskInv, IInv, PublishesFor
    <2>. QED
      BY <2>1, NothingCarried
  <1>4. ASSUME NEW edit, ApplyNext(t, edit) PROVE CarriesTheDisk(t)'
    BY <1>0, <1>4, NothingCarried DEF ApplyNext
  <1>5. CASE ApplyWhole(t) \/ ApplyDone(t)
    <2>1. PICK dirty : ToSave(t, dirty)
      BY <1>5 DEF ApplyWhole, ApplyDone
    <2>2. task'[t].why = "saved" /\ pc'[t] \in {"locate", "check"}
      BY <1>0, <2>1 DEF ToSave, Goto, Task
    <2>. QED
      BY <2>2, NothingCarried
  <1>6. CASE ApplyRefused(t) \/ Store(t) \/ StoreResynced(t) \/ Reopened(t) \/ Panic(t)
    <2>1. pc'[t] = "idle"
      BY <1>0, <1>6
         DEF ApplyRefused, Store, StoreResynced, Reopened, Panic, Return, Goto
    <2>. QED
      BY <2>1, NothingCarried
  <1>7. CASE StoreRecovered(t) \/ StoreReparsed(t) \/ Bind(t)
    BY <1>0, <1>7, NothingCarried DEF StoreRecovered, StoreReparsed, Bind, Goto
  <1>8. CASE ApplyFails(t) \/ Reload(t) \/ ReloadUnbound(t)
    BY <1>0, <1>8, StartsWithNothing DEF ApplyFails, Reload, ReloadUnbound, Reading
  <1>9. ASSUME NEW home, Open(t, home) PROVE CarriesTheDisk(t)'
    BY <1>0, <1>9, StartsWithNothing DEF Open, Reading
  <1>10. ASSUME NEW edits, NEW whole, Edit(t, edits, whole)
         PROVE  CarriesTheDisk(t)'
    BY <1>0, <1>10, NothingCarried DEF Edit, Goto
  <1>11. ASSUME NEW edits, NEW whole, EditRecovers(t, edits, whole)
         PROVE  CarriesTheDisk(t)'
    <2>1. pc'[t] \in Reading
      BY <1>0, <1>11 DEF EditRecovers, Reading
    <2>2. task'[t].left = Files
      BY <1>0, <1>11 DEF EditRecovers, Task
    <2>. QED
      BY <2>1, <2>2, NothingReadYet
  <1>12. CASE EditDisabled(t)
    BY <1>0, <1>12, NothingCarried DEF EditDisabled, Asks
  <1>13. CASE Panic(t) \/ Request(t)
    BY <1>6, <1>8, <1>9, <1>10, <1>11, <1>12, <1>13, RepublishCarries DEF Request
  <1>14. CASE ThreadStep(t)
    BY <1>0, <1>1, <1>2, <1>3, <1>4, <1>5, <1>6, <1>7, <1>8, <1>14, ReadCarries,
       ReadDoneCarries, LocateCarries, BindStoreCarries DEF ThreadStep
  <1>. QED
    BY <1>13, <1>14 DEF Acts

-----------------------------------------------------------------------------
(* What the editor has, and what is served. *)

LEMMA HeldReads ==
    ASSUME DiskInv, NEW t \in Threads,
           \/ HoldsReads(t)
           \/ pc[t] \in Reading /\ task[t].left = {}
    PROVE  \A f \in Files : task[t].read[f].text \in onDisk[task[t].home][f]
  BY DEF DiskInv, CarriesTheDisk

LEMMA EditorStaysOnDisk ==
    ASSUME DiskInv, [Next]_vars
    PROVE  EditorWasOnDisk'
  <1>0. TypeOK /\ editor \in Editor /\ editor.home \in Journals
    BY DEF DiskInv, IInv, TypeOK, Editor
  <1>1. CASE editor'.home = editor.home /\ editor'.rev = editor.rev
    <2>1. \A j \in Journals, f \in Files : onDisk[j][f] \subseteq onDisk'[j][f]
      BY <1>0, RecordGrows
    <2>. QED
      BY <1>0, <1>1, <2>1 DEF DiskInv, EditorWasOnDisk, WasOnDisk, RevTexts
  <1>2. ASSUME NEW t \in Threads, NEW f \in Files, WriteFile(t, f)
        PROVE  EditorWasOnDisk'
    <2>1. PICK ino \in Inodes :
            editor' = [editor EXCEPT !.rev[f] = [text |-> editor.rope[f], ino |-> ino,
                                                 readable |-> TRUE],
                                     !.dirty = @ \ {f}]
      BY <1>2 DEF WriteFile
    <2>2. /\ editor'.home = editor.home
          /\ \A g \in Files : editor'.rev[g].text = IF g = f THEN editor.rope[f]
                                                    ELSE editor.rev[g].text
      BY <1>0, <2>1 DEF Editor
    <2>3. onDisk' = [onDisk EXCEPT ![editor.home][f] = @ \cup {editor.rope[f]}]
      BY <1>2 DEF WriteFile
    <2>4. \A g \in Files : editor'.rev[g].text \in onDisk'[editor.home][g]
      BY <1>0, <2>2, <2>3 DEF DiskInv, EditorWasOnDisk, WasOnDisk, RevTexts, TypeOK
    <2>. QED
      BY <2>2, <2>4 DEF EditorWasOnDisk, WasOnDisk, RevTexts
  <1>3. ASSUME NEW t \in Threads,
               StoreResynced(t) \/ StoreRecovered(t) \/ Reopened(t) \/ Bind(t)
        PROVE  EditorWasOnDisk'
    <2>1. \A f \in Files : task[t].read[f].text \in onDisk[task[t].home][f]
      BY <1>3, HeldReads
         DEF StoreResynced, StoreRecovered, Reopened, Bind, HoldsReads, Reading
    <2>2. editor' = Opened(task[t].home, task[t].read) /\ onDisk' = onDisk
      BY <1>3 DEF StoreResynced, StoreRecovered, Reopened, Bind
    <2>. QED
      BY <2>1, <2>2 DEF EditorWasOnDisk, WasOnDisk, RevTexts, Opened
  <1>4. ASSUME NEW t \in Threads, ApplyWhole(t) \/ \E edit \in Files \X Marks : ApplyNext(t, edit)
        PROVE  editor'.home = editor.home /\ editor'.rev = editor.rev
    BY <1>0, <1>4 DEF ApplyWhole, ApplyNext, Editor
  <1>5. ASSUME NEW t \in Threads, Request(t) \/ Panic(t) PROVE editor' = editor
    BY <1>5 DEF Request, Edit, EditRecovers, EditDisabled, Reload, ReloadUnbound,
                Republish, Open, Panic
  <1>6. ASSUME NEW t \in Threads, ThreadStep(t)
        PROVE  \/ editor' = editor
               \/ \E f \in Files : WriteFile(t, f)
               \/ StoreResynced(t) \/ StoreRecovered(t) \/ Reopened(t) \/ Bind(t)
               \/ ApplyWhole(t) \/ \E edit \in Files \X Marks : ApplyNext(t, edit)
    BY <1>6 DEF ThreadStep, ReadFile, ReadFails, CheckFile, CheckRefuses, WriteFails,
                ApplyRefused, ApplyDone, ApplyFails, ReadDone, Locate, Store,
                StoreReparsed, BindStore
  <1>7. CASE UNCHANGED vars
    BY <1>1, <1>7 DEF vars
  <1>8. CASE External
    BY <1>1, <1>8, NobodyActs
  <1>9. ASSUME NEW t \in Threads, ThreadStep(t) PROVE EditorWasOnDisk'
    BY <1>1, <1>2, <1>3, <1>4, <1>6, <1>9
  <1>. QED
    BY <1>1, <1>5, <1>7, <1>8, <1>9 DEF Next

LEMMA ServedStaysOnDisk ==
    ASSUME DiskInv, [Next]_vars
    PROVE  ServedWasOnDisk'
  <1>0. TypeOK /\ snapshot.home \in Journals
    BY DEF DiskInv, IInv, TypeOK, Snapshot
  <1>1. CASE snapshot' = snapshot
    <2>1. \A j \in Journals, f \in Files : onDisk[j][f] \subseteq onDisk'[j][f]
      BY <1>0, RecordGrows
    <2>. QED
      BY <1>0, <1>1, <2>1 DEF DiskInv, ServedWasOnDisk
  <1>2. ASSUME NEW t \in Threads,
               Store(t) \/ StoreResynced(t) \/ StoreRecovered(t) \/ StoreReparsed(t)
        PROVE  ServedWasOnDisk'
    <2>1. /\ pc[t] \in {"store", "storeFree"}
          /\ snapshot' = task[t].view /\ onDisk' = onDisk
      BY <1>2 DEF Store, StoreResynced, StoreRecovered, StoreReparsed
    <2>. QED
      BY <2>1 DEF DiskInv, CarriesTheDisk, WasOnDisk, ServedWasOnDisk
  <1>3. ASSUME NEW t \in Threads, Reopened(t) \/ BindStore(t)
        PROVE  ServedWasOnDisk'
    <2>1. \A f \in Files : task[t].read[f].text \in onDisk[task[t].home][f]
      BY <1>3, HeldReads DEF Reopened, BindStore, Reading
    <2>2. snapshot' = ReadView(t, task[t].home) /\ onDisk' = onDisk
      BY <1>3 DEF Reopened, BindStore
    <2>. QED
      BY <2>1, <2>2 DEF ReadView, ServedWasOnDisk
  <1>4. ASSUME NEW t \in Threads, Request(t) \/ Panic(t) PROVE snapshot' = snapshot
    BY <1>4 DEF Request, Edit, EditRecovers, EditDisabled, Reload, ReloadUnbound,
                Republish, Open, Panic
  <1>5. ASSUME NEW t \in Threads, ThreadStep(t)
        PROVE  \/ snapshot' = snapshot
               \/ Store(t) \/ StoreResynced(t) \/ StoreRecovered(t) \/ StoreReparsed(t)
               \/ Reopened(t) \/ BindStore(t)
    BY <1>5 DEF ThreadStep, ReadFile, ReadFails, CheckFile, CheckRefuses, WriteFile,
                WriteFails, ApplyNext, ApplyWhole, ApplyRefused, ApplyDone, ApplyFails,
                ReadDone, Locate, Bind
  <1>6. CASE UNCHANGED vars
    BY <1>1, <1>6 DEF vars
  <1>7. CASE External
    BY <1>1, <1>7, NobodyActs
  <1>. QED
    BY <1>1, <1>2, <1>3, <1>4, <1>5, <1>6, <1>7 DEF Next

LEMMA PoisonStaysPanic ==
    ASSUME DiskInv, [Next]_vars
    PROVE  PoisonIsPanic'
  <1>0. panics \in Nat /\ MaxPanics \in Nat
    BY AppStateAssumption DEF DiskInv, IInv, TypeOK
  <1>1. ASSUME NEW t \in Threads, Panic(t) PROVE PoisonIsPanic'
    BY <1>0, <1>1 DEF DiskInv, PoisonIsPanic, Panic
  <1>2. ASSUME NEW t \in Threads, Request(t)
        PROVE  panics' = panics /\ (poisoned' = poisoned \/ poisoned' = FALSE)
    BY <1>2 DEF Request, Edit, EditRecovers, EditDisabled, Reload, ReloadUnbound,
                Republish, Open
  <1>3. ASSUME NEW t \in Threads, ThreadStep(t)
        PROVE  panics' = panics /\ (poisoned' = poisoned \/ poisoned' = FALSE)
    <2>1. ASSUME NEW f \in Files, ReadFails(t, f)
          PROVE  panics' = panics /\ (poisoned' = poisoned \/ poisoned' = FALSE)
      <3>1. panics' = panics /\ poisoned' = (poisoned /\ pc[t] # "recover")
        BY <2>1 DEF ReadFails, budget
      <3>2. poisoned \in BOOLEAN
        BY DEF DiskInv, IInv, TypeOK
      <3>. QED
        BY <3>1, <3>2
    <2>2. \/ panics' = panics /\ (poisoned' = poisoned \/ poisoned' = FALSE)
          \/ \E f \in Files : ReadFails(t, f)
      BY <1>3 DEF budget, ThreadStep, ReadFile, CheckFile, CheckRefuses, WriteFile,
                  WriteFails, ApplyNext, ApplyWhole, ApplyRefused, ApplyDone, ApplyFails,
                  ReadDone, Locate, Store, StoreResynced, StoreRecovered, StoreReparsed,
                  Reopened, BindStore, Bind
    <2>. QED
      BY <2>1, <2>2
  <1>4. CASE UNCHANGED vars \/ External
    BY <1>4, NobodyActs DEF vars, budget, DiskInv, PoisonIsPanic
  <1>. QED
    BY <1>1, <1>2, <1>3, <1>4 DEF Next, DiskInv, PoisonIsPanic

LEMMA InitDisk == Init => DiskInv
  <1> SUFFICES ASSUME Init PROVE DiskInv
    OBVIOUS
  <1>1. IInv /\ TypeOK
    BY InitInv, InitType
  <1>2. \A t \in Threads : CarriesTheDisk(t)
    BY DEF Init, CarriesTheDisk, HoldsReads, Reading
  <1>3. \A j \in Journals, f \in Files : disk[j][f].text = {} /\ onDisk[j][f] = {{}}
    BY DEF Init, Blank
  <1>4. FilesAreRecorded
    BY <1>3 DEF FilesAreRecorded
  <1>5. EditorWasOnDisk
    BY <1>3, AppStateAssumption
       DEF Init, EditorWasOnDisk, WasOnDisk, RevTexts, Opened
  <1>6. ServedWasOnDisk
    BY <1>3, AppStateAssumption DEF Init, ServedWasOnDisk, IdleTask
  <1>7. PoisonIsPanic
    BY AppStateAssumption DEF Init, PoisonIsPanic
  <1>. QED
    BY <1>1, <1>2, <1>4, <1>5, <1>6, <1>7 DEF DiskInv

LEMMA NextDisk ==
    ASSUME MaxPanics = 0 \/ "conf" \notin Requests, DiskInv, [Next]_vars
    PROVE  DiskInv'
  <1>1. IInv'
    BY NextInv DEF DiskInv
  <1>2. ASSUME NEW u \in Threads PROVE CarriesTheDisk(u)'
    <2>1. CASE pc'[u] = pc[u] /\ task'[u] = task[u]
      BY <2>1, CarriedStays
    <2>2. ASSUME NEW t \in Threads, Acts(t) PROVE CarriesTheDisk(u)'
      <3>1. CASE u = t
        BY <2>2, <3>1, StepCarries
      <3>2. CASE u # t
        BY <2>1, <2>2, <3>2, OthersStay DEF DiskInv, IInv
      <3>. QED
        BY <3>1, <3>2
    <2>3. CASE UNCHANGED vars \/ External
      BY <2>1, <2>3, NobodyActs DEF vars
    <2>. QED
      BY <2>2, <2>3 DEF Next, Acts
  <1>. QED
    BY <1>1, <1>2, FilesStayRecorded, EditorStaysOnDisk, ServedStaysOnDisk,
       PoisonStaysPanic DEF DiskInv

(* A text no file ever had is never served, whoever writes the files and     *)
(* whatever fails; but for a settings change that looks past a panic, which  *)
(* is why one of the two is assumed away.                                    *)
THEOREM ServesTheDisk ==
    ASSUME MaxPanics = 0 \/ "conf" \notin Requests
    PROVE  Spec => []ServedWasOnDisk
  <1>1. Init => DiskInv
    BY InitDisk
  <1>2. DiskInv /\ [Next]_vars => DiskInv'
    BY NextDisk
  <1>3. DiskInv => ServedWasOnDisk
    BY DEF DiskInv
  <1>. QED
    BY <1>1, <1>2, <1>3, PTL DEF Spec
-----------------------------------------------------------------------------
(* One journal: what each thread offers. *)

NoOpen == "open" \notin Requests

(* No step changes which journal it is, and no editor comes where none was. *)
LEMMA JournalStays ==
    ASSUME NoOpen, OneJournalInv, NEW t \in Threads, Acts(t)
    PROVE  /\ editor'.home = Home
           /\ bound' => bound
           /\ bound' /\ ~poisoned' => ~poisoned \/ Reopened(t) \/ StoreRecovered(t)
  <1>0. /\ TypeOK /\ editor \in Editor /\ task[t].home = Home /\ pc[t] \notin {"open", "bind"}
    BY DEF OneJournalInv, IInv, TypeOK, AtHome
  <1>1. CASE Panic(t)
    BY <1>1 DEF Panic, OneJournalInv
  <1>2. CASE Request(t)
    <2>1. editor' = editor /\ bound' = bound
      BY <1>2 DEF Request, Edit, EditRecovers, EditDisabled, Reload, ReloadUnbound,
                  Republish, Open
    <2>2. poisoned' = poisoned \/ (poisoned' = FALSE /\ ~bound)
      BY <1>2 DEF Request, Edit, EditRecovers, EditDisabled, Reload, ReloadUnbound,
                  Republish, Open
    <2>. QED
      BY <2>1, <2>2 DEF OneJournalInv
  <1>3. CASE ThreadStep(t)
    <2>1. bound' = bound \/ bound' = FALSE
      BY <1>0, <1>3 DEF ThreadStep, ReadFile, ReadFails, CheckFile, CheckRefuses, WriteFile,
                  WriteFails, ApplyNext, ApplyWhole, ApplyRefused, ApplyDone, ApplyFails,
                  ReadDone, Locate, Store, StoreResynced, StoreRecovered, StoreReparsed,
                  Reopened, BindStore, Bind
    <2>2. ASSUME StoreResynced(t) \/ StoreRecovered(t) \/ Reopened(t)
          PROVE  /\ editor'.home = Home
                 /\ poisoned' = poisoned \/ StoreRecovered(t) \/ Reopened(t)
      BY <1>0, <2>2 DEF StoreResynced, StoreRecovered, Reopened, Opened
    <2>3. ASSUME NEW f \in Files, ReadFails(t, f)
          PROVE  editor' = editor /\ (poisoned' = poisoned \/ bound' = FALSE)
      <3>1. editor' = editor /\ poisoned' = (poisoned /\ pc[t] # "recover")
        BY <2>3 DEF ReadFails
      <3>2. pc[t] = "recover" => bound' = FALSE
        BY <2>3 DEF ReadFails, Locked
      <3>. QED
        BY <1>0, <3>1, <3>2 DEF TypeOK
    <2>4. ASSUME NEW f \in Files, WriteFile(t, f)
          PROVE  editor'.home = editor.home /\ poisoned' = poisoned
      BY <1>0, <2>4 DEF WriteFile, Editor
    <2>5. ASSUME ApplyWhole(t) \/ \E edit \in Files \X Marks : ApplyNext(t, edit)
          PROVE  editor'.home = editor.home /\ poisoned' = poisoned
      BY <1>0, <2>5 DEF ApplyWhole, ApplyNext, Editor
    <2>6. \/ editor' = editor /\ poisoned' = poisoned
          \/ StoreResynced(t) \/ StoreRecovered(t) \/ Reopened(t)
          \/ \E f \in Files : ReadFails(t, f) \/ WriteFile(t, f)
          \/ ApplyWhole(t) \/ \E edit \in Files \X Marks : ApplyNext(t, edit)
      BY <1>0, <1>3 DEF ThreadStep, ReadFile, CheckFile, CheckRefuses, WriteFails,
                  ApplyRefused, ApplyDone, ApplyFails, ReadDone, Locate, Store,
                  StoreReparsed, BindStore, Bind
    <2>7. editor'.home = editor.home \/ editor'.home = Home
      BY <2>2, <2>3, <2>4, <2>5, <2>6
    <2>8. poisoned' = poisoned \/ bound' = FALSE \/ StoreRecovered(t) \/ Reopened(t)
      BY <2>2, <2>3, <2>4, <2>5, <2>6
    <2>. QED
      BY <2>1, <2>7, <2>8 DEF OneJournalInv
  <1>. QED
    BY <1>1, <1>2, <1>3 DEF Acts
(* Threads that do not move still offer what they did: the one that is inside *)
(* has the editor to itself.                                                  *)
LEMMA OthersStillOffer ==
    ASSUME NoOpen, OneJournalInv, NEW t \in Threads, Acts(t), NEW u \in Threads \ {t}
    PROVE  AtHome(u)' /\ OffersTheEditors(u)'
  <1>1. pc'[u] = pc[u] /\ task'[u] = task[u]
    BY OthersStay DEF OneJournalInv, IInv
  <1>2. bound' => bound
    BY JournalStays
  <1>3. AtHome(u)'
    BY <1>1, <1>2 DEF OneJournalInv, AtHome
  <1>4. pc[u] = "store" => editor' = editor
    BY EditorIsGuarded DEF OneJournalInv, Locked
  <1>. QED
    BY <1>1, <1>2, <1>3, <1>4 DEF OneJournalInv, OffersTheEditors, EditorView, ReadView

(* A reading begins at the one journal there is. *)
LEMMA StartsAtHome ==
    ASSUME TypeOK, NEW t \in Threads, NEW label \in {"reopen", "recover", "resync"},
           StartReading(t, Home, label)
    PROVE  AtHome(t)' /\ OffersTheEditors(t)'
  <1>1. pc'[t] = label
    BY DEF TypeOK, StartReading
  <1>2. task[t] \in Task
    BY DEF TypeOK
  <1>3. task' = [task EXCEPT ![t] = [task[t] EXCEPT !.home = Home, !.left = Files]]
    BY DEF StartReading
  <1>4. task'[t].home = Home
    BY <1>2, <1>3 DEF TypeOK, Task
  <1>. QED
    BY <1>1, <1>4 DEF AtHome, OffersTheEditors

LEMMA StepOffers ==
    ASSUME NoOpen, OneJournalInv, NEW t \in Threads, Acts(t)
    PROVE  AtHome(t)' /\ OffersTheEditors(t)'
  <1>0. /\ TypeOK /\ pc \in [Threads -> Label] /\ task \in [Threads -> Task]
        /\ task[t] \in Task /\ AtHome(t) /\ editor.home = Home /\ snapshot.location = Home
    BY DEF OneJournalInv, IInv, TypeOK
  <1>1. ASSUME task'[t].home = Home, pc'[t] \in Locked \cup {"idle"}, pc'[t] # "store"
        PROVE  AtHome(t)' /\ OffersTheEditors(t)'
    BY <1>1 DEF AtHome, OffersTheEditors, Locked
  <1>2. ASSUME pc'[t] = "idle", task'[t] = IdleTask
        PROVE  AtHome(t)' /\ OffersTheEditors(t)'
    BY <1>1, <1>2 DEF IdleTask
  <1>3. ASSUME NEW f \in Files, ReadFile(t, f)
        PROVE  AtHome(t)' /\ OffersTheEditors(t)'
    <2>1. /\ pc' = pc /\ pc[t] \in Reading /\ bound' = bound
          /\ task'[t].home = task[t].home
      BY <1>0, <1>3 DEF ReadFile, Task
    <2>. QED
      BY <1>0, <2>1 DEF AtHome, OffersTheEditors, Reading
  <1>4. ASSUME NEW f \in Files, ReadFails(t, f)
        PROVE  AtHome(t)' /\ OffersTheEditors(t)'
    BY <1>0, <1>2, <1>4 DEF ReadFails, Goto
  <1>5. ASSUME NEW f \in Files, CheckFile(t, f) \/ WriteFile(t, f)
        PROVE  AtHome(t)' /\ OffersTheEditors(t)'
    <2>1. pc'[t] \in {"check", "write", "locate"}
      BY <1>0, <1>5 DEF CheckFile, WriteFile, Goto
    <2>2. PICK left : task' = [task EXCEPT ![t] = [task[t] EXCEPT !.left = left]]
      BY <1>5 DEF CheckFile, WriteFile
    <2>3. task'[t].home = task[t].home
      BY <1>0, <2>2 DEF Task
    <2>. QED
      BY <1>0, <1>1, <2>1, <2>3 DEF AtHome, Locked
  <1>6. ASSUME NEW f \in Files, CheckRefuses(t, f) \/ WriteFails(t, f)
        PROVE  AtHome(t)' /\ OffersTheEditors(t)'
    BY <1>0, <1>6, StartsAtHome DEF CheckRefuses, WriteFails
  <1>7. CASE ApplyFails(t) \/ Reload(t)
    BY <1>0, <1>7, StartsAtHome DEF ApplyFails, Reload
  <1>8. ASSUME NEW edit, ApplyNext(t, edit)
        PROVE  AtHome(t)' /\ OffersTheEditors(t)'
    <2>1. pc'[t] = "apply" /\ task'[t].home = task[t].home
      BY <1>0, <1>8 DEF ApplyNext, Task
    <2>. QED
      BY <1>0, <1>1, <2>1 DEF AtHome, Locked
  <1>9. CASE ApplyWhole(t) \/ ApplyDone(t)
    <2>1. PICK dirty : ToSave(t, dirty)
      BY <1>9 DEF ApplyWhole, ApplyDone
    <2>2. pc'[t] \in {"locate", "check"} /\ task'[t].home = task[t].home
      BY <1>0, <2>1 DEF ToSave, Goto, Task
    <2>. QED
      BY <1>0, <1>1, <2>2 DEF AtHome, Locked
  <1>10. CASE \/ ApplyRefused(t) \/ Store(t) \/ StoreResynced(t) \/ Reopened(t)
              \/ Panic(t)
    <2>1. Return(t)
      BY <1>10 DEF ApplyRefused, Store, StoreResynced, Reopened, Panic
    <2>. QED
      BY <1>0, <1>2, <2>1 DEF Return, Goto
  <1>11. CASE StoreReparsed(t)
    BY <1>0, <1>2, <1>11 DEF StoreReparsed, Goto
  <1>12. CASE StoreRecovered(t)
    <2>1. pc'[t] = "apply" /\ task'[t].home = task[t].home
      BY <1>0, <1>12 DEF StoreRecovered, Goto, Task
    <2>. QED
      BY <1>0, <1>1, <2>1 DEF AtHome, Locked
  <1>13. CASE ReadDone(t)
    <2>1. /\ pc'[t] = IF pc[t] = "reparse" THEN "locateFree" ELSE "locate"
          /\ task'[t].home = task[t].home /\ bound' = bound
      BY <1>0, <1>13 DEF ReadDone, Goto, Task
    <2>. QED
      BY <1>0, <2>1 DEF AtHome, OffersTheEditors
  <1>14. CASE Locate(t)
    <2>1. /\ pc[t] \in {"locate", "locateFree"}
          /\ pc'[t] = IF pc[t] = "locate" THEN "store" ELSE "storeFree"
          /\ task'[t].home = task[t].home /\ UNCHANGED <<bound, editor>>
          /\ task'[t].why = task[t].why /\ task'[t].read = task[t].read
          /\ task'[t].view = IF task[t].why = "saved" THEN EditorView(snapshot.location)
                             ELSE ReadView(t, snapshot.location)
      BY <1>0, <1>14 DEF Locate, Goto, Task
    <2>2. pc[t] = "locate" => task[t].why # "conf"
      BY DEF OneJournalInv, IInv, PublishesFor
    <2>3. AtHome(t)'
      BY <1>0, <2>1 DEF AtHome, EditorView, ReadView
    <2>4. OffersTheEditors(t)'
      BY <1>0, <2>1, <2>2 DEF OffersTheEditors, EditorView, ReadView
    <2>. QED
      BY <2>3, <2>4
  <1>15. ASSUME NEW edits, NEW whole, Edit(t, edits, whole)
         PROVE  AtHome(t)' /\ OffersTheEditors(t)'
    <2>1. pc'[t] = "apply" /\ task'[t].home = task[t].home
      BY <1>0, <1>15 DEF Edit, Goto, Task
    <2>. QED
      BY <1>0, <1>1, <2>1 DEF AtHome, Locked
  <1>16. ASSUME NEW edits, NEW whole, EditRecovers(t, edits, whole)
         PROVE  AtHome(t)' /\ OffersTheEditors(t)'
    <2>1. pc'[t] = "recover" /\ task'[t].home = Home
      BY <1>0, <1>16 DEF EditRecovers, Task
    <2>. QED
      BY <1>1, <2>1 DEF Locked
  <1>17. CASE EditDisabled(t)
    <2>1. pc'[t] = "idle" /\ task'[t].home = task[t].home
      BY <1>17 DEF EditDisabled, Asks
    <2>. QED
      BY <1>0, <1>1, <2>1 DEF AtHome
  <1>18. CASE ReloadUnbound(t)
    <2>1. pc'[t] = "reparse" /\ ~bound'
      BY <1>0, <1>18 DEF ReloadUnbound, StartReading
    <2>2. task' = [task EXCEPT ![t] = [task[t] EXCEPT !.home = Home, !.left = Files]]
      BY <1>0, <1>18 DEF ReloadUnbound, StartReading
    <2>3. task'[t].home = Home
      BY <1>0, <2>2 DEF Task
    <2>. QED
      BY <2>1, <2>3 DEF AtHome, OffersTheEditors
  <1>19. CASE Republish(t)
    <2>1. /\ pc'[t] = "store" /\ task'[t].home = task[t].home /\ task'[t].why = "conf"
          /\ task'[t].view = IF bound THEN EditorView(editor.home) ELSE snapshot
          /\ UNCHANGED <<bound, editor>>
      BY <1>0, <1>19 DEF Republish, Goto, Task
    <2>. QED
      BY <1>0, <2>1 DEF AtHome, OffersTheEditors, EditorView
  <1>20. CASE Request(t)
    BY <1>7, <1>15, <1>16, <1>17, <1>18, <1>19, <1>20 DEF Request, Open, Asks, NoOpen
  <1>21. CASE ThreadStep(t)
    BY <1>0, <1>3, <1>4, <1>5, <1>6, <1>7, <1>8, <1>9, <1>10, <1>11, <1>12, <1>13, <1>14, <1>21
       DEF ThreadStep, BindStore, Bind, AtHome
  <1>. QED
    BY <1>10, <1>20, <1>21 DEF Acts
-----------------------------------------------------------------------------
(* One journal: what is served. *)

(* A step that changes neither the editor nor what is served, and ends no    *)
(* divergence but by losing the editor.                                      *)
LEMMA ServedIsKept ==
    ASSUME OneJournalInv, NEW t \in Threads, Acts(t), UNCHANGED <<editor, snapshot>>,
           bound' /\ ~poisoned' => bound /\ ~poisoned /\ (Diverging(t) => Diverging(t)')
    PROVE  EditorIsServed'
  <1>1. \A u \in Threads \ {t} : pc'[u] = pc[u] /\ task'[u] = task[u]
    BY OthersStay DEF OneJournalInv, IInv
  <1>2. ASSUME bound', ~poisoned', NEW u \in Threads, Diverging(u) PROVE Diverging(u)'
    BY <1>1, <1>2 DEF Diverging
  <1>. QED
    BY <1>2 DEF OneJournalInv, EditorIsServed, EditorView

LEMMA DivergesNow ==
    ASSUME NEW t \in Threads, Diverging(t)' PROVE EditorIsServed'
  BY DEF EditorIsServed

LEMMA ResyncDiverges ==
    ASSUME TypeOK, NEW t \in Threads, NEW home, StartReading(t, home, "resync")
    PROVE  Diverging(t)'
  BY DEF StartReading, TypeOK, Diverging

LEMMA EditDiverges ==
    ASSUME IInv, NEW t \in Threads,
           \/ \E f \in Files : \/ CheckFile(t, f) \/ CheckRefuses(t, f)
                               \/ WriteFile(t, f) \/ WriteFails(t, f)
           \/ \E edit \in Files \X Marks : ApplyNext(t, edit)
           \/ ApplyWhole(t) \/ ApplyDone(t) \/ ApplyFails(t)
    PROVE  Diverging(t)'
  <1>0. /\ TypeOK /\ pc \in [Threads -> Label] /\ task \in [Threads -> Task]
        /\ task[t] \in Task
    BY DEF IInv, TypeOK
  <1>1. ASSUME NEW f \in Files, CheckFile(t, f) PROVE Diverging(t)'
    BY <1>0, <1>1 DEF CheckFile, Goto, Diverging
  <1>2. ASSUME NEW f \in Files, WriteFile(t, f) PROVE Diverging(t)'
    <2>1. task'[t].why = "saved" /\ pc'[t] \in {"locate", "write"}
      BY <1>0, <1>2 DEF WriteFile, Goto, Task, IInv, PublishesFor
    <2>. QED
      BY <2>1 DEF Diverging
  <1>3. ASSUME NEW f \in Files, CheckRefuses(t, f) \/ WriteFails(t, f) PROVE Diverging(t)'
    BY <1>0, <1>3, ResyncDiverges DEF CheckRefuses, WriteFails
  <1>4. ASSUME NEW edit, ApplyNext(t, edit) PROVE Diverging(t)'
    BY <1>0, <1>4 DEF ApplyNext, Task, Diverging
  <1>5. CASE ApplyWhole(t) \/ ApplyDone(t)
    <2>1. PICK dirty : ToSave(t, dirty)
      BY <1>5 DEF ApplyWhole, ApplyDone
    <2>2. task'[t].why = "saved" /\ pc'[t] \in {"locate", "check"}
      BY <1>0, <2>1 DEF ToSave, Goto, Task
    <2>. QED
      BY <2>2 DEF Diverging
  <1>6. CASE ApplyFails(t)
    BY <1>0, <1>6, ResyncDiverges DEF ApplyFails
  <1>. QED
    BY <1>1, <1>2, <1>3, <1>4, <1>5, <1>6

LEMMA PublishServes ==
    ASSUME NoOpen, OneJournalInv, NEW t \in Threads,
           \/ Store(t) \/ StoreResynced(t) \/ StoreRecovered(t) \/ StoreReparsed(t)
           \/ Reopened(t)
    PROVE  EditorIsServed' /\ snapshot'.location = Home
  <1>0. AtHome(t) /\ OffersTheEditors(t)
    BY DEF OneJournalInv
  <1>1. CASE Store(t)
    <2>1. /\ pc[t] = "store" /\ task[t].why \in {"saved", "conf"}
          /\ snapshot' = task[t].view /\ UNCHANGED <<editor, bound>>
      BY <1>1 DEF Store
    <2>2. bound => task[t].view = EditorView(Home)
      BY <1>0, <2>1 DEF OffersTheEditors
    <2>. QED
      BY <1>0, <2>1, <2>2 DEF EditorIsServed, EditorView, AtHome
  <1>2. CASE StoreResynced(t) \/ StoreRecovered(t)
    <2>1. /\ pc[t] = "store" /\ task[t].why \in {"resynced", "recovered"}
          /\ snapshot' = task[t].view
          /\ editor' = Opened(task[t].home, task[t].read)
      BY <1>2 DEF StoreResynced, StoreRecovered
    <2>2. snapshot' = ReadView(t, Home)
      BY <1>0, <2>1 DEF OffersTheEditors
    <2>. QED
      BY <2>1, <2>2 DEF EditorIsServed, EditorView, ReadView, Opened
  <1>3. CASE Reopened(t)
    <2>1. /\ snapshot' = ReadView(t, Home)
          /\ editor' = Opened(task[t].home, task[t].read)
      BY <1>0, <1>3 DEF Reopened, AtHome
    <2>. QED
      BY <2>1 DEF EditorIsServed, EditorView, ReadView, Opened
  <1>4. CASE StoreReparsed(t)
    <2>1. pc[t] = "storeFree" /\ snapshot' = task[t].view /\ bound' = bound
      BY <1>4 DEF StoreReparsed
    <2>. QED
      BY <1>0, <2>1 DEF EditorIsServed, AtHome
  <1>. QED
    BY <1>1, <1>2, <1>3, <1>4

LEMMA StepServes ==
    ASSUME NoOpen, OneJournalInv, NEW t \in Threads, Acts(t)
    PROVE  EditorIsServed' /\ snapshot'.location = Home
  <1>0. /\ TypeOK /\ pc \in [Threads -> Label] /\ task \in [Threads -> Task]
        /\ task[t] \in Task /\ AtHome(t) /\ snapshot.location = Home
    BY DEF OneJournalInv, IInv, TypeOK
  <1>1. ASSUME NEW f \in Files, ReadFile(t, f) PROVE EditorIsServed' /\ snapshot' = snapshot
    <2>1. /\ pc' = pc /\ UNCHANGED <<editor, snapshot, bound, poisoned>>
          /\ task'[t].why = task[t].why /\ task'[t].whole = task[t].whole
      BY <1>0, <1>1 DEF ReadFile, Task
    <2>2. Diverging(t) => Diverging(t)'
      BY <2>1 DEF Diverging
    <2>. QED
      BY <2>1, <2>2, ServedIsKept
  <1>2. ASSUME NEW f \in Files, ReadFails(t, f) PROVE EditorIsServed' /\ snapshot' = snapshot
    <2>1. CASE pc[t] \in Locked
      BY <1>2, <2>1 DEF ReadFails, EditorIsServed
    <2>2. CASE pc[t] \notin Locked
      <3>1. UNCHANGED <<editor, snapshot, bound>> /\ poisoned' = poisoned
        BY <1>0, <1>2, <2>2 DEF ReadFails, Locked, TypeOK
      <3>2. ~Diverging(t)
        BY <2>2 DEF Diverging, Locked
      <3>. QED
        BY <3>1, <3>2, ServedIsKept
    <2>. QED
      BY <2>1, <2>2
  <1>3. CASE ApplyRefused(t)
    <2>1. UNCHANGED <<editor, snapshot, bound, poisoned>> /\ ~Diverging(t)
      BY <1>3 DEF ApplyRefused, Diverging
    <2>. QED
      BY <1>0, <2>1, ServedIsKept
  <1>4. CASE ReadDone(t)
    <2>1. /\ UNCHANGED <<editor, snapshot, bound, poisoned>>
          /\ pc[t] \in {"resync", "recover", "reparse"}
          /\ pc[t] = "resync" => pc'[t] = "locate" /\ task'[t].why = "resynced"
      BY <1>0, <1>4 DEF ReadDone, Goto, Task
    <2>2. Diverging(t) => Diverging(t)'
      BY <2>1 DEF Diverging
    <2>. QED
      BY <1>0, <2>1, <2>2, ServedIsKept
  <1>5. CASE Locate(t)
    <2>1. /\ UNCHANGED <<editor, snapshot, bound, poisoned>>
          /\ pc[t] \in {"locate", "locateFree"}
          /\ pc[t] = "locate" => pc'[t] = "store" /\ task'[t].why = task[t].why
      BY <1>0, <1>5 DEF Locate, Goto, Task
    <2>2. Diverging(t) => Diverging(t)'
      BY <2>1 DEF Diverging
    <2>. QED
      BY <1>0, <2>1, <2>2, ServedIsKept
  <1>6. CASE Request(t)
    <2>1. pc[t] = "idle" /\ UNCHANGED <<editor, snapshot>> /\ bound' = bound
      BY <1>6 DEF Request, Edit, EditRecovers, EditDisabled, Reload, ReloadUnbound,
                  Republish, Open, Asks
    <2>2. poisoned' = poisoned \/ ~bound
      BY <1>6 DEF Request, Edit, EditRecovers, EditDisabled, Reload, ReloadUnbound,
                  Republish, Open
    <2>3. ~Diverging(t)
      BY <2>1 DEF Diverging
    <2>. QED
      BY <1>0, <2>1, <2>2, <2>3, ServedIsKept
  <1>7. CASE Panic(t)
    BY <1>0, <1>7 DEF Panic, EditorIsServed
  <1>8. ASSUME \/ \E f \in Files : \/ CheckFile(t, f) \/ CheckRefuses(t, f)
                                   \/ WriteFile(t, f) \/ WriteFails(t, f)
               \/ \E edit \in Files \X Marks : ApplyNext(t, edit)
               \/ ApplyWhole(t) \/ ApplyDone(t) \/ ApplyFails(t)
        PROVE  EditorIsServed' /\ snapshot' = snapshot
    <2>1. EditorIsServed'
      BY <1>8, EditDiverges, DivergesNow DEF OneJournalInv
    <2>2. snapshot' = snapshot
      BY <1>8 DEF CheckFile, CheckRefuses, WriteFile, WriteFails, ApplyNext, ApplyWhole,
                  ApplyDone, ApplyFails
    <2>. QED
      BY <2>1, <2>2
  <1>9. CASE ThreadStep(t)
    BY <1>0, <1>1, <1>2, <1>3, <1>4, <1>5, <1>8, <1>9, PublishServes
       DEF ThreadStep, BindStore, Bind, AtHome
  <1>. QED
    BY <1>6, <1>7, <1>9 DEF Acts

LEMMA InitOneJournal == Init => OneJournalInv
  <1> SUFFICES ASSUME Init PROVE OneJournalInv
    OBVIOUS
  <1>1. IInv
    BY InitInv
  <1>2. editor.home = Home /\ snapshot.location = Home /\ snapshot = EditorView(Home)
    BY AppStateAssumption DEF Init, Opened, IdleTask, EditorView, Blank
  <1>3. \A t \in Threads : AtHome(t) /\ OffersTheEditors(t)
    BY DEF Init, AtHome, OffersTheEditors, IdleTask
  <1>. QED
    BY <1>1, <1>2, <1>3 DEF OneJournalInv, EditorIsServed

LEMMA NextOneJournal ==
    ASSUME NoOpen, OneJournalInv, [Next]_vars
    PROVE  OneJournalInv'
  <1>1. IInv'
    BY NextInv DEF OneJournalInv
  <1>2. CASE UNCHANGED vars \/ External
    <2>1. UNCHANGED <<bound, editor, snapshot, poisoned, pc, task>>
      BY <1>2, NobodyActs DEF vars
    <2>. QED
      BY <1>1, <2>1 DEF OneJournalInv, EditorIsServed, AtHome, OffersTheEditors,
                        Diverging, EditorView, ReadView
  <1>3. ASSUME NEW t \in Threads, Acts(t) PROVE OneJournalInv'
    <2>1. \A u \in Threads : AtHome(u)' /\ OffersTheEditors(u)'
      BY <1>3, OthersStillOffer, StepOffers
    <2>. QED
      BY <1>1, <1>3, <2>1, StepServes, JournalStays DEF OneJournalInv
  <1>. QED
    BY <1>2, <1>3 DEF Next, Acts

(* Between requests readers and the editor have one journal, through edits   *)
(* that fail half way, reloads, changes of the settings and panics.  File>   *)
(* Open is assumed away: it stores what it read before it binds.             *)
THEOREM ServesTheEditor ==
    ASSUME "open" \notin Requests
    PROVE  Spec => []ServedIsTheEditors
  <1>0. NoOpen
    BY DEF NoOpen
  <1>1. Init => OneJournalInv
    BY InitOneJournal
  <1>2. OneJournalInv /\ [Next]_vars => OneJournalInv'
    BY <1>0, NextOneJournal
  <1>3. OneJournalInv => ServedIsTheEditors
    <2> SUFFICES ASSUME OneJournalInv, bound, ~poisoned, lock = NoThread
                 PROVE  snapshot = EditorView(editor.home)
      BY DEF ServedIsTheEditors
    <2>1. \A t \in Threads : ~Diverging(t)
      BY FreeMutex DEF OneJournalInv, Diverging, Locked
    <2>. QED
      BY <2>1 DEF OneJournalInv, EditorIsServed
  <1>. QED
    BY <1>1, <1>2, <1>3, PTL DEF Spec
=============================================================================

----------------------------- MODULE StageArea -----------------------------
(***************************************************************************)
(* The staging area of crates/ledgeline-server/src/stage.rs and the        *)
(* requests that work in it.  An upload is converted to a CSV and kept in  *)
(* a private directory, its stage; at most MaxLive stages live, and a new  *)
(* upload removes the oldest from under whoever still holds it.  hledger   *)
(* never reads the stage itself: a request lays out a run directory inside *)
(* it, a copy of the CSV padded to the skip of the rules file with the     *)
(* destination's `.latest` beside it, and runs hledger there.              *)
(*                                                                         *)
(* A dry run lays out the shared directories "with-latest" and "bare"; a   *)
(* rule preview has a directory of its own, numbered by a counter of the   *)
(* stage.  No lock is held over any of it: every system call of two        *)
(* requests may interleave.  A call that removes a tree, or writes one     *)
(* small file, is one step.                                                *)
(*                                                                         *)
(* hledger itself, which reads the two files, and the imports that move a  *)
(* destination's `.latest` are the environment.                            *)
(***************************************************************************)
EXTENDS Naturals, Sequences, FiniteSets

CONSTANTS
  Stages,       \* the ids of the uploads of a session
  Requests,     \* the requests in flight, each handled by one worker thread
  Names,        \* bare file names of destinations
  Folders,      \* their directories: a destination is a name in a folder
  Skips,        \* what the `skip` of the rules file in force may be
  MaxLive,      \* MAX_LIVE_STAGES
  MaxRequests,  \* bound: requests begun
  MaxImports,   \* bound: completed imports, each moving one `.latest`
  Kinds,        \* the kinds of request: "dry" and "preview"
  Overlap       \* may two dry runs of one stage overlap?  The code lets them; FALSE
                \* is a client that waits for the answer to each

ASSUME ConstantsAreFit ==
  /\ 0 \in Skips
  /\ MaxLive \in Nat \ {0} /\ MaxRequests \in Nat /\ MaxImports \in Nat
  /\ Kinds \subseteq {"dry", "preview"} /\ Overlap \in BOOLEAN
  /\ Skips \subseteq Nat

Destinations == Names \X Folders
Absent == 0                 \* a destination no import has read has no `.latest`

VARIABLES
  live,      \* Area::stages: the live stages, oldest first
  dirs,      \* stage directory -> run directory -> file -> what it holds
  previews,  \* Stage::previews, the counter of each stage
  marks,     \* the `.latest` of each destination: the imports it has recorded
  work,      \* what each request is doing
  begun      \* requests begun so far

vars == <<live, dirs, previews, marks, work, begun>>

Shared == <<"with-latest", 0>>          \* RUN_WITH_LATEST
Bare == <<"bare", 0>>                   \* RUN_BARE
Slots == {Shared, Bare} \cup ({"preview"} \X (0 .. MaxRequests))
Idle == [at |-> "idle"]

\* What one hledger run was meant to read and what it read: the padding of the
\* CSV and the mark in the `.latest` beside it, each a set of at most one.
Reading == [csv : SUBSET Skips, latest : SUBSET (0 .. MaxImports)]

\* A request: its stage, where it imports to, the run directory it is laying
\* out, the mark it put there, and the hledger runs its answer rests on.
Work == [at : {"clear", "make", "copy", "mark", "run", "discard", "done"},
         kind : Kinds, stage : Stages, to : Destinations, skip : Skips,
         slot : Slots, put : SUBSET (0 .. MaxImports),
         runs : SUBSET [meant : Reading, read : Reading]]

Working(r) == work[r].at \notin {"idle", "done"}
Live == {live[i] : i \in DOMAIN live}

Init ==
  /\ live = <<>>
  /\ dirs = <<>>
  /\ previews = [s \in Stages |-> 0]
  /\ marks = [d \in Destinations |-> Absent]
  /\ work = [r \in Requests |-> Idle]
  /\ begun = 0

\* The files of a run directory laid out for the one destination of warm.
WarmedUp(warm) ==
  [f \in {<<"csv", d[1]>> : d \in warm} \cup
         {<<"latest", d[1]>> : d \in {e \in warm : marks[e] # Absent}} |->
     IF f[1] = "csv" THEN 0 ELSE CHOOSE m \in {marks[d] : d \in warm} : TRUE]

-----------------------------------------------------------------------------
\* StageArea::put, under the area's mutex: make the stage, then evict from the
\* front, removing each evicted directory whoever is still working in it.
\* The upload then lays out "with-latest" for the default destination warm, as
\* best it can and unpadded (warm = {} when it cannot), before anybody knows
\* the id.  Ids are never minted twice: one is used again here only when
\* nobody can remember it.
Put(s, warm) ==
  /\ s \notin Live \cup DOMAIN dirs
  /\ \A r \in Requests : Working(r) => work[r].stage # s
  /\ LET all == Append(live, s)
         extra == IF Len(all) > MaxLive THEN Len(all) - MaxLive ELSE 0
         evicted == {all[i] : i \in 1 .. extra}
     IN /\ live' = SubSeq(all, extra + 1, Len(all))
        /\ dirs' = [t \in (DOMAIN dirs \cup {s}) \ evicted |->
                      IF t = s THEN [slot \in {Shared : d \in warm} |-> WarmedUp(warm)]
                      ELSE dirs[t]]
  /\ previews' = [previews EXCEPT ![s] = 0]
  /\ UNCHANGED <<marks, work, begun>>

\* Somebody completes an import into d: hledger moves the `.latest` on.
Import(d) ==
  /\ marks[d] < MaxImports
  /\ marks' = [marks EXCEPT ![d] = @ + 1]
  /\ UNCHANGED <<live, dirs, previews, work, begun>>

\* Stage::preview_slot: fetch_add on the counter of the stage.
OwnSlot(s) == <<"preview", previews[s]>>

\* Plan::resolve: the stage is looked up among the live ones and held from
\* here on; the skip is read from the rules file.  A dry run then uses the
\* slot named for its purpose, a preview one of its own.
Begin(r, kind, s, d, skip) ==
  /\ ~Working(r) /\ begun < MaxRequests
  /\ s \in Live
  /\ kind = "dry" /\ ~Overlap =>
       \A q \in Requests : Working(q) => <<work[q].kind, work[q].stage>> # <<"dry", s>>
  /\ work' = [work EXCEPT ![r] =
       [at |-> "clear", kind |-> kind, stage |-> s, to |-> d, skip |-> skip,
        slot |-> IF kind = "dry" THEN Shared ELSE OwnSlot(s),
        put |-> {}, runs |-> {}]]
  /\ previews' = IF kind = "dry" THEN previews ELSE [previews EXCEPT ![s] = @ + 1]
  /\ begun' = begun + 1
  /\ UNCHANGED <<live, dirs, marks>>

To(r, at) == work' = [work EXCEPT ![r].at = at]
Others == UNCHANGED <<live, previews, marks, begun>>

StageThere(r) == work[r].stage \in DOMAIN dirs
RunThere(r) == StageThere(r) /\ work[r].slot \in DOMAIN dirs[work[r].stage]
RunDir(r) == dirs[work[r].stage][work[r].slot]
Name(r) == work[r].to[1]

\* A directory in which name is now what is given, whatever it was before.
With(dir, name, what) ==
  [n \in DOMAIN dir \cup {name} |-> IF n = name THEN what ELSE dir[n]]

\* The run directory of r holds exactly these files now.
Holds(r, files) == dirs' = [dirs EXCEPT ![work[r].stage] = With(@, work[r].slot, files)]

\* remove_dir_all of the run directory.
Removed(r) ==
  IF ~StageThere(r) THEN dirs
  ELSE [dirs EXCEPT ![work[r].stage] = [t \in DOMAIN @ \ {work[r].slot} |-> @[t]]]

\* materialize: the run directory is removed, whatever another request or an
\* earlier destination left there; a removal that fails is ignored.
Clear(r) ==
  /\ work[r].at = "clear"
  /\ dirs' \in {dirs, Removed(r)}
  /\ To(r, "make")
  /\ Others

\* Wrong: create_dir_all: a directory that is still there is used with its files.
MakeAll(r) ==
  /\ work[r].at = "make"
  /\ StageThere(r)
  /\ Holds(r, IF RunThere(r) THEN RunDir(r) ELSE <<>>)
  /\ To(r, "copy")
  /\ Others

\* materialize: create_private_dir, which refuses a directory that exists and
\* one whose parent, the stage, has been evicted.
Make(r) ==
  /\ work[r].at = "make"
  /\ StageThere(r) /\ ~RunThere(r)
  /\ Holds(r, <<>>)
  /\ To(r, "copy")
  /\ Others

\* materialize: write the CSV under the destination's name, padded to skip.
\* The bare directory gets no `.latest`.
Copy(r) ==
  /\ work[r].at = "copy" /\ RunThere(r)
  /\ Holds(r, With(RunDir(r), <<"csv", Name(r)>>, work[r].skip))
  /\ To(r, IF work[r].slot = Bare THEN "run" ELSE "mark")
  /\ Others

\* materialize: read the destination's `.latest` through the vault and put a
\* copy beside the CSV; a destination without one gets none.
Mark(r) ==
  /\ work[r].at = "mark"
  /\ LET mark == marks[work[r].to]
     IN /\ \/ mark = Absent /\ UNCHANGED dirs
           \/ /\ mark # Absent /\ RunThere(r)
              /\ Holds(r, With(RunDir(r), <<"latest", Name(r)>>, mark))
        /\ work' = [work EXCEPT ![r].at = "run", ![r].put = {mark} \ {Absent}]
  /\ Others

\* What hledger finds under the destination's name.
Found(r, kind) ==
  {RunDir(r)[f] : f \in {<<kind, Name(r)>>} \cap
                         (IF RunThere(r) THEN DOMAIN RunDir(r) ELSE {})}

\* One hledger run on the run directory; without a CSV it fails.
Ran(r) ==
  LET read == [csv |-> Found(r, "csv"), latest |-> Found(r, "latest")]
      meant == [csv |-> {work[r].skip}, latest |-> work[r].put]
  IN [work[r] EXCEPT !.runs = @ \cup {[meant |-> meant, read |-> read]}]

\* The run a request is for.  A dry run whose destination carries a mark by
\* now goes on to the bare proposal, in a directory it lays out the same way.
Run(r) ==
  /\ work[r].at = "run" /\ Found(r, "csv") # {}
  /\ work' = [work EXCEPT ![r] =
       IF work[r].kind = "preview" THEN [Ran(r) EXCEPT !.at = "discard"]
       ELSE IF work[r].slot = Shared /\ marks[work[r].to] # Absent
       THEN [Ran(r) EXCEPT !.at = "clear", !.slot = Bare, !.put = {}]
       ELSE [Ran(r) EXCEPT !.at = "done"]]
  /\ UNCHANGED dirs
  /\ Others

\* A preview runs hledger three times on its directory, in parallel.
RunAgain(r) ==
  /\ work[r].at = "discard" /\ work[r].runs # {} /\ Found(r, "csv") # {}
  /\ work' = [work EXCEPT ![r] = Ran(r)]
  /\ UNCHANGED dirs
  /\ Others

\* Wrong: A preview that fails returns before its discard.
FailsKeepingTheSlot(r) ==
  /\ work[r].at \in {"make", "copy", "mark", "run"}
  /\ work' = [work EXCEPT ![r].runs = {}, ![r].at = "done"]
  /\ UNCHANGED dirs
  /\ Others

\* A step fails, for want of a directory or a file or for a reason of its own:
\* the request answers with an error, and a preview still gives up its slot.
\* A bare run that hledger refuses is only left out of the answer.
Fails(r) ==
  /\ work[r].at \in {"make", "copy", "mark", "run"}
  /\ work' = [work EXCEPT
       ![r].runs = IF work[r].slot = Bare /\ work[r].at = "run" THEN @ ELSE {},
       ![r].at = IF work[r].kind = "preview" THEN "discard" ELSE "done"]
  /\ UNCHANGED dirs
  /\ Others

\* Stage::discard.  A removal that fails leaves the directory to the stage's
\* own end; it is not modelled.
Discard(r) ==
  /\ work[r].at = "discard"
  /\ dirs' = Removed(r)
  /\ To(r, "done")
  /\ Others

Step(r) ==
  \/ Clear(r) \/ Make(r) \/ Copy(r) \/ Mark(r) \/ Run(r) \/ RunAgain(r)
  \/ Fails(r) \/ Discard(r)

Next ==
  \/ \E s \in Stages, warm \in {{}} \cup {{d} : d \in Destinations} : Put(s, warm)
  \/ \E d \in Destinations : Import(d)
  \/ \E r \in Requests, kind \in Kinds, s \in Stages, d \in Destinations, k \in Skips :
       Begin(r, kind, s, d, k)
  \/ \E r \in Requests : Step(r)

Spec == Init /\ [][Next]_vars

-----------------------------------------------------------------------------
\* Every variable keeps to its type; the stages on disk are the live ones, and
\* never more than MAX_LIVE_STAGES of them (StageArea::put).
TypeOK ==
  /\ live \in Seq(Stages) /\ Len(live) <= MaxLive
  /\ DOMAIN dirs = Live
  /\ \A s \in DOMAIN dirs : DOMAIN dirs[s] \subseteq Slots
  /\ previews \in [Stages -> 0 .. MaxRequests]
  /\ marks \in [Destinations -> 0 .. MaxImports]
  /\ \A r \in Requests : work[r] = Idle \/ work[r] \in Work
  /\ begun \in 0 .. MaxRequests

\* Every hledger run an answer rests on read the CSV its own request laid out
\* and exactly the `.latest` its destination had then: never another
\* destination's, never none where there was one, however previews and
\* evictions overlap with it (Stage::materialize, Stage::preview_slot).
RunsReadTheirOwn ==
  \A r \in Requests : work[r] # Idle =>
    \A run \in work[r].runs : run.read = run.meant

\* A preview's directory is gone once the preview has answered, whichever of
\* its steps failed: a session of live previews does not fill the temp
\* filesystem (run_rule_preview, Stage::discard).
PreviewsCleanUp ==
  \A s \in DOMAIN dirs : \A slot \in DOMAIN dirs[s] :
    slot[1] = "preview" =>
      \E r \in Requests : Working(r) /\ work[r].stage = s /\ work[r].slot = slot
=============================================================================

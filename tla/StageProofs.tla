----------------------------- MODULE StageProofs -----------------------------
(* Theorems about StageArea, for every number of uploads, requests, folders, *)
(* imports and live stages: a preview leaves no directory behind, and a run  *)
(* of hledger reads what its own request laid out.                           *)
EXTENDS StageArea, TLAPS

-----------------------------------------------------------------------------
(* A request has all its parts, and a slot of its kind. *)

IsJob(w) ==
  /\ DOMAIN w = {"at", "kind", "stage", "to", "skip", "slot", "put", "runs"}
  /\ w.at \in {"clear", "make", "copy", "mark", "run", "discard", "done"}
  /\ w.kind \in {"dry", "preview"}

Made ==
  /\ DOMAIN work = Requests
  /\ \A r \in Requests : work[r].at # "idle" => IsJob(work[r])
  /\ \A r \in Requests : Working(r) => work[r].stage \in Stages
  /\ DOMAIN previews = Stages /\ \A s \in Stages : previews[s] \in Nat

SlotsAreRight ==
  \A r \in Requests : Working(r) =>
    /\ work[r].kind = "dry" => work[r].slot \in {Shared, Bare}
    /\ work[r].kind = "preview" =>
         \E n \in 0 .. previews[work[r].stage] :
            n < previews[work[r].stage] /\ work[r].slot = <<"preview", n>>

CleanInv == Made /\ SlotsAreRight /\ PreviewsCleanUp

-----------------------------------------------------------------------------
(* No two requests work in one run directory, and what is in it is what its  *)
(* request has put there so far.                                             *)

Exclusive ==
  \A q, r \in Requests : q # r /\ Working(q) /\ Working(r) /\ work[q].stage = work[r].stage =>
    /\ ~(work[q].kind = "dry" /\ work[r].kind = "dry")
    /\ work[q].slot # work[r].slot

Csv(r) == <<"csv", Name(r)>>
Latest(r) == <<"latest", Name(r)>>

Ready(r) ==
  /\ Csv(r) \in DOMAIN RunDir(r) /\ RunDir(r)[Csv(r)] = work[r].skip
  /\ \/ work[r].put = {} /\ Latest(r) \notin DOMAIN RunDir(r)
     \/ Latest(r) \in DOMAIN RunDir(r) /\ work[r].put = {RunDir(r)[Latest(r)]}

LaidOut(r) ==
  /\ work[r].at \in {"clear", "make", "copy", "mark"} => work[r].put = {}
  /\ RunThere(r) =>
       /\ work[r].at = "copy" => DOMAIN RunDir(r) = {}
       /\ work[r].at = "mark" => Ready(r) /\ DOMAIN RunDir(r) = {Csv(r)}
       /\ work[r].at = "run" \/ (work[r].at = "discard" /\ work[r].runs # {}) => Ready(r)

AllLaidOut == \A r \in Requests : Working(r) => LaidOut(r)

ReadInv == Made /\ SlotsAreRight /\ Exclusive /\ AllLaidOut /\ RunsReadTheirOwn

-----------------------------------------------------------------------------
(* A step of a request changes nothing of the others', and its own place,    *)
(* slot, mark and runs only.                                                 *)

Same(r, fields) == \A f \in fields : work'[r][f] = work[r][f]
OthersWork(r) == \A q \in Requests \ {r} : work'[q] = work[q]

LEMMA Moved ==
  ASSUME Made, NEW r \in Requests, Step(r)
  PROVE  /\ Working(r) /\ IsJob(work[r]) /\ IsJob(work'[r])
         /\ DOMAIN work' = Requests /\ OthersWork(r)
         /\ Same(r, {"kind", "stage", "to", "skip"})
         /\ UNCHANGED <<previews, marks, live>>
         /\ \/ /\ Clear(r) /\ work'[r].at = "make" /\ Same(r, {"slot", "put", "runs"})
            \/ /\ Make(r) /\ work'[r].at = "copy" /\ Same(r, {"slot", "put", "runs"})
            \/ /\ Copy(r) /\ work'[r].at = (IF work[r].slot = Bare THEN "run" ELSE "mark")
               /\ Same(r, {"slot", "put", "runs"})
            \/ /\ Mark(r) /\ work'[r].at = "run" /\ Same(r, {"slot", "runs"})
               /\ work'[r].put = {marks[work[r].to]} \ {Absent}
            \/ /\ Run(r) \/ RunAgain(r)
               /\ work'[r].runs = Ran(r).runs
               /\ \/ work[r].kind = "preview" /\ work'[r].at = "discard" /\ Same(r, {"slot", "put"})
                  \/ RunAgain(r) /\ work'[r].at = "discard" /\ Same(r, {"slot", "put"})
                  \/ /\ work[r].kind # "preview" /\ work'[r].at = "clear"
                     /\ work'[r].slot = Bare /\ work'[r].put = {}
                  \/ work[r].kind # "preview" /\ work'[r].at = "done" /\ Same(r, {"slot", "put"})
            \/ /\ Fails(r) /\ work'[r].at = (IF work[r].kind = "preview" THEN "discard" ELSE "done")
               /\ work'[r].runs = {} \/ (Same(r, {"runs"}) /\ work[r].slot = Bare)
               /\ Same(r, {"slot", "put"})
            \/ /\ Discard(r) /\ work'[r].at = "done" /\ Same(r, {"slot", "put", "runs"})
  <1>1. work[r].at \notin {"idle", "done"}
    BY DEF Step, Clear, Make, Copy, Mark, Run, RunAgain, Fails, Discard
  <1>2. IsJob(work[r]) /\ Working(r) /\ DOMAIN work = Requests
    BY <1>1 DEF Made, Working
  <1>3. CASE Clear(r)
    <2>1. work' = [work EXCEPT ![r].at = "make"]
      BY <1>3 DEF Clear, To
    <2>. QED
      BY <1>2, <1>3, <2>1 DEF Clear, Others, IsJob, Same, OthersWork
  <1>4. CASE Make(r)
    <2>1. work' = [work EXCEPT ![r].at = "copy"]
      BY <1>4 DEF Make, To
    <2>. QED
      BY <1>2, <1>4, <2>1 DEF Make, Others, IsJob, Same, OthersWork
  <1>5. CASE Copy(r)
    <2>1. work' = [work EXCEPT ![r].at = IF work[r].slot = Bare THEN "run" ELSE "mark"]
      BY <1>5 DEF Copy, To
    <2>. QED
      BY <1>2, <1>5, <2>1 DEF Copy, Others, IsJob, Same, OthersWork
  <1>6. CASE Mark(r)
    <2>1. work' = [work EXCEPT ![r].at = "run", ![r].put = {marks[work[r].to]} \ {Absent}]
      BY <1>6 DEF Mark
    <2>. QED
      BY <1>2, <1>6, <2>1 DEF Mark, Others, IsJob, Same, OthersWork
  <1>7. CASE Run(r) \/ RunAgain(r)
    <2>. DEFINE runs == work[r].runs \cup
                  {[meant |-> [csv |-> {work[r].skip}, latest |-> work[r].put],
                    read |-> [csv |-> Found(r, "csv"), latest |-> Found(r, "latest")]]}
    <2>1. Ran(r) = [work[r] EXCEPT !.runs = runs]
      BY DEF Ran
    <2>. HIDE DEF runs
    <2>2. IsJob(Ran(r)) /\ Ran(r).runs = runs
          /\ \A f \in {"at", "kind", "stage", "to", "skip", "slot", "put"} :
               Ran(r)[f] = work[r][f]
      BY <1>2, <2>1 DEF IsJob
    <2>3. \/ work[r].kind = "preview" /\ work' = [work EXCEPT ![r] = [Ran(r) EXCEPT !.at = "discard"]]
          \/ RunAgain(r) /\ work[r].at = "discard" /\ work' = [work EXCEPT ![r] = Ran(r)]
          \/ /\ work[r].kind # "preview"
             /\ work' = [work EXCEPT ![r] = [Ran(r) EXCEPT !.at = "clear", !.slot = Bare, !.put = {}]]
          \/ work[r].kind # "preview" /\ work' = [work EXCEPT ![r] = [Ran(r) EXCEPT !.at = "done"]]
      BY <1>7 DEF Run, RunAgain
    <2>4. CASE work[r].kind = "preview" /\ work' = [work EXCEPT ![r] = [Ran(r) EXCEPT !.at = "discard"]]
      BY <1>2, <1>7, <2>2, <2>4 DEF Run, RunAgain, Others, IsJob, Same, OthersWork
    <2>5. CASE RunAgain(r) /\ work[r].at = "discard" /\ work' = [work EXCEPT ![r] = Ran(r)]
      BY <1>2, <1>7, <2>2, <2>5 DEF Run, RunAgain, Others, IsJob, Same, OthersWork
    <2>6. CASE /\ work[r].kind # "preview"
               /\ work' = [work EXCEPT ![r] = [Ran(r) EXCEPT !.at = "clear", !.slot = Bare, !.put = {}]]
      BY <1>2, <1>7, <2>2, <2>6 DEF Run, RunAgain, Others, IsJob, Same, OthersWork
    <2>7. CASE work[r].kind # "preview" /\ work' = [work EXCEPT ![r] = [Ran(r) EXCEPT !.at = "done"]]
      BY <1>2, <1>7, <2>2, <2>7 DEF Run, RunAgain, Others, IsJob, Same, OthersWork
    <2>. QED
      BY <2>3, <2>4, <2>5, <2>6, <2>7
  <1>8. CASE Fails(r)
    <2>1. work' = [work EXCEPT
             ![r].runs = IF work[r].slot = Bare /\ work[r].at = "run" THEN work[r].runs ELSE {},
             ![r].at = IF work[r].kind = "preview" THEN "discard" ELSE "done"]
      BY <1>8 DEF Fails
    <2>. QED
      BY <1>2, <1>8, <2>1 DEF Fails, Others, IsJob, Same, OthersWork
  <1>9. CASE Discard(r)
    <2>1. work' = [work EXCEPT ![r].at = "done"]
      BY <1>9 DEF Discard, To
    <2>. QED
      BY <1>2, <1>9, <2>1 DEF Discard, Others, IsJob, Same, OthersWork
  <1>. QED
    BY <1>3, <1>4, <1>5, <1>6, <1>7, <1>8, <1>9 DEF Step

(* On disk, it changes what its run directory holds and nothing else. *)
LEMMA OnlyItsDirectory ==
  ASSUME NEW r \in Requests, Step(r)
  PROVE  /\ DOMAIN dirs' = DOMAIN dirs
         /\ \A s \in DOMAIN dirs : s # work[r].stage => dirs'[s] = dirs[s]
         /\ \A s \in DOMAIN dirs : \A slot : s # work[r].stage \/ slot # work[r].slot =>
              /\ slot \in DOMAIN dirs'[s] <=> slot \in DOMAIN dirs[s]
              /\ slot \in DOMAIN dirs[s] => dirs'[s][slot] = dirs[s][slot]
  <1>1. ASSUME NEW files, Holds(r, files), StageThere(r)
        PROVE  /\ DOMAIN dirs' = DOMAIN dirs
               /\ \A s \in DOMAIN dirs : s # work[r].stage => dirs'[s] = dirs[s]
               /\ dirs'[work[r].stage] = With(dirs[work[r].stage], work[r].slot, files)
    BY <1>1 DEF Holds, StageThere
  <1>2. ASSUME NEW files, Holds(r, files), StageThere(r)
        PROVE  /\ DOMAIN dirs' = DOMAIN dirs
               /\ \A s \in DOMAIN dirs : s # work[r].stage => dirs'[s] = dirs[s]
               /\ \A s \in DOMAIN dirs : \A slot : s # work[r].stage \/ slot # work[r].slot =>
                    /\ slot \in DOMAIN dirs'[s] <=> slot \in DOMAIN dirs[s]
                    /\ slot \in DOMAIN dirs[s] => dirs'[s][slot] = dirs[s][slot]
    <2>. DEFINE stage == work[r].stage
                held == With(dirs[stage], work[r].slot, files)
    <2>1. /\ DOMAIN held = DOMAIN dirs[stage] \cup {work[r].slot}
          /\ \A t \in DOMAIN dirs[stage] : t # work[r].slot => held[t] = dirs[stage][t]
      BY DEF With
    <2>2. /\ DOMAIN dirs' = DOMAIN dirs
          /\ \A s \in DOMAIN dirs : s # stage => dirs'[s] = dirs[s]
          /\ dirs'[stage] = held
      BY <1>1, <1>2
    <2>. HIDE DEF held
    <2>. QED
      BY <2>1, <2>2
  <1>3. ASSUME dirs' = Removed(r)
        PROVE  /\ DOMAIN dirs' = DOMAIN dirs
               /\ \A s \in DOMAIN dirs : s # work[r].stage => dirs'[s] = dirs[s]
               /\ \A s \in DOMAIN dirs : \A slot : s # work[r].stage \/ slot # work[r].slot =>
                    /\ slot \in DOMAIN dirs'[s] <=> slot \in DOMAIN dirs[s]
                    /\ slot \in DOMAIN dirs[s] => dirs'[s][slot] = dirs[s][slot]
    <2>1. CASE StageThere(r)
      <3>. DEFINE stage == work[r].stage
                  kept == [t \in DOMAIN dirs[stage] \ {work[r].slot} |-> dirs[stage][t]]
      <3>1. dirs' = [dirs EXCEPT ![stage] = kept]
        BY <1>3, <2>1 DEF Removed
      <3>2. /\ DOMAIN dirs' = DOMAIN dirs
            /\ \A s \in DOMAIN dirs : s # stage => dirs'[s] = dirs[s]
            /\ dirs'[stage] = kept
        BY <2>1, <3>1 DEF StageThere
      <3>3. /\ DOMAIN kept = DOMAIN dirs[stage] \ {work[r].slot}
            /\ \A t \in DOMAIN kept : kept[t] = dirs[stage][t]
        OBVIOUS
      <3>. HIDE DEF kept
      <3>. QED
        BY <3>2, <3>3
    <2>2. CASE ~StageThere(r)
      BY <1>3, <2>2 DEF Removed
    <2>. QED
      BY <2>1, <2>2
  <1>4. CASE Make(r)
    BY <1>2, <1>4 DEF Make
  <1>5. CASE Copy(r)
    BY <1>2, <1>5 DEF Copy, RunThere
  <1>6. CASE Mark(r)
    BY <1>2, <1>6 DEF Mark, RunThere
  <1>7. CASE Clear(r) \/ Discard(r)
    BY <1>3, <1>7 DEF Clear, Discard
  <1>8. CASE Run(r) \/ RunAgain(r) \/ Fails(r)
    BY <1>8 DEF Run, RunAgain, Fails
  <1>. QED
    BY <1>4, <1>5, <1>6, <1>7, <1>8 DEF Step

(* A run directory its request has removed is not there. *)
LEMMA DiscardRemoves ==
  ASSUME NEW r \in Requests, Discard(r), StageThere(r)
  PROVE  work[r].slot \notin DOMAIN dirs'[work[r].stage]
  <1>. DEFINE stage == work[r].stage
              kept == [t \in DOMAIN dirs[stage] \ {work[r].slot} |-> dirs[stage][t]]
  <1>1. dirs' = [dirs EXCEPT ![stage] = kept]
    BY DEF Discard, Removed
  <1>2. dirs'[stage] = kept
    BY <1>1 DEF StageThere
  <1>. QED
    BY <1>2

(* An upload makes a stage nobody works in, with the directory it warms up,  *)
(* and takes others away whole.                                              *)
LEMMA PutMakesAStage ==
  ASSUME NEW s \in Stages, NEW warm, Put(s, warm)
  PROVE  /\ s \notin DOMAIN dirs /\ DOMAIN dirs' \subseteq DOMAIN dirs \cup {s}
         /\ \A t \in DOMAIN dirs' : t # s => dirs'[t] = dirs[t]
         /\ s \in DOMAIN dirs' => DOMAIN dirs'[s] \subseteq {Shared}
         /\ \A r \in Requests : Working(r) => work[r].stage # s
         /\ previews' = [previews EXCEPT ![s] = 0]
         /\ UNCHANGED <<marks, work, begun>>
  <1>. DEFINE all == Append(live, s)
              extra == IF Len(all) > MaxLive THEN Len(all) - MaxLive ELSE 0
              evicted == {all[i] : i \in 1 .. extra}
              warmed == [slot \in {Shared : d \in warm} |-> WarmedUp(warm)]
  <1>1. dirs' = [t \in (DOMAIN dirs \cup {s}) \ evicted |-> IF t = s THEN warmed ELSE dirs[t]]
    BY DEF Put
  <1>2. DOMAIN warmed \subseteq {Shared}
    OBVIOUS
  <1>. HIDE DEF evicted, warmed
  <1>3. /\ DOMAIN dirs' \subseteq DOMAIN dirs \cup {s}
        /\ \A t \in DOMAIN dirs' : t # s => dirs'[t] = dirs[t]
        /\ s \in DOMAIN dirs' => dirs'[s] = warmed
    BY <1>1
  <1>. QED
    BY <1>2, <1>3 DEF Put

(* A request begins with a directory of its own, or the shared one. *)
LEMMA Begun ==
  ASSUME Made, NEW r \in Requests, NEW kind \in {"dry", "preview"}, NEW s \in Stages, NEW d,
         NEW skip, Begin(r, kind, s, d, skip)
  PROVE  /\ ~Working(r) /\ DOMAIN work' = Requests /\ OthersWork(r) /\ IsJob(work'[r])
         /\ work'[r].at = "clear" /\ work'[r].kind = kind /\ work'[r].stage = s
         /\ work'[r].put = {} /\ work'[r].runs = {}
         /\ kind = "dry" => work'[r].slot = Shared /\ previews' = previews
         /\ kind = "preview" => /\ work'[r].slot = <<"preview", previews[s]>>
                                /\ previews' = [previews EXCEPT ![s] = @ + 1]
         /\ UNCHANGED <<dirs, marks>>
  <1>. DEFINE job == [at |-> "clear", kind |-> kind, stage |-> s, to |-> d, skip |-> skip,
                      slot |-> IF kind = "dry" THEN Shared ELSE OwnSlot(s),
                      put |-> {}, runs |-> {}]
  <1>1. work' = [work EXCEPT ![r] = job]
    BY DEF Begin
  <1>2. /\ IsJob(job) /\ job.at = "clear" /\ job.kind = kind /\ job.stage = s
        /\ job.put = {} /\ job.runs = {}
        /\ job.slot = IF kind = "dry" THEN Shared ELSE OwnSlot(s)
    BY DEF IsJob
  <1>. HIDE DEF job
  <1>. QED
    BY <1>1, <1>2 DEF Begin, Made, OthersWork, OwnSlot

-----------------------------------------------------------------------------
(* Requests keep their parts and their slots. *)

LEMMA InitClean == Init => CleanInv
  BY DEF Init, CleanInv, Made, SlotsAreRight, PreviewsCleanUp, Idle, Working

LEMMA NextMade ==
  ASSUME Made, [Next]_vars
  PROVE  Made' /\ (SlotsAreRight => SlotsAreRight')
  <1>1. ASSUME NEW s \in Stages, NEW warm, Put(s, warm)
        PROVE  Made' /\ (SlotsAreRight => SlotsAreRight')
    BY <1>1, PutMakesAStage DEF Made, SlotsAreRight, Working
  <1>2. ASSUME NEW d, Import(d) PROVE Made' /\ (SlotsAreRight => SlotsAreRight')
    BY <1>2 DEF Import, Made, SlotsAreRight, Working
  <1>3. ASSUME NEW r \in Requests, NEW kind \in {"dry", "preview"}, NEW s \in Stages, NEW d,
               NEW skip, Begin(r, kind, s, d, skip)
        PROVE  Made' /\ (SlotsAreRight => SlotsAreRight')
    <2>1. /\ DOMAIN work' = Requests /\ OthersWork(r) /\ IsJob(work'[r])
          /\ work'[r].kind = kind /\ work'[r].stage = s
          /\ kind = "dry" => work'[r].slot = Shared
          /\ kind = "preview" => /\ work'[r].slot = <<"preview", previews[s]>>
                                 /\ previews'[s] = previews[s] + 1
          /\ DOMAIN previews' = Stages
          /\ \A t \in Stages : previews[t] \in Nat /\ previews'[t] \in Nat
                               /\ previews'[t] \in {previews[t], previews[t] + 1}
      BY <1>3, Begun DEF Made
    <2>2. Made'
      BY <2>1 DEF Made, OthersWork, Working
    <2>3. ASSUME SlotsAreRight, NEW q \in Requests, Working(q)'
          PROVE  /\ work'[q].kind = "dry" => work'[q].slot \in {Shared, Bare}
                 /\ work'[q].kind = "preview" =>
                      \E n \in 0 .. previews'[work'[q].stage] :
                         n < previews'[work'[q].stage] /\ work'[q].slot = <<"preview", n>>
      <3>1. CASE q = r
        BY <2>1, <3>1
      <3>2. CASE q # r
        <4>1. work'[q] = work[q] /\ Working(q) /\ work[q].stage \in Stages
          BY <2>1, <2>3, <3>2 DEF OthersWork, Working, Made
        <4>2. CASE work[q].kind = "preview"
          <5>1. PICK n \in 0 .. previews[work[q].stage] :
                  n < previews[work[q].stage] /\ work[q].slot = <<"preview", n>>
            BY <2>3, <4>1, <4>2 DEF SlotsAreRight
          <5>2. n \in 0 .. previews'[work[q].stage] /\ n < previews'[work[q].stage]
            BY <2>1, <4>1, <5>1
          <5>. QED
            BY <4>1, <4>2, <5>1, <5>2
        <4>3. CASE work[q].kind # "preview"
          BY <2>3, <4>1, <4>3 DEF SlotsAreRight
        <4>. QED
          BY <4>2, <4>3
      <3>. QED
        BY <3>1, <3>2
    <2>. QED
      BY <2>2, <2>3 DEF SlotsAreRight
  <1>4. ASSUME NEW r \in Requests, Step(r)
        PROVE  Made' /\ (SlotsAreRight => SlotsAreRight')
    <2>1. /\ Working(r) /\ IsJob(work'[r]) /\ DOMAIN work' = Requests /\ OthersWork(r)
          /\ work'[r].kind = work[r].kind /\ work'[r].stage = work[r].stage
          /\ previews' = previews
          /\ \/ work'[r].slot = work[r].slot
             \/ work[r].kind # "preview" /\ work'[r].slot = Bare
      BY <1>4, Moved DEF Same
    <2>2. Made'
      BY <2>1 DEF Made, OthersWork, Working
    <2>3. SlotsAreRight => SlotsAreRight'
      BY <2>1 DEF SlotsAreRight, OthersWork, Working
    <2>. QED
      BY <2>2, <2>3
  <1>5. CASE UNCHANGED vars
    BY <1>5 DEF vars, Made, SlotsAreRight, Working
  <1>. QED
    BY <1>1, <1>2, <1>3, <1>4, <1>5, ConstantsAreFit DEF Next

-----------------------------------------------------------------------------
(* A preview's directory is there only as long as the preview. *)

LEMMA StaysClean ==
  ASSUME Made, SlotsAreRight, PreviewsCleanUp, [Next]_vars
  PROVE  PreviewsCleanUp'
  <1>1. ASSUME NEW s \in Stages, NEW warm, Put(s, warm) PROVE PreviewsCleanUp'
    BY <1>1, PutMakesAStage DEF PreviewsCleanUp, Shared, Working
  <1>2. ASSUME NEW d, Import(d) PROVE PreviewsCleanUp'
    BY <1>2 DEF Import, PreviewsCleanUp, Working
  <1>3. ASSUME NEW r \in Requests, NEW kind \in {"dry", "preview"}, NEW s \in Stages, NEW d,
               NEW skip, Begin(r, kind, s, d, skip)
        PROVE  PreviewsCleanUp'
    <2>1. ~Working(r) /\ OthersWork(r) /\ dirs' = dirs
      BY <1>3, Begun
    <2>. QED
      BY <2>1 DEF PreviewsCleanUp, OthersWork, Working
  <1>4. ASSUME NEW r \in Requests, Step(r) PROVE PreviewsCleanUp'
    <2> SUFFICES ASSUME NEW s \in DOMAIN dirs', NEW slot \in DOMAIN dirs'[s],
                        slot[1] = "preview"
                 PROVE  \E q \in Requests : /\ Working(q)'
                                            /\ work'[q].stage = s /\ work'[q].slot = slot
      BY DEF PreviewsCleanUp
    <2>1. s \in DOMAIN dirs /\ DOMAIN dirs' = DOMAIN dirs
      BY <1>4, OnlyItsDirectory
    <2>2. /\ Working(r) /\ IsJob(work[r]) /\ OthersWork(r) /\ IsJob(work'[r])
      BY <1>4, Moved
    <2>3. CASE s = work[r].stage /\ slot = work[r].slot
      <3>1. work[r].kind # "dry"
        BY <2>2, <2>3 DEF SlotsAreRight, Shared, Bare
      <3>2. work[r].kind = "preview"
        BY <2>2, <3>1 DEF IsJob
      <3>3. ~Discard(r)
        BY <2>1, <2>3, DiscardRemoves DEF StageThere
      <3>4. /\ work'[r].at \notin {"idle", "done"}
            /\ work'[r].stage = work[r].stage /\ work'[r].slot = work[r].slot
        BY <1>4, <3>2, <3>3, Moved DEF Same
      <3>. QED
        BY <2>3, <3>4 DEF Working
    <2>4. CASE s # work[r].stage \/ slot # work[r].slot
      <3>1. slot \in DOMAIN dirs[s]
        BY <1>4, <2>1, <2>4, OnlyItsDirectory
      <3>2. PICK q \in Requests : Working(q) /\ work[q].stage = s /\ work[q].slot = slot
        BY <2>1, <3>1 DEF PreviewsCleanUp
      <3>3. q # r
        BY <2>4, <3>2
      <3>. QED
        BY <2>2, <3>2, <3>3 DEF OthersWork, Working
    <2>. QED
      BY <2>3, <2>4
  <1>5. CASE UNCHANGED vars
    BY <1>5 DEF vars, PreviewsCleanUp, Working
  <1>. QED
    BY <1>1, <1>2, <1>3, <1>4, <1>5, ConstantsAreFit DEF Next

(* However many previews there are, whichever of their steps fail and        *)
(* whatever stages are evicted under them, the directory of a preview is     *)
(* gone once it has answered.                                                *)
THEOREM PreviewsLeaveNothing == Spec => []PreviewsCleanUp
  <1>1. CleanInv /\ [Next]_vars => CleanInv'
    BY NextMade, StaysClean DEF CleanInv
  <1>2. CleanInv => PreviewsCleanUp
    BY DEF CleanInv
  <1>. QED
    BY InitClean, <1>1, <1>2, PTL DEF Spec

-----------------------------------------------------------------------------
(* Where the client waits for the answer to each dry run of a stage, no two  *)
(* requests share a run directory.                                           *)

OneDryRun == Overlap = FALSE \/ "dry" \notin Kinds

LEMMA StaysExclusive ==
  ASSUME OneDryRun, Made, SlotsAreRight, Exclusive, [Next]_vars
  PROVE  Exclusive'
  <1>1. ASSUME NEW s \in Stages, NEW warm, Put(s, warm) PROVE Exclusive'
    BY <1>1, PutMakesAStage DEF Exclusive, Working
  <1>2. ASSUME NEW d, Import(d) PROVE Exclusive'
    BY <1>2 DEF Import, Exclusive, Working
  <1>3. ASSUME NEW r \in Requests, NEW kind \in Kinds, NEW s \in Stages, NEW d,
               NEW skip, Begin(r, kind, s, d, skip)
        PROVE  Exclusive'
    <2>0. kind \in {"dry", "preview"}
      BY ConstantsAreFit
    <2>1. /\ OthersWork(r) /\ IsJob(work'[r]) /\ previews[s] \in Nat
          /\ work'[r].kind = kind /\ work'[r].stage = s
          /\ kind = "dry" => work'[r].slot = Shared
          /\ kind = "preview" => work'[r].slot = <<"preview", previews[s]>>
      BY <1>3, <2>0, Begun DEF Made
    <2>2. ASSUME NEW q \in Requests, q # r, Working(q), work[q].stage = s
          PROVE  /\ ~(work[q].kind = "dry" /\ kind = "dry")
                 /\ work[q].slot # work'[r].slot
      <3>1. ~(work[q].kind = "dry" /\ kind = "dry")
        BY <1>3, <2>2 DEF Begin, OneDryRun
      <3>2. work[q].kind \in {"dry", "preview"}
        BY <2>2 DEF Made, IsJob, Working
      <3>3. CASE work[q].kind = "dry"
        BY <2>0, <2>1, <2>2, <3>1, <3>3 DEF SlotsAreRight, Shared, Bare
      <3>4. CASE work[q].kind = "preview"
        <4>1. PICK n \in 0 .. previews[s] : n < previews[s] /\ work[q].slot = <<"preview", n>>
          BY <2>2, <3>4 DEF SlotsAreRight
        <4>. QED
          BY <2>0, <2>1, <3>1, <4>1 DEF Shared
      <3>. QED
        BY <3>1, <3>2, <3>3, <3>4
    <2>3. ASSUME NEW q \in Requests, q # r PROVE work'[q] = work[q] /\ (Working(q)' <=> Working(q))
      BY <2>1, <2>3 DEF OthersWork, Working
    <2>. QED
      BY <2>1, <2>2, <2>3 DEF Exclusive
  <1>4. ASSUME NEW r \in Requests, Step(r) PROVE Exclusive'
    <2>1. /\ Working(r) /\ IsJob(work[r]) /\ OthersWork(r)
          /\ work'[r].kind = work[r].kind /\ work'[r].stage = work[r].stage
          /\ \/ work'[r].slot = work[r].slot
             \/ work[r].kind # "preview" /\ work'[r].slot = Bare
      BY <1>4, Moved DEF Same
    <2>2. ASSUME NEW q \in Requests, q # r, Working(q), work[q].stage = work[r].stage
          PROVE  /\ ~(work[q].kind = "dry" /\ work[r].kind = "dry")
                 /\ work[q].slot # work'[r].slot
      <3>1. /\ ~(work[q].kind = "dry" /\ work[r].kind = "dry")
            /\ work[q].slot # work[r].slot /\ work[r].slot # work[q].slot
        BY <2>1, <2>2 DEF Exclusive
      <3>2. CASE work[r].kind # "preview" /\ work'[r].slot = Bare
        <4>1. work[r].kind = "dry" /\ work[q].kind = "preview"
          BY <2>1, <2>2, <3>1, <3>2 DEF IsJob, Made, Working
        <4>. QED
          BY <2>2, <3>1, <3>2, <4>1 DEF SlotsAreRight, Bare
      <3>. QED
        BY <2>1, <3>1, <3>2
    <2>3. ASSUME NEW q \in Requests, q # r PROVE work'[q] = work[q] /\ (Working(q)' <=> Working(q))
      BY <2>1, <2>3 DEF OthersWork, Working
    <2>. QED
      BY <2>1, <2>2, <2>3 DEF Exclusive
  <1>5. CASE UNCHANGED vars
    BY <1>5 DEF vars, Exclusive, Working
  <1>. QED
    BY <1>1, <1>2, <1>3, <1>4, <1>5 DEF Next

(* A directory nobody has touched is still laid out as it was. *)
LEMMA StillLaidOut ==
  ASSUME NEW r \in Requests, LaidOut(r), work'[r] = work[r],
         RunThere(r)' => RunThere(r) /\ RunDir(r)' = RunDir(r)
  PROVE  LaidOut(r)'
  BY DEF LaidOut, Ready, Csv, Latest, Name

(* What hledger finds in a directory that is ready is what was meant. *)
LEMMA FoundIsMeant ==
  ASSUME NEW r \in Requests, RunThere(r), Ready(r)
  PROVE  Found(r, "csv") = {work[r].skip} /\ Found(r, "latest") = work[r].put
  BY DEF Found, Ready, Csv, Latest

LEMMA FoundSomething ==
  ASSUME NEW r \in Requests, Found(r, "csv") # {}
  PROVE  RunThere(r)
  BY DEF Found

(* What a request lays out, step by step. *)
LEMMA MakesItEmpty ==
  ASSUME NEW r \in Requests, Make(r)
  PROVE  DOMAIN dirs'[work[r].stage][work[r].slot] = {}
  <1>1. dirs' = [dirs EXCEPT ![work[r].stage] = With(dirs[work[r].stage], work[r].slot, <<>>)]
        /\ StageThere(r)
    BY DEF Make, Holds
  <1>2. dirs'[work[r].stage] = With(dirs[work[r].stage], work[r].slot, <<>>)
    BY <1>1 DEF StageThere
  <1>3. With(dirs[work[r].stage], work[r].slot, <<>>)[work[r].slot] = <<>>
    BY DEF With
  <1>4. DOMAIN <<>> = {}
    OBVIOUS
  <1>. QED
    BY <1>2, <1>3, <1>4

LEMMA HoldsIt ==
  ASSUME NEW r \in Requests, RunThere(r), NEW name, NEW what, Holds(r, With(RunDir(r), name, what))
  PROVE  LET dir == dirs'[work[r].stage][work[r].slot] IN
         /\ DOMAIN dir = DOMAIN RunDir(r) \cup {name} /\ dir[name] = what
         /\ \A n \in DOMAIN RunDir(r) : n # name => dir[n] = RunDir(r)[n]
  <1>. DEFINE files == With(RunDir(r), name, what)
              held == With(dirs[work[r].stage], work[r].slot, files)
  <1>1. dirs' = [dirs EXCEPT ![work[r].stage] = held]
    BY DEF Holds
  <1>2. held[work[r].slot] = files
    BY DEF With
  <1>3. /\ DOMAIN files = DOMAIN RunDir(r) \cup {name} /\ files[name] = what
        /\ \A n \in DOMAIN RunDir(r) : n # name => files[n] = RunDir(r)[n]
    BY DEF With
  <1>. HIDE DEF held, files
  <1>4. dirs'[work[r].stage] = held
    BY <1>1 DEF RunThere, StageThere
  <1>. QED
    BY <1>2, <1>3, <1>4

(* A request's own step lays its directory out further, and reads it as it   *)
(* was meant to be.                                                          *)
LEMMA LaysOutItsOwn ==
  ASSUME Made, SlotsAreRight, NEW r \in Requests, Step(r), LaidOut(r),
         \A run \in work[r].runs : run.read = run.meant
  PROVE  /\ Working(r)' => LaidOut(r)'
         /\ \A run \in work'[r].runs : run.read = run.meant
  <1>. DEFINE OwnRuns == \A run \in work'[r].runs : run.read = run.meant
  <1>0. /\ Working(r) /\ IsJob(work[r]) /\ IsJob(work'[r])
        /\ work'[r].kind = work[r].kind /\ work'[r].stage = work[r].stage
        /\ work'[r].to = work[r].to /\ work'[r].skip = work[r].skip
    BY Moved DEF Same
  <1>1. CASE Clear(r) /\ work'[r].at = "make" /\ Same(r, {"slot", "put", "runs"})
    <2>1. work[r].at = "clear" /\ work'[r].put = work[r].put /\ work'[r].runs = work[r].runs
      BY <1>1 DEF Clear, Same
    <2>. QED
      BY <1>1, <2>1 DEF LaidOut
  <1>2. CASE Make(r) /\ work'[r].at = "copy" /\ Same(r, {"slot", "put", "runs"})
    <2>1. /\ work[r].at = "make" /\ work'[r].put = work[r].put
          /\ work'[r].runs = work[r].runs /\ work'[r].slot = work[r].slot
      BY <1>2 DEF Make, Same
    <2>2. DOMAIN RunDir(r)' = {}
      BY <1>0, <1>2, <2>1, MakesItEmpty DEF RunDir
    <2>. QED
      BY <1>2, <2>1, <2>2 DEF LaidOut
  <1>3. CASE /\ Copy(r) /\ work'[r].at = (IF work[r].slot = Bare THEN "run" ELSE "mark")
             /\ Same(r, {"slot", "put", "runs"})
    <2>1. /\ work[r].at = "copy" /\ work'[r].put = work[r].put /\ RunThere(r)
          /\ work'[r].runs = work[r].runs /\ work'[r].slot = work[r].slot
          /\ Holds(r, With(RunDir(r), Csv(r), work[r].skip))
      BY <1>3 DEF Copy, Same, Csv
    <2>2. DOMAIN RunDir(r) = {} /\ work[r].put = {}
      BY <2>1 DEF LaidOut
    <2>. DEFINE dir == dirs'[work[r].stage][work[r].slot]
    <2>3. DOMAIN dir = DOMAIN RunDir(r) \cup {Csv(r)} /\ dir[Csv(r)] = work[r].skip
      BY <2>1, HoldsIt
    <2>4. RunDir(r)' = dir
      BY <1>0, <2>1 DEF RunDir
    <2>5. DOMAIN RunDir(r)' = {Csv(r)} /\ RunDir(r)'[Csv(r)] = work[r].skip
      BY <2>2, <2>3, <2>4
    <2>6. Csv(r)' = Csv(r) /\ Latest(r)' = Latest(r) /\ Csv(r) # Latest(r)
      BY <1>0 DEF Csv, Latest, Name
    <2>7. Ready(r)'
      BY <1>0, <2>1, <2>2, <2>5, <2>6 DEF Ready
    <2>. QED
      BY <1>3, <2>1, <2>2, <2>5, <2>6, <2>7 DEF LaidOut
  <1>4. CASE /\ Mark(r) /\ work'[r].at = "run" /\ Same(r, {"slot", "runs"})
             /\ work'[r].put = {marks[work[r].to]} \ {Absent}
    <2>. DEFINE mark == marks[work[r].to]
    <2>1. /\ work[r].at = "mark" /\ work'[r].runs = work[r].runs /\ work'[r].slot = work[r].slot
          /\ \/ mark = Absent /\ dirs' = dirs
             \/ mark # Absent /\ RunThere(r) /\ Holds(r, With(RunDir(r), Latest(r), mark))
      BY <1>4 DEF Mark, Same, Latest
    <2>2. Csv(r)' = Csv(r) /\ Latest(r)' = Latest(r) /\ Csv(r) # Latest(r)
      BY <1>0 DEF Csv, Latest, Name
    <2>3. ASSUME RunThere(r)' PROVE Ready(r)'
      <3>1. CASE mark = Absent /\ dirs' = dirs
        <4>1. RunThere(r) /\ RunDir(r)' = RunDir(r) /\ work'[r].put = {}
          BY <1>0, <1>4, <2>1, <2>3, <3>1 DEF RunThere, StageThere, RunDir
        <4>2. Ready(r) /\ DOMAIN RunDir(r) = {Csv(r)}
          BY <2>1, <4>1 DEF LaidOut
        <4>. QED
          BY <1>0, <2>2, <4>1, <4>2 DEF Ready
      <3>2. CASE mark # Absent /\ RunThere(r) /\ Holds(r, With(RunDir(r), Latest(r), mark))
        <4>1. work'[r].put = {mark}
          BY <1>4, <3>2
        <4>2. Ready(r) /\ DOMAIN RunDir(r) = {Csv(r)}
          BY <2>1, <3>2 DEF LaidOut
        <4>. DEFINE dir == dirs'[work[r].stage][work[r].slot]
        <4>3. /\ DOMAIN dir = DOMAIN RunDir(r) \cup {Latest(r)} /\ dir[Latest(r)] = mark
              /\ \A n \in DOMAIN RunDir(r) : n # Latest(r) => dir[n] = RunDir(r)[n]
          BY <3>2, HoldsIt
        <4>4. RunDir(r)' = dir
          BY <1>0, <2>1 DEF RunDir
        <4>5. /\ DOMAIN RunDir(r)' = {Csv(r), Latest(r)} /\ RunDir(r)'[Latest(r)] = mark
              /\ RunDir(r)'[Csv(r)] = RunDir(r)[Csv(r)]
          BY <2>2, <4>2, <4>3, <4>4
        <4>. QED
          BY <1>0, <2>2, <4>1, <4>2, <4>5 DEF Ready
      <3>. QED
        BY <2>1, <3>1, <3>2
    <2>. QED
      BY <1>4, <2>1, <2>3 DEF LaidOut
  <1>5. CASE /\ Run(r) \/ RunAgain(r)
             /\ work'[r].runs = Ran(r).runs
             /\ \/ work'[r].at = "discard" /\ Same(r, {"slot", "put"})
                \/ work'[r].at = "clear" /\ work'[r].put = {}
                \/ work'[r].at = "done"
    <2>1. /\ dirs' = dirs /\ Found(r, "csv") # {}
          /\ work[r].at = "run" \/ (work[r].at = "discard" /\ work[r].runs # {})
      BY <1>5 DEF Run, RunAgain
    <2>2. RunThere(r) /\ Ready(r)
      BY <2>1, FoundSomething DEF LaidOut
    <2>3. Found(r, "csv") = {work[r].skip} /\ Found(r, "latest") = work[r].put
      BY <2>2, FoundIsMeant
    <2>. DEFINE found == [csv |-> {work[r].skip}, latest |-> work[r].put]
                run1 == [meant |-> found, read |-> found]
    <2>4. Ran(r).runs = work[r].runs \cup {run1}
      BY <1>0, <2>3 DEF Ran, IsJob
    <2>5. run1.read = run1.meant
      OBVIOUS
    <2>. HIDE DEF run1
    <2>6. OwnRuns
      BY <1>5, <2>4, <2>5
    <2>7. work'[r].at = "discard" => LaidOut(r)'
      <3>1. ASSUME work'[r].at = "discard" PROVE Ready(r)'
        BY <1>0, <1>5, <2>1, <2>2, <3>1 DEF Ready, RunDir, Csv, Latest, Name, Same
      <3>. QED
        BY <3>1 DEF LaidOut
    <2>8. work'[r].at = "clear" => LaidOut(r)'
      BY <1>5 DEF LaidOut
    <2>. QED
      BY <1>5, <2>6, <2>7, <2>8 DEF Working
  <1>6. CASE /\ Fails(r) /\ work'[r].at = (IF work[r].kind = "preview" THEN "discard" ELSE "done")
             /\ work'[r].runs = {} \/ (Same(r, {"runs"}) /\ work[r].slot = Bare)
    <2>1. work[r].kind = "preview" => work'[r].runs = {}
      BY <1>0, <1>6 DEF SlotsAreRight, Bare
    <2>2. OwnRuns
      BY <1>6 DEF Same
    <2>. QED
      BY <1>6, <2>1, <2>2 DEF LaidOut, Working
  <1>7. CASE Discard(r) /\ work'[r].at = "done" /\ Same(r, {"slot", "put", "runs"})
    BY <1>7 DEF Same, Working
  <1>. QED
    BY <1>1, <1>2, <1>3, <1>4, <1>5, <1>6, <1>7, Moved

LEMMA StaysLaidOut ==
  ASSUME Made, SlotsAreRight, Exclusive, AllLaidOut, RunsReadTheirOwn, [Next]_vars
  PROVE  AllLaidOut' /\ RunsReadTheirOwn'
  <1>1. ASSUME NEW s \in Stages, NEW warm, Put(s, warm) PROVE AllLaidOut' /\ RunsReadTheirOwn'
    <2>1. ASSUME NEW r \in Requests, Working(r) PROVE LaidOut(r)'
      <3>1. /\ work'[r] = work[r]
            /\ RunThere(r)' => RunThere(r) /\ RunDir(r)' = RunDir(r)
        BY <1>1, <2>1, PutMakesAStage DEF RunThere, StageThere, RunDir
      <3>. QED
        BY <2>1, <3>1, StillLaidOut DEF AllLaidOut
    <2>. QED
      BY <1>1, <2>1, PutMakesAStage DEF AllLaidOut, RunsReadTheirOwn, Working
  <1>2. ASSUME UNCHANGED <<work, dirs>> PROVE AllLaidOut' /\ RunsReadTheirOwn'
    BY <1>2 DEF AllLaidOut, RunsReadTheirOwn, Working, LaidOut, Ready, Csv, Latest, Name, RunThere,
         StageThere, RunDir
  <1>3. ASSUME NEW r \in Requests, NEW kind \in {"dry", "preview"}, NEW s \in Stages, NEW d,
               NEW skip, Begin(r, kind, s, d, skip)
        PROVE  AllLaidOut' /\ RunsReadTheirOwn'
    <2>1. /\ OthersWork(r) /\ dirs' = dirs /\ work'[r].at = "clear"
          /\ work'[r].put = {} /\ work'[r].runs = {}
      BY <1>3, Begun
    <2>2. LaidOut(r)'
      BY <2>1 DEF LaidOut
    <2>3. ASSUME NEW q \in Requests, q # r
          PROVE  work'[q] = work[q] /\ (Working(q) => LaidOut(q)')
      <3>1. work'[q] = work[q] /\ (RunThere(q)' => RunThere(q) /\ RunDir(q)' = RunDir(q))
        BY <2>1, <2>3 DEF OthersWork, RunThere, StageThere, RunDir
      <3>. QED
        BY <3>1, StillLaidOut DEF AllLaidOut
    <2>. QED
      BY <2>1, <2>2, <2>3 DEF AllLaidOut, RunsReadTheirOwn, Working
  <1>4. ASSUME NEW r \in Requests, Step(r) PROVE AllLaidOut' /\ RunsReadTheirOwn'
    <2>1. Working(r) /\ OthersWork(r)
      BY <1>4, Moved
    <2>2. LaidOut(r) /\ \A run \in work[r].runs : run.read = run.meant
      BY <2>1 DEF AllLaidOut, RunsReadTheirOwn, Working, Idle
    <2>3. /\ Working(r)' => LaidOut(r)'
          /\ \A run \in work'[r].runs : run.read = run.meant
      BY <1>4, <2>2, LaysOutItsOwn
    <2>4. ASSUME NEW q \in Requests, q # r
          PROVE  work'[q] = work[q] /\ (Working(q) => LaidOut(q)')
      <3>1. work'[q] = work[q]
        BY <2>1, <2>4 DEF OthersWork
      <3>2. ASSUME Working(q), RunThere(q)' PROVE RunThere(q) /\ RunDir(q)' = RunDir(q)
        <4>1. work[q].stage # work[r].stage \/ work[q].slot # work[r].slot
          BY <2>1, <2>4, <3>2 DEF Exclusive
        <4>2. work[q].stage \in DOMAIN dirs' /\ work[q].slot \in DOMAIN dirs'[work[q].stage]
          BY <3>1, <3>2 DEF RunThere, StageThere
        <4>. QED
          BY <1>4, <3>1, <4>1, <4>2, OnlyItsDirectory DEF RunThere, StageThere, RunDir
      <3>. QED
        BY <3>1, <3>2, StillLaidOut DEF AllLaidOut
    <2>. QED
      BY <2>3, <2>4 DEF AllLaidOut, RunsReadTheirOwn, Working
  <1>5. ASSUME NEW d, Import(d) PROVE UNCHANGED <<work, dirs>>
    BY <1>5 DEF Import
  <1>6. UNCHANGED vars => UNCHANGED <<work, dirs>>
    BY DEF vars
  <1>. QED
    BY <1>1, <1>2, <1>3, <1>4, <1>5, <1>6, ConstantsAreFit DEF Next

(* Every run of hledger an answer rests on read the CSV and the marker its   *)
(* own request laid out, whatever previews, evictions, failures and imports  *)
(* come between; two dry runs of one upload at once are what it is not true  *)
(* of.                                                                       *)
THEOREM ReadsItsOwn ==
  ASSUME Overlap = FALSE \/ "dry" \notin Kinds
  PROVE  Spec => []RunsReadTheirOwn
  <1>0. OneDryRun
    BY DEF OneDryRun
  <1>1. Init => ReadInv
    <2>1. Init => Exclusive /\ AllLaidOut /\ RunsReadTheirOwn
      BY DEF Init, Exclusive, AllLaidOut, RunsReadTheirOwn, Idle, Working
    <2>. QED
      BY <2>1, InitClean DEF ReadInv, CleanInv
  <1>2. ReadInv /\ [Next]_vars => ReadInv'
    BY <1>0, NextMade, StaysExclusive, StaysLaidOut DEF ReadInv
  <1>3. ReadInv => RunsReadTheirOwn
    BY DEF ReadInv
  <1>. QED
    BY <1>1, <1>2, <1>3, PTL DEF Spec
=============================================================================

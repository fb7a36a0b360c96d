------------------------------- MODULE ConfProofs -------------------------------
(***************************************************************************)
(* What a save of the settings may lose, for any number of screens and       *)
(* journals.                                                                 *)
(***************************************************************************)
EXTENDS ConfFile, SequenceTheorems, TLAPS

\* Between the first reading and the write a save holds on to the text its screen
\* showed, and what it is going to write is that text but for the setting.
SaveHoldsTheShown ==
    \A s \in Screens :
        /\ call[s].at \in {"read", "write"} => call[s].read.text = settings[s]
        /\ call[s].at = "write" /\ call[s].target # None /\ call[s].read.text # None
              => call[s].next.rest = call[s].read.text.rest

ConfInv == ConfTypeOK /\ SaveHoldsTheShown

-----------------------------------------------------------------------------
(* Lemmas about readings and snapshots.                                      *)

LEMMA ReadingType ==
  ASSUME ConfTypeOK, NEW j \in Journals
  PROVE  ReadingFor(j) \in ConfReading /\ AutoFor(j) \in BOOLEAN
<1>1. Located(j) \in ConfFiles \cup {None}
  BY DEF Located, ConfFiles
<1>2. Located(j) # None => conf[Located(j)] \in ConfTexts
  BY ConfAssumption DEF Located, ConfFiles, ConfTypeOK
<1> QED
  BY <1>1, <1>2, ConfAssumption DEF ReadingFor, AutoFor, ConfReading, ConfTexts

LEMMA NoReading == NotRead \in ConfReading
  BY DEF NotRead, ConfReading

LEMMA SnapType ==
  ASSUME ConfTypeOK, NEW j \in Journals, NEW reading \in ConfReading
  PROVE  Made(j) \in Snap /\ MadeWith(j, reading) \in Snap
  BY ReadingType, NoReading DEF Made, MadeWith, Snap

LEMMA AppendType ==
  ASSUME ConfTypeOK, NEW snap \in Snap
  PROVE  Append(snaps, snap) \in Seq(Snap) /\ Len(Append(snaps, snap)) = Len(snaps) + 1
  BY DEF ConfTypeOK

LEMMA FilledType ==
  ASSUME ConfTypeOK, NEW n \in 1 .. Len(snaps), NEW reading \in ConfReading
  PROVE  Filled(n, reading) \in Seq(Snap) /\ Len(Filled(n, reading)) = Len(snaps)
<1>1. snaps[n] \in Snap
  BY DEF ConfTypeOK
<1> DEFINE filled == [snaps[n] EXCEPT !.known = TRUE, !.conf = reading]
<1>2. filled \in Snap
  BY <1>1 DEF Snap
<1> HIDE DEF filled
<1>3. [snaps EXCEPT ![n] = filled] \in Seq(Snap) /\ Len([snaps EXCEPT ![n] = filled]) = Len(snaps)
  BY <1>2, ExceptSeq DEF ConfTypeOK
<1>4. Filled(n, reading) \in {snaps, [snaps EXCEPT ![n] = filled]}
  BY <1>1 DEF Filled, ConfTypeOK, filled
<1> QED
  BY <1>3, <1>4 DEF ConfTypeOK

LEMMA JournalType ==
  ASSUME ConfTypeOK, NEW s \in Screens
  PROVE  call[s].of \in 1 .. Len(snaps) /\ JournalOf(s) \in Journals
<1>1. call[s].of \in 1 .. Len(snaps)
  BY DEF ConfTypeOK, CallState
<1>2. snaps[call[s].of] \in Snap
  BY <1>1, ElementOfSeq DEF ConfTypeOK
<1> QED
  BY <1>1, <1>2 DEF JournalOf, Snap

LEMMA LastType ==
  ASSUME ConfTypeOK
  PROVE  /\ InForce \in 1 .. Len(snaps) /\ InForce \in Nat \ {0}
         /\ snaps[InForce].journal \in Journals
<1>1. InForce \in 1 .. Len(snaps) /\ InForce \in Nat \ {0}
  BY LenProperties DEF ConfTypeOK, InForce
<1>2. snaps[InForce] \in Snap
  BY <1>1, ElementOfSeq DEF ConfTypeOK
<1> QED
  BY <1>1, <1>2 DEF Snap

\* A step of one screen's request that leaves the rest in order.
LEMMA OneCall ==
  ASSUME ConfInv, NEW s \in Screens, NEW c \in CallState, c.of <= Len(snaps'),
         call' = [call EXCEPT ![s] = c],
         \A p \in Screens : p # s => settings'[p] = settings[p],
         settings' \in [Screens -> ConfTexts \cup {None}],
         snaps' \in Seq(Snap), Len(snaps') >= Len(snaps),
         conf' \in [ConfFiles -> ConfTexts \cup {None}], opened' \in Journals,
         confLock' \in Screens \cup {None},
         used' \in [puts : 0 .. MaxPuts, others : 0 .. MaxConfOthers],
         c.at \in {"read", "write"} => c.read.text = settings'[s],
         c.at = "write" /\ c.target # None /\ c.read.text # None => c.next.rest = c.read.text.rest
  PROVE  ConfInv'
<1>1. call' \in [Screens -> CallState]
  BY DEF ConfInv, ConfTypeOK
<1>2. call'[s] = c /\ \A p \in Screens : p # s => call'[p] = call[p]
  BY DEF ConfInv, ConfTypeOK
<1>3. Len(snaps) \in Nat /\ Len(snaps') \in Nat
  BY LenProperties DEF ConfInv, ConfTypeOK
<1>4. \A p \in Screens : call'[p].of <= Len(snaps')
  BY <1>2, <1>3 DEF ConfInv, ConfTypeOK, CallState
<1>5. ConfTypeOK'
  BY <1>1, <1>3, <1>4 DEF ConfInv, ConfTypeOK
<1>6. SaveHoldsTheShown'
  BY <1>2 DEF ConfInv, SaveHoldsTheShown
<1> QED
  BY <1>5, <1>6 DEF ConfInv

\* ... to a stage at which it holds on to nothing, with the snapshots in order.
LEMMA OneCallMoves ==
  ASSUME ConfInv, NEW s \in Screens, NEW c \in CallState, c.of <= Len(snaps),
         c.at \notin {"read", "write"},
         call' = [call EXCEPT ![s] = c],
         snaps' \in Seq(Snap), Len(snaps') >= Len(snaps),
         UNCHANGED <<conf, opened, settings>>,
         confLock' \in Screens \cup {None},
         used' \in [puts : 0 .. MaxPuts, others : 0 .. MaxConfOthers]
  PROVE  ConfInv'
<1>1. Len(snaps) \in Nat /\ Len(snaps') \in Nat /\ c.of \in Nat
  BY LenProperties DEF ConfInv, ConfTypeOK, CallState
<1>2. c.of <= Len(snaps')
  BY <1>1
<1>3. /\ settings' \in [Screens -> ConfTexts \cup {None}]
      /\ conf' \in [ConfFiles -> ConfTexts \cup {None}] /\ opened' \in Journals
      /\ \A p \in Screens : p # s => settings'[p] = settings[p]
  BY DEF ConfInv, ConfTypeOK
<1> QED
  BY <1>2, <1>3, OneCall

\* ... and nothing else moves.
LEMMA OneCallAlone ==
  ASSUME ConfInv, NEW s \in Screens, NEW c \in CallState, c.of <= Len(snaps),
         c.at \notin {"read", "write"},
         call' = [call EXCEPT ![s] = c],
         conf' = conf, opened' = opened, settings' = settings, snaps' = snaps,
         confLock' \in Screens \cup {None},
         used' \in [puts : 0 .. MaxPuts, others : 0 .. MaxConfOthers]
  PROVE  ConfInv'
<1>1. snaps' \in Seq(Snap) /\ Len(snaps') >= Len(snaps)
  BY LenProperties DEF ConfInv, ConfTypeOK
<1> QED
  BY <1>1, OneCallMoves

\* A step of nobody's request.
LEMMA NoCallMoves ==
  ASSUME ConfInv, UNCHANGED <<settings, call, confLock>>,
         snaps' \in Seq(Snap), Len(snaps') >= Len(snaps),
         conf' \in [ConfFiles -> ConfTexts \cup {None}], opened' \in Journals,
         used' \in [puts : 0 .. MaxPuts, others : 0 .. MaxConfOthers]
  PROVE  ConfInv'
<1>1. Len(snaps) \in Nat /\ Len(snaps') \in Nat
  BY LenProperties DEF ConfInv, ConfTypeOK
<1>2. ConfTypeOK'
  BY <1>1 DEF ConfInv, ConfTypeOK, CallState
<1> QED
  BY <1>2 DEF ConfInv, SaveHoldsTheShown

-----------------------------------------------------------------------------
(* The steps.                                                                *)

LEMMA OthersKeepInv ==
  ASSUME ConfInv,
         \/ \E f \in Others : ConfChanges(f)
         \/ \E j \in Journals : OpenJournal(j)
         \/ JournalPublished \/ ReportAsks
  PROVE  ConfInv'
<1>1. ASSUME NEW f \in Others, ConfChanges(f) PROVE ConfInv'
  <2>1. /\ conf' \in [ConfFiles -> ConfTexts \cup {None}]
        /\ used' \in [puts : 0 .. MaxPuts, others : 0 .. MaxConfOthers]
    BY <1>1, ConfAssumption DEF ConfChanges, ConfInv, ConfTypeOK
  <2> QED
    BY <1>1, <2>1, NoCallMoves, LenProperties DEF ConfChanges, ConfInv, ConfTypeOK
<1>2. ASSUME NEW j \in Journals, OpenJournal(j) PROVE ConfInv'
  <2>1. snaps' \in Seq(Snap) /\ Len(snaps') >= Len(snaps)
    BY <1>2, SnapType, NoReading, AppendType, LenProperties DEF OpenJournal, ConfInv, ConfTypeOK
  <2>2. used' \in [puts : 0 .. MaxPuts, others : 0 .. MaxConfOthers]
    BY <1>2, ConfAssumption DEF OpenJournal, ConfInv, ConfTypeOK
  <2> QED
    BY <1>2, <2>1, <2>2, NoCallMoves DEF OpenJournal, ConfInv, ConfTypeOK
<1>3. CASE JournalPublished
  <2>1. snaps' \in Seq(Snap) /\ Len(snaps') >= Len(snaps)
    BY <1>3, SnapType, NoReading, AppendType, LenProperties DEF JournalPublished, ConfInv, ConfTypeOK
  <2>2. used' \in [puts : 0 .. MaxPuts, others : 0 .. MaxConfOthers]
    BY <1>3, ConfAssumption DEF JournalPublished, ConfInv, ConfTypeOK
  <2> QED
    BY <1>3, <2>1, <2>2, NoCallMoves DEF JournalPublished, ConfInv, ConfTypeOK
<1>4. CASE ReportAsks
  <2>1. ReadingFor(snaps[InForce].journal) \in ConfReading
    BY LastType, ReadingType DEF ConfInv
  <2>2. snaps' \in Seq(Snap) /\ Len(snaps') = Len(snaps)
    BY <1>4, <2>1, LastType, FilledType DEF ReportAsks, ConfInv
  <2> QED
    BY <1>4, <2>2, NoCallMoves, LenProperties DEF ReportAsks, ConfInv, ConfTypeOK
<1> QED
  BY <1>1, <1>2, <1>3, <1>4

LEMMA GetKeepsInv ==
  ASSUME ConfInv, NEW s \in Screens, GetBegins(s) \/ GetReads(s) \/ GetPublishes(s) \/ GetAnswers(s)
  PROVE  ConfInv'
<1>1. /\ ConfTypeOK /\ call[s] \in CallState /\ call[s].of <= Len(snaps)
      /\ snaps \in Seq(Snap) /\ Len(snaps) \in Nat
      /\ confLock \in Screens \cup {None}
      /\ used \in [puts : 0 .. MaxPuts, others : 0 .. MaxConfOthers]
  BY LenProperties DEF ConfInv, ConfTypeOK
<1>2. CASE GetBegins(s)
  <2> DEFINE c == [call[s] EXCEPT !.at = "get", !.of = InForce]
  <2>1. InForce \in Nat \ {0} /\ InForce <= Len(snaps)
    BY <1>1, LastType
  <2>2. c \in CallState /\ c.of <= Len(snaps) /\ c.at = "get"
    BY <1>1, <2>1 DEF CallState
  <2>3. call' = [call EXCEPT ![s] = c]
    BY <1>2 DEF GetBegins
  <2> HIDE DEF c
  <2>4. UNCHANGED <<conf, opened, settings, snaps, confLock, used>>
    BY <1>2 DEF GetBegins
  <2> QED
    BY <1>1, <2>2, <2>3, <2>4, OneCallAlone
<1>3. CASE GetReads(s)
  <2> DEFINE c == [call[s] EXCEPT !.at = "fresh", !.read = ReadingFor(JournalOf(s))]
  <2>1. ReadingFor(JournalOf(s)) \in ConfReading
    BY <1>1, JournalType, ReadingType
  <2>2. c \in CallState /\ c.of <= Len(snaps) /\ c.at = "fresh"
    BY <1>1, <2>1 DEF CallState, ConfTypeOK
  <2>3. call' = [call EXCEPT ![s] = c]
    BY <1>3 DEF GetReads
  <2> HIDE DEF c
  <2>4. UNCHANGED <<conf, opened, settings, snaps, confLock, used>>
    BY <1>3 DEF GetReads
  <2> QED
    BY <1>1, <2>2, <2>3, <2>4, OneCallAlone
<1>4. CASE GetPublishes(s)
  <2>1. PICK stale \in BOOLEAN :
          /\ call' = [call EXCEPT ![s] = [@ EXCEPT !.at = IF stale THEN "published" ELSE "got"]]
          /\ snaps' = IF stale THEN Append(snaps, MadeWith(opened, call[s].read))
                      ELSE Filled(call[s].of, call[s].read)
    BY <1>4 DEF GetPublishes
  <2> DEFINE c == [call[s] EXCEPT !.at = IF stale THEN "published" ELSE "got"]
  <2>2. call[s].read \in ConfReading /\ opened \in Journals
    BY <1>1 DEF CallState, ConfTypeOK
  <2>3. snaps' \in Seq(Snap) /\ Len(snaps') >= Len(snaps)
    <3>1. CASE stale
      BY <1>1, <2>1, <2>2, <3>1, SnapType, AppendType
    <3>2. CASE ~stale
      BY <1>1, <2>1, <2>2, <3>2, FilledType, JournalType
    <3> QED
      BY <3>1, <3>2
  <2>4. c \in CallState /\ c.of <= Len(snaps) /\ c.at \in {"published", "got"}
    BY <1>1 DEF CallState, ConfTypeOK
  <2>5. call' = [call EXCEPT ![s] = c]
    BY <2>1
  <2> HIDE DEF c
  <2>6. UNCHANGED <<conf, opened, settings, confLock, used>>
    BY <1>4 DEF GetPublishes
  <2> QED
    BY <1>1, <2>3, <2>4, <2>5, <2>6, OneCallMoves
<1>5. CASE GetAnswers(s)
  <2>1. PICK n \in 1 .. Len(snaps) :
          /\ snaps' = Filled(n, ReadingFor(snaps[n].journal))
          /\ settings' = [settings EXCEPT ![s] = snaps'[n].conf.text]
    BY <1>1, <1>5, LastType, JournalType DEF GetAnswers
  <2>2. snaps[n] \in Snap
    BY <1>1, ElementOfSeq
  <2>3. ReadingFor(snaps[n].journal) \in ConfReading
    BY <1>1, <2>2, ReadingType DEF Snap
  <2>4. snaps' \in Seq(Snap) /\ Len(snaps') = Len(snaps)
    BY <1>1, <2>1, <2>3, FilledType
  <2>5. snaps'[n] \in Snap
    BY <2>4, ElementOfSeq
  <2>6. snaps'[n].conf.text \in ConfTexts \cup {None}
    BY <2>5 DEF Snap, ConfReading
  <2>7. settings' \in [Screens -> ConfTexts \cup {None}]
    BY <1>1, <2>1, <2>6 DEF ConfTypeOK
  <2>8. NoCall \in CallState /\ NoCall.of <= Len(snaps') /\ NoCall.at = "idle"
    BY <1>1, <2>4, NoReading DEF NoCall, CallState, ConfTypeOK
  <2>9. /\ call' = [call EXCEPT ![s] = NoCall] /\ UNCHANGED <<conf, opened, confLock, used>>
        /\ \A p \in Screens : p # s => settings'[p] = settings[p]
    BY <1>1, <1>5, <2>1 DEF GetAnswers, ConfTypeOK
  <2>10. /\ conf' \in [ConfFiles -> ConfTexts \cup {None}] /\ opened' \in Journals
         /\ confLock' \in Screens \cup {None} /\ Len(snaps') >= Len(snaps)
         /\ used' \in [puts : 0 .. MaxPuts, others : 0 .. MaxConfOthers]
    BY <1>1, <2>4, <2>9 DEF ConfTypeOK
  <2> QED
    BY <2>4, <2>7, <2>8, <2>9, <2>10, OneCall
<1> QED
  BY <1>2, <1>3, <1>4, <1>5

LEMMA PutKeepsInv ==
  ASSUME ConfInv, NEW s \in Screens,
         (\E auto \in BOOLEAN : PutBegins(s, auto)) \/ PutSteps(s)
  PROVE  ConfInv'
<1>1. /\ ConfTypeOK /\ call[s] \in CallState /\ call[s].of <= Len(snaps)
      /\ snaps \in Seq(Snap) /\ Len(snaps) \in Nat /\ Len(snaps) > 0
      /\ confLock \in Screens \cup {None}
      /\ used \in [puts : 0 .. MaxPuts, others : 0 .. MaxConfOthers]
      /\ conf \in [ConfFiles -> ConfTexts \cup {None}] /\ opened \in Journals
      /\ settings \in [Screens -> ConfTexts \cup {None}]
  BY LenProperties DEF ConfInv, ConfTypeOK
<1>2. snaps' = snaps => snaps' \in Seq(Snap) /\ Len(snaps') >= Len(snaps)
  BY <1>1
<1>3. NoCall \in CallState /\ NoCall.of <= Len(snaps) /\ NoCall.at = "idle"
  BY <1>1, NoReading DEF NoCall, CallState
<1>4. ASSUME PutEnds(s), UNCHANGED <<conf, opened, snaps, settings, used>> PROVE ConfInv'
  <2>1. /\ call' = [call EXCEPT ![s] = NoCall] /\ confLock' = None
        /\ conf' = conf /\ opened' = opened /\ settings' = settings /\ snaps' = snaps
    BY <1>4 DEF PutEnds
  <2> QED
    BY <1>1, <1>3, <1>4, <2>1, OneCallAlone
<1>5. ASSUME NEW auto \in BOOLEAN, PutBegins(s, auto) PROVE ConfInv'
  <2> DEFINE c == [call[s] EXCEPT !.at = "put", !.auto = auto]
  <2>1. c \in CallState /\ c.of <= Len(snaps) /\ c.at = "put"
    BY <1>1 DEF CallState
  <2>2. call' = [call EXCEPT ![s] = c]
    BY <1>5 DEF PutBegins
  <2>3. /\ UNCHANGED <<conf, opened, snaps, settings, confLock>>
        /\ used.puts < MaxPuts /\ used' = [used EXCEPT !.puts = @ + 1]
    BY <1>5 DEF PutBegins
  <2>4. used' \in [puts : 0 .. MaxPuts, others : 0 .. MaxConfOthers]
    BY <1>1, <2>3, ConfAssumption
  <2> HIDE DEF c
  <2> QED
    BY <1>1, <2>1, <2>2, <2>3, <2>4, OneCallAlone
<1>6. CASE PutLocks(s)
  <2> DEFINE c == [call[s] EXCEPT !.at = "locked", !.of = InForce]
  <2>1. InForce \in Nat \ {0} /\ InForce <= Len(snaps)
    BY <1>1, LastType
  <2>2. c \in CallState /\ c.of <= Len(snaps) /\ c.at = "locked"
    BY <1>1, <2>1 DEF CallState
  <2>3. /\ call' = [call EXCEPT ![s] = c] /\ confLock' = s
        /\ UNCHANGED <<conf, opened, snaps, settings, used>>
    BY <1>6 DEF PutLocks
  <2> HIDE DEF c
  <2> QED
    BY <1>1, <2>2, <2>3, OneCallAlone
<1>7. CASE PutReads(s)
  <2> DEFINE reading == ReadingFor(JournalOf(s))
             c == [call[s] EXCEPT !.at = "read", !.read = reading]
  <2>1. CASE reading.text = settings[s]
    <3>1. reading \in ConfReading
      BY <1>1, JournalType, ReadingType
    <3> HIDE DEF reading
    <3>2. c \in CallState /\ c.of <= Len(snaps) /\ c.at = "read" /\ c.read = reading
      BY <1>1, <3>1 DEF CallState
    <3>3. /\ call' = [call EXCEPT ![s] = c]
          /\ UNCHANGED <<conf, opened, snaps, settings, confLock, used>>
      BY <1>7, <2>1 DEF PutReads, reading
    <3>4. c.read.text = settings'[s]
      BY <2>1, <3>2, <3>3
    <3> HIDE DEF c
    <3> QED
      BY <1>1, <1>2, <3>2, <3>3, <3>4, OneCall
  <2>2. CASE reading.text # settings[s]
    BY <1>4, <1>7, <2>2 DEF PutReads
  <2> QED
    BY <2>1, <2>2
<1>8. CASE PutTargets(s)
  <2> DEFINE now == conf[TargetOf(s)]
             shown == call[s].read.text
             base == IF now = None THEN [auto |-> FALSE, rest |-> NewRest]
                     ELSE IF shown = None THEN [auto |-> FALSE, rest |-> Empty] ELSE shown
             next == [base EXCEPT !.auto = call[s].auto]
             c == [call[s] EXCEPT !.at = "write", !.target = now, !.next = next]
  <2>1. shown \in ConfTexts \cup {None} /\ call[s].auto \in BOOLEAN
    BY <1>1 DEF CallState, ConfReading
  <2>2. TargetOf(s) \in ConfFiles
    BY <1>1, JournalType DEF TargetOf, CallState, ConfReading, ConfFiles
  <2>3. now \in ConfTexts \cup {None}
    BY <1>1, <2>2
  <2>4. base \in ConfTexts
    BY <2>1, ConfAssumption DEF ConfTexts
  <2>5. next \in ConfTexts /\ next.rest = base.rest
    BY <2>1, <2>4 DEF ConfTexts
  <2>6. now # None /\ shown # None => next.rest = shown.rest
    BY <2>5
  <2>7. CASE (now = None => shown = None) /\ next # base
    <3>1. /\ call' = [call EXCEPT ![s] = c]
          /\ UNCHANGED <<conf, opened, snaps, settings, confLock, used>>
      BY <1>8, <2>7 DEF PutTargets
    <3>2. call[s].at = "read"
      BY <1>8 DEF PutTargets
    <3>3. shown = settings[s]
      BY <3>2 DEF ConfInv, SaveHoldsTheShown
    <3> HIDE DEF next, now
    <3>4. c \in CallState /\ c.of <= Len(snaps) /\ c.at = "write" /\ c.read = call[s].read
             /\ c.target = now /\ c.next = next
      BY <1>1, <2>3, <2>5 DEF CallState
    <3> HIDE DEF c
    <3>5. c.read.text = settings'[s]
      BY <3>1, <3>3, <3>4
    <3>6. c.target # None /\ c.read.text # None => c.next.rest = c.read.text.rest
      BY <2>6, <3>4
    <3> QED
      BY <1>1, <1>2, <3>1, <3>4, <3>5, <3>6, OneCall
  <2>8. CASE ~((now = None => shown = None) /\ next # base)
    BY <1>4, <1>8, <2>8 DEF PutTargets
  <2> QED
    BY <2>7, <2>8
<1>9. CASE PutWrites(s)
  <2> DEFINE c == [call[s] EXCEPT !.at = "written"]
  <2>1. CASE conf[TargetOf(s)] = call[s].target
    <3>1. c \in CallState /\ c.of <= Len(snaps) /\ c.at = "written"
      BY <1>1 DEF CallState
    <3>2. /\ call' = [call EXCEPT ![s] = c]
          /\ conf' = [conf EXCEPT ![TargetOf(s)] = call[s].next]
          /\ UNCHANGED <<opened, snaps, settings, confLock, used>>
      BY <1>9, <2>1 DEF PutWrites
    <3>3. call[s].next \in ConfTexts \cup {None}
      BY <1>1 DEF CallState
    <3>4. conf' \in [ConfFiles -> ConfTexts \cup {None}]
      BY <1>1, <3>2, <3>3
    <3> HIDE DEF c
    <3> QED
      BY <1>1, <1>2, <3>1, <3>2, <3>4, OneCall
  <2>2. CASE conf[TargetOf(s)] # call[s].target
    BY <1>4, <1>9, <2>2 DEF PutWrites
  <2> QED
    BY <2>1, <2>2
<1>10. CASE PutRereads(s)
  <2> DEFINE reading == [ReadingFor(JournalOf(s)) EXCEPT !.text = call[s].next]
             c == [call[s] EXCEPT !.at = "reread", !.read = reading]
  <2>1. ReadingFor(JournalOf(s)) \in ConfReading
    BY <1>1, JournalType, ReadingType
  <2>2. reading \in ConfReading
    BY <1>1, <2>1 DEF CallState, ConfReading
  <2>3. /\ call' = [call EXCEPT ![s] = c]
        /\ UNCHANGED <<conf, opened, snaps, settings, confLock, used>>
    BY <1>10 DEF PutRereads
  <2> HIDE DEF reading
  <2>4. c \in CallState /\ c.of <= Len(snaps) /\ c.at = "reread"
    BY <1>1, <2>2 DEF CallState
  <2> HIDE DEF c
  <2> QED
    BY <1>1, <2>3, <2>4, OneCallAlone
<1>11. CASE PutAnswers(s)
  <2>1. call[s].read \in ConfReading /\ call[s].next \in ConfTexts \cup {None}
    BY <1>1 DEF CallState
  <2>2. /\ snaps' = Append(snaps, MadeWith(opened, call[s].read))
        /\ settings' = [settings EXCEPT ![s] = call[s].next]
        /\ call' = [call EXCEPT ![s] = NoCall] /\ confLock' = None
        /\ UNCHANGED <<conf, opened, used>>
    BY <1>11 DEF PutAnswers, PutEnds
  <2>3. snaps' \in Seq(Snap) /\ Len(snaps') = Len(snaps) + 1
    BY <1>1, <2>1, <2>2, SnapType, AppendType
  <2>4. /\ settings' \in [Screens -> ConfTexts \cup {None}]
        /\ \A p \in Screens : p # s => settings'[p] = settings[p]
    BY <1>1, <2>1, <2>2
  <2>5. Len(snaps') >= Len(snaps) /\ NoCall.of <= Len(snaps')
    BY <1>1, <1>3, <2>3 DEF CallState
  <2> QED
    BY <1>1, <1>3, <2>2, <2>3, <2>4, <2>5, OneCall
<1> QED
  BY <1>5, <1>6, <1>7, <1>8, <1>9, <1>10, <1>11 DEF PutSteps

LEMMA ConfInitInv == ConfInit => ConfInv
<1> SUFFICES ASSUME ConfInit PROVE ConfInv
  OBVIOUS
<1>1. conf \in [ConfFiles -> ConfTexts \cup {None}]
  <2>1. [auto |-> FALSE, rest |-> NewRest] \in ConfTexts
    BY ConfAssumption DEF ConfTexts
  <2>2. conf \in [ConfFiles -> {None, [auto |-> FALSE, rest |-> NewRest]}]
    BY DEF ConfInit
  <2> QED
    BY <2>1, <2>2
<1>2. AutoFor(opened) \in BOOLEAN
  <2>1. Located(opened) # None => conf[Located(opened)] \in ConfTexts
    BY <1>1, ConfAssumption DEF ConfInit, Located, ConfFiles
  <2> QED
    BY <2>1 DEF AutoFor, ConfTexts
<1>3. Made(opened) \in Snap
  BY <1>2, NoReading DEF ConfInit, Made, Snap
<1>4. snaps \in Seq(Snap) /\ Len(snaps) = 1
  BY <1>3 DEF ConfInit
<1>5. NoCall \in CallState /\ NoCall.of = 1 /\ NoCall.at = "idle"
  BY NoReading DEF NoCall, CallState
<1>6. used \in [puts : 0 .. MaxPuts, others : 0 .. MaxConfOthers]
  BY ConfAssumption DEF ConfInit
<1>7. ConfTypeOK
  BY <1>1, <1>4, <1>5, <1>6 DEF ConfInit, ConfTypeOK
<1>8. SaveHoldsTheShown
  BY <1>5 DEF ConfInit, SaveHoldsTheShown
<1> QED
  BY <1>7, <1>8 DEF ConfInv

LEMMA ConfNextInv == ConfInv /\ [ConfNext]_confVars => ConfInv'
<1> SUFFICES ASSUME ConfInv, [ConfNext]_confVars PROVE ConfInv'
  OBVIOUS
<1>1. CASE \/ \E f \in Others : ConfChanges(f)
           \/ \E j \in Journals : OpenJournal(j)
           \/ JournalPublished \/ ReportAsks
  BY <1>1, OthersKeepInv
<1>2. CASE \E s \in Screens : GetBegins(s) \/ GetSteps(s) \/ PutSteps(s)
  BY <1>2, GetKeepsInv, PutKeepsInv DEF GetSteps
<1>3. CASE \E s \in Screens, auto \in BOOLEAN : PutBegins(s, auto)
  BY <1>3, PutKeepsInv
<1>4. CASE UNCHANGED confVars
  BY <1>4 DEF confVars, ConfInv, ConfTypeOK, CallState, SaveHoldsTheShown
<1> QED
  BY <1>1, <1>2, <1>3, <1>4 DEF ConfNext

\* Every variable keeps to its type, and a save to what its screen showed.
THEOREM ConfInvariant == ConfSpec => []ConfInv
  BY ConfInitInv, ConfNextInv, PTL DEF ConfSpec

-----------------------------------------------------------------------------
\* Whatever other programs, journals opened and other screens do between the steps
\* of a save, it replaces nothing but the text its screen showed, unless the file
\* changed between its own two readings.
THEOREM OnlyTheGapIsLost == ConfSpec => SaveLosesOnlyTheGap
<1>1. ConfInv /\ [ConfNext]_confVars =>
        [\A s \in Screens : Saved(s) /\ call[s].target = call[s].read.text => KeepsTheRest(s)]_confVars
  <2> SUFFICES ASSUME ConfInv, ConfNext, NEW s \in Screens, Saved(s),
                      call[s].target = call[s].read.text
               PROVE  KeepsTheRest(s)
    OBVIOUS
  <2>1. PutWrites(s)
    <3>1. call[s].at = "write" /\ call'[s].at = "written" /\ call \in [Screens -> CallState]
      BY DEF Saved, ConfInv, ConfTypeOK
    <3>4. ASSUME NEW p \in Screens, p # s, GetBegins(p) \/ GetSteps(p) \/ PutSteps(p)
                    \/ (\E auto \in BOOLEAN : PutBegins(p, auto))
          PROVE FALSE
      BY <3>1, <3>4 DEF GetBegins, GetSteps, GetReads, GetPublishes, GetAnswers, PutSteps, PutBegins,
           PutLocks, PutReads, PutTargets, PutWrites, PutRereads, PutAnswers, PutEnds
    <3>5. ~(GetBegins(s) \/ GetSteps(s) \/ \E auto \in BOOLEAN : PutBegins(s, auto))
      BY <3>1 DEF GetBegins, GetSteps, GetReads, GetPublishes, GetAnswers, PutBegins
    <3>6. ~(PutLocks(s) \/ PutReads(s) \/ PutTargets(s) \/ PutRereads(s) \/ PutAnswers(s))
      BY <3>1 DEF PutLocks, PutReads, PutTargets, PutRereads, PutAnswers
    <3>7. ~(\E f \in Others : ConfChanges(f)) /\ ~(\E j \in Journals : OpenJournal(j))
             /\ ~JournalPublished /\ ~ReportAsks
      BY <3>1 DEF ConfChanges, OpenJournal, JournalPublished, ReportAsks
    <3> QED
      BY <3>4, <3>5, <3>6, <3>7 DEF ConfNext, PutSteps
  <2>2. conf[TargetOf(s)] = call[s].target /\ conf' = [conf EXCEPT ![TargetOf(s)] = call[s].next]
    BY <2>1 DEF PutWrites, PutEnds, Saved, NoCall, ConfInv, ConfTypeOK
  <2>3. /\ call[s].read.text = settings[s]
        /\ call[s].target # None /\ call[s].read.text # None => call[s].next.rest = call[s].read.text.rest
    BY DEF Saved, ConfInv, SaveHoldsTheShown
  <2>4. conf \in [ConfFiles -> ConfTexts \cup {None}]
    BY DEF ConfInv, ConfTypeOK
  <2>5. TargetOf(s) \in ConfFiles
    BY JournalType DEF TargetOf, ConfInv, ConfTypeOK, CallState, ConfReading, ConfFiles
  <2> QED
    BY <2>2, <2>3, <2>4, <2>5 DEF KeepsTheRest
<1> QED
  BY <1>1, ConfInvariant, PTL DEF ConfSpec, SaveLosesOnlyTheGap

=============================================================================

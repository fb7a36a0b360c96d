----------------------------- MODULE EngineProofs -----------------------------
(***************************************************************************)
(* What the caches beside the journal, a review run, the calls of other      *)
(* programs, the cache of projections, the replay of a security and the      *)
(* checks of the books keep: components that share no state, in seven parts. *)
(***************************************************************************)
EXTENDS SidecarCache, SideCache, ReviewRun, ToolRun, HoldingsReplay, BooksCheck,
        SequenceTheorems, FiniteSetTheorems, WellFoundedInduction, TLAPS

-----------------------------------------------------------------------------
(* The cache beside the journal, for any number of requests, journals and    *)
(* symbols.                                                                  *)

SidecarSpec == SidecarInit /\ [][SidecarNext]_sidecarVars

\* A request that is under way was named a file.
NamesAFile ==
    \A q \in Askers :
        ask[q].at \in {"named", "renamed", "store"} => ask[q].file \in Ledgers

\* What is loaded holds at least the symbols of the file it mirrors.
SlotCovers == \A l \in Ledgers : slot.of = l => Held(sidecar[l]) \subseteq Held(slot.value)

\* What is about to be written is what is loaded.
StoresTheSlot ==
    \A q \in Askers : ask[q].at = "store" => ask[q].file = slot.of /\ ask[q].seen = slot.value

SidecarInv == SidecarTypeOK /\ NamesAFile /\ (~ReadsFail => SlotCovers) /\ StoresTheSlot

-----------------------------------------------------------------------------
LEMMA EmptyIsACache == Empty \in Cache /\ Held(Empty) = {}
  BY SidecarAssumption DEF Empty, Cache, Held

LEMMA MergedIsACache ==
  ASSUME NEW value \in Cache, NEW answers \in Cache
  PROVE  Merged(value, answers) \in Cache /\ Held(value) \subseteq Held(Merged(value, answers))
  BY DEF Merged, Cache, Held

\* Whatever the slot is made to mirror is a cache, and covers its file when that
\* can be read.
LEMMA MirrorsCover ==
  ASSUME SidecarInv, NEW file \in Ledgers, NEW now \in Mirrors(file)
  PROVE  /\ now \in [of : Ledgers \cup {NoOne}, value : Cache] /\ now.of = file
         /\ ~ReadsFail => Held(sidecar[file]) \subseteq Held(now.value)
<1>1. CASE now = Current(file) /\ slot.of = file
  BY <1>1 DEF Current, SidecarInv, SidecarTypeOK, SlotCovers
<1>2. CASE now = Current(file) /\ slot.of # file
  BY <1>2 DEF Current, SidecarInv, SidecarTypeOK
<1>3. CASE ReadsFail /\ now = [of |-> file, value |-> Empty]
  BY <1>3, EmptyIsACache
<1> QED
  BY <1>1, <1>2, <1>3, SidecarAssumption DEF Mirrors

LEMMA SidecarInitInv == SidecarInit => SidecarInv
<1> SUFFICES ASSUME SidecarInit PROVE SidecarInv
  OBVIOUS
<1>1. [s \in Symbols |-> [from |-> Today, through |-> Today]] \in Cache
  BY SidecarAssumption DEF Cache, Entry, Dates
<1>2. NoAsk \in AskState
  BY SidecarAssumption, EmptyIsACache DEF NoAsk, AskState, Dates
<1>3. SidecarTypeOK
  <2>1. sidecar \in [Ledgers -> Cache]
    BY <1>1, EmptyIsACache DEF SidecarInit
  <2>2. asked \in [requests : 0 .. MaxAsks, moves : 0 .. MaxMoves]
    BY SidecarAssumption DEF SidecarInit
  <2>3. \A q \in Askers : slotLock = q <=> ask[q].at = "store"
    BY SidecarAssumption DEF SidecarInit, NoAsk
  <2> QED
    BY <1>2, <2>1, <2>2, <2>3, EmptyIsACache DEF SidecarInit, SidecarTypeOK
<1>4. NamesAFile /\ StoresTheSlot
  BY DEF SidecarInit, NoAsk, NamesAFile, StoresTheSlot
<1>5. SlotCovers
  BY SidecarAssumption DEF SidecarInit, SlotCovers
<1> QED
  BY <1>3, <1>4, <1>5 DEF SidecarInv

-----------------------------------------------------------------------------
(* One lemma per kind of step.                                               *)

LEMMA EnvironmentKeepsInv ==
  ASSUME SidecarInv, NEW l \in Ledgers, MoveTo(l) \/ DeleteSidecar(l)
  PROVE  SidecarInv'
<1>1. CASE MoveTo(l)
  BY <1>1, SidecarAssumption
     DEF MoveTo, SidecarInv, SidecarTypeOK, NamesAFile, SlotCovers, StoresTheSlot
<1>2. CASE DeleteSidecar(l)
  <2> USE <1>2 DEF DeleteSidecar
  <2>1. SidecarTypeOK'
    BY SidecarAssumption, EmptyIsACache DEF SidecarInv, SidecarTypeOK
  <2>2. ~ReadsFail => SlotCovers'
    BY EmptyIsACache DEF SidecarInv, SidecarTypeOK, SlotCovers
  <2> QED
    BY <2>1, <2>2 DEF SidecarInv, NamesAFile, StoresTheSlot
<1> QED
  BY <1>1, <1>2

LEMMA AskKeepsInv ==
  ASSUME SidecarInv, NEW q \in Askers, NEW wants \in SUBSET Symbols, NEW from \in Dates,
         Ask(q, wants, from)
  PROVE  SidecarInv'
<1> USE DEF Ask
<1>1. [NoAsk EXCEPT !.at = "named", !.wants = wants, !.from = from, !.file = ledger] \in AskState
  BY SidecarAssumption, EmptyIsACache DEF SidecarInv, SidecarTypeOK, NoAsk, AskState
<1>2. ask' \in [Askers -> AskState]
  BY <1>1 DEF SidecarInv, SidecarTypeOK
<1>3. \A p \in Askers : ask'[p].at = "store" <=> ask[p].at = "store"
  BY DEF SidecarInv, SidecarTypeOK, NoAsk
<1>4. asked' \in [requests : 0 .. MaxAsks, moves : 0 .. MaxMoves]
  BY SidecarAssumption DEF SidecarInv, SidecarTypeOK
<1>5. SidecarTypeOK'
  BY <1>2, <1>3, <1>4 DEF SidecarInv, SidecarTypeOK
<1> QED
  BY <1>5 DEF SidecarInv, SidecarTypeOK, NamesAFile, SlotCovers, StoresTheSlot, NoAsk

LEMMA LookKeepsInv ==
  ASSUME SidecarInv, NEW q \in Askers, Look(q)
  PROVE  SidecarInv'
<1>1. ask[q].file \in Ledgers /\ slot' \in Mirrors(ask[q].file)
  BY DEF Look, SidecarInv, NamesAFile
<1>2. /\ slot' \in [of : Ledgers \cup {NoOne}, value : Cache]
      /\ slot'.of = ask[q].file
      /\ ~ReadsFail => Held(sidecar[ask[q].file]) \subseteq Held(slot'.value)
  BY <1>1, MirrorsCover
<1>3. \A p \in Askers : ask[p].at # "store" /\ ask'[p].at # "store"
  BY SidecarAssumption DEF Look, SidecarInv, SidecarTypeOK
<1>4. [ask[q] EXCEPT !.at = "looked", !.seen = slot'.value] \in AskState
  BY <1>2 DEF SidecarInv, SidecarTypeOK, AskState
<1>5. ask' \in [Askers -> AskState]
  BY <1>4 DEF Look, SidecarInv, SidecarTypeOK
<1>6. SidecarTypeOK'
  BY <1>2, <1>3, <1>5 DEF Look, SidecarInv, SidecarTypeOK
<1> QED
  BY <1>2, <1>3, <1>6 DEF Look, SidecarInv, SidecarTypeOK, NamesAFile, SlotCovers, StoresTheSlot

LEMMA FetchKeepsInv ==
  ASSUME SidecarInv, NEW q \in Askers, Fetch(q)
  PROVE  SidecarInv'
<1> DEFINE answers(got, through) ==
             [s \in Symbols |->
               IF s \notin got THEN NoEntry
               ELSE [from |-> RefetchFrom(ask[q].seen[s], ask[q].from), through |-> through]]
           fetched(got, through) ==
             [ask[q] EXCEPT !.at = IF got = {} THEN "serve" ELSE "fetched",
                            !.answers = answers(got, through),
                            !.failed = got # Missing(q) \/ through # Today]
<1>1. PICK got \in SUBSET Missing(q), through \in Dates :
        ask' = [ask EXCEPT ![q] = fetched(got, through)]
  BY DEF Fetch
<1>2. \A s \in Symbols : s \in got => RefetchFrom(ask[q].seen[s], ask[q].from) \in Dates
  BY DEF RefetchFrom, SidecarInv, SidecarTypeOK, AskState, Cache, Entry
<1>3. answers(got, through) \in Cache
  BY <1>2 DEF Cache, Entry
<1>4. fetched(got, through) \in AskState
  BY <1>3 DEF SidecarInv, SidecarTypeOK, AskState
<1>5. /\ fetched(got, through).at \in {"serve", "fetched"}
      /\ ask[q].at # "store"
  BY DEF Fetch, SidecarInv, SidecarTypeOK, AskState
<1> HIDE DEF fetched
<1>6. ask' \in [Askers -> AskState]
  BY <1>1, <1>4 DEF SidecarInv, SidecarTypeOK
<1>7. SidecarTypeOK'
  BY <1>1, <1>5, <1>6 DEF Fetch, SidecarInv, SidecarTypeOK
<1> QED
  BY <1>1, <1>5, <1>7 DEF Fetch, SidecarInv, SidecarTypeOK, NamesAFile, SlotCovers, StoresTheSlot

LEMMA RenameKeepsInv ==
  ASSUME SidecarInv, NEW q \in Askers, Rename(q)
  PROVE  SidecarInv'
<1>1. [ask[q] EXCEPT !.at = "renamed", !.file = ledger] \in AskState
  BY DEF SidecarInv, SidecarTypeOK, AskState
<1>2. ask' \in [Askers -> AskState]
  BY <1>1 DEF Rename, SidecarInv, SidecarTypeOK
<1>3. SidecarTypeOK'
  BY <1>2 DEF Rename, SidecarInv, SidecarTypeOK
<1> QED
  BY <1>3 DEF Rename, SidecarInv, SidecarTypeOK, NamesAFile, SlotCovers, StoresTheSlot

LEMMA MergeKeepsInv ==
  ASSUME SidecarInv, NEW q \in Askers, Merge(q)
  PROVE  SidecarInv'
<1>1. PICK now \in Mirrors(ask[q].file) :
        slot' = [now EXCEPT !.value = Merged(@, ask[q].answers)]
  BY DEF Merge
<1>2. ask[q].file \in Ledgers
  BY DEF Merge, SidecarInv, NamesAFile
<1>3. /\ now \in [of : Ledgers \cup {NoOne}, value : Cache] /\ now.of = ask[q].file
      /\ ~ReadsFail => Held(sidecar[ask[q].file]) \subseteq Held(now.value)
  BY <1>2, MirrorsCover
<1>4. ask[q].answers \in Cache
  BY DEF SidecarInv, SidecarTypeOK, AskState
<1>5. /\ Merged(now.value, ask[q].answers) \in Cache
      /\ Held(now.value) \subseteq Held(Merged(now.value, ask[q].answers))
  BY <1>3, <1>4, MergedIsACache
<1>6. /\ slot' \in [of : Ledgers \cup {NoOne}, value : Cache]
      /\ slot'.of = ask[q].file
      /\ ~ReadsFail => Held(sidecar[ask[q].file]) \subseteq Held(slot'.value)
  BY <1>1, <1>3, <1>5
<1>7. \A p \in Askers : ask[p].at # "store"
  BY SidecarAssumption DEF Merge, SidecarInv, SidecarTypeOK
<1>8. [ask[q] EXCEPT !.at = "store", !.seen = slot'.value] \in AskState
  BY <1>6 DEF SidecarInv, SidecarTypeOK, AskState
<1>9. ask' \in [Askers -> AskState]
  BY <1>8 DEF Merge, SidecarInv, SidecarTypeOK
<1>10. SidecarTypeOK'
  BY <1>6, <1>7, <1>9, SidecarAssumption DEF Merge, SidecarInv, SidecarTypeOK
<1> QED
  BY <1>2, <1>6, <1>7, <1>10
     DEF Merge, SidecarInv, SidecarTypeOK, NamesAFile, SlotCovers, StoresTheSlot

LEMMA StoreKeepsInv ==
  ASSUME SidecarInv, NEW q \in Askers, Store(q)
  PROVE  SidecarInv'
<1>1. ask[q].file \in Ledgers /\ ask[q].file = slot.of /\ ask[q].seen = slot.value
  BY DEF Store, SidecarInv, NamesAFile, StoresTheSlot
<1>2. \A p \in Askers : p # q => ask[p].at # "store"
  BY SidecarAssumption DEF Store, SidecarInv, SidecarTypeOK
<1>3. [ask[q] EXCEPT !.at = "serve"] \in AskState
  BY DEF SidecarInv, SidecarTypeOK, AskState
<1>4. ask' \in [Askers -> AskState]
  BY <1>3 DEF Store, SidecarInv, SidecarTypeOK
<1>5. sidecar' \in [Ledgers -> Cache]
  BY <1>1 DEF Store, SidecarInv, SidecarTypeOK
<1>6. SidecarTypeOK'
  BY <1>1, <1>2, <1>4, <1>5, SidecarAssumption DEF Store, SidecarInv, SidecarTypeOK
<1>7. ~ReadsFail => SlotCovers'
  BY <1>1 DEF Store, SidecarInv, SidecarTypeOK, SlotCovers
<1> QED
  BY <1>2, <1>6, <1>7 DEF Store, SidecarInv, SidecarTypeOK, NamesAFile, StoresTheSlot

LEMMA ServeKeepsInv ==
  ASSUME SidecarInv, NEW q \in Askers, Serve(q)
  PROVE  SidecarInv'
<1>1. NoAsk \in AskState
  BY SidecarAssumption, EmptyIsACache DEF NoAsk, AskState, Dates
<1>2. ask' \in [Askers -> AskState]
  BY <1>1 DEF Serve, SidecarInv, SidecarTypeOK
<1>3. SidecarTypeOK'
  BY <1>2 DEF Serve, SidecarInv, SidecarTypeOK, NoAsk
<1> QED
  BY <1>3 DEF Serve, SidecarInv, SidecarTypeOK, NamesAFile, SlotCovers, StoresTheSlot, NoAsk

LEMMA SidecarNextInv == SidecarInv /\ [SidecarNext]_sidecarVars => SidecarInv'
<1> SUFFICES ASSUME SidecarInv, [SidecarNext]_sidecarVars PROVE SidecarInv'
  OBVIOUS
<1>1. CASE \E l \in Ledgers : MoveTo(l) \/ DeleteSidecar(l)
  BY <1>1, EnvironmentKeepsInv
<1>2. CASE \E q \in Askers, wants \in (SUBSET Symbols) \ {{}}, from \in Dates : Ask(q, wants, from)
  BY <1>2, AskKeepsInv
<1>3. CASE \E q \in Askers : AskSteps(q)
  BY <1>3, LookKeepsInv, FetchKeepsInv, RenameKeepsInv, MergeKeepsInv, StoreKeepsInv, ServeKeepsInv
     DEF AskSteps
<1>4. CASE UNCHANGED sidecarVars
  BY <1>4 DEF sidecarVars, SidecarInv, SidecarTypeOK, NamesAFile, SlotCovers, StoresTheSlot
<1> QED
  BY <1>1, <1>2, <1>3, <1>4 DEF SidecarNext

\* Every variable keeps to its type, and the slot to what it mirrors.
THEOREM SidecarInvariant == SidecarSpec => []SidecarInv
  BY SidecarInitInv, SidecarNextInv, PTL DEF SidecarSpec

-----------------------------------------------------------------------------
\* A write-through never drops a symbol that was in the file, however requests and
\* moves to other journals interleave, as long as the files can be read.
THEOREM NoSymbolIsLost == SidecarSpec => StoreKeepsSymbols
<1>1. SidecarInv /\ [SidecarNext]_sidecarVars => [~ReadsFail => KeepsSymbols]_sidecarVars
  <2> SUFFICES ASSUME SidecarInv, SidecarNext, ~ReadsFail, NEW l \in Ledgers, sidecar'[l] # Empty
               PROVE  Held(sidecar[l]) \subseteq Held(sidecar'[l])
    BY DEF KeepsSymbols
  <2>1. CASE sidecar' = sidecar
    BY <2>1
  <2>2. ASSUME NEW k \in Ledgers, DeleteSidecar(k) PROVE Held(sidecar[l]) \subseteq Held(sidecar'[l])
    BY <2>2 DEF DeleteSidecar, SidecarInv, SidecarTypeOK
  <2>3. ASSUME NEW q \in Askers, Store(q) PROVE Held(sidecar[l]) \subseteq Held(sidecar'[l])
    BY <2>3 DEF Store, SidecarInv, SidecarTypeOK, SlotCovers, StoresTheSlot
  <2> QED
    BY <2>1, <2>2, <2>3
       DEF SidecarNext, AskSteps, MoveTo, Ask, Look, Fetch, Rename, Merge, Serve
<1> QED
  BY <1>1, SidecarInvariant, PTL DEF SidecarSpec, StoreKeepsSymbols


\* What a request was told is what it is about to store or to draw.
AnswersAreSeen ==
    \A q \in Askers : ask[q].at \in {"store", "serve"} =>
        \A s \in Symbols : ask[q].answers[s] # NoEntry => ask[q].seen[s] = ask[q].answers[s]

LEMMA AnswersStaySeen ==
  SidecarInv /\ AnswersAreSeen /\ [SidecarNext]_sidecarVars => AnswersAreSeen'
<1> SUFFICES ASSUME SidecarInv, AnswersAreSeen, [SidecarNext]_sidecarVars, NEW q \in Askers,
                    ask'[q].at \in {"store", "serve"}
             PROVE  \A s \in Symbols :
                       ask'[q].answers[s] # NoEntry => ask'[q].seen[s] = ask'[q].answers[s]
  BY DEF AnswersAreSeen
<1>1. ask \in [Askers -> AskState]
  BY DEF SidecarInv, SidecarTypeOK
<1>2. CASE ask'[q] = ask[q]
  BY <1>2 DEF AnswersAreSeen
<1>3. ASSUME ask'[q] # ask[q] PROVE Fetch(q) \/ Merge(q) \/ Store(q)
  <2>1. ~UNCHANGED sidecarVars
    BY <1>3 DEF sidecarVars
  <2>2. ASSUME NEW l \in Ledgers, MoveTo(l) \/ DeleteSidecar(l) PROVE FALSE
    BY <1>3, <2>2 DEF MoveTo, DeleteSidecar
  <2>3. ASSUME NEW p \in Askers, NEW wants \in SUBSET Symbols, NEW from \in Dates, Ask(p, wants, from)
        PROVE  FALSE
    BY <1>1, <1>3, <2>3 DEF Ask, NoAsk
  <2>4. ASSUME NEW p \in Askers, AskSteps(p) PROVE p = q /\ ~Look(q) /\ ~Rename(q) /\ ~Serve(q)
    <3>1. p = q
      BY <1>1, <1>3, <2>4 DEF AskSteps, Look, Fetch, Rename, Merge, Store, Serve
    <3>2. ~Look(q) /\ ~Rename(q)
      BY <1>1 DEF Look, Rename, AskState
    <3>3. ~Serve(q)
      BY <1>1 DEF Serve, NoAsk
    <3> QED
      BY <3>1, <3>2, <3>3
  <2> QED
    BY <2>1, <2>2, <2>3, <2>4 DEF SidecarNext, AskSteps
<1>4. CASE Fetch(q)
  <2>1. PICK got \in SUBSET Missing(q), through \in Dates :
          ask' = [ask EXCEPT ![q] =
             [@ EXCEPT !.at = IF got = {} THEN "serve" ELSE "fetched",
                       !.answers = [s \in Symbols |->
                          IF s \notin got THEN NoEntry
                          ELSE [from |-> RefetchFrom(ask[q].seen[s], ask[q].from),
                                through |-> through]],
                       !.failed = got # Missing(q) \/ through # Today]]
    BY <1>4 DEF Fetch
  <2>2. got = {}
    BY <1>1, <2>1 DEF AskState
  <2>3. \A s \in Symbols : ask'[q].answers[s] = NoEntry
    BY <1>1, <2>1, <2>2 DEF AskState
  <2> QED
    BY <2>3
<1>5. CASE Merge(q)
  <2>1. ask[q].file \in Ledgers /\ ask[q].answers \in Cache
    BY <1>1, <1>5 DEF Merge, SidecarInv, NamesAFile, AskState
  <2>2. PICK now \in Mirrors(ask[q].file) : slot' = [now EXCEPT !.value = Merged(@, ask[q].answers)]
    BY <1>5 DEF Merge
  <2>3. slot'.value = Merged(now.value, ask[q].answers)
    BY <2>1, <2>2, MirrorsCover
  <2>4. ask'[q].seen = Merged(now.value, ask[q].answers) /\ ask'[q].answers = ask[q].answers
    BY <1>1, <1>5, <2>3 DEF Merge, AskState
  <2> QED
    BY <2>4 DEF Merged
<1>6. CASE Store(q)
  <2>1. ask'[q].seen = ask[q].seen /\ ask'[q].answers = ask[q].answers
    BY <1>1, <1>6 DEF Store, AskState
  <2> QED
    BY <1>6, <2>1 DEF Store, AnswersAreSeen
<1> QED
  BY <1>2, <1>3, <1>4, <1>5, <1>6

\* A request draws what the network told it, whatever the cache held for the symbol and
\* whichever journals were opened meanwhile.
THEOREM DrawsWhatItWasTold == SidecarSpec => []ServesWhatItFetched
<1>1. SidecarInit => AnswersAreSeen
  BY DEF SidecarInit, AnswersAreSeen, NoAsk
<1>2. AnswersAreSeen => ServesWhatItFetched
  BY DEF AnswersAreSeen, ServesWhatItFetched
<1> QED
  BY <1>1, <1>2, SidecarInvariant, AnswersStaySeen, PTL DEF SidecarSpec

-----------------------------------------------------------------------------
(* A review run, of any number of transactions, saves and failures.          *)

ReviewSpec == ReviewInit /\ [][ReviewNext]_reviewVars

Tellings == {"waiting", "ok", "conflict", "failed", "cancelled", "closed"}

\* Every save queued, on the wire or written has been promised an answer.
Promised(number) == number \in DOMAIN told /\ told[number] # "cancelled"
HeadIs(number) == saves # <<>> /\ Head(saves).number = number

QueuesAreOrderly ==
    /\ told \in Seq(Tellings) /\ saves \in Seq(Range(saves))
    /\ \A i \in 1 .. Len(saves) : Promised(saves[i].number)

\* The save on the wire is the queue's head while its answer is awaited.
WireIsTheHead ==
    wire # Nil =>
        /\ Promised(wire.save.number)
        /\ told[wire.save.number] = "waiting" => saves # <<>> /\ Head(saves) = wire.save
        /\ wire.state \in {"sent", "ok", "conflict", "failed"}

\* What is written was not cancelled; if its answer is awaited it is the queue's
\* head, which no failure of another save can cancel.
LandedIsPromised ==
    \A l \in landed : /\ Promised(l.save)
                      /\ told[l.save] = "waiting" => HeadIs(l.save)

ReviewInv == QueuesAreOrderly /\ WireIsTheHead /\ LandedIsPromised

\* A step that leaves queue, wire and answers alone.
LEMMA AsideKeepsReviewInv ==
  ASSUME ReviewInv, UNCHANGED <<saves, wire, told, landed>>
  PROVE  ReviewInv'
  BY DEF ReviewInv, QueuesAreOrderly, WireIsTheHead, LandedIsPromised, Promised, HeadIs

LEMMA QueueingKeepsReviewInv ==
  ASSUME ReviewInv, NEW similar, Save(similar)
  PROVE  ReviewInv'
<1>1. PICK e : /\ saves' = Append(saves, e) /\ e.number = Len(told) + 1
               /\ told' = Append(told, "waiting") /\ UNCHANGED <<wire, landed>>
  BY DEF Save
<1>2. /\ told' \in Seq(Tellings) /\ DOMAIN told = 1 .. Len(told) /\ Len(told) \in Nat
      /\ DOMAIN told' = 1 .. Len(told) + 1 /\ told'[Len(told) + 1] = "waiting"
      /\ \A n \in DOMAIN told : n \in DOMAIN told' /\ told'[n] = told[n]
  BY <1>1, AppendProperties, LenProperties DEF ReviewInv, QueuesAreOrderly, Tellings
<1>3. saves \in Seq(Range(saves) \cup {e})
  BY SeqMonotonic DEF ReviewInv, QueuesAreOrderly
<1>4. /\ saves' \in Seq(Range(saves) \cup {e}) /\ saves' # <<>>
      /\ Len(saves) \in Nat /\ Len(saves') = Len(saves) + 1
      /\ \A i \in 1 .. Len(saves) : saves'[i] = saves[i]
      /\ saves'[Len(saves) + 1] = e
      /\ saves # <<>> => Head(saves') = Head(saves)
  BY <1>1, <1>3, AppendProperties, HeadTailAppend, LenProperties
<1>5. saves' \in Seq(Range(saves'))
  BY <1>4, SeqOfRange
<1>6. ASSUME NEW i \in 1 .. Len(saves')
      PROVE  saves'[i].number \in DOMAIN told' /\ told'[saves'[i].number] # "cancelled"
  <2>1. CASE i \in 1 .. Len(saves)
    <3>1. saves'[i] = saves[i] /\ Promised(saves[i].number)
      BY <1>4, <2>1 DEF ReviewInv, QueuesAreOrderly
    <3> QED
      BY <1>2, <3>1 DEF Promised
  <2>2. CASE i = Len(saves) + 1
    BY <1>1, <1>2, <1>4, <2>2
  <2> QED
    BY <1>4, <2>1, <2>2
<1>7. WireIsTheHead' /\ LandedIsPromised'
  BY <1>1, <1>2, <1>4 DEF ReviewInv, WireIsTheHead, LandedIsPromised, Promised, HeadIs
<1>8. QueuesAreOrderly'
  BY <1>2, <1>5, <1>6 DEF QueuesAreOrderly, Promised
<1> QED
  BY <1>7, <1>8 DEF ReviewInv

\* A closed run has no queue, and no save of it is still awaited.
LEMMA ClosingKeepsReviewInv ==
  ASSUME ReviewInv, Close
  PROVE  ReviewInv'
<1>1. /\ saves' = <<>> /\ UNCHANGED <<wire, landed>>
      /\ told' = [n \in DOMAIN told |-> IF told[n] = "waiting" THEN "closed" ELSE told[n]]
  BY DEF Close
<1>2. /\ told' \in Seq(Tellings) /\ DOMAIN told' = DOMAIN told
      /\ \A n \in DOMAIN told : told'[n] # "waiting" /\ (told[n] # "cancelled" => told'[n] # "cancelled")
  <2>1. told \in Seq(Tellings) /\ DOMAIN told = 1 .. Len(told) /\ Len(told) \in Nat
    BY LenProperties DEF ReviewInv, QueuesAreOrderly
  <2> QED
    BY <1>1, <2>1 DEF Tellings
<1>3. saves' \in Seq(Range(saves')) /\ Len(saves') = 0
  BY <1>1, EmptySeq
<1> QED
  BY <1>1, <1>2, <1>3
     DEF ReviewInv, QueuesAreOrderly, WireIsTheHead, LandedIsPromised, Promised, HeadIs

LEMMA SendingKeepsReviewInv ==
  ASSUME ReviewInv, Send
  PROVE  ReviewInv'
<1>1. /\ saves # <<>> /\ wire' = [state |-> "sent", save |-> Head(saves)]
      /\ UNCHANGED <<saves, told, landed>>
  BY DEF Send
<1>2. Head(saves) = saves[1] /\ 1 \in 1 .. Len(saves)
  BY <1>1, LenProperties, EmptySeq DEF ReviewInv, QueuesAreOrderly
<1> QED
  BY <1>1, <1>2
     DEF ReviewInv, QueuesAreOrderly, WireIsTheHead, LandedIsPromised, Promised, HeadIs

\* The server answers, or the answer is lost: what lands is the save on the wire.
LEMMA AnsweringKeepsReviewInv ==
  ASSUME ReviewInv, ServerSaves \/ SaveIsLost \/ SaveIsNobodys
  PROVE  ReviewInv'
<1>1. CASE SaveIsNobodys
  BY <1>1
     DEF SaveIsNobodys, ReviewInv, QueuesAreOrderly, WireIsTheHead, LandedIsPromised, Promised,
         HeadIs
<1>2. CASE ServerSaves \/ SaveIsLost
  <2>1. wire # Nil /\ UNCHANGED <<saves, told>> /\ wire'.save = wire.save
        /\ wire'.state \in {"ok", "conflict", "failed"}
    BY <1>2 DEF ServerSaves, SaveIsLost, Sent
  <2>2. \A l \in landed' : l \in landed \/ l.save = wire.save.number
    BY <1>2 DEF ServerSaves, SaveIsLost
  <2> QED
    BY <2>1, <2>2
       DEF ReviewInv, QueuesAreOrderly, WireIsTheHead, LandedIsPromised, Promised, HeadIs
<1> QED
  BY <1>1, <1>2

\* The head's answer arrives: it leaves the queue with its promise kept.
LEMMA LandingKeepsReviewInv ==
  ASSUME ReviewInv, SaveLands
  PROVE  ReviewInv'
<1>1. /\ wire # Nil /\ saves # <<>> /\ Head(saves) = wire.save /\ saves' = Tail(saves)
      /\ told' = [told EXCEPT ![wire.save.number] = "ok"] /\ wire' = Nil /\ UNCHANGED landed
  BY DEF SaveLands
<1>2. /\ told \in Seq(Tellings) /\ DOMAIN told = 1 .. Len(told) /\ wire.save.number \in DOMAIN told
  BY <1>1, LenProperties DEF ReviewInv, QueuesAreOrderly, WireIsTheHead, Promised
<1>3. /\ told' \in Seq(Tellings) /\ DOMAIN told' = DOMAIN told
      /\ \A n \in DOMAIN told : told'[n] = IF n = wire.save.number THEN "ok" ELSE told[n]
  BY <1>1, <1>2, ExceptSeq, LenProperties DEF Tellings
<1>4. /\ saves' \in Seq(Range(saves')) /\ Len(saves) \in Nat
      /\ Len(saves') = Len(saves) - 1
      /\ \A i \in 1 .. Len(saves') : saves'[i] = saves[i + 1]
  BY <1>1, HeadTailProperties, LenProperties, SeqOfRange DEF ReviewInv, QueuesAreOrderly
<1>5. ASSUME NEW i \in 1 .. Len(saves')
      PROVE  saves'[i].number \in DOMAIN told' /\ told'[saves'[i].number] # "cancelled"
  <2>1. i + 1 \in 1 .. Len(saves) /\ saves'[i] = saves[i + 1]
    BY <1>4
  <2>2. Promised(saves[i + 1].number)
    BY <2>1 DEF ReviewInv, QueuesAreOrderly
  <2> QED
    BY <1>3, <2>1, <2>2 DEF Promised
<1> QED
  BY <1>1, <1>3, <1>4, <1>5
     DEF ReviewInv, QueuesAreOrderly, WireIsTheHead, LandedIsPromised, Promised, HeadIs

\* The head's save failed: those behind it are cancelled, and none of them has landed.
LEMMA FailingKeepsReviewInv ==
  ASSUME ReviewInv, SaveFails
  PROVE  ReviewInv'
<1>1. /\ wire # Nil /\ wire.state \in {"conflict", "failed"}
      /\ saves # <<>> /\ Head(saves) = wire.save /\ saves' = <<>> /\ wire' = Nil
      /\ told' = [n \in DOMAIN told |->
                    CASE n = wire.save.number -> wire.state
                      [] n # wire.save.number /\ told[n] = "waiting" -> "cancelled"
                      [] OTHER -> told[n]]
      /\ UNCHANGED landed
  BY DEF SaveFails, Stop
<1>2. told \in Seq(Tellings) /\ DOMAIN told = 1 .. Len(told) /\ Len(told) \in Nat
  BY LenProperties DEF ReviewInv, QueuesAreOrderly
<1>3. /\ DOMAIN told' = DOMAIN told
      /\ told'[wire.save.number] = wire.state
      /\ \A n \in DOMAIN told : n # wire.save.number =>
            told'[n] = IF told[n] = "waiting" THEN "cancelled" ELSE told[n]
  BY <1>1 DEF ReviewInv, WireIsTheHead, Promised
<1>4. told' \in Seq(Tellings)
  <2>1. \A n \in 1 .. Len(told) : told'[n] \in Tellings
    BY <1>1, <1>2, <1>3, ElementOfSeq DEF Tellings
  <2> QED
    BY <1>1, <1>2, <2>1
<1>5. saves' \in Seq(Range(saves')) /\ Len(saves') = 0
  BY <1>1, EmptySeq
<1>6. LandedIsPromised'
  <2> SUFFICES ASSUME NEW l \in landed
               PROVE  Promised(l.save)' /\ told'[l.save] # "waiting"
    BY <1>1 DEF LandedIsPromised
  <2>1. CASE l.save = wire.save.number
    BY <2>1, <1>1, <1>3 DEF ReviewInv, LandedIsPromised, Promised
  <2>2. CASE l.save # wire.save.number
    BY <2>2, <1>1, <1>3 DEF ReviewInv, LandedIsPromised, Promised, HeadIs
  <2> QED
    BY <2>1, <2>2
<1> QED
  BY <1>1, <1>4, <1>5, <1>6 DEF ReviewInv, QueuesAreOrderly, WireIsTheHead

LEMMA ReviewNextInv == ReviewInv /\ [ReviewNext]_reviewVars => ReviewInv'
<1> SUFFICES ASSUME ReviewInv, [ReviewNext]_reviewVars PROVE ReviewInv'
  OBVIOUS
<1>1. ASSUME NEW kind, NEW t, Others(kind, t) PROVE ReviewInv'
  BY <1>1, AsideKeepsReviewInv DEF Others
<1>2. CASE Type \/ Skip \/ Back \/ ServerPages \/ PageArrives \/ PageFails
           \/ ServerListsAgain \/ ListArrives \/ ListFails \/ Poll
  BY <1>2, AsideKeepsReviewInv
     DEF Type, Skip, Back, ServerPages, PageArrives, PageFails, ServerListsAgain, ListArrives,
         ListFails, Poll
<1>3. CASE UNCHANGED reviewVars
  BY <1>3, AsideKeepsReviewInv DEF reviewVars
<1> QED
  BY <1>1, <1>2, <1>3, QueueingKeepsReviewInv, ClosingKeepsReviewInv, SendingKeepsReviewInv,
     AnsweringKeepsReviewInv, LandingKeepsReviewInv, FailingKeepsReviewInv
     DEF ReviewNext

LEMMA ReviewInitInv == ReviewInit => ReviewInv
<1> SUFFICES ASSUME ReviewInit PROVE ReviewInv
  OBVIOUS
<1>1. told = <<>> /\ saves = <<>> /\ wire = Nil /\ landed = {}
  BY DEF ReviewInit
<1> QED
  BY <1>1, EmptySeq DEF ReviewInv, QueuesAreOrderly, WireIsTheHead, LandedIsPromised

\* stores/review.svelte.ts, stop: a save the user was told is cancelled is not in the
\* journal and does not get there, however answers fail and runs are closed.
THEOREM CancelledStaysUnwritten == ReviewSpec => []CancelledIsNotWritten
<1>1. ReviewInit => ReviewInv
  BY ReviewInitInv
<1>2. ReviewInv => CancelledIsNotWritten
  BY DEF ReviewInv, LandedIsPromised, Promised, CancelledIsNotWritten
<1> QED
  BY <1>1, <1>2, ReviewNextInv, PTL DEF ReviewSpec

-----------------------------------------------------------------------------
(* A call of another program: that an answer is whole, whatever the program   *)
(* is fed, writes, leaves behind and takes of time, and whatever its pipes hold. *)

ToolSpec == ToolInit /\ [][ToolNext]_toolVars

Given(s) == IF s = "out" THEN call.out ELSE call.err

\* No byte is lost between the program and the threads that drain it.
BytesAreKept == \A s \in Streams : left[s] + pipe[s] + drained[s] = Given(s)

\* What the end of a stream and of a program means.
EndsMeanAll ==
    /\ \A s \in Streams : drain[s] = "sent" => pipe[s] = 0 /\ child \notin {"none", "running"}
    /\ \A s \in Streams : drain[s] = "dropped" => call.kind = "worker" /\ drained[s] > MaxOutput
    /\ child = "exited" => \A s \in Streams : left[s] = 0
    /\ child = "failed" /\ call.kind = "tool" => \A s \in Streams : left[s] = 0

\* Where the caller stands tells what it has seen.
CallerHasSeen ==
    /\ caller = "spawning" => child = "none"
    /\ child = "none" => \A s \in Streams : drain[s] = "none"
    /\ caller \in {"out", "err"} => call.kind = "tool" /\ child \in {"exited", "failed"}
    /\ caller = "err" => drain["out"] = "sent"
    /\ caller = "joining" => call.kind = "worker" /\ child \notin {"none", "running"}
    /\ answer # "none" => caller = "returned"
    /\ answer = "ok" =>
          \/ call.kind = "tool" /\ child \in {"exited", "failed"} /\ \A s \in Streams : drain[s] = "sent"
          \/ call.kind = "worker" /\ child = "exited" /\ drain["out"] = "sent"
                /\ drained["out"] <= MaxOutput

ToolInv == ToolTypeOK /\ BytesAreKept /\ EndsMeanAll /\ CallerHasSeen

-----------------------------------------------------------------------------
LEMMA Bounds == PipeSize \in Nat /\ MaxOutput \in Nat /\ 0 \in 0..PipeSize
  BY ToolAssumption

LEMMA ToolInitInv == ToolInit => ToolInv
<1> SUFFICES ASSUME ToolInit PROVE ToolInv
  OBVIOUS
<1>1. call \in Calls
  BY DEF ToolInit
<1>2. call.out \in Nat /\ call.err \in Nat /\ call.input \in Nat
  BY <1>1, ToolAssumption DEF Calls
<1>3. left \in [Streams -> Nat]
  BY <1>2 DEF ToolInit, Streams
<1>4. /\ pipe \in [Streams -> 0..PipeSize] /\ drained \in [Streams -> Nat]
      /\ drain \in [Streams -> {"none", "reading", "sent", "dropped"}]
  BY Bounds DEF ToolInit
<1>5. feed \in Nat /\ stdin \in 0..PipeSize
  BY <1>2, Bounds DEF ToolInit
<1>6. ToolTypeOK
  BY <1>1, <1>3, <1>4, <1>5 DEF ToolInit, ToolTypeOK
<1>7. BytesAreKept
  BY <1>2 DEF ToolInit, BytesAreKept, Given
<1> QED
  BY <1>6, <1>7 DEF ToolInit, ToolInv, EndsMeanAll, CallerHasSeen

\* What the arithmetic of a byte that moves rests on.
LEMMA Bytes ==
  ASSUME ToolTypeOK
  PROVE  /\ PipeSize \in Nat /\ MaxOutput \in Nat /\ feed \in Nat
         /\ stdin \in Nat /\ stdin <= PipeSize
         /\ \A s \in Streams : left[s] \in Nat /\ pipe[s] \in Nat /\ pipe[s] <= PipeSize
                               /\ drained[s] \in Nat
<1>1. /\ feed \in Nat /\ stdin \in 0..PipeSize /\ pipe \in [Streams -> 0..PipeSize]
      /\ left \in [Streams -> Nat] /\ drained \in [Streams -> Nat]
  BY DEF ToolTypeOK
<1>2. \A s \in Streams : left[s] \in Nat /\ pipe[s] \in 0..PipeSize /\ drained[s] \in Nat
  BY <1>1
<1> QED
  BY <1>1, <1>2, Bounds

\* The program and what it leaves behind.
LEMMA ChildKeepsInv ==
  ASSUME ToolInv, ChildMoves \/ HeirEnds \/ Deadline
  PROVE  ToolInv'
<1>0. ToolTypeOK /\ BytesAreKept /\ EndsMeanAll /\ CallerHasSeen
  BY DEF ToolInv
<1>1. ASSUME ChildReads PROVE ToolInv'
  <2>1. stdin - 1 \in 0..PipeSize
    BY <1>0, <1>1, Bytes DEF ChildReads
  <2>2. ToolTypeOK'
    BY <1>0, <1>1, <2>1 DEF ChildReads, ToolTypeOK
  <2>3. BytesAreKept' /\ EndsMeanAll' /\ CallerHasSeen'
    BY <1>0, <1>1 DEF ChildReads, BytesAreKept, Given, EndsMeanAll, CallerHasSeen
  <2> QED
    BY <2>2, <2>3 DEF ToolInv
<1>2. CASE ChildForks
  BY <1>0, <1>2 DEF ChildForks, ToolInv, ToolTypeOK, BytesAreKept, Given, EndsMeanAll, CallerHasSeen
<1>3. CASE ChildExits
  BY <1>0, <1>3 DEF ChildExits, ToolInv, ToolTypeOK, BytesAreKept, Given, EndsMeanAll, CallerHasSeen
<1>4. ASSUME NEW s \in Streams, ChildWrites(s) PROVE ToolInv'
  <2>1. /\ left[s] - 1 \in Nat /\ pipe[s] + 1 \in 0..PipeSize
        /\ (left[s] - 1) + (pipe[s] + 1) + drained[s] = left[s] + pipe[s] + drained[s]
    BY <1>0, <1>4, Bytes DEF ChildWrites
  <2>2. left' \in [Streams -> Nat] /\ pipe' \in [Streams -> 0..PipeSize]
    BY <1>0, <1>4, <2>1 DEF ChildWrites, ToolTypeOK
  <2>3. ToolTypeOK'
    BY <1>0, <1>4, <2>2 DEF ChildWrites, ToolTypeOK
  <2>4. ASSUME NEW t \in Streams PROVE left'[t] + pipe'[t] + drained'[t] = Given(t)'
    <3>1. left[t] + pipe[t] + drained[t] = Given(t) /\ Given(t)' = Given(t) /\ drained' = drained
      BY <1>0, <1>4 DEF ChildWrites, BytesAreKept, Given
    <3>2. CASE t = s
      <4>1. left'[t] = left[s] - 1 /\ pipe'[t] = pipe[s] + 1
        BY <1>0, <1>4, <3>2 DEF ChildWrites, ToolTypeOK
      <4> QED
        BY <2>1, <3>1, <3>2, <4>1
    <3>3. CASE t # s
      <4>1. left'[t] = left[t] /\ pipe'[t] = pipe[t]
        BY <1>0, <1>4, <3>3 DEF ChildWrites, ToolTypeOK
      <4> QED
        BY <3>1, <4>1
    <3> QED
      BY <3>2, <3>3
  <2>5. EndsMeanAll' /\ CallerHasSeen'
    BY <1>0, <1>4 DEF ChildWrites, EndsMeanAll, CallerHasSeen
  <2> QED
    BY <2>3, <2>4, <2>5 DEF ToolInv, BytesAreKept
<1>5. ASSUME NEW s \in Streams, ChildIsCutOff(s) PROVE ToolInv'
  BY <1>0, <1>5 DEF ChildIsCutOff, ToolInv, ToolTypeOK, BytesAreKept, Given, EndsMeanAll, CallerHasSeen
<1>6. CASE HeirEnds
  BY <1>0, <1>6 DEF HeirEnds, ToolInv, ToolTypeOK, BytesAreKept, Given, EndsMeanAll, CallerHasSeen
<1>7. CASE Deadline
  BY <1>0, <1>7 DEF Deadline, ToolInv, ToolTypeOK, BytesAreKept, Given, EndsMeanAll, CallerHasSeen
<1> QED
  BY <1>1, <1>2, <1>3, <1>4, <1>5, <1>6, <1>7 DEF ChildMoves

\* The threads that feed and drain it.
LEMMA ThreadsKeepInv ==
  ASSUME ToolInv, WriterWrites \/ \E s \in Streams : DrainReads(s) \/ DrainEnds(s)
  PROVE  ToolInv'
<1>0. ToolTypeOK /\ BytesAreKept /\ EndsMeanAll /\ CallerHasSeen
  BY DEF ToolInv
<1>1. ASSUME WriterWrites PROVE ToolInv'
  <2>1. feed' \in Nat /\ stdin' \in 0..PipeSize
    <3>1. CASE stdin < PipeSize /\ feed' = feed - 1 /\ stdin' = stdin + 1
      BY <1>0, <1>1, <3>1, Bytes DEF WriterWrites
    <3>2. CASE feed' = 0 /\ stdin' = stdin
      BY <1>0, <3>2, Bytes
    <3> QED
      BY <1>1, <3>1, <3>2 DEF WriterWrites
  <2>2. ToolTypeOK'
    BY <1>0, <1>1, <2>1 DEF WriterWrites, ToolTypeOK
  <2>3. BytesAreKept' /\ EndsMeanAll' /\ CallerHasSeen'
    BY <1>0, <1>1 DEF WriterWrites, BytesAreKept, Given, EndsMeanAll, CallerHasSeen
  <2> QED
    BY <2>2, <2>3 DEF ToolInv
<1>2. ASSUME NEW s \in Streams, DrainReads(s) PROVE ToolInv'
  <2>1. /\ drained[s] + 1 \in Nat /\ pipe[s] - 1 \in 0..PipeSize
        /\ left[s] + (pipe[s] - 1) + (drained[s] + 1) = left[s] + pipe[s] + drained[s]
    BY <1>0, <1>2, Bytes DEF DrainReads
  <2>2. drained' \in [Streams -> Nat] /\ pipe' \in [Streams -> 0..PipeSize]
    BY <1>0, <1>2, <2>1 DEF DrainReads, ToolTypeOK
  <2>3. ToolTypeOK'
    BY <1>0, <1>2, <2>2 DEF DrainReads, ToolTypeOK
  <2>4. \A t \in Streams : t # s => drained'[t] = drained[t] /\ pipe'[t] = pipe[t]
    BY <1>0, <1>2 DEF DrainReads, ToolTypeOK
  <2>5. drained'[s] = drained[s] + 1 /\ pipe'[s] = pipe[s] - 1
    BY <1>0, <1>2 DEF DrainReads, ToolTypeOK
  <2>6. ASSUME NEW t \in Streams PROVE left'[t] + pipe'[t] + drained'[t] = Given(t)'
    <3>1. left[t] + pipe[t] + drained[t] = Given(t) /\ Given(t)' = Given(t) /\ left' = left
      BY <1>0, <1>2 DEF DrainReads, BytesAreKept, Given
    <3>2. CASE t = s
      BY <2>1, <2>5, <3>1, <3>2
    <3>3. CASE t # s
      BY <2>4, <3>1, <3>3
    <3> QED
      BY <3>2, <3>3
  <2>7. drain[s] = "reading" /\ drain' = drain /\ child' = child /\ call' = call /\ left' = left
        /\ caller' = caller /\ answer' = answer
    BY <1>2 DEF DrainReads
  <2>8. \A t \in Streams : drain[t] # "reading" => t # s
    BY <2>7
  <2>9. EndsMeanAll'
    BY <1>0, <2>4, <2>7, <2>8 DEF EndsMeanAll
  <2>10. CallerHasSeen'
    BY <1>0, <2>4, <2>7, <2>8 DEF CallerHasSeen, Streams
  <2> QED
    BY <2>3, <2>6, <2>9, <2>10 DEF ToolInv, BytesAreKept
<1>3. ASSUME NEW s \in Streams, DrainEnds(s) PROVE ToolInv'
  <2>1. /\ drain[s] = "reading" /\ child' = child /\ call' = call /\ left' = left /\ pipe' = pipe
        /\ drained' = drained /\ caller' = caller /\ answer' = answer
    BY <1>3 DEF DrainEnds
  <2>2. \/ Enough(s) /\ drain' = [drain EXCEPT ![s] = "dropped"]
        \/ pipe[s] = 0 /\ ~PipesHeld /\ drain' = [drain EXCEPT ![s] = "sent"]
    BY <1>3 DEF DrainEnds
  <2>3. drain' \in [Streams -> {"none", "reading", "sent", "dropped"}]
    BY <1>0, <2>2 DEF ToolTypeOK
  <2>4. ToolTypeOK'
    BY <1>0, <1>3, <2>3 DEF DrainEnds, ToolTypeOK
  <2>5. \A t \in Streams : t # s => drain'[t] = drain[t]
    BY <1>0, <2>2 DEF ToolTypeOK
  <2>6. \/ Enough(s) /\ drain'[s] = "dropped"
        \/ pipe[s] = 0 /\ ~PipesHeld /\ drain'[s] = "sent"
    BY <1>0, <2>2 DEF ToolTypeOK
  <2>7. BytesAreKept'
    BY <1>0, <2>1 DEF BytesAreKept, Given
  <2>8. child # "none"
    BY <1>0, <2>1 DEF CallerHasSeen
  <2>9. EndsMeanAll'
    BY <1>0, <2>1, <2>5, <2>6, <2>8 DEF EndsMeanAll, Enough, PipesHeld
  <2>10. \A t \in Streams : drain[t] = "sent" => t # s
    BY <2>1
  <2>11. CallerHasSeen'
    BY <1>0, <2>1, <2>5, <2>8, <2>10 DEF CallerHasSeen, Streams
  <2> QED
    BY <2>4, <2>7, <2>9, <2>11 DEF ToolInv
<1> QED
  BY <1>1, <1>2, <1>3

LEMMA CallerKeepsInv ==
  ASSUME ToolInv, CallerMoves
  PROVE  ToolInv'
<1> USE ToolAssumption DEF ToolInv, Return
<1>1. CASE SpawnFails
  BY <1>1 DEF SpawnFails, ToolTypeOK, BytesAreKept, Given, EndsMeanAll, CallerHasSeen
<1>2. CASE Spawn
  BY <1>2 DEF Spawn, ToolTypeOK, BytesAreKept, Given, EndsMeanAll, CallerHasSeen
<1>3. CASE WaitSeesExit
  BY <1>3 DEF WaitSeesExit, ToolTypeOK, Calls, BytesAreKept, Given, EndsMeanAll, CallerHasSeen
<1>4. CASE WaitTimesOut
  BY <1>4 DEF WaitTimesOut, ToolTypeOK, Calls, BytesAreKept, Given, EndsMeanAll, CallerHasSeen
<1>5. ASSUME Join PROVE ToolInv'
  <2>0. ToolTypeOK /\ BytesAreKept /\ EndsMeanAll /\ CallerHasSeen
    OBVIOUS
  <2>1. /\ caller = "joining" /\ caller' = "returned" /\ child' = child /\ call' = call
        /\ drain' = drain /\ drained' = drained /\ left' = left /\ pipe' = pipe
        /\ drain["out"] \in {"sent", "dropped"}
    BY <1>5 DEF Join
  <2>2. call.kind = "worker" /\ child \in {"exited", "failed", "killed"}
    BY <2>0, <2>1 DEF CallerHasSeen, ToolTypeOK
  <2>3. drained["out"] \in Nat /\ MaxOutput \in Nat
    BY <2>0, Bytes DEF Streams
  <2>4. drained["out"] > MaxOutput \/ drained["out"] <= MaxOutput
    BY <2>3
  <2>5. ~(drained["out"] > MaxOutput /\ drained["out"] <= MaxOutput)
    BY <2>3
  <2>6. /\ answer' \in {"timed out", "too large", "crashed", "ok"}
        /\ answer' = "ok" => child = "exited" /\ drained["out"] <= MaxOutput
    BY <1>5, <2>2, <2>4, <2>5 DEF Join
  <2>7. ToolTypeOK'
    BY <1>5, <2>0, <2>6 DEF Join, ToolTypeOK
  <2>8. BytesAreKept' /\ EndsMeanAll'
    BY <2>0, <2>1 DEF BytesAreKept, Given, EndsMeanAll
  <2>9. answer' = "ok" => drain["out"] = "sent"
    BY <2>0, <2>1, <2>5, <2>6 DEF EndsMeanAll, Streams
  <2>10. CallerHasSeen'
    BY <2>0, <2>1, <2>2, <2>6, <2>9 DEF CallerHasSeen
  <2> QED
    BY <2>7, <2>8, <2>10
<1>6. ASSUME NEW s \in Streams, Collect(s) PROVE ToolInv'
  BY <1>6 DEF Collect, ToolTypeOK, BytesAreKept, Given, EndsMeanAll, CallerHasSeen, Streams
<1>7. ASSUME NEW s \in Streams, CollectTimesOut(s) PROVE ToolInv'
  BY <1>7 DEF CollectTimesOut, ToolTypeOK, BytesAreKept, Given, EndsMeanAll, CallerHasSeen
<1> QED
  BY <1>1, <1>2, <1>3, <1>4, <1>5, <1>6, <1>7 DEF CallerMoves

LEMMA ToolNextInv == ToolInv /\ [ToolNext]_toolVars => ToolInv'
<1> SUFFICES ASSUME ToolInv, [ToolNext]_toolVars PROVE ToolInv'
  OBVIOUS
<1>1. CASE UNCHANGED toolVars
  BY <1>1 DEF toolVars, ToolInv, ToolTypeOK, BytesAreKept, Given, EndsMeanAll, CallerHasSeen
<1>2. CASE Ended
  BY <1>1, <1>2 DEF Ended
<1> QED
  BY <1>1, <1>2, ChildKeepsInv, ThreadsKeepInv, CallerKeepsInv DEF ToolNext, ServerMoves

LEMMA WholeBySeen == ToolInv => AnswersAreWhole
  BY DEF ToolInv, ToolTypeOK, BytesAreKept, Given, EndsMeanAll, CallerHasSeen, AnswersAreWhole,
         Streams, Calls

\* A call that answers does so with all that the program wrote, for inputs, outputs
\* and pipes of every size.
THEOREM AnswersWhole == ToolSpec => []AnswersAreWhole
  BY ToolInitInv, ToolNextInv, WholeBySeen, PTL DEF ToolSpec

\* That neither the program nor the caller is left standing is said with ENABLED in
\* ToolRun; what can be proved is that the guard of a step holds: of a step of the
\* threads and the caller, or of the program.
ThreadsMay ==
    \/ child # "none" /\ feed > 0 /\ (PipesHeld => stdin < PipeSize)
    \/ \E s \in Streams : drain[s] = "reading" /\ (Enough(s) \/ pipe[s] > 0 \/ ~PipesHeld)

CallerMay ==
    \/ caller = "spawning"
    \/ caller = "waiting" /\ child \in {"exited", "failed"}
    \/ caller = "waiting" /\ child = "running" /\ late
    \/ \E s \in Streams : caller = s /\ (drain[s] = "sent" \/ (heir /\ late))
    \/ caller = "joining" /\ feed = 0 /\ drain["out"] \in {"sent", "dropped"}

ProgramMay ==
    /\ child = "running"
    /\ \/ call.reads /\ stdin > 0
       \/ HasRead /\ ~call.hangs /\ \A s \in Streams : left[s] = 0
       \/ HasRead /\ \E s \in Streams :
             left[s] > 0 /\ (pipe[s] < PipeSize \/ drain[s] = "dropped")

\* Every stream of a program that runs is drained, and only what forks leaves an heir.
EveryoneIsHeard ==
    /\ \A s \in Streams : drain[s] = "none" => child = "none"
    /\ caller = "waiting" => child \in {"running", "exited", "failed"}
    /\ Sensible(call) /\ (heir => call.forks)

LEMMA EveryoneStaysHeard ==
  ASSUME ToolInv, EveryoneIsHeard, [ToolNext]_toolVars
  PROVE  EveryoneIsHeard'
<1>0. ToolTypeOK /\ CallerHasSeen
  BY DEF ToolInv
<1>1. CASE UNCHANGED toolVars \/ Ended
  BY <1>1 DEF Ended, toolVars, EveryoneIsHeard, Sensible
<1>2. CASE ChildMoves \/ HeirEnds \/ Deadline
  BY <1>0, <1>2
     DEF ChildMoves, ChildReads, ChildForks, ChildExits, ChildWrites, ChildIsCutOff, HeirEnds,
         Deadline, EveryoneIsHeard, Sensible, CallerHasSeen
<1>3. CASE WriterWrites \/ \E s \in Streams : DrainReads(s)
  BY <1>3 DEF WriterWrites, DrainReads, EveryoneIsHeard, Sensible
<1>4. ASSUME NEW s \in Streams, DrainEnds(s) PROVE EveryoneIsHeard'
  <2>1. \A t \in Streams : drain'[t] = "none" => drain[t] = "none"
    BY <1>0, <1>4 DEF DrainEnds, ToolTypeOK
  <2> QED
    BY <1>4, <2>1 DEF DrainEnds, EveryoneIsHeard, Sensible
<1>5. CASE Spawn
  BY <1>0, <1>5 DEF Spawn, EveryoneIsHeard, Sensible
<1>6. CASE SpawnFails \/ WaitSeesExit \/ Join
           \/ \E s \in Streams : Collect(s) \/ CollectTimesOut(s)
  <2>1. ASSUME NEW s \in Streams, Collect(s)
        PROVE  caller' # "waiting" /\ child' = child /\ call' = call /\ heir' = heir
                 /\ drain' = drain
    <3>1. CASE s = "out"
      BY <2>1, <3>1 DEF Collect
    <3>2. CASE s # "out"
      BY <2>1, <3>2 DEF Collect, Return
    <3> QED
      BY <3>1, <3>2
  <2>2. SpawnFails \/ WaitSeesExit \/ (\E s \in Streams : CollectTimesOut(s)) =>
          caller' # "waiting" /\ child' = child /\ call' = call /\ heir' = heir /\ drain' = drain
    BY DEF SpawnFails, WaitSeesExit, CollectTimesOut, Return
  <2>3. Join =>
          caller' # "waiting" /\ child' = child /\ call' = call /\ heir' = heir /\ drain' = drain
    BY DEF Join, Return
  <2>4. caller' # "waiting" /\ child' = child /\ call' = call /\ heir' = heir /\ drain' = drain
    BY <1>6, <2>1, <2>2, <2>3
  <2> QED
    BY <2>4 DEF EveryoneIsHeard, Sensible
<1>7. CASE WaitTimesOut
  BY <1>0, <1>7 DEF WaitTimesOut, Return, EveryoneIsHeard, Sensible, CallerHasSeen
<1> QED
  BY <1>1, <1>2, <1>3, <1>4, <1>5, <1>6, <1>7 DEF ToolNext, ServerMoves, CallerMoves

LEMMA HeardFromTheStart == ToolInit => EveryoneIsHeard
  BY DEF ToolInit, EveryoneIsHeard

\* hledger.rs, "the obvious wait()-then-read() deadlocks on exactly the payload this
\* module was built for": for inputs, outputs and pipes of every size, a program that
\* does not hang can take its next step, or a thread can that feeds or drains it.
THEOREM NoStandstill ==
  ToolSpec => [](child = "running" /\ ~call.hangs => ProgramMay \/ ThreadsMay)
<1>1. ToolInv /\ EveryoneIsHeard /\ child = "running" /\ ~call.hangs => ProgramMay \/ ThreadsMay
  <2> SUFFICES ASSUME ToolInv, EveryoneIsHeard, child = "running", ~call.hangs,
                      ~ThreadsMay
               PROVE  ProgramMay
    OBVIOUS
  <2>1. /\ feed \in Nat /\ stdin \in Nat /\ PipeSize \in Nat \ {0}
        /\ \A s \in Streams : left[s] \in Nat /\ pipe[s] \in Nat /\ pipe[s] <= PipeSize
    BY Bytes, ToolAssumption DEF ToolInv
  <2>2. CASE ~HasRead
    <3>1. call.reads /\ (feed > 0 \/ stdin > 0)
      BY <2>1, <2>2 DEF HasRead
    <3>2. feed > 0 => stdin > 0
      BY <2>1 DEF ThreadsMay
    <3> QED
      BY <3>1, <3>2 DEF ProgramMay
  <2>3. CASE HasRead /\ \A s \in Streams : left[s] = 0
    BY <2>3 DEF ProgramMay
  <2>4. ASSUME HasRead, NEW s \in Streams, left[s] # 0 PROVE ProgramMay
    <3>1. drain[s] \in {"none", "reading", "sent", "dropped"}
      BY DEF ToolInv, ToolTypeOK
    <3>2. drain[s] \in {"reading", "dropped"}
      BY <3>1 DEF ToolInv, EndsMeanAll, EveryoneIsHeard
    <3>3. drain[s] = "reading" => pipe[s] < PipeSize
      BY <2>1 DEF ThreadsMay
    <3> QED
      BY <2>1, <2>4, <3>2, <3>3 DEF ProgramMay
  <2> QED
    BY <2>2, <2>3, <2>4
<1> QED
  BY <1>1, ToolInitInv, ToolNextInv, HeardFromTheStart, EveryoneStaysHeard, PTL DEF ToolSpec

\* hledger.rs, "Why those threads are DETACHED": past the deadline the caller can return,
\* or a thread of the server can take the step it waits for, whatever the program does and
\* whoever else holds its pipes.
THEOREM CallerIsNotHeld ==
  ToolSpec => [](late /\ caller # "returned" => CallerMay \/ ThreadsMay)
<1>1. ToolInv /\ EveryoneIsHeard /\ late /\ caller # "returned" => CallerMay \/ ThreadsMay
  <2> SUFFICES ASSUME ToolInv, EveryoneIsHeard, late, caller # "returned"
               PROVE  CallerMay \/ ThreadsMay
    OBVIOUS
  <2>1. /\ feed \in Nat /\ caller \in {"spawning", "waiting", "out", "err", "joining"}
        /\ \A s \in Streams : drain[s] \in {"none", "reading", "sent", "dropped"}
    BY DEF ToolInv, ToolTypeOK
  <2>2. CASE caller \in {"spawning", "waiting"}
    BY <2>2 DEF CallerMay, EveryoneIsHeard
  <2>3. ASSUME NEW s \in Streams, caller = s PROVE CallerMay \/ ThreadsMay
    <3>1. call.kind = "tool" /\ child \in {"exited", "failed"}
      BY <2>3 DEF ToolInv, CallerHasSeen, Streams
    <3>2. drain[s] \in {"reading", "sent"}
      BY <2>1, <3>1 DEF ToolInv, EndsMeanAll, EveryoneIsHeard
    <3> QED
      BY <2>3, <3>1, <3>2 DEF CallerMay, ThreadsMay, PipesHeld
  <2>4. CASE caller = "joining"
    <3>1. call.kind = "worker" /\ child \notin {"none", "running"} /\ "out" \in Streams
      BY <2>4 DEF ToolInv, CallerHasSeen, Streams
    <3>2. ~PipesHeld
      BY <3>1 DEF EveryoneIsHeard, Sensible, PipesHeld
    <3>3. drain["out"] # "none"
      BY <3>1 DEF EveryoneIsHeard
    <3>4. feed = 0 \/ feed > 0
      BY <2>1
    <3> QED
      BY <2>1, <2>4, <3>1, <3>2, <3>3, <3>4 DEF CallerMay, ThreadsMay
  <2> QED
    BY <2>1, <2>2, <2>3, <2>4 DEF Streams
<1> QED
  BY <1>1, ToolInitInv, ToolNextInv, HeardFromTheStart, EveryoneStaysHeard, PTL DEF ToolSpec

-----------------------------------------------------------------------------
(* The sides a snapshot keeps, for any number of handlers, keys and sides.   *)

SidesSpec == SidesInit /\ [][SidesNext]_sidesVars

\* A list of keys, each of them once.
Listed(list) == /\ list \in Seq(Keys)
                /\ \A m, n \in 1 .. Len(list) : list[m] = list[n] => m = n

\* How many keys were used that are held no longer.
Dropped == Len(recent) - Len(sides)

\* The sides are the end of the history.
HoldsTheEnd ==
    /\ Len(sides) = IF Len(recent) > SIDES THEN SIDES ELSE Len(recent)
    /\ \A n \in 1 .. Len(sides) : sides[n] = recent[n + Dropped]

SidesInv ==
    /\ building \in [Builders -> Keys \cup {NoKey}]
    /\ Listed(sides) /\ Listed(recent) /\ HoldsTheEnd

\* How the numbers of keys are related.
LEMMA Lengths ==
  ASSUME SidesInv
  PROVE  /\ Len(sides) \in Nat /\ Len(recent) \in Nat /\ Dropped \in Nat
         /\ Len(sides) + Dropped = Len(recent) /\ (Dropped # 0 => Len(sides) = SIDES)
         /\ Len(sides) <= SIDES
<1>1. Len(sides) \in Nat /\ Len(recent) \in Nat
  BY LenProperties DEF SidesInv, Listed
<1>2. Len(sides) = IF Len(recent) > SIDES THEN SIDES ELSE Len(recent)
  BY DEF SidesInv, HoldsTheEnd
<1> QED
  BY <1>1, <1>2, SidesAssumption DEF Dropped

\* What Vec::position and Vec::remove do to a list that holds the key once.
LEMMA RemoveOnce ==
  ASSUME NEW list, Listed(list), NEW i \in 1 .. Len(list)
  PROVE  /\ RemoveFirst(list, list[i]) \in Seq(Keys)
         /\ Len(RemoveFirst(list, list[i])) = Len(list) - 1
         /\ \A n \in 1 .. Len(list) - 1 :
              RemoveFirst(list, list[i])[n] = IF n < i THEN list[n] ELSE list[n + 1]
<1> DEFINE front == SubSeq(list, 1, i - 1)
           back == SubSeq(list, i + 1, Len(list))
<1>1. list \in Seq(Keys) /\ Len(list) \in Nat /\ \A n \in 1 .. Len(list) : list[n] \in Keys
  BY ElementOfSeq, LenProperties DEF Listed
<1>2. {n \in 1 .. Len(list) : list[n] = list[i]} = {i}
  BY DEF Listed
<1>3. Min({i}) = i
  BY DEF Min
<1>4. RemoveFirst(list, list[i]) = front \o back
  BY <1>2, <1>3 DEF RemoveFirst, SelectInSeq, RemoveAt
<1>5. /\ front \in Seq(Keys) /\ Len(front) = i - 1
      /\ \A n \in 1 .. i - 1 : front[n] = list[n]
  <2>1. \A n \in 1 .. i - 1 : list[n] \in Keys
    BY <1>1
  <2> QED
    BY <1>1, <2>1, SubSeqProperties
<1>6. /\ back \in Seq(Keys) /\ Len(back) = Len(list) - i
      /\ \A n \in 1 .. Len(list) - i : back[n] = list[n + i]
  <2>1. \A n \in i + 1 .. Len(list) : list[n] \in Keys
    BY <1>1
  <2>2. \A n \in 1 .. Len(list) - (i + 1) + 1 : back[n] = list[i + 1 + n - 1]
    BY <1>1, <2>1, SubSeqProperties
  <2>3. back \in Seq(Keys) /\ Len(back) = IF i + 1 <= Len(list) THEN Len(list) - (i + 1) + 1 ELSE 0
    BY <1>1, <2>1, SubSeqProperties
  <2> QED
    BY <1>1, <2>2, <2>3
<1> HIDE DEF front, back
<1>7. /\ front \o back \in Seq(Keys) /\ Len(front \o back) = Len(front) + Len(back)
      /\ \A n \in 1 .. Len(front) + Len(back) : (front \o back)[n] =
           IF n <= Len(front) THEN front[n] ELSE back[n - Len(front)]
  <2>1. front \in Seq(Keys) /\ back \in Seq(Keys)
    BY <1>5, <1>6
  <2> QED
    BY <2>1, ConcatProperties
<1>8. ASSUME NEW n \in 1 .. Len(list) - 1
      PROVE  (front \o back)[n] = IF n < i THEN list[n] ELSE list[n + 1]
  <2>1. /\ n \in 1 .. Len(front) + Len(back) /\ (n <= Len(front) <=> n < i)
        /\ n - Len(front) = n - i + 1
    BY <1>1, <1>5, <1>6
  <2>2. CASE n < i
    BY <1>5, <1>7, <2>1, <2>2
  <2>3. CASE ~(n < i)
    <3>1. (n - i + 1) + i = n + 1 /\ n - i + 1 \in 1 .. Len(list) - i
      BY <1>1, <2>3
    <3>2. back[n - i + 1] = list[n + 1]
      BY <1>6, <3>1
    <3> QED
      BY <1>7, <2>1, <2>3, <3>2
  <2> QED
    BY <2>2, <2>3
<1> QED
  BY <1>1, <1>4, <1>5, <1>6, <1>7, <1>8

\* A key that is held goes to the end, the ones after it one place forward.
LEMMA MovedToTheEnd ==
  ASSUME NEW list, Listed(list), NEW i \in 1 .. Len(list)
  PROVE  /\ Listed(Moved(list, list[i])) /\ Len(Moved(list, list[i])) = Len(list)
         /\ \A n \in 1 .. Len(list) : Moved(list, list[i])[n] =
              IF n < i THEN list[n]
              ELSE IF n < Len(list) THEN list[n + 1] ELSE list[i]
<1> DEFINE rest == RemoveFirst(list, list[i])
<1>1. /\ list \in Seq(Keys) /\ Len(list) \in Nat /\ list[i] \in Keys
  BY ElementOfSeq, LenProperties DEF Listed
<1>2. /\ rest \in Seq(Keys) /\ Len(rest) = Len(list) - 1
      /\ \A n \in 1 .. Len(list) - 1 : rest[n] = IF n < i THEN list[n] ELSE list[n + 1]
  BY RemoveOnce
<1> HIDE DEF rest
<1>3. Moved(list, list[i]) = Append(rest, list[i])
  BY DEF Moved, rest
<1>4. /\ Append(rest, list[i]) \in Seq(Keys) /\ Len(Append(rest, list[i])) = Len(list)
      /\ \A n \in 1 .. Len(list) - 1 : Append(rest, list[i])[n] = rest[n]
      /\ Append(rest, list[i])[Len(list)] = list[i]
  BY <1>1, <1>2, AppendProperties
<1>5. \A n \in 1 .. Len(list) : Append(rest, list[i])[n] =
              IF n < i THEN list[n]
              ELSE IF n < Len(list) THEN list[n + 1] ELSE list[i]
  BY <1>1, <1>2, <1>4
<1>6. ASSUME NEW m \in 1 .. Len(list), NEW n \in 1 .. Len(list),
             Append(rest, list[i])[m] = Append(rest, list[i])[n]
      PROVE  m = n
  <2>1. CASE m < Len(list) /\ n < Len(list)
    <3> DEFINE a == IF m < i THEN m ELSE m + 1
               b == IF n < i THEN n ELSE n + 1
    <3>1. a \in 1 .. Len(list) /\ b \in 1 .. Len(list) /\ (a = b => m = n)
      BY <1>1, <2>1
    <3>2. Append(rest, list[i])[m] = list[a]
      BY <1>1, <1>5, <2>1
    <3>3. Append(rest, list[i])[n] = list[b]
      BY <1>1, <1>5, <2>1
    <3> QED
      BY <1>6, <3>1, <3>2, <3>3 DEF Listed
  <2>2. CASE m = Len(list) /\ n < Len(list)
    <3> DEFINE b == IF n < i THEN n ELSE n + 1
    <3>1. b \in 1 .. Len(list) /\ b # i
      BY <1>1, <2>2
    <3>2. Append(rest, list[i])[m] = list[i] /\ Append(rest, list[i])[n] = list[b]
      BY <1>1, <1>2, <1>4, <2>2
    <3> QED
      BY <1>6, <3>1, <3>2 DEF Listed
  <2>3. CASE m < Len(list) /\ n = Len(list)
    <3> DEFINE a == IF m < i THEN m ELSE m + 1
    <3>1. a \in 1 .. Len(list) /\ a # i
      BY <1>1, <2>3
    <3>2. Append(rest, list[i])[n] = list[i] /\ Append(rest, list[i])[m] = list[a]
      BY <1>1, <1>2, <1>4, <2>3
    <3> QED
      BY <1>6, <3>1, <3>2 DEF Listed
  <2> QED
    BY <1>1, <2>1, <2>2, <2>3
<1> QED
  BY <1>3, <1>4, <1>5, <1>6 DEF Listed

\* A key that is not held is pushed.
LEMMA Pushed ==
  ASSUME NEW list, Listed(list), NEW key \in Keys, key \notin Range(list)
  PROVE  /\ Moved(list, key) = Append(list, key)
         /\ Listed(Append(list, key)) /\ Len(Append(list, key)) = Len(list) + 1
         /\ \A n \in 1 .. Len(list) : Append(list, key)[n] = list[n]
         /\ Append(list, key)[Len(list) + 1] = key
<1>1. list \in Seq(Keys) /\ Len(list) \in Nat /\ \A n \in 1 .. Len(list) : list[n] # key
  BY RangeEquality, LenProperties DEF Listed
<1>2. Moved(list, key) = Append(list, key)
  BY <1>1 DEF Moved, RemoveFirst
<1>3. /\ Append(list, key) \in Seq(Keys) /\ Len(Append(list, key)) = Len(list) + 1
      /\ \A n \in 1 .. Len(list) : Append(list, key)[n] = list[n]
      /\ Append(list, key)[Len(list) + 1] = key
  BY <1>1, AppendProperties
<1>4. Listed(Append(list, key))
  BY <1>1, <1>3 DEF Listed
<1> QED
  BY <1>2, <1>3, <1>4

\* A hit: the same key moves in both.
LEMMA HitKeepsTheEnd ==
  ASSUME SidesInv, NEW key \in Keys, key \in Range(sides),
         sides' = Moved(sides, key), recent' = Moved(recent, key)
  PROVE  Listed(sides)' /\ Listed(recent)' /\ HoldsTheEnd'
<1>1. /\ Listed(sides) /\ Listed(recent) /\ HoldsTheEnd
      /\ Len(sides) \in Nat /\ Len(recent) \in Nat /\ Dropped \in Nat
      /\ Len(sides) + Dropped = Len(recent)
  BY Lengths DEF SidesInv
<1>2. PICK i \in 1 .. Len(sides) : key = sides[i]
  BY <1>1, RangeEquality DEF Listed
<1>3. i + Dropped \in 1 .. Len(recent) /\ key = recent[i + Dropped]
  BY <1>1, <1>2 DEF HoldsTheEnd
<1> DEFINE j == i + Dropped
<1> HIDE DEF j
<1>4. /\ Listed(sides') /\ Len(sides') = Len(sides)
      /\ \A n \in 1 .. Len(sides) : sides'[n] =
              IF n < i THEN sides[n]
              ELSE IF n < Len(sides) THEN sides[n + 1] ELSE sides[i]
  BY <1>1, <1>2, MovedToTheEnd
<1>5. /\ Listed(recent') /\ Len(recent') = Len(recent)
      /\ \A n \in 1 .. Len(recent) : recent'[n] =
              IF n < j THEN recent[n]
              ELSE IF n < Len(recent) THEN recent[n + 1] ELSE recent[j]
  BY <1>1, <1>3, MovedToTheEnd DEF j
<1>6. ASSUME NEW n \in 1 .. Len(sides)
      PROVE  sides'[n] = recent'[n + Dropped]
  <2>1. n + Dropped \in 1 .. Len(recent)
    BY <1>1
  <2>2. CASE n < i
    <3>1. sides'[n] = sides[n]
      BY <1>4, <2>2
    <3>2. n + Dropped < j
      BY <1>1, <2>2 DEF j
    <3>3. recent'[n + Dropped] = recent[n + Dropped]
      BY <1>5, <2>1, <3>2
    <3> QED
      BY <1>1, <3>1, <3>3 DEF HoldsTheEnd
  <2>3. CASE i <= n /\ n < Len(sides)
    <3>1. sides'[n] = sides[n + 1] /\ n + 1 \in 1 .. Len(sides)
      BY <1>1, <1>4, <2>3
    <3>2. recent'[n + Dropped] = recent[(n + 1) + Dropped]
      <4>1. j <= n + Dropped /\ n + Dropped < Len(recent) /\ ~(n + Dropped < j)
            /\ (n + Dropped) + 1 = (n + 1) + Dropped
        BY <1>1, <2>3 DEF j
      <4> QED
        BY <1>5, <2>1, <4>1
    <3> QED
      BY <1>1, <3>1, <3>2 DEF HoldsTheEnd
  <2>4. CASE n = Len(sides)
    <3>1. n + Dropped = Len(recent) /\ ~(n < i) /\ ~(Len(recent) < j)
      BY <1>1, <2>4 DEF j
    <3>2. sides'[n] = sides[i] /\ recent'[n + Dropped] = recent[j]
      BY <1>1, <1>4, <1>5, <2>1, <2>4, <3>1
    <3> QED
      BY <1>2, <1>3, <3>2 DEF j
  <2> QED
    BY <1>1, <2>2, <2>3, <2>4
<1>7. Dropped' = Dropped
  BY <1>4, <1>5 DEF Dropped
<1> QED
  BY <1>1, <1>4, <1>5, <1>6, <1>7 DEF HoldsTheEnd

\* What is inserted where it was not held.
LEMMA RoomIsMade ==
  ASSUME SidesInv, NEW key \in Keys, key \notin Range(sides)
  PROVE  LET gone == IF Len(sides) = SIDES THEN 1 ELSE 0 IN
         /\ Listed(Inserted(key)) /\ Len(Inserted(key)) = Len(sides) + 1 - gone
         /\ \A n \in 1 .. Len(sides) - gone : Inserted(key)[n] = sides[n + gone]
         /\ Inserted(key)[Len(sides) + 1 - gone] = key
<1>1. /\ Listed(sides) /\ Len(sides) \in Nat /\ sides \in Seq(Keys)
  BY LenProperties DEF SidesInv, Listed
<1>2. CASE Len(sides) # SIDES
  <2>1. Inserted(key) = Append(sides, key)
    BY <1>2 DEF Inserted
  <2> QED
    BY <1>1, <1>2, <2>1, Pushed
<1>3. CASE Len(sides) = SIDES
  <2>1. /\ Inserted(key) = Append(Tail(sides), key) /\ sides # <<>>
    BY <1>1, <1>3, SidesAssumption, EmptySeq DEF Inserted
  <2>2. /\ Tail(sides) \in Seq(Keys) /\ Len(Tail(sides)) = Len(sides) - 1
        /\ \A n \in 1 .. Len(Tail(sides)) : Tail(sides)[n] = sides[n + 1]
    BY <1>1, <2>1, HeadTailProperties
  <2> DEFINE rest == Tail(sides)
  <2> HIDE DEF rest
  <2>3. /\ Inserted(key) = Append(rest, key) /\ rest \in Seq(Keys) /\ Len(rest) = Len(sides) - 1
        /\ \A n \in 1 .. Len(sides) - 1 : rest[n] = sides[n + 1]
    BY <2>1, <2>2 DEF rest
  <2>4. Listed(rest)
    BY <1>1, <2>3 DEF Listed
  <2>5. key \notin Range(rest)
    <3>1. ASSUME NEW n \in 1 .. Len(rest) PROVE rest[n] # key
      <4>1. n + 1 \in 1 .. Len(sides) /\ rest[n] = sides[n + 1]
        BY <1>1, <2>3
      <4> QED
        BY <1>1, <4>1, RangeEquality
    <3> QED
      BY <2>3, <3>1, RangeEquality
  <2> QED
    BY <1>1, <1>3, <2>3, <2>4, <2>5, Pushed, SidesAssumption
<1> QED
  BY <1>2, <1>3

\* An insertion: the key was not held, whether it was used before or not.
LEMMA InsertKeepsTheEnd ==
  ASSUME SidesInv, NEW key \in Keys, key \notin Range(sides),
         sides' = Inserted(key), recent' = Moved(recent, key)
  PROVE  Listed(sides)' /\ Listed(recent)' /\ HoldsTheEnd'
<1> DEFINE gone == IF Len(sides) = SIDES THEN 1 ELSE 0
<1>1. /\ Listed(sides) /\ Listed(recent) /\ HoldsTheEnd
      /\ Len(sides) \in Nat /\ Len(recent) \in Nat /\ Dropped \in Nat
      /\ Len(sides) + Dropped = Len(recent)
      /\ (Dropped # 0 => Len(sides) = SIDES) /\ Len(sides) <= SIDES
  BY Lengths DEF SidesInv
<1>2. /\ Listed(sides') /\ Len(sides') = Len(sides) + 1 - gone
      /\ \A n \in 1 .. Len(sides) - gone : sides'[n] = sides[n + gone]
      /\ sides'[Len(sides) + 1 - gone] = key
  BY RoomIsMade
<1>3. gone \in {0, 1} /\ (gone = 1 <=> Len(sides) = SIDES)
  OBVIOUS
<1> HIDE DEF gone
<1>4. CASE key \notin Range(recent)
  <2>1. /\ Listed(recent') /\ Len(recent') = Len(recent) + 1
        /\ \A n \in 1 .. Len(recent) : recent'[n] = recent[n]
        /\ recent'[Len(recent) + 1] = key
    <3>1. /\ Moved(recent, key) = Append(recent, key)
          /\ Listed(Append(recent, key)) /\ Len(Append(recent, key)) = Len(recent) + 1
          /\ \A n \in 1 .. Len(recent) : Append(recent, key)[n] = recent[n]
          /\ Append(recent, key)[Len(recent) + 1] = key
      BY <1>1, <1>4, Pushed
    <3>2. recent' = Append(recent, key)
      BY <3>1
    <3> QED
      BY <3>1, <3>2
  <2>2. Dropped' = Dropped + gone /\ Len(sides') \in Nat
    BY <1>1, <1>2, <1>3, <2>1 DEF Dropped
  <2>3. ASSUME NEW n \in 1 .. Len(sides')
        PROVE  sides'[n] = recent'[n + Dropped + gone]
    <3>1. CASE n = Len(sides')
      <4>1. n = Len(sides) + 1 - gone /\ n + Dropped + gone = Len(recent) + 1
        <5>1. n = Len(sides) + 1 - gone
          BY <1>2, <3>1
        <5> QED
          BY <1>1, <1>3, <5>1
      <4> QED
        BY <1>2, <2>1, <4>1
    <3>2. CASE n < Len(sides')
      <4>1. n \in 1 .. Len(sides) - gone /\ n + gone \in 1 .. Len(sides)
            /\ n + Dropped + gone \in 1 .. Len(recent)
            /\ (n + gone) + Dropped = n + Dropped + gone
        BY <1>1, <1>2, <1>3, <3>2
      <4>2. sides'[n] = sides[n + gone] /\ recent'[n + Dropped + gone] = recent[(n + gone) + Dropped]
        BY <1>2, <2>1, <4>1
      <4> QED
        BY <1>1, <4>1, <4>2 DEF HoldsTheEnd
    <3> QED
      BY <1>1, <1>2, <1>3, <2>2, <3>1, <3>2
  <2>4. Len(sides') = IF Len(recent') > SIDES THEN SIDES ELSE Len(recent')
    BY <1>1, <1>2, <1>3, <2>1, SidesAssumption DEF HoldsTheEnd
  <2>5. \A n \in 1 .. Len(sides') : sides'[n] = recent'[n + Dropped']
    <3>1. \A n \in 1 .. Len(sides') : n + Dropped + gone = n + Dropped'
      BY <1>1, <1>3, <2>2
    <3> QED
      BY <2>3, <3>1
  <2> QED
    BY <1>2, <2>1, <2>4, <2>5 DEF HoldsTheEnd
<1>5. CASE key \in Range(recent)
  <2>1. PICK p \in 1 .. Len(recent) : key = recent[p]
    BY <1>1, <1>5, RangeEquality DEF Listed
  <2>2. p <= Dropped
    <3> SUFFICES ASSUME ~(p <= Dropped) PROVE FALSE
      OBVIOUS
    <3>1. p - Dropped \in 1 .. Len(sides) /\ (p - Dropped) + Dropped = p
      BY <1>1
    <3>2. sides[p - Dropped] = key
      BY <1>1, <2>1, <3>1 DEF HoldsTheEnd
    <3> QED
      BY <1>1, <3>1, <3>2, RangeEquality DEF Listed
  <2>3. gone = 1 /\ Len(sides) = SIDES
    BY <1>1, <1>3, <2>2
  <2>4. /\ Listed(recent') /\ Len(recent') = Len(recent)
        /\ \A n \in 1 .. Len(recent) : recent'[n] =
              IF n < p THEN recent[n]
              ELSE IF n < Len(recent) THEN recent[n + 1] ELSE recent[p]
    BY <1>1, <2>1, MovedToTheEnd
  <2>5. Len(sides') = Len(sides) /\ Dropped' = Dropped
    BY <1>1, <1>2, <2>3, <2>4 DEF Dropped
  <2>6. ASSUME NEW n \in 1 .. Len(sides)
        PROVE  sides'[n] = recent'[n + Dropped]
    <3>0. n + Dropped \in 1 .. Len(recent) /\ p <= n + Dropped /\ ~(n + Dropped < p)
      BY <1>1, <2>2
    <3>1. CASE n = Len(sides)
      <4>1. sides'[n] = key
        BY <1>1, <1>2, <2>3, <3>1
      <4>2. recent'[n + Dropped] = recent[p]
        BY <1>1, <2>4, <3>0, <3>1
      <4> QED
        BY <2>1, <4>1, <4>2
    <3>2. CASE n < Len(sides)
      <4>1. sides'[n] = sides[n + 1] /\ n + 1 \in 1 .. Len(sides)
        BY <1>1, <1>2, <2>3, <3>2
      <4>2. n + Dropped < Len(recent) /\ (n + Dropped) + 1 = (n + 1) + Dropped
        BY <1>1, <3>2
      <4>3. recent'[n + Dropped] = recent[(n + 1) + Dropped]
        BY <2>4, <3>0, <4>2
      <4> QED
        BY <1>1, <4>1, <4>3 DEF HoldsTheEnd
    <3> QED
      BY <1>1, <3>1, <3>2
  <2> QED
    BY <1>1, <1>2, <2>4, <2>5, <2>6 DEF HoldsTheEnd
<1> QED
  BY <1>4, <1>5

LEMMA SidesNextInv ==
  SidesInv /\ [SidesNext]_sidesVars => SidesInv'
<1> SUFFICES ASSUME SidesInv, [SidesNext]_sidesVars PROVE SidesInv'
  OBVIOUS
<1> USE DEF SidesInv
<1>1. ASSUME NEW b \in Builders, NEW key \in Keys, Hit(b, key) PROVE SidesInv'
  BY <1>1, HitKeepsTheEnd DEF Hit
<1>2. ASSUME NEW b \in Builders, NEW key \in Keys, Miss(b, key) PROVE SidesInv'
  BY <1>2 DEF Miss, Listed, HoldsTheEnd, Dropped
<1>3. ASSUME NEW b \in Builders, BuildFails(b) PROVE SidesInv'
  BY <1>3 DEF BuildFails, Listed, HoldsTheEnd, Dropped
<1>4. ASSUME NEW b \in Builders, Insert(b) PROVE SidesInv'
  <2>1. building[b] \in Keys /\ building' \in [Builders -> Keys \cup {NoKey}]
    BY <1>4 DEF Insert
  <2>2. CASE building[b] \in Range(sides)
    <3>1. sides' = Moved(sides, building[b])
      BY <1>4, <2>2 DEF Insert, Inserted
    <3> QED
      BY <1>4, <2>1, <2>2, <3>1, HitKeepsTheEnd DEF Insert
  <2>3. CASE building[b] \notin Range(sides)
    BY <1>4, <2>1, <2>3, InsertKeepsTheEnd DEF Insert
  <2> QED
    BY <2>2, <2>3
<1>5. CASE UNCHANGED sidesVars
  BY <1>5 DEF sidesVars, Listed, HoldsTheEnd, Dropped
<1> QED
  BY <1>1, <1>2, <1>3, <1>4, <1>5 DEF SidesNext

\* However misses race, a snapshot keeps the sides most recently used, each once
\* (projection_cache.rs ProjectionCache::side, touch).
THEOREM KeepsTheLatest == SidesSpec => []KeepsTheMostRecent
<1>1. SidesInit => SidesInv
  BY EmptySeq, SidesAssumption DEF SidesInit, SidesInv, Listed, HoldsTheEnd, Dropped
<1>2. ASSUME SidesInv PROVE KeepsTheMostRecent
  <2> DEFINE from == IF Len(recent) > SIDES THEN Len(recent) - SIDES + 1 ELSE 1
  <2>1. /\ sides \in Seq(Keys) /\ recent \in Seq(Keys) /\ HoldsTheEnd
        /\ Len(sides) \in Nat /\ Len(recent) \in Nat /\ Dropped \in Nat
        /\ from = Dropped + 1 /\ from \in Int /\ Len(recent) - from + 1 = Len(sides)
        /\ \A n \in 1 .. Len(recent) : recent[n] \in Keys
    <3>1. /\ sides \in Seq(Keys) /\ recent \in Seq(Keys) /\ HoldsTheEnd
          /\ \A n \in 1 .. Len(recent) : recent[n] \in Keys
      BY <1>2, ElementOfSeq DEF SidesInv, Listed
    <3>2. /\ Len(sides) = IF Len(recent) > SIDES THEN SIDES ELSE Len(recent)
          /\ Dropped = Len(recent) - Len(sides)
      BY <1>2 DEF SidesInv, HoldsTheEnd, Dropped
    <3> QED
      BY <1>2, <3>1, <3>2, Lengths, SidesAssumption
  <2> HIDE DEF from
  <2>2. /\ SubSeq(recent, from, Len(recent)) \in Seq(Keys)
        /\ Len(SubSeq(recent, from, Len(recent))) = IF from <= Len(recent) THEN Len(recent) - from + 1 ELSE 0
        /\ \A n \in 1 .. Len(recent) - from + 1 :
             SubSeq(recent, from, Len(recent))[n] = recent[from + n - 1]
    <3>1. \A n \in from .. Len(recent) : recent[n] \in Keys
      BY <2>1
    <3> QED
      BY <2>1, <3>1, SubSeqProperties
  <2>3. Len(SubSeq(recent, from, Len(recent))) = Len(sides)
    BY <2>1, <2>2
  <2>4. ASSUME NEW n \in 1 .. Len(sides) PROVE sides[n] = SubSeq(recent, from, Len(recent))[n]
    <3>1. from + n - 1 = n + Dropped
      BY <2>1
    <3> QED
      BY <2>1, <2>2, <3>1 DEF HoldsTheEnd
  <2>5. sides = SubSeq(recent, from, Len(recent))
    BY <2>1, <2>2, <2>3, <2>4, SeqEqual
  <2> QED
    BY <2>5 DEF KeepsTheMostRecent, from
<1> QED
  BY <1>1, <1>2, SidesNextInv, PTL DEF SidesSpec

-----------------------------------------------------------------------------
(* The pool of a security, for any number of accounts and transactions.      *)

HoldingsSpec == HoldingsInit /\ [][HoldingsNext]_holdingsVars

\* Induction over the natural numbers: a set of them that is not empty has a least.
LEMMA LeastOf ==
  ASSUME NEW T \in SUBSET Nat, T # {}
  PROVE  \E n \in T : \A m \in T : ~(m < n)
<1>1. PICK n \in T : \A m \in T : <<m, n>> \notin OpToRel(<, Nat)
  BY NatLessThanWellFounded, WFMin, Zenon
<1> QED
  BY <1>1 DEF OpToRel

\* The partial sums of a sequence, up to one of its places.
Sums(nums, n, sum) ==
    /\ sum \in [0 .. n -> Int]
    /\ sum[0] = 0 /\ \A i \in 1 .. n : sum[i] = sum[i - 1] + nums[i]

LEMMA SumsExist ==
  ASSUME NEW nums \in Seq(Int), NEW len \in 0 .. Len(nums)
  PROVE  \E sum : Sums(nums, len, sum)
<1> DEFINE T == {n \in Nat : n <= Len(nums) /\ ~\E sum : Sums(nums, n, sum)}
<1>1. ASSUME T # {} PROVE FALSE
  <2>1. PICK n \in T : \A m \in T : ~(m < n)
    BY <1>1, LeastOf
  <2>2. n \in Nat /\ n <= Len(nums) /\ ~\E sum : Sums(nums, n, sum)
    OBVIOUS
  <2>3. CASE n = 0
    <3>1. Sums(nums, 0, [i \in 0 .. 0 |-> 0])
      BY DEF Sums
    <3> QED
      BY <2>2, <2>3, <3>1
  <2>4. CASE n # 0
    <3>1. n - 1 \in Nat /\ n - 1 < n /\ n - 1 <= Len(nums) /\ n - 1 \notin T
      BY <2>1, <2>2, <2>4
    <3>2. PICK sum : Sums(nums, n - 1, sum)
      BY <3>1
    <3> DEFINE more == [i \in 0 .. n |-> IF i = n THEN sum[n - 1] + nums[n] ELSE sum[i]]
    <3>3. nums[n] \in Int /\ sum \in [0 .. n - 1 -> Int] /\ sum[n - 1] \in Int
      BY <2>2, <2>4, <3>1, <3>2 DEF Sums
    <3>4. more \in [0 .. n -> Int] /\ more[0] = 0
      BY <2>2, <2>4, <3>2, <3>3 DEF Sums
    <3>5. ASSUME NEW i \in 1 .. n PROVE more[i] = more[i - 1] + nums[i]
      <4>1. i \in 0 .. n /\ i - 1 \in 0 .. n /\ i - 1 # n
        BY <2>2
      <4>2. i # n => i \in 1 .. n - 1
        BY <2>2
      <4> QED
        BY <3>2, <4>1, <4>2 DEF Sums
    <3>6. Sums(nums, n, more)
      BY <3>4, <3>5 DEF Sums
    <3> QED
      BY <2>2, <3>6
  <2> QED
    BY <2>3, <2>4
<1> QED
  BY <1>1

LEMMA SumsAgree ==
  ASSUME NEW nums \in Seq(Int), NEW len \in 0 .. Len(nums),
         NEW sum, Sums(nums, len, sum), NEW other,
         \A i \in 0 .. len : other[i] = IF i = 0 THEN 0 ELSE other[i - 1] + nums[i]
  PROVE  other[len] = sum[len]
<1> DEFINE T == {n \in Nat : n <= len /\ other[n] # sum[n]}
<1>1. ASSUME T # {} PROVE FALSE
  <2>1. PICK n \in T : \A m \in T : ~(m < n)
    BY <1>1, LeastOf
  <2>2. n \in 0 .. len /\ other[n] # sum[n]
    OBVIOUS
  <2>3. other[n] = IF n = 0 THEN 0 ELSE other[n - 1] + nums[n]
    BY <2>2
  <2>4. n # 0 => other[n - 1] = sum[n - 1]
    <3>1. n # 0 => n - 1 \in Nat /\ n - 1 <= len /\ n - 1 < n
      BY <2>2
    <3> QED
      BY <2>1, <3>1
  <2>5. sum[n] = IF n = 0 THEN 0 ELSE sum[n - 1] + nums[n]
    BY <2>2 DEF Sums
  <2> QED
    BY <2>2, <2>3, <2>4, <2>5
<1>2. len \in Nat /\ len <= len
  OBVIOUS
<1> QED
  BY <1>1, <1>2

LEMMA AddUpIs ==
  ASSUME NEW nums \in Seq(Int), NEW sum, Sums(nums, Len(nums), sum)
  PROVE  AddUp(nums) = sum[Len(nums)]
<1> DEFINE F(g) == g = [i \in 0 .. Len(nums) |-> IF i = 0 THEN 0 ELSE g[i - 1] + nums[i]]
<1>1. F(sum)
  BY DEF Sums
<1>2. F(CHOOSE g : F(g))
  BY <1>1
<1>3. AddUp(nums) = (CHOOSE g : F(g))[Len(nums)]
  BY DEF AddUp
<1>4. PICK g : F(g) /\ AddUp(nums) = g[Len(nums)]
  BY <1>2, <1>3
<1>5. \A i \in 0 .. Len(nums) : g[i] = IF i = 0 THEN 0 ELSE g[i - 1] + nums[i]
  BY <1>4
<1>6. Len(nums) \in 0 .. Len(nums)
  OBVIOUS
<1>7. g[Len(nums)] = sum[Len(nums)]
  BY <1>5, <1>6, SumsAgree
<1> QED
  BY <1>4, <1>7

\* A number more at one place is as much more in the sum.
LEMMA SumMoves ==
  ASSUME NEW nums \in Seq(Int), NEW more \in Seq(Int), Len(more) = Len(nums),
         NEW k \in 1 .. Len(nums), NEW q \in Int, more[k] = nums[k] + q,
         \A i \in 1 .. Len(nums) : i # k => more[i] = nums[i]
  PROVE  AddUp(more) = AddUp(nums) + q
<1> DEFINE n == Len(nums)
<1>0. n \in Nat
  OBVIOUS
<1>1. PICK sum : Sums(nums, n, sum)
  BY SumsExist
<1> DEFINE sums == [i \in 0 .. n |-> IF i < k THEN sum[i] ELSE sum[i] + q]
<1>2. sums \in [0 .. n -> Int] /\ sums[0] = 0 /\ sums[n] = sum[n] + q
  BY <1>0, <1>1 DEF Sums
<1>3. ASSUME NEW i \in 1 .. n PROVE sums[i] = sums[i - 1] + more[i]
  <2>1. i \in 0 .. n /\ i - 1 \in 0 .. n /\ i \in Int
    BY <1>0
  <2>2. sum[i - 1] \in Int /\ sum[i] \in Int /\ sum[i] = sum[i - 1] + nums[i]
    BY <1>0, <1>1, <2>1 DEF Sums
  <2>6. nums[i] \in Int
    BY <1>0
  <2>3. CASE i < k
    BY <1>0, <2>1, <2>2, <2>6, <2>3
  <2>4. CASE i = k
    BY <1>0, <2>1, <2>2, <2>6, <2>4
  <2>5. CASE i > k
    <3>1. sums[i] = sum[i] + q /\ sums[i - 1] = sum[i - 1] + q /\ more[i] = nums[i]
      BY <1>0, <2>1, <2>5
    <3> QED
      BY <2>2, <2>6, <3>1
  <2> QED
    BY <1>0, <2>3, <2>4, <2>5
<1>4. Sums(more, n, sums)
  BY <1>2, <1>3 DEF Sums
<1> QED
  BY <1>1, <1>2, <1>4, AddUpIs

\* The sum of what the members of a set come to, in the order of SetToSeq.
Over(S, f) == AddUp([i \in DOMAIN SetToSeq(S) |-> f[SetToSeq(S)[i]]])

LEMMA OrderIs ==
  ASSUME NEW S, IsFiniteSet(S)
  PROVE  /\ SetToSeq(S) \in Seq(S)
         /\ \A i, j \in DOMAIN SetToSeq(S) : SetToSeq(S)[i] = SetToSeq(S)[j] => i = j
         /\ \A x \in S : \E i \in DOMAIN SetToSeq(S) : SetToSeq(S)[i] = x
<1> DEFINE n == Cardinality(S)
           order == SetToSeq(S)
<1>1. n \in Nat /\ ExistsBijection(1 .. n, S)
  BY FS_CardinalityType
<1>2. \E f \in [1 .. n -> S] : IsInjective(f)
  BY <1>1 DEF ExistsBijection, Bijection, Injection, IsInjective
<1>3. order \in [1 .. n -> S] /\ IsInjective(order)
  BY <1>2 DEF SetToSeq
<1>4. order \in Injection(1 .. n, S)
  BY <1>3 DEF Injection
<1>5. IsFiniteSet(1 .. n) /\ Cardinality(1 .. n) = n
  BY <1>1, FS_Interval
<1>6. order \in Surjection(1 .. n, S)
  BY <1>4, <1>5, FS_Injection
<1>7. \A x \in S : \E i \in 1 .. n : order[i] = x
  BY <1>6 DEF Surjection
<1>8. order \in Seq(S)
  BY <1>1, <1>3
<1> QED
  BY <1>3, <1>7, <1>8 DEF IsInjective

LEMMA OverIsANumber ==
  ASSUME NEW S, IsFiniteSet(S), NEW f, \A x \in S : f[x] \in Int
  PROVE  /\ [i \in DOMAIN SetToSeq(S) |-> f[SetToSeq(S)[i]]] \in Seq(Int)
         /\ Over(S, f) \in Int
<1> DEFINE order == SetToSeq(S)
           nums == [i \in DOMAIN order |-> f[order[i]]]
<1>1. order \in Seq(S)
  BY OrderIs
<1> HIDE DEF order
<1>2. nums \in Seq(Int) /\ Len(nums) \in Nat
  BY <1>1
<1> HIDE DEF nums
<1>3. PICK sum : Sums(nums, Len(nums), sum)
  BY <1>2, SumsExist
<1>4. AddUp(nums) \in Int
  BY <1>2, <1>3, AddUpIs DEF Sums
<1> QED
  BY <1>2, <1>4 DEF Over, nums, order

LEMMA OverMoves ==
  ASSUME NEW S, IsFiniteSet(S), NEW before, \A x \in S : before[x] \in Int,
         NEW after, \A x \in S : after[x] \in Int,
         NEW b \in S, NEW q \in Int, after[b] = before[b] + q,
         \A x \in S : x # b => after[x] = before[x]
  PROVE  Over(S, after) = Over(S, before) + q
<1> DEFINE order == SetToSeq(S)
           old == [i \in DOMAIN order |-> before[order[i]]]
           new == [i \in DOMAIN order |-> after[order[i]]]
<1>1. /\ order \in Seq(S)
      /\ \A i, j \in DOMAIN order : order[i] = order[j] => i = j
      /\ \A x \in S : \E i \in DOMAIN order : order[i] = x
  BY OrderIs
<1>2. Over(S, before) = AddUp(old) /\ Over(S, after) = AddUp(new)
  BY DEF Over
<1> HIDE DEF order
<1>3. /\ old \in Seq(Int) /\ new \in Seq(Int)
      /\ DOMAIN order = 1 .. Len(old) /\ Len(new) = Len(old)
  <2>1. Len(order) \in Nat /\ DOMAIN order = 1 .. Len(order) /\ \A i \in 1 .. Len(order) : order[i] \in S
    BY <1>1
  <2>2. old \in [1 .. Len(order) -> Int] /\ new \in [1 .. Len(order) -> Int]
    BY <2>1
  <2> HIDE DEF old, new
  <2> QED
    BY <2>1, <2>2
<1>4. PICK k \in DOMAIN order : order[k] = b
  BY <1>1
<1>5. new[k] = old[k] + q /\ \A i \in DOMAIN order : i # k => new[i] = old[i]
  BY <1>1, <1>4
<1> HIDE DEF old, new
<1>6. k \in 1 .. Len(old) /\ \A i \in 1 .. Len(old) : i # k => new[i] = old[i]
  BY <1>3, <1>4, <1>5
<1>7. AddUp(new) = AddUp(old) + q
  BY <1>3, <1>5, <1>6, SumMoves
<1> QED
  BY <1>2, <1>7

LEMMA SumOfNone ==
  ASSUME NEW nums \in Seq(Int), \A i \in 1 .. Len(nums) : nums[i] = 0
  PROVE  AddUp(nums) = 0
<1> DEFINE sum == [i \in 0 .. Len(nums) |-> 0]
<1>1. Sums(nums, Len(nums), sum) /\ sum[Len(nums)] = 0
  BY DEF Sums
<1> QED
  BY <1>1, AddUpIs

LEMMA OverNone ==
  ASSUME NEW S, IsFiniteSet(S), NEW f, \A x \in S : f[x] = 0
  PROVE  Over(S, f) = 0
<1> DEFINE order == SetToSeq(S)
           nums == [i \in DOMAIN order |-> f[order[i]]]
<1>1. order \in Seq(S)
  BY OrderIs
<1>2. nums \in Seq(Int) /\ Over(S, f) = AddUp(nums)
  BY OverIsANumber DEF Over
<1> HIDE DEF order
<1>3. \A i \in 1 .. Len(nums) : nums[i] = 0
  BY <1>1
<1> HIDE DEF nums
<1> QED
  BY <1>2, <1>3, SumOfNone

LEMMA OverSame ==
  ASSUME NEW S, IsFiniteSet(S), NEW f, NEW g, \A x \in S : f[x] = g[x]
  PROVE  Over(S, f) = Over(S, g)
<1> DEFINE order == SetToSeq(S)
<1>1. order \in Seq(S)
  BY OrderIs
<1>2. /\ Over(S, f) = AddUp([i \in DOMAIN order |-> f[order[i]]])
      /\ Over(S, g) = AddUp([i \in DOMAIN order |-> g[order[i]]])
  BY DEF Over
<1> HIDE DEF order
<1>3. [i \in DOMAIN order |-> f[order[i]]] = [i \in DOMAIN order |-> g[order[i]]]
  BY <1>1
<1> QED
  BY <1>2, <1>3

LEMMA SumOfOneOrTwo ==
  /\ \A a \in Int : AddUp(<<a>>) = a
  /\ \A a, b \in Int : AddUp(<<a, b>>) = a + b
<1>1. ASSUME NEW a \in Int PROVE AddUp(<<a>>) = a
  <2> DEFINE sum == [i \in 0 .. 1 |-> IF i = 0 THEN 0 ELSE a]
  <2>1. Sums(<<a>>, 1, sum)
    BY DEF Sums
  <2>2. <<a>> \in Seq(Int) /\ Len(<<a>>) = 1
    OBVIOUS
  <2> QED
    BY <2>1, <2>2, AddUpIs
<1>2. ASSUME NEW a \in Int, NEW b \in Int PROVE AddUp(<<a, b>>) = a + b
  <2> DEFINE sum == [i \in 0 .. 2 |-> IF i = 0 THEN 0 ELSE IF i = 1 THEN a ELSE a + b]
  <2>1. Sums(<<a, b>>, 2, sum)
    <3>1. sum \in [0 .. 2 -> Int] /\ sum[0] = 0 /\ sum[1] = sum[0] + a /\ sum[2] = sum[1] + b
      OBVIOUS
    <3>2. \A i \in 1 .. 2 : i = 1 \/ i = 2
      OBVIOUS
    <3> QED
      BY <3>1, <3>2 DEF Sums
  <2>2. <<a, b>> \in Seq(Int) /\ Len(<<a, b>>) = 2
    OBVIOUS
  <2> QED
    BY <2>1, <2>2, AddUpIs
<1> QED
  BY <1>1, <1>2

-----------------------------------------------------------------------------
(* What one transaction does to the pool.                                    *)

Taints == {"none", "costless", "unconvertible", "negative"}
Pool == [shares : Int, basis : Int, taint : Taints, negative : BOOLEAN,
         blamed : SUBSET Nat, opened : Nat, splitAway : BOOLEAN]

\* PoolIsConsistent, of a pool after so many transactions, but for its accounts.
Consistent(p, day) ==
    /\ p.shares > 0 => p.opened \in 1 .. day
    /\ p.shares < 0 => p.negative = TRUE
    /\ p.negative = TRUE \/ p.blamed # {} => p.taint # "none"
    /\ p.splitAway = FALSE => (p.shares = 0 /\ p.taint = "none" => p.basis = 0)

LEMMA LegIs ==
  ASSUME NEW leg \in Legs
  PROVE  /\ leg.broker \in Brokers /\ leg.qty \in Int /\ leg.qty # 0
         /\ Convertible(leg) => Value(leg) \in Int
         /\ Convertible(leg) \/ leg.cost = Bare \/ leg.cost = Foreign
         /\ ~(leg.cost = Bare /\ leg.cost = Foreign)
<1>1. leg.broker \in Brokers /\ leg.qty \in Int /\ leg.qty # 0 /\ leg.cost \in Nat \cup {Bare, Foreign}
  BY HoldingsAssumption DEF Legs, Costs
<1>2. leg.qty \in Int /\ leg.cost \in Int => leg.qty * leg.cost \in Int
  OBVIOUS
<1> QED
  BY <1>1, <1>2, HoldingsAssumption DEF Convertible, Value

LEMMA TaintedIs ==
  ASSUME NEW p \in Pool, NEW reason \in Taints \ {"none"}
  PROVE  LET r == Tainted(p, reason)
         IN /\ r \in Pool /\ r.taint # "none"
            /\ r.shares = p.shares /\ r.basis = p.basis /\ r.negative = p.negative
            /\ r.blamed = p.blamed /\ r.opened = p.opened /\ r.splitAway = p.splitAway
  BY DEF Tainted, Pool

LEMMA WentNegativeKeeps ==
  ASSUME NEW p \in Pool, NEW day \in Nat, p.shares > 0 => p.opened \in 1 .. day,
         p.negative = TRUE \/ p.blamed # {} => p.taint # "none",
         p.splitAway = FALSE => (p.shares = 0 /\ p.taint = "none" => p.basis = 0)
  PROVE  /\ WentNegative(p) \in Pool /\ Consistent(WentNegative(p), day)
         /\ WentNegative(p).shares = p.shares
<1>1. CASE p.shares >= 0
  BY <1>1 DEF WentNegative, Consistent, Pool
<1>2. CASE ~(p.shares >= 0)
  <2> DEFINE q == [p EXCEPT !.negative = TRUE]
  <2>1. /\ q \in Pool /\ q.shares = p.shares /\ q.negative = TRUE
    BY DEF Pool
  <2>2. WentNegative(p) = Tainted(q, "negative")
    BY <1>2 DEF WentNegative
  <2> HIDE DEF q
  <2>3. /\ Tainted(q, "negative") \in Pool /\ Tainted(q, "negative").taint # "none"
        /\ Tainted(q, "negative").shares = p.shares /\ Tainted(q, "negative").negative = TRUE
    BY <2>1, TaintedIs DEF Taints
  <2>4. p.shares \in Int
    BY DEF Pool
  <2> QED
    BY <1>2, <2>2, <2>3, <2>4 DEF Consistent
<1> QED
  BY <1>1, <1>2

LEMMA BoughtIs ==
  ASSUME NEW p \in Pool, NEW day \in Nat, Consistent(p, day), NEW leg \in Legs
  PROVE  LET b == Bought(p, leg, day)
         IN /\ b \in Pool /\ b.shares = p.shares /\ b.negative = p.negative
            /\ b.opened = IF p.shares <= 0 THEN day ELSE p.opened
            /\ b.negative = TRUE \/ b.blamed # {} => b.taint # "none"
<1> DEFINE dated == IF p.shares <= 0 THEN [p EXCEPT !.opened = day] ELSE p
           opened == Reopen(dated)
           blamed == [opened EXCEPT !.blamed = @ \cup {day}]
<1>1. /\ dated \in Pool /\ dated.shares = p.shares /\ dated.negative = p.negative
      /\ dated.opened = IF p.shares <= 0 THEN day ELSE p.opened
      /\ dated.taint = p.taint /\ dated.blamed = p.blamed
  BY DEF Pool
<1> HIDE DEF dated
<1>2. /\ opened \in Pool /\ opened.shares = p.shares /\ opened.negative = p.negative
      /\ opened.opened = dated.opened
      /\ opened.negative = TRUE \/ opened.blamed # {} => opened.taint # "none"
  <2>1. CASE dated.shares = 0 /\ ~dated.negative
    BY <1>1, <2>1 DEF Reopen, Pool, Taints
  <2>2. CASE ~(dated.shares = 0 /\ ~dated.negative)
    BY <1>1, <2>2 DEF Reopen, Consistent
  <2> QED
    BY <2>1, <2>2
<1> HIDE DEF opened
<1>3. /\ blamed \in Pool /\ blamed.shares = p.shares /\ blamed.negative = p.negative
      /\ blamed.opened = dated.opened
  BY <1>2 DEF Pool
<1> HIDE DEF blamed
<1>4. Bought(p, leg, day) =
        CASE Convertible(leg) -> [opened EXCEPT !.basis = @ + Value(leg)]
          [] leg.cost = Bare -> Tainted(blamed, "costless")
          [] leg.cost = Foreign -> Tainted(blamed, "unconvertible")
  BY DEF Bought, dated, opened, blamed
<1>5. CASE Convertible(leg)
  <2> DEFINE b == [opened EXCEPT !.basis = @ + Value(leg)]
  <2>1. Bought(p, leg, day) = b
    BY <1>4, <1>5 DEF Convertible
  <2>2. /\ b \in Pool /\ b.shares = opened.shares /\ b.negative = opened.negative
        /\ b.opened = opened.opened /\ b.taint = opened.taint /\ b.blamed = opened.blamed
    BY <1>2, <1>5, LegIs DEF Pool
  <2> QED
    BY <1>1, <1>2, <2>1, <2>2
<1>6. CASE ~Convertible(leg)
  <2>1. PICK reason \in Taints \ {"none"} : Bought(p, leg, day) = Tainted(blamed, reason)
    BY <1>4, <1>6, LegIs DEF Convertible, Taints
  <2> QED
    BY <1>1, <1>3, <2>1, TaintedIs
<1> QED
  BY <1>5, <1>6

\* A basis is a whole number, and nothing is left of one when nothing is.
LEMMA ReduceBasisIs ==
  ASSUME NEW basis \in Int, NEW after \in Nat, NEW before \in Nat \ {0}
  PROVE  /\ ReduceBasis(basis, after, before) \in Int
         /\ after = 0 => ReduceBasis(basis, after, before) = 0
<1> DEFINE a == basis * after
<1>1. a \in Int /\ (after = 0 => a = 0)
  OBVIOUS
<1> HIDE DEF a
<1>2. a \div before \in Int /\ a % before \in Int
  BY <1>1
<1>3. HalfEven(a, before) \in Int
  BY <1>2 DEF HalfEven
<1>4. 0 \div before = 0 /\ 0 % before = 0
  OBVIOUS
<1>5. HalfEven(0, before) = 0
  BY <1>4 DEF HalfEven
<1> QED
  BY <1>1, <1>3, <1>5 DEF ReduceBasis, a

LEMMA AfterLegKeeps ==
  ASSUME NEW p \in Pool, NEW day \in Nat \ {0}, Consistent(p, day), NEW leg \in Legs
  PROVE  /\ AfterLeg(p, leg, day) \in Pool /\ Consistent(AfterLeg(p, leg, day), day)
         /\ AfterLeg(p, leg, day).shares = p.shares + leg.qty
<1> DEFINE moved == IF leg.qty > 0 THEN Bought(p, leg, day) ELSE Sold(p, leg)
           after == [moved EXCEPT !.shares = @ + leg.qty, !.splitAway = FALSE]
<1>1. leg.qty \in Int /\ leg.qty # 0 /\ p.shares \in Int /\ p.basis \in Int
  BY LegIs DEF Pool
<1>2. /\ moved \in Pool /\ moved.shares = p.shares
      /\ p.shares + leg.qty > 0 => moved.opened \in 1 .. day
      /\ moved.negative = TRUE \/ moved.blamed # {} => moved.taint # "none"
      /\ p.shares + leg.qty = 0 /\ moved.taint = "none" => moved.basis = 0
  <2>1. CASE leg.qty > 0
    <3>1. /\ moved \in Pool /\ moved.shares = p.shares /\ moved.negative = p.negative
          /\ moved.opened = IF p.shares <= 0 THEN day ELSE p.opened
          /\ moved.negative = TRUE \/ moved.blamed # {} => moved.taint # "none"
      BY <2>1, BoughtIs
    <3> HIDE DEF moved
    <3> QED
      BY <1>1, <2>1, <3>1 DEF Consistent
  <2>2. CASE ~(leg.qty > 0) /\ p.shares <= 0
    BY <1>1, <2>2 DEF Sold, Consistent
  <2>3. CASE ~(leg.qty > 0) /\ p.shares > 0
    <3> DEFINE remain == p.shares + leg.qty
               basis == IF remain >= 0 THEN ReduceBasis(p.basis, remain, p.shares) ELSE 0
    <3>1. remain \in Int /\ (remain >= 0 => remain \in Nat) /\ p.shares \in Nat \ {0}
      BY <1>1, <2>3
    <3>2. basis \in Int /\ (remain = 0 => basis = 0)
      BY <1>1, <3>1, ReduceBasisIs
    <3>3. moved = [p EXCEPT !.basis = basis]
      BY <1>1, <2>3 DEF Sold
    <3> HIDE DEF basis, moved
    <3>4. /\ moved \in Pool /\ moved.shares = p.shares /\ moved.opened = p.opened /\ moved.basis = basis
          /\ moved.negative = p.negative /\ moved.blamed = p.blamed /\ moved.taint = p.taint
      BY <3>2, <3>3 DEF Pool
    <3> QED
      BY <2>3, <3>1, <3>2, <3>4 DEF Consistent
  <2> HIDE DEF moved
  <2>4. p.shares <= 0 \/ p.shares > 0
    BY <1>1
  <2> QED
    BY <2>1, <2>2, <2>3, <2>4, Zenon
<1> HIDE DEF moved
<1>3. /\ after \in Pool /\ after.shares = p.shares + leg.qty /\ after.opened = moved.opened
      /\ after.negative = moved.negative /\ after.blamed = moved.blamed
      /\ after.taint = moved.taint /\ after.basis = moved.basis
  <2>1. moved \in Pool /\ moved.shares + leg.qty = p.shares + leg.qty /\ moved.shares + leg.qty \in Int
    BY <1>1, <1>2
  <2>2. FALSE \in BOOLEAN
    OBVIOUS
  <2> QED
    BY <2>1, <2>2 DEF Pool
<1> HIDE DEF after
<1>4. AfterLeg(p, leg, day) = WentNegative(after)
  BY DEF AfterLeg, after, moved
<1> QED
  BY <1>1, <1>2, <1>3, <1>4, WentNegativeKeeps

-----------------------------------------------------------------------------
(* What a transaction's legs do to the pool and to the tally of an account.  *)

\* The sum over the accounts.
TotalShares(tallies) == Over(Brokers, tallies)

LEMMA TotalMoves ==
  ASSUME NEW before \in [Brokers -> Int], NEW after \in [Brokers -> Int],
         NEW b \in Brokers, NEW q \in Int, after[b] = before[b] + q,
         \A c \in Brokers : c # b => after[c] = before[c]
  PROVE  TotalShares(after) = TotalShares(before) + q
<1>1. \A c \in Brokers : before[c] \in Int /\ after[c] \in Int
  OBVIOUS
<1> QED
  BY <1>1, OverMoves, HoldingsAssumption DEF TotalShares

LEMMA TotalIsANumber ==
  ASSUME NEW tallies \in [Brokers -> Int]
  PROVE  TotalShares(tallies) \in Int
<1>1. \A c \in Brokers : tallies[c] \in Int
  OBVIOUS
<1> QED
  BY <1>1, OverIsANumber, HoldingsAssumption DEF TotalShares

LEMMA TotalOfNone == TotalShares([b \in Brokers |-> 0]) = 0
<1> DEFINE none == [b \in Brokers |-> 0]
<1>1. \A c \in Brokers : none[c] = 0
  OBVIOUS
<1> HIDE DEF none
<1>2. Over(Brokers, none) = 0
  BY <1>1, OverNone, HoldingsAssumption
<1> QED
  BY <1>2 DEF TotalShares, none

\* A journal's transaction has one leg in the security, or two.
LEMMA NetIs ==
  ASSUME NEW leg \in Legs, NEW other \in Legs, NEW b \in Brokers
  PROVE  /\ Net(<<leg>>) = leg.qty /\ Net(<<leg, other>>) = leg.qty + other.qty
         /\ NetOf(b, <<leg>>) = IF leg.broker = b THEN leg.qty ELSE 0
         /\ NetOf(b, <<leg, other>>) = (IF leg.broker = b THEN leg.qty ELSE 0)
                                        + (IF other.broker = b THEN other.qty ELSE 0)
<1>1. leg.qty \in Int /\ other.qty \in Int
  BY LegIs
<1>2. [i \in DOMAIN <<leg>> |-> <<leg>>[i].qty] = <<leg.qty>>
  OBVIOUS
<1>3. [i \in DOMAIN <<leg, other>> |-> <<leg, other>>[i].qty] = <<leg.qty, other.qty>>
  OBVIOUS
<1> DEFINE a == IF leg.broker = b THEN leg.qty ELSE 0
           c == IF other.broker = b THEN other.qty ELSE 0
<1>4. [i \in DOMAIN <<leg>> |-> IF <<leg>>[i].broker = b THEN <<leg>>[i].qty ELSE 0] = <<a>>
  OBVIOUS
<1>5. [i \in DOMAIN <<leg, other>> |->
         IF <<leg, other>>[i].broker = b THEN <<leg, other>>[i].qty ELSE 0] = <<a, c>>
  OBVIOUS
<1>6. a \in Int /\ c \in Int
  BY <1>1
<1>7. Net(<<leg>>) = leg.qty /\ Net(<<leg, other>>) = leg.qty + other.qty
  BY <1>1, <1>2, <1>3, SumOfOneOrTwo DEF Net
<1>8. NetOf(b, <<leg>>) = a /\ NetOf(b, <<leg, other>>) = a + c
  BY <1>4, <1>5, <1>6, SumOfOneOrTwo DEF NetOf
<1> QED
  BY <1>7, <1>8

LEMMA AfterLegsIs ==
  ASSUME NEW p, NEW day, NEW leg, NEW other
  PROVE  /\ AfterLegs(p, <<leg>>, day) = AfterLeg(p, leg, day)
         /\ AfterLegs(p, <<leg, other>>, day) = AfterLeg(AfterLeg(p, leg, day), other, day)
<1> DEFINE q == AfterLeg(p, leg, day)
           r == AfterLeg(q, other, day)
<1>1. AfterLegs(p, <<leg>>, day) = q
  <2> DEFINE F(g) == g = [i \in 0 .. 1 |-> IF i = 0 THEN p ELSE AfterLeg(g[i - 1], <<leg>>[i], day)]
  <2>1. F([i \in 0 .. 1 |-> IF i = 0 THEN p ELSE q])
    OBVIOUS
  <2>2. F(CHOOSE g : F(g))
    BY <2>1
  <2>3. AfterLegs(p, <<leg>>, day) = (CHOOSE g : F(g))[1]
    BY DEF AfterLegs
  <2>4. PICK g : F(g) /\ AfterLegs(p, <<leg>>, day) = g[1]
    BY <2>2, <2>3
  <2> QED
    BY <2>4
<1>2. AfterLegs(p, <<leg, other>>, day) = r
  <2> DEFINE F(g) == g = [i \in 0 .. 2 |-> IF i = 0 THEN p ELSE AfterLeg(g[i - 1], <<leg, other>>[i], day)]
  <2>1. F([i \in 0 .. 2 |-> IF i = 0 THEN p ELSE IF i = 1 THEN q ELSE r])
    OBVIOUS
  <2>2. F(CHOOSE g : F(g))
    BY <2>1
  <2>3. AfterLegs(p, <<leg, other>>, day) = (CHOOSE g : F(g))[2]
    BY DEF AfterLegs
  <2>4. PICK g : F(g) /\ AfterLegs(p, <<leg, other>>, day) = g[2]
    BY <2>2, <2>3
  <2>5. g[0] = p /\ g[1] = AfterLeg(g[0], leg, day) /\ g[2] = AfterLeg(g[1], other, day)
    BY <2>4
  <2> QED
    BY <2>4, <2>5
<1> QED
  BY <1>1, <1>2

LEMMA AfterLegsKeeps ==
  ASSUME NEW p \in Pool, NEW day \in Nat \ {0}, Consistent(p, day), NEW legs \in Journals
  PROVE  /\ AfterLegs(p, legs, day) \in Pool /\ Consistent(AfterLegs(p, legs, day), day)
         /\ AfterLegs(p, legs, day).shares = p.shares + Net(legs)
<1>1. CASE \E leg \in Legs : legs = <<leg>>
  <2>1. PICK leg \in Legs : legs = <<leg>>
    BY <1>1
  <2>2. Net(legs) = leg.qty
    BY <2>1, NetIs, LegIs
  <2>3. AfterLegs(p, legs, day) = AfterLeg(p, leg, day)
    BY <2>1, AfterLegsIs
  <2> QED
    BY <2>2, <2>3, AfterLegKeeps
<1>2. CASE \E leg, other \in Legs : legs = <<leg, other>>
  <2>1. PICK leg \in Legs, other \in Legs : legs = <<leg, other>>
    BY <1>2
  <2>2. Net(legs) = leg.qty + other.qty
    BY <2>1, NetIs, LegIs
  <2> DEFINE q == AfterLeg(p, leg, day)
             r == AfterLeg(q, other, day)
  <2>3. q \in Pool /\ Consistent(q, day) /\ q.shares = p.shares + leg.qty
    BY AfterLegKeeps
  <2> HIDE DEF q
  <2>4. r \in Pool /\ Consistent(r, day) /\ r.shares = q.shares + other.qty
    BY <2>3, AfterLegKeeps
  <2>5. AfterLegs(p, legs, day) = r
    BY <2>1, AfterLegsIs DEF q
  <2>6. p.shares \in Int /\ leg.qty \in Int /\ other.qty \in Int
    BY LegIs DEF Pool
  <2> HIDE DEF r
  <2> QED
    BY <2>2, <2>3, <2>4, <2>5, <2>6
<1> QED
  BY <1>1, <1>2 DEF Journals

\* What a transaction is read as never changes how many shares it moves.
LEMMA ReplayedKeeps ==
  ASSUME pool \in Pool, NEW day \in Nat \ {0}, Consistent(pool, day),
         NEW legs \in Journals, NEW counter
  PROVE  /\ Replayed(legs, counter, day) \in Pool /\ Consistent(Replayed(legs, counter, day), day)
         /\ Replayed(legs, counter, day).shares = pool.shares + Net(legs)
<1>0. Net(legs) \in Int /\ pool.shares \in Int
  <2>1. \A leg, other \in Legs : Net(<<leg>>) \in Int /\ Net(<<leg, other>>) \in Int
    BY NetIs, LegIs
  <2>2. (\E leg \in Legs : legs = <<leg>>) \/ (\E leg, other \in Legs : legs = <<leg, other>>)
    BY DEF Journals
  <2> QED
    BY <2>1, <2>2 DEF Pool
<1>1. CASE Net(legs) = 0 /\ IsPureTransfer(legs)
  <2>1. ~IsRedenomination(legs, counter)
    BY <1>1 DEF IsRedenomination
  <2>2. Replayed(legs, counter, day) = pool
    BY <1>1, <2>1 DEF Replayed
  <2> QED
    BY <1>0, <1>1, <2>2
<1>2. CASE IsRedenomination(legs, counter)
  <2> DEFINE gone == pool.shares + Net(legs) = 0
             p == [pool EXCEPT !.shares = @ + Net(legs), !.splitAway = gone]
  <2>1. pool.shares > 0 /\ Net(legs) # 0
    BY <1>2 DEF IsRedenomination
  <2>2. Replayed(legs, counter, day) = WentNegative(p)
    BY <1>2, <2>1 DEF Replayed
  <2>3. gone \in BOOLEAN /\ pool.shares + Net(legs) \in Int
    BY <1>0
  <2>4. /\ p \in Pool /\ p.shares = pool.shares + Net(legs) /\ p.opened = pool.opened
        /\ p.negative = pool.negative /\ p.blamed = pool.blamed /\ p.taint = pool.taint
        /\ p.splitAway = gone
    BY <2>3 DEF Pool
  <2>5. /\ p.shares > 0 => p.opened \in 1 .. day
        /\ p.negative = TRUE \/ p.blamed # {} => p.taint # "none"
        /\ p.splitAway = FALSE => (p.shares = 0 /\ p.taint = "none" => p.basis = 0)
    BY <2>1, <2>4 DEF Consistent
  <2> HIDE DEF p
  <2> QED
    BY <2>2, <2>4, <2>5, WentNegativeKeeps
<1>3. CASE ~(Net(legs) = 0 /\ IsPureTransfer(legs)) /\ ~IsRedenomination(legs, counter)
  <2>1. Replayed(legs, counter, day) = AfterLegs(pool, legs, day)
    BY <1>3 DEF Replayed
  <2> QED
    BY <2>1, AfterLegsKeeps
<1> QED
  BY <1>1, <1>2, <1>3

LEMMA TradeMovesTheTotal ==
  ASSUME tally \in [Brokers -> Int], NEW legs \in Journals,
         tally' = [b \in Brokers |-> tally[b] + NetOf(b, legs)]
  PROVE  tally' \in [Brokers -> Int] /\ TotalShares(tally') = TotalShares(tally) + Net(legs)
<1>1. CASE \E leg \in Legs : legs = <<leg>>
  <2>1. PICK leg \in Legs : legs = <<leg>>
    BY <1>1
  <2>2. leg.broker \in Brokers /\ leg.qty \in Int /\ Net(legs) = leg.qty
    BY <2>1, NetIs, LegIs
  <2>3. \A b \in Brokers : NetOf(b, legs) = IF leg.broker = b THEN leg.qty ELSE 0
    BY <2>1, NetIs
  <2>4. /\ tally' \in [Brokers -> Int] /\ tally'[leg.broker] = tally[leg.broker] + leg.qty
        /\ \A c \in Brokers : c # leg.broker => tally'[c] = tally[c]
    BY <2>2, <2>3
  <2> QED
    BY <2>2, <2>4, TotalMoves
<1>2. CASE \E leg, other \in Legs : legs = <<leg, other>>
  <2>1. PICK leg \in Legs, other \in Legs : legs = <<leg, other>>
    BY <1>2
  <2>2. /\ leg.broker \in Brokers /\ leg.qty \in Int /\ other.broker \in Brokers /\ other.qty \in Int
        /\ Net(legs) = leg.qty + other.qty
    BY <2>1, NetIs, LegIs
  <2>3. \A b \in Brokers : NetOf(b, legs) = (IF leg.broker = b THEN leg.qty ELSE 0)
                                             + (IF other.broker = b THEN other.qty ELSE 0)
    BY <2>1, NetIs
  <2> DEFINE mid == [b \in Brokers |-> tally[b] + IF leg.broker = b THEN leg.qty ELSE 0]
  <2>4. /\ mid \in [Brokers -> Int] /\ mid[leg.broker] = tally[leg.broker] + leg.qty
        /\ \A c \in Brokers : c # leg.broker => mid[c] = tally[c]
    BY <2>2
  <2>5. /\ tally' \in [Brokers -> Int] /\ tally'[other.broker] = mid[other.broker] + other.qty
        /\ \A c \in Brokers : c # other.broker => tally'[c] = mid[c]
    BY <2>2, <2>3
  <2> HIDE DEF mid
  <2>6. TotalShares(mid) = TotalShares(tally) + leg.qty
    BY <2>2, <2>4, TotalMoves
  <2>7. TotalShares(tally') = TotalShares(mid) + other.qty
    BY <2>2, <2>4, <2>5, TotalMoves
  <2>8. TotalShares(tally) \in Int
    BY TotalIsANumber
  <2> QED
    BY <2>2, <2>5, <2>6, <2>7, <2>8
<1> QED
  BY <1>1, <1>2 DEF Journals

PoolInv ==
    /\ pool \in Pool /\ tally \in [Brokers -> Int] /\ txns \in Nat
    /\ Consistent(pool, txns) /\ pool.shares = TotalShares(tally)

LEMMA StepKeepsPool ==
  ASSUME PoolInv, HoldingsNext
  PROVE  PoolInv'
<1>1. ASSUME NEW legs \in Journals, NEW counter \in Counters, Trade(legs, counter) PROVE PoolInv'
  <2>1. /\ txns' = txns + 1 /\ pool' = Replayed(legs, counter, txns + 1)
        /\ tally' = [b \in Brokers |-> tally[b] + NetOf(b, legs)]
    BY <1>1 DEF Trade
  <2>2. /\ pool \in Pool /\ tally \in [Brokers -> Int] /\ txns + 1 \in Nat \ {0}
        /\ pool.shares = TotalShares(tally) /\ Consistent(pool, txns + 1)
    BY DEF PoolInv, Consistent
  <2>3. pool' \in Pool /\ Consistent(pool', txns') /\ pool'.shares = pool.shares + Net(legs)
    BY <2>1, <2>2, ReplayedKeeps
  <2>4. tally' \in [Brokers -> Int] /\ TotalShares(tally') = TotalShares(tally) + Net(legs)
    BY <2>1, <2>2, TradeMovesTheTotal
  <2>5. Consistent(pool, txns)' /\ TotalShares(tally)' = TotalShares(tally')
    BY <2>3 DEF Consistent, TotalShares
  <2> QED
    BY <2>1, <2>2, <2>3, <2>4, <2>5 DEF PoolInv
<1>2. ASSUME NEW amount \in UnitCosts, ReturnCapital(amount) PROVE PoolInv'
  <2> DEFINE basis == IF pool.basis < amount THEN 0 ELSE pool.basis - amount
  <2>1. /\ txns' = txns + 1 /\ pool' = [pool EXCEPT !.basis = basis]
        /\ tally' = tally
    BY <1>2 DEF ReturnCapital, PoolInv, Pool
  <2>2. amount \in Nat /\ pool.basis \in Int /\ pool \in Pool /\ txns \in Nat
    BY HoldingsAssumption DEF PoolInv, Pool
  <2>3. basis \in Int /\ (pool.basis = 0 => basis = 0)
    BY <2>2
  <2> HIDE DEF basis
  <2>4. /\ pool' \in Pool /\ pool'.shares = pool.shares /\ pool'.basis = basis
        /\ pool'.opened = pool.opened /\ pool'.negative = pool.negative /\ pool'.taint = pool.taint
        /\ pool'.blamed = pool.blamed /\ pool'.splitAway = pool.splitAway
    BY <2>1, <2>2, <2>3 DEF Pool
  <2>5. Consistent(pool, txns)'
    BY <2>1, <2>2, <2>3, <2>4 DEF PoolInv, Consistent
  <2> QED
    BY <2>1, <2>2, <2>4, <2>5 DEF PoolInv, TotalShares
<1> QED
  BY <1>1, <1>2 DEF HoldingsNext

\* The pool keeps to its type, agrees with the accounts and with its own history.
THEOREM PoolInvariant == HoldingsSpec => []PoolInv
<1>1. HoldingsInit => PoolInv
  <2> SUFFICES ASSUME HoldingsInit PROVE PoolInv
    OBVIOUS
  <2>1. pool \in Pool /\ Consistent(pool, 0) /\ pool.shares = 0
    BY DEF HoldingsInit, Unopened, Pool, Taints, Consistent
  <2>2. tally = [b \in Brokers |-> 0] /\ TotalShares(tally) = 0 /\ txns = 0
    BY TotalOfNone DEF HoldingsInit
  <2> QED
    BY <2>1, <2>2 DEF PoolInv
<1>2. PoolInv /\ [HoldingsNext]_holdingsVars => PoolInv'
  <2>1. PoolInv /\ UNCHANGED holdingsVars => PoolInv'
    BY DEF PoolInv, holdingsVars, Consistent, TotalShares
  <2> QED
    BY <2>1, StepKeepsPool
<1> QED
  BY <1>1, <1>2, PTL DEF HoldingsSpec

\* However a transaction is read (a move between accounts, a split, a run of buys and
\* sells, a return of capital), the pool has the shares of its accounts, and claims to
\* know the basis only of what it saw bought (engine.rs replay_pools).
THEOREM PoolAgreesWithAccounts == HoldingsSpec => []PoolIsConsistent
<1>1. PoolInv => PoolIsConsistent
  BY DEF PoolInv, Pool, Consistent, TotalShares, Over, PoolIsConsistent, ClosedHasNoBasis
<1> QED
  BY <1>1, PoolInvariant, PTL

-----------------------------------------------------------------------------
(* What the parser says of a journal, for any amounts, accounts and lines.   *)

BooksSpec == BooksInit /\ [][BooksNext]_booksVars

Posting == [group : Groups, amount : Amounts \cup {Elided}]
Line == [account : Accounts, com : Commodities, qty : Steps, day : Days,
         assertion : Assertions \cup {NoAssertion}]
BooksTypeOK == txn \in Seq(Posting) /\ books \in Seq(Line)

LEMMA BooksTyped == BooksSpec => []BooksTypeOK
<1>1. BooksInit => BooksTypeOK
  BY DEF BooksInit, BooksTypeOK
<1>2. BooksTypeOK /\ [BooksNext]_booksVars => BooksTypeOK'
  <2> SUFFICES ASSUME BooksTypeOK, [BooksNext]_booksVars PROVE BooksTypeOK'
    OBVIOUS
  <2>1. ASSUME NEW group \in Groups, NEW amount \in Amounts \cup {Elided}, WriteAmount(group, amount)
        PROVE  BooksTypeOK'
    <3>1. [group |-> group, amount |-> amount] \in Posting
      BY DEF Posting
    <3> QED
      BY <2>1, <3>1 DEF BooksTypeOK, WriteAmount
  <2>2. ASSUME NEW account \in Accounts, NEW com \in Kept, NEW qty \in Steps, NEW day \in Days,
               NEW assertion \in Assertions \cup {NoAssertion},
               WriteLine(account, com, qty, day, assertion)
        PROVE  BooksTypeOK'
    <3>1. [account |-> account, com |-> com, qty |-> qty, day |-> day, assertion |-> assertion] \in Line
      BY BooksAssumption DEF Line
    <3> QED
      BY <2>2, <3>1 DEF BooksTypeOK, WriteLine
  <2>3. CASE UNCHANGED booksVars
    BY <2>3 DEF BooksTypeOK, booksVars
  <2> QED
    BY <2>1, <2>2, <2>3 DEF BooksNext
<1> QED
  BY <1>1, <1>2, PTL DEF BooksSpec

\* Induction up to a number.
LEMMA UpTo ==
  ASSUME NEW n \in Nat, NEW T, 0 \in T, \A i \in 1 .. n : i - 1 \in T => i \in T
  PROVE  \A i \in 0 .. n : i \in T
<1> DEFINE U == {i \in Nat : i <= n /\ i \notin T}
<1>1. ASSUME U # {} PROVE FALSE
  <2>1. PICK i \in U : \A m \in U : ~(m < i)
    BY <1>1, LeastOf
  <2>2. i \in 1 .. n /\ i - 1 \in Nat /\ i - 1 < i /\ i - 1 <= n /\ i - 1 \notin U
    BY <2>1
  <2> QED
    BY <2>2
<1> QED
  BY <1>1

\* A function that is given by its first value and by each from the one before.
Unfolded(f, S, n, z, next) ==
    /\ f \in [0 .. n -> S]
    /\ f[0] = z /\ \A i \in 1 .. n : f[i] = next[i][f[i - 1]]

LEMMA Unfolds ==
  ASSUME NEW S, NEW n \in Nat, NEW z \in S, NEW next \in [1 .. n -> [S -> S]]
  PROVE  \E f : Unfolded(f, S, n, z, next)
<1> DEFINE T == {k \in 0 .. n : \E f : Unfolded(f, S, k, z, next)}
<1>1. 0 \in T
  <2>1. Unfolded([i \in 0 .. 0 |-> z], S, 0, z, next)
    BY DEF Unfolded
  <2>2. 0 \in 0 .. n
    OBVIOUS
  <2> QED
    BY <2>1, <2>2
<1>2. ASSUME NEW k \in 1 .. n, k - 1 \in T PROVE k \in T
  <2>1. PICK f : Unfolded(f, S, k - 1, z, next)
    BY <1>2
  <2> DEFINE g == [i \in 0 .. k |-> IF i = k THEN next[k][f[k - 1]] ELSE f[i]]
  <2>2. f[k - 1] \in S /\ next[k][f[k - 1]] \in S
    <3>1. k - 1 \in 0 .. k - 1 /\ next[k] \in [S -> S]
      OBVIOUS
    <3>2. f[k - 1] \in S
      BY <2>1, <3>1 DEF Unfolded
    <3> QED
      BY <3>1, <3>2
  <2>3. g \in [0 .. k -> S] /\ g[0] = z
    BY <2>1, <2>2 DEF Unfolded
  <2>4. ASSUME NEW i \in 1 .. k PROVE g[i] = next[i][g[i - 1]]
    <3>1. i \in 0 .. k /\ i - 1 \in 0 .. k /\ i - 1 # k /\ (i # k => i \in 1 .. k - 1)
      OBVIOUS
    <3> QED
      BY <2>1, <3>1 DEF Unfolded
  <2>5. Unfolded(g, S, k, z, next)
    BY <2>3, <2>4 DEF Unfolded
  <2>6. k \in 0 .. n
    OBVIOUS
  <2> HIDE DEF g
  <2> QED
    BY <2>5, <2>6
<1>3. n \in T
  <2> HIDE DEF T
  <2>1. \A i \in 0 .. n : i \in T
    BY <1>1, <1>2, UpTo
  <2> QED
    BY <2>1
<1> QED
  BY <1>3

\* A set of numbers that a finite number of places have has a greatest.
LEMMA GreatestOf ==
  ASSUME NEW n \in Nat, NEW I \in SUBSET (1 .. n), I # {}, NEW f, \A i \in I : f[i] \in Nat
  PROVE  \E i \in I : \A j \in I : f[j] <= f[i]
<1> DEFINE T == {k \in 0 .. n : \/ \A j \in I : j > k
                                \/ \E i \in I : \A j \in I : j <= k => f[j] <= f[i]}
<1>1. 0 \in T
  OBVIOUS
<1>2. ASSUME NEW k \in 1 .. n, k - 1 \in T PROVE k \in T
  <2>1. CASE k \notin I
    <3>1. \A j \in I : (j <= k <=> j <= k - 1) /\ (j > k <=> j > k - 1)
      BY <2>1
    <3> QED
      BY <1>2, <3>1
  <2>2. CASE k \in I /\ \A j \in I : j > k - 1
    <3>1. \A j \in I : j <= k => j = k
      BY <2>2
    <3> QED
      BY <2>2, <3>1
  <2>3. ASSUME k \in I, NEW i \in I, \A j \in I : j <= k - 1 => f[j] <= f[i]
        PROVE  k \in T
    <3>1. \A j \in I : j <= k => j <= k - 1 \/ j = k
      OBVIOUS
    <3>2. CASE f[k] <= f[i]
      <4>1. \A j \in I : j <= k => f[j] <= f[i]
        BY <2>3, <3>1, <3>2
      <4> QED
        BY <4>1
    <3>3. CASE ~(f[k] <= f[i])
      <4>1. f[k] \in Nat /\ \A j \in I : f[j] \in Nat
        BY <2>3
      <4>2. \A j \in I : j <= k => f[j] <= f[k]
        BY <2>3, <3>1, <3>3, <4>1
      <4> QED
        BY <2>3, <4>2
    <3> QED
      BY <3>2, <3>3
  <2> QED
    BY <1>2, <2>1, <2>2, <2>3
<1>3. n \in T
  <2> HIDE DEF T
  <2>1. \A i \in 0 .. n : i \in T
    BY <1>1, <1>2, UpTo
  <2> QED
    BY <2>1
<1>4. \A i \in I : ~(i > n)
  OBVIOUS
<1>5. PICK i \in I : \A j \in I : j <= n => f[j] <= f[i]
  BY <1>3, <1>4
<1> QED
  BY <1>5

LEMMA TenIs ==
  /\ Ten(0) = 1
  /\ \A n \in Nat : Ten(n) \in Nat \ {0}
<1> SUFFICES ASSUME NEW n \in Nat PROVE Ten(n) \in Nat \ {0} /\ (n = 0 => Ten(n) = 1)
  OBVIOUS
<1> DEFINE S == Nat \ {0}
           next == [i \in 1 .. n |-> [x \in S |-> 10 * x]]
           F(g) == g = [i \in 0 .. n |-> IF i = 0 THEN 1 ELSE 10 * g[i - 1]]
<1>1. PICK f : Unfolded(f, S, n, 1, next)
  <2>1. next \in [1 .. n -> [S -> S]] /\ 1 \in S
    OBVIOUS
  <2> HIDE DEF next, S
  <2> QED
    BY <2>1, Unfolds
<1>2. \A i \in 1 .. n : f[i] = 10 * f[i - 1]
  <2> SUFFICES ASSUME NEW i \in 1 .. n PROVE f[i] = 10 * f[i - 1]
    OBVIOUS
  <2>1. i - 1 \in 0 .. n /\ f[i - 1] \in S /\ f[i] = next[i][f[i - 1]]
    BY <1>1 DEF Unfolded
  <2> QED
    BY <2>1
<1>3. F(f)
  <2>1. \A i \in 0 .. n : i # 0 => i \in 1 .. n
    OBVIOUS
  <2> QED
    BY <1>1, <1>2, <2>1 DEF Unfolded
<1>4. PICK g : F(g) /\ Ten(n) = g[n]
  BY <1>3 DEF Ten
<1>5. g[0] = 1 /\ \A i \in 1 .. n : g[i] = 10 * g[i - 1]
  BY <1>4
<1> DEFINE T == {i \in 0 .. n : g[i] \in S}
<1>6. 0 \in T
  BY <1>5
<1>7. ASSUME NEW i \in 1 .. n, i - 1 \in T PROVE i \in T
  <2>1. g[i - 1] \in Nat \ {0} /\ g[i] = 10 * g[i - 1] /\ i \in 0 .. n
    BY <1>5, <1>7
  <2>2. g[i] \in Nat \ {0}
    BY <2>1
  <2> QED
    BY <2>1, <2>2
<1>8. n \in T
  <2> HIDE DEF T
  <2>1. \A i \in 0 .. n : i \in T
    BY <1>6, <1>7, UpTo
  <2> QED
    BY <2>1
<1> QED
  BY <1>4, <1>5, <1>8

LEMMA ScaledIs ==
  ASSUME NEW d \in Dec, NEW p \in Nat, d.p <= p
  PROVE  Rescaled(d, p) \in Int /\ (d.p = p => Rescaled(d, p) = d.m)
<1>1. p - d.p \in Nat /\ d.m \in Int
  BY DEF Dec
<1>2. Ten(p - d.p) \in Nat /\ (d.p = p => Ten(p - d.p) = 1)
  BY <1>1, TenIs
<1> QED
  BY <1>1, <1>2 DEF Rescaled

LEMMA PlusIs ==
  ASSUME NEW d \in Dec, NEW e \in Dec
  PROVE  /\ Plus(d, e) \in Dec
         /\ Plus(d, e).p = Wider(d.p, e.p)
         /\ Plus(d, Negated(d)).m = 0
<1>1. /\ Wider(d.p, e.p) \in Nat /\ d.p <= Wider(d.p, e.p) /\ e.p <= Wider(d.p, e.p)
      /\ Wider(d.p, d.p) = d.p /\ d.p \in Nat /\ d.m \in Int
  BY DEF Wider, Dec
<1>2. Plus(d, e) \in Dec /\ Plus(d, e).p = Wider(d.p, e.p)
  BY <1>1, ScaledIs DEF Plus, Dec
<1>3. Negated(d) \in Dec /\ Negated(d).p = d.p /\ Negated(d).m = -d.m
  BY <1>1 DEF Negated, Dec
<1>4. Rescaled(d, d.p) = d.m /\ Rescaled(Negated(d), d.p) = -d.m
  BY <1>1, <1>3, ScaledIs
<1>5. Plus(d, Negated(d)).m = Rescaled(d, d.p) + Rescaled(Negated(d), d.p)
  BY <1>1, <1>3 DEF Plus
<1> QED
  BY <1>1, <1>2, <1>4, <1>5

LEMMA SignsAre == \A d \in Dec : Magnitude(d) \in Dec /\ Negated(d) \in Dec
BY DEF Magnitude, Negated, Dec

LEMMA NormalizedIs ==
  ASSUME NEW d \in Dec
  PROVE  Normalized(d) \in Dec
<1> DEFINE Strips(q) == d.m % Ten(d.p - q) = 0
           T == {q \in 0 .. d.p : Strips(q)}
           few == CHOOSE q \in 0 .. d.p : Strips(q) /\ \A r \in 0 .. d.p : Strips(r) => q <= r
<1>1. d.p \in Nat /\ d.m \in Int
  BY DEF Dec
<1>2. d.p \in T
  <2>1. Ten(d.p - d.p) = 1 /\ d.m % 1 = 0
    BY <1>1, TenIs
  <2> QED
    BY <1>1, <2>1
<1>3. PICK q \in T : \A r \in T : ~(r < q)
  <2>1. T \in SUBSET Nat /\ T # {}
    BY <1>1, <1>2
  <2> HIDE DEF T
  <2> QED
    BY <2>1, LeastOf
<1>4. few \in 0 .. d.p
  <2>1. q \in 0 .. d.p /\ Strips(q) /\ \A r \in 0 .. d.p : Strips(r) => q <= r
    BY <1>1, <1>3
  <2> HIDE DEF Strips
  <2> QED
    BY <2>1
<1>5. Normalized(d) = [m |-> d.m \div Ten(d.p - few), p |-> few]
  BY DEF Normalized
<1> HIDE DEF few
<1>6. few \in Nat /\ Ten(d.p - few) \in Nat \ {0}
  BY <1>1, <1>4, TenIs
<1>7. d.m \div Ten(d.p - few) \in Int
  BY <1>1, <1>6
<1> QED
  BY <1>5, <1>6, <1>7 DEF Dec

LEMMA AtCostIs ==
  ASSUME NEW a \in Amount
  PROVE  /\ AtCost(a).dec \in Dec
         /\ a.price.kind = "none" => AtCost(a) = [com |-> a.com, dec |-> a.dec]
<1>1. /\ a.dec \in Dec /\ a.price.dec \in Dec /\ a.price.kind \in {"none", "@", "@@"}
      /\ a.dec.m \in Int /\ a.dec.p \in Nat /\ a.price.dec.m \in Int /\ a.price.dec.p \in Nat
  BY DEF Amount, Price, Dec
<1>2. CASE a.price.kind = "none"
  BY <1>1, <1>2 DEF AtCost
<1>3. CASE a.price.kind = "@"
  <2> DEFINE raw == [m |-> a.dec.m * a.price.dec.m, p |-> a.dec.p + a.price.dec.p]
  <2>1. raw \in Dec
    BY <1>1 DEF Dec
  <2>2. Normalized(raw) \in Dec
    BY <2>1, NormalizedIs
  <2> QED
    BY <1>3, <2>2 DEF AtCost
<1>4. CASE a.price.kind = "@@"
  <2> DEFINE price == Normalized(a.price.dec)
  <2>1. price \in Dec
    BY <1>1, NormalizedIs
  <2>2. Magnitude(price) \in Dec /\ Negated(Magnitude(price)) \in Dec
    BY <2>1, SignsAre
  <2> QED
    BY <1>4, <2>2 DEF AtCost
<1> QED
  BY <1>1, <1>2, <1>3, <1>4

-----------------------------------------------------------------------------
(* What is left over of a transaction.                                       *)

\* The sums of the postings up to each, in a commodity.
Accrues(sum, values, c) ==
    /\ sum[0] = Zero
    /\ \A i \in 1 .. Len(txn) :
         sum[i] = IF i \in DOMAIN values /\ values[i].com = c THEN Plus(sum[i - 1], values[i].dec)
                  ELSE sum[i - 1]

LEMMA TotalIs ==
  ASSUME txn \in Seq(Posting), NEW values, \A i \in DOMAIN values : values[i].dec \in Dec, NEW c
  PROVE  \E sum : /\ Accrues(sum, values, c) /\ Total(values, c) = sum[Len(txn)]
                  /\ \A i \in 0 .. Len(txn) : sum[i] \in Dec
<1> DEFINE n == Len(txn)
           Counts(i) == i \in DOMAIN values /\ values[i].com = c
           After(x, i) == IF Counts(i) THEN Plus(x, values[i].dec) ELSE x
           next == [i \in 1 .. n |-> [x \in Dec |-> After(x, i)]]
           F(g) == g = [i \in 0 .. n |-> IF i = 0 THEN Zero ELSE After(g[i - 1], i)]
<1>1. n \in Nat /\ Zero \in Dec
  BY DEF Zero, Dec
<1>2. \A i \in 1 .. n : \A x \in Dec : After(x, i) \in Dec
  BY PlusIs
<1>3. PICK f : Unfolded(f, Dec, n, Zero, next)
  <2>1. next \in [1 .. n -> [Dec -> Dec]]
    <3> HIDE DEF After
    <3> QED
      BY <1>2
  <2> HIDE DEF next, n
  <2> QED
    BY <1>1, <2>1, Unfolds
<1> HIDE DEF After
<1>4. \A i \in 1 .. n : f[i] = After(f[i - 1], i)
  <2> SUFFICES ASSUME NEW i \in 1 .. n PROVE f[i] = After(f[i - 1], i)
    OBVIOUS
  <2>1. i - 1 \in 0 .. n
    BY <1>1
  <2>2. f[i - 1] \in Dec /\ f[i] = next[i][f[i - 1]]
    BY <1>3, <2>1 DEF Unfolded
  <2> QED
    BY <2>2
<1>5. F(f)
  <2>1. \A i \in 0 .. n : i # 0 => i \in 1 .. n
    BY <1>1
  <2> QED
    BY <1>3, <1>4, <2>1 DEF Unfolded
<1>6. PICK g : F(g) /\ Total(values, c) = g[n]
  <2>1. F(CHOOSE g : F(g))
    <3> HIDE DEF F
    <3> QED
      BY <1>5
  <2>2. Total(values, c) = (CHOOSE g : F(g))[n]
    BY DEF Total, After
  <2> QED
    BY <2>1, <2>2
<1>7. g[0] = Zero /\ \A i \in 1 .. n : g[i] = After(g[i - 1], i)
  BY <1>1, <1>6
<1> DEFINE T == {i \in 0 .. n : g[i] \in Dec}
<1>8. \A i \in 0 .. n : i \in T
  <2>1. 0 \in T
    BY <1>1, <1>7
  <2>2. ASSUME NEW i \in 1 .. n, i - 1 \in T PROVE i \in T
    <3>1. g[i - 1] \in Dec /\ i \in 0 .. n /\ g[i] = After(g[i - 1], i)
      BY <1>1, <1>7, <2>2
    <3> QED
      BY <1>2, <3>1
  <2> HIDE DEF T, n
  <2> QED
    BY <1>1, <2>1, <2>2, UpTo
<1>9. Accrues(g, values, c)
  BY <1>7 DEF Accrues, After
<1> QED
  BY <1>6, <1>8, <1>9

\* What nothing comes to is left as it was.
LEMMA TotalOfNothing ==
  ASSUME txn \in Seq(Posting), NEW values, \A i \in DOMAIN values : values[i].dec \in Dec, NEW c,
         \A i \in DOMAIN values : values[i].com # c
  PROVE  Total(values, c) = Zero
<1> DEFINE n == Len(txn)
<1>1. PICK sum : Accrues(sum, values, c) /\ Total(values, c) = sum[n]
  BY TotalIs
<1> DEFINE T == {i \in 0 .. n : sum[i] = Zero}
<1>2. n \in Nat
  OBVIOUS
<1>3. \A i \in 0 .. n : i \in T
  <2>1. 0 \in T
    BY <1>1, <1>2 DEF Accrues
  <2>2. ASSUME NEW i \in 1 .. n, i - 1 \in T PROVE i \in T
    <3>1. i \in 0 .. n /\ sum[i] = sum[i - 1] /\ sum[i - 1] = Zero
      BY <1>1, <1>2, <2>2 DEF Accrues
    <3> QED
      BY <3>1
  <2> HIDE DEF T, n
  <2> QED
    BY <1>2, <2>1, <2>2, UpTo
<1> QED
  BY <1>1, <1>2, <1>3

\* A sum has no more places than the widest of what it is of.
LEMMA TotalIsNoWider ==
  ASSUME txn \in Seq(Posting), NEW values, \A i \in DOMAIN values : values[i].dec \in Dec, NEW c,
         NEW places \in Nat, \A i \in DOMAIN values : values[i].com = c => values[i].dec.p <= places
  PROVE  Total(values, c) \in Dec /\ Total(values, c).p <= places
<1> DEFINE n == Len(txn)
<1>1. PICK sum : /\ Accrues(sum, values, c) /\ Total(values, c) = sum[n]
                 /\ \A i \in 0 .. n : sum[i] \in Dec
  BY TotalIs
<1> DEFINE T == {i \in 0 .. n : sum[i].p <= places}
<1>2. n \in Nat
  OBVIOUS
<1>3. \A i \in 0 .. n : i \in T
  <2>1. 0 \in T
    BY <1>1, <1>2 DEF Accrues, Zero
  <2>2. ASSUME NEW i \in 1 .. n, i - 1 \in T PROVE i \in T
    <3>1. i \in 0 .. n /\ i - 1 \in 0 .. n /\ sum[i - 1] \in Dec /\ sum[i - 1].p <= places
      BY <1>1, <1>2, <2>2
    <3>2. CASE ~(i \in DOMAIN values /\ values[i].com = c)
      BY <1>1, <3>1, <3>2 DEF Accrues
    <3>3. CASE i \in DOMAIN values /\ values[i].com = c
      <4>1. sum[i].p = Wider(sum[i - 1].p, values[i].dec.p)
        BY <1>1, <3>1, <3>3, PlusIs DEF Accrues
      <4> QED
        BY <3>1, <3>3, <4>1 DEF Wider
    <3> QED
      BY <3>2, <3>3
  <2> HIDE DEF T, n
  <2> QED
    BY <1>2, <2>1, <2>2, UpTo
<1>4. n \in 0 .. n
  BY <1>2
<1> QED
  BY <1>1, <1>3, <1>4

LEMMA ValuedIs ==
  ASSUME txn \in Seq(Posting), NEW g
  PROVE  /\ Valued(g) \in SUBSET (1 .. Len(txn))
         /\ \A i \in Valued(g) : txn[i].amount \in Amount
         /\ WrittenValues(g) = [i \in Valued(g) |-> AtCost(txn[i].amount)]
         /\ \A i \in DOMAIN WrittenValues(g) : WrittenValues(g)[i].dec \in Dec
<1>1. ASSUME NEW i \in Valued(g) PROVE txn[i].amount \in Amount
  <2>1. i \in DOMAIN txn /\ txn[i] \in Posting /\ txn[i].amount # Elided
    BY DEF Valued
  <2> QED
    BY <2>1, BooksAssumption DEF Posting
<1>2. WrittenValues(g) = [i \in Valued(g) |-> AtCost(txn[i].amount)]
  BY DEF WrittenValues, Contribution
<1>3. \A i \in Valued(g) : AtCost(txn[i].amount).dec \in Dec
  BY <1>1, AtCostIs
<1>4. Valued(g) \in SUBSET (1 .. Len(txn))
  BY DEF Valued
<1> QED
  BY <1>1, <1>2, <1>3, <1>4

LEMMA ToleranceIs ==
  ASSUME txn \in Seq(Posting), NEW g, NEW c
  PROVE  /\ Tolerance(g, c) \in Nat
         /\ \A i \in Valued(g) : txn[i].amount.price.kind = "none" /\ txn[i].amount.com = c
                => txn[i].amount.written <= Tolerance(g, c)
<1> DEFINE in == {i \in Valued(g) : AtCost(txn[i].amount).com = c}
           bare == {i \in in : txn[i].amount.price.kind = "none"}
           Shown(i) == txn[i].amount.written
           OfCost(i) == txn[i].amount.price.dec.p
           places == IF bare # {} THEN {Shown(i) : i \in bare} ELSE {OfCost(i) : i \in in}
<1>1. Len(txn) \in Nat /\ in \in SUBSET (1 .. Len(txn)) /\ bare \in SUBSET (1 .. Len(txn))
  BY ValuedIs
<1>2. \A i \in in : Shown(i) \in Nat /\ OfCost(i) \in Nat
  BY ValuedIs DEF Amount, Price, Dec
<1>3. \A i \in Valued(g) : txn[i].amount.price.kind = "none" /\ txn[i].amount.com = c => i \in bare
  BY ValuedIs, AtCostIs
<1>4. Tolerance(g, c) = IF places = {} THEN 0 ELSE CHOOSE p \in places : \A q \in places : q <= p
  BY DEF Tolerance
<1>5. places # {} => \E p \in places : \A q \in places : q <= p
  <2>1. CASE bare # {}
    <3> DEFINE f == [i \in bare |-> Shown(i)]
    <3> HIDE DEF Shown
    <3>1. \A i \in bare : f[i] \in Nat
      BY <1>2
    <3>2. \E i \in bare : \A j \in bare : f[j] <= f[i]
      <4> HIDE DEF f, bare
      <4> QED
        BY <1>1, <2>1, <3>1, GreatestOf
    <3> HIDE DEF bare
    <3> QED
      BY <2>1, <3>2
  <2>2. CASE bare = {} /\ in # {}
    <3> DEFINE f == [i \in in |-> OfCost(i)]
    <3> HIDE DEF OfCost
    <3>1. \A i \in in : f[i] \in Nat
      BY <1>2
    <3>2. \E i \in in : \A j \in in : f[j] <= f[i]
      <4> HIDE DEF f, in
      <4> QED
        BY <1>1, <2>2, <3>1, GreatestOf
    <3> HIDE DEF bare, in
    <3> QED
      BY <2>2, <3>2
  <2>3. CASE bare = {} /\ in = {}
    BY <2>3
  <2> QED
    BY <2>1, <2>2, <2>3
<1>6. places \subseteq Nat
  <2>1. bare \subseteq in
    OBVIOUS
  <2> HIDE DEF in, bare, Shown, OfCost
  <2> QED
    BY <1>2, <2>1
<1>7. /\ Tolerance(g, c) \in Nat
      /\ \A q \in places : q <= Tolerance(g, c)
  <2> HIDE DEF places
  <2>1. CASE places = {}
    BY <1>4, <2>1
  <2>2. CASE places # {}
    <3>1. PICK most \in places : \A q \in places : q <= most
      BY <1>5, <2>2
    <3>2. /\ (CHOOSE p \in places : \A q \in places : q <= p) \in places
          /\ \A r \in places : r <= (CHOOSE p \in places : \A q \in places : q <= p)
      BY <3>1, Zenon
    <3> QED
      BY <1>4, <1>6, <2>2, <3>2
  <2> QED
    BY <2>1, <2>2
<1>8. \A i \in bare : Shown(i) \in places
  <2> HIDE DEF bare, in, Shown
  <2> QED
    OBVIOUS
<1> HIDE DEF places, bare
<1> QED
  BY <1>3, <1>7, <1>8

\* What is inferred balances the group.
LEMMA InferenceBalances == BooksTypeOK => InferredBalances
<1>0. ASSUME NEW g, Residue(g) = {} PROVE ~Reported(g)
  BY <1>0, FS_EmptySet DEF Reported
<1> SUFFICES ASSUME BooksTypeOK, NEW g \in InUse, Elisions(g) # {}, NEW c
             PROVE  LooksZero(LeftOver(g, c), Tolerance(g, c))
  BY <1>0 DEF InferredBalances, Residue
<1> DEFINE values == WrittenValues(g)
           sum == Total(values, c)
<1>1. txn \in Seq(Posting)
  BY DEF BooksTypeOK
<1>2. /\ values = [i \in Valued(g) |-> AtCost(txn[i].amount)]
      /\ DOMAIN values = Valued(g) /\ \A i \in DOMAIN values : values[i].dec \in Dec
  BY <1>1, ValuedIs
<1>3. LeftOver(g, c) = IF c \in DOMAIN Inferred(g) THEN Plus(sum, Inferred(g)[c]) ELSE sum
  BY <1>2 DEF LeftOver
<1> HIDE DEF values
<1>4. sum \in Dec
  <2>1. Len(txn) \in Nat /\ Len(txn) \in 0 .. Len(txn)
    BY <1>1
  <2> QED
    BY <1>1, <1>2, <2>1, TotalIs
<1>5. LeftOver(g, c) \in Dec /\ LeftOver(g, c).m = 0
  <2>1. CASE c \in {values[i].com : i \in Valued(g)}
    <3>1. c \in DOMAIN Inferred(g) /\ Inferred(g)[c] = Negated(sum)
      BY <2>1 DEF Inferred, values
    <3> HIDE DEF sum
    <3> QED
      BY <1>3, <1>4, <3>1, PlusIs, SignsAre
  <2>2. CASE c \notin {values[i].com : i \in Valued(g)}
    <3>1. c \notin DOMAIN Inferred(g)
      BY <2>2 DEF Inferred, values
    <3>2. \A i \in DOMAIN values : values[i].com # c
      BY <1>2, <2>2
    <3>3. sum = Zero
      BY <1>1, <1>2, <3>2, TotalOfNothing
    <3> QED
      BY <1>3, <1>4, <3>1, <3>3 DEF Zero
  <2> QED
    BY <2>1, <2>2
<1> DEFINE d == LeftOver(g, c)
           t == Tolerance(g, c)
<1>6. t \in Nat
  BY <1>1, ToleranceIs
<1> HIDE DEF d, t
<1>7. d.p \in Nat /\ d.m = 0 /\ Magnitude(d).m = 0
  BY <1>5 DEF d, Dec, Magnitude
<1>8. ~(d.p <= t) => 0 <= 5 * Ten(d.p - t - 1)
  <2> SUFFICES ASSUME ~(d.p <= t) PROVE 0 <= 5 * Ten(d.p - t - 1)
    OBVIOUS
  <2>1. d.p - t - 1 \in Nat
    BY <1>6, <1>7
  <2>2. Ten(d.p - t - 1) \in Nat
    BY <2>1, TenIs
  <2> QED
    BY <2>2
<1>9. LooksZero(d, t)
  BY <1>6, <1>7, <1>8 DEF LooksZero
<1> QED
  BY <1>9 DEF d, t

\* A set has none or two members when it is empty or made of two.
LEMMA TwoAreAcceptable ==
  ASSUME NEW rest, IsFiniteSet(rest)
  PROVE  Cardinality(rest) \in {0, 2} <=> Acceptable(rest)
<1>1. Cardinality(rest) = 0 <=> rest = {}
  BY FS_EmptySet
<1>2. ASSUME NEW c \in rest, NEW d \in rest, c # d, rest = {c, d} PROVE Cardinality(rest) = 2
  <2>1. IsFiniteSet({c}) /\ Cardinality({c}) = 1
    BY FS_Singleton
  <2>2. Cardinality({c} \cup {d}) = 2
    BY <1>2, <2>1, FS_AddElement
  <2>3. rest = {c} \cup {d}
    BY <1>2
  <2> QED
    BY <2>2, <2>3
<1>3. ASSUME Cardinality(rest) = 2 PROVE \E c, d \in rest : c # d /\ rest = {c, d}
  <2>1. rest # {}
    BY <1>1, <1>3
  <2>2. PICK c \in rest : TRUE
    BY <2>1
  <2>3. IsFiniteSet(rest \ {c}) /\ Cardinality(rest \ {c}) = 1
    BY <1>3, FS_RemoveElement
  <2>4. PICK d : rest \ {c} = {d}
    BY <2>3, FS_Singleton
  <2> QED
    BY <2>4
<1> QED
  BY <1>1, <1>2, <1>3 DEF Acceptable

\* What is left over of bare amounts shows, and is let pass for a conversion only.
LEMMA BareAmountsShow == BooksTypeOK => BareDiscrepanciesShow
<1>0. ASSUME NEW g, Residue(g) = ExactlyLeft(g) PROVE JudgedExactly(g)
  <2>1. Residue(g) \in SUBSET Commodities
    BY DEF Residue
  <2>2. IsFiniteSet(Residue(g))
    BY <2>1, BooksAssumption, FS_Subset
  <2>3. Cardinality(Residue(g)) \in {0, 2} <=> Acceptable(Residue(g))
    BY <2>2, TwoAreAcceptable
  <2> QED
    BY <1>0, <2>3 DEF JudgedExactly, Reported
<1> SUFFICES ASSUME BooksTypeOK, NEW g \in InUse, Elisions(g) = {}, NEW c \in Commodities,
                    \A i \in Valued(g) : /\ txn[i].amount.price.kind = "none"
                                         /\ txn[i].amount.written = txn[i].amount.dec.p
             PROVE  LooksZero(LeftOver(g, c), Tolerance(g, c)) <=> Total(WrittenValues(g), c).m = 0
  BY <1>0 DEF BareDiscrepanciesShow, Residue, ExactlyLeft
<1> DEFINE values == WrittenValues(g)
           t == Tolerance(g, c)
<1>1. txn \in Seq(Posting)
  BY DEF BooksTypeOK
<1>2. /\ values = [i \in Valued(g) |-> AtCost(txn[i].amount)]
      /\ DOMAIN values = Valued(g) /\ \A i \in DOMAIN values : values[i].dec \in Dec
  BY <1>1, ValuedIs
<1>3. LeftOver(g, c) = Total(values, c)
  BY <1>2 DEF LeftOver
<1>4. \A i \in Valued(g) : values[i] = [com |-> txn[i].amount.com, dec |-> txn[i].amount.dec]
  BY <1>1, <1>2, ValuedIs, AtCostIs
<1> HIDE DEF values
<1>5. t \in Nat /\ \A i \in DOMAIN values : values[i].com = c => values[i].dec.p <= t
  <2>1. t \in Nat
    BY <1>1, ToleranceIs
  <2>2. ASSUME NEW i \in Valued(g), values[i].com = c PROVE values[i].dec.p <= t
    <3>1. values[i] = [com |-> txn[i].amount.com, dec |-> txn[i].amount.dec]
      BY <1>4
    <3>2. txn[i].amount.com = c /\ values[i].dec.p = txn[i].amount.dec.p
      BY <2>2, <3>1
    <3> QED
      BY <1>1, <3>2, ToleranceIs
  <2> HIDE DEF t
  <2> QED
    BY <1>2, <2>1, <2>2
<1> HIDE DEF t
<1>6. Total(values, c) \in Dec /\ Total(values, c).p <= t
  BY <1>1, <1>2, <1>5, TotalIsNoWider
<1> QED
  BY <1>3, <1>6 DEF LooksZero, t, values

\* BalanceIsJudgedRight: a group with an elided posting balances whatever is priced
\* in it; one of bare amounts is let pass when they sum to zero or leave the two
\* commodities of a conversion, and is otherwise reported with exactly what they
\* leave over: for any number of postings and commodities and at any precision.
THEOREM JudgesRight == BooksSpec => []BalanceIsJudgedRight
<1>1. BooksTypeOK => BalanceIsJudgedRight
  BY InferenceBalances, BareAmountsShow DEF BalanceIsJudgedRight
<1> QED
  BY <1>1, BooksTyped, PTL

-----------------------------------------------------------------------------
(* The evaluation of balance assertions.                                     *)

LEMMA LinesAre ==
  ASSUME BooksTypeOK
  PROVE  /\ Len(books) \in Nat /\ DOMAIN books = 1 .. Len(books)
         /\ \A i \in DOMAIN books :
              /\ books[i].account \in Accounts /\ books[i].com \in Commodities
              /\ books[i].qty \in Int /\ books[i].day \in Nat
<1>1. books \in Seq(Line)
  BY DEF BooksTypeOK
<1>2. ASSUME NEW i \in DOMAIN books
      PROVE  /\ books[i].account \in Accounts /\ books[i].com \in Commodities
             /\ books[i].qty \in Int /\ books[i].day \in Nat
  <2>1. books[i] \in Line
    BY <1>1
  <2> QED
    BY <2>1, BooksAssumption DEF Line
<1> QED
  BY <1>1, <1>2

\* The first lines of the books, sorted.
Sorted(e, m) ==
    /\ e \in [1 .. m -> 1 .. m]
    /\ \A k, l \in 1 .. m : e[k] = e[l] => k = l
    /\ \A k, l \in 1 .. m : k < l => Before(e[k], e[l])

\* One more line goes after those of its day and before those of a later one.
LEMMA OneMoreIsSorted ==
  ASSUME BooksTypeOK, NEW m \in 1 .. Len(books), NEW e, Sorted(e, m - 1)
  PROVE  \E f : Sorted(f, m)
<1> DEFINE day(i) == books[i].day
           later == {k \in 1 .. m - 1 : day(e[k]) > day(m)}
<1>1. /\ m \in Nat /\ m - 1 \in Nat /\ m \in DOMAIN books /\ \A i \in 1 .. m : day(i) \in Nat
      /\ \A k \in 1 .. m - 1 : e[k] \in 1 .. m - 1
  BY LinesAre DEF Sorted
<1>2. \A i, j \in 1 .. m : Before(i, j) <=> day(i) < day(j) \/ (day(i) = day(j) /\ i <= j)
  BY DEF Before
<1> HIDE DEF day
<1>3. PICK p \in 1 .. m : /\ \A k \in 1 .. m - 1 : k < p => day(e[k]) <= day(m)
                          /\ \A k \in 1 .. m - 1 : k >= p => day(e[k]) > day(m)
  <2>1. CASE later = {}
    <3>1. \A k \in 1 .. m - 1 : ~(day(e[k]) > day(m))
      BY <2>1
    <3>2. \A k \in 1 .. m - 1 : day(e[k]) <= day(m) /\ k < m
      BY <1>1, <3>1
    <3>3. m \in 1 .. m /\ \A k \in 1 .. m - 1 : ~(k >= m)
      BY <1>1
    <3> QED
      BY <3>2, <3>3
  <2>2. CASE later # {}
    <3>1. PICK p \in later : \A k \in later : ~(k < p)
      <4>1. later \in SUBSET Nat
        BY <1>1
      <4> HIDE DEF later
      <4> QED
        BY <2>2, <4>1, LeastOf
    <3>2. p \in 1 .. m - 1 /\ p \in 1 .. m /\ day(e[p]) > day(m)
      BY <1>1, <3>1
    <3>3. \A k \in 1 .. m - 1 : k < p => day(e[k]) <= day(m)
      BY <1>1, <3>1
    <3>4. \A k \in 1 .. m - 1 : k >= p => day(e[k]) > day(m)
      <4> SUFFICES ASSUME NEW k \in 1 .. m - 1, k > p PROVE day(e[k]) > day(m)
        BY <3>2
      <4>0. p < k /\ e[p] \in 1 .. m - 1 /\ e[k] \in 1 .. m - 1
        BY <1>1, <3>2
      <4>1. Before(e[p], e[k]) /\ e[p] \in 1 .. m /\ e[k] \in 1 .. m
        <5>1. Before(e[p], e[k])
          BY <3>2, <4>0 DEF Sorted
        <5> QED
          BY <1>1, <4>0, <5>1
      <4>2. day(e[p]) <= day(e[k]) /\ day(e[p]) \in Nat /\ day(e[k]) \in Nat
        BY <1>1, <1>2, <4>1
      <4> QED
        BY <1>1, <3>2, <4>2
    <3> QED
      BY <3>2, <3>3, <3>4
  <2> QED
    BY <2>1, <2>2
<1> DEFINE f == [k \in 1 .. m |-> IF k < p THEN e[k] ELSE IF k = p THEN m ELSE e[k - 1]]
<1>4. ASSUME NEW k \in 1 .. m
      PROVE  /\ k < p => k \in 1 .. m - 1 /\ f[k] = e[k] /\ f[k] \in 1 .. m - 1
             /\ k = p => f[k] = m
             /\ k > p => k - 1 \in 1 .. m - 1 /\ k - 1 >= p /\ f[k] = e[k - 1] /\ f[k] \in 1 .. m - 1
  BY <1>1
<1>5. f \in [1 .. m -> 1 .. m]
  <2>1. \A k \in 1 .. m : f[k] \in 1 .. m
    BY <1>1, <1>4
  <2> QED
    BY <2>1
<1>6. ASSUME NEW k \in 1 .. m, NEW l \in 1 .. m, k < l PROVE f[k] # f[l] /\ Before(f[k], f[l])
  <2> HIDE DEF f
  <2>1. k \in Nat /\ l \in Nat /\ p \in Nat
    OBVIOUS
  <2>2. CASE l < p
    <3>1. k < p
      BY <1>6, <2>1, <2>2
    <3> QED
      BY <1>4, <1>6, <2>1, <2>2, <3>1 DEF Sorted
  <2>3. CASE l = p
    <3>1. k < p /\ k \in 1 .. m - 1 /\ f[k] = e[k] /\ f[k] \in 1 .. m - 1 /\ f[l] = m
      BY <1>4, <1>6, <2>1, <2>3
    <3>2. day(f[k]) <= day(m)
      BY <1>3, <3>1
    <3>3. f[k] \in 1 .. m /\ m \in 1 .. m /\ day(f[k]) \in Nat /\ day(m) \in Nat /\ f[k] <= m /\ f[k] # m
      BY <1>1, <3>1
    <3>4. Before(f[k], m)
      BY <1>2, <3>2, <3>3
    <3> QED
      BY <3>1, <3>3, <3>4
  <2>4. CASE l > p /\ k < p
    <3>1. /\ k \in 1 .. m - 1 /\ f[k] = e[k] /\ l - 1 \in 1 .. m - 1 /\ f[l] = e[l - 1]
          /\ k < l - 1
      BY <1>4, <2>1, <2>4
    <3> QED
      BY <3>1 DEF Sorted
  <2>5. CASE l > p /\ k = p
    <3>1. f[k] = m /\ l - 1 \in 1 .. m - 1 /\ l - 1 >= p /\ f[l] = e[l - 1] /\ f[l] \in 1 .. m - 1
      BY <1>4, <2>1, <2>5
    <3>2. day(f[l]) > day(m)
      BY <1>3, <3>1
    <3>3. f[l] \in 1 .. m /\ m \in 1 .. m /\ day(f[l]) \in Nat /\ day(m) \in Nat /\ f[l] # m
      BY <1>1, <3>1
    <3>4. Before(m, f[l])
      BY <1>2, <3>2, <3>3
    <3> QED
      BY <3>1, <3>3, <3>4
  <2>6. CASE l > p /\ k > p
    <3>1. /\ k - 1 \in 1 .. m - 1 /\ f[k] = e[k - 1] /\ l - 1 \in 1 .. m - 1 /\ f[l] = e[l - 1]
          /\ k - 1 < l - 1 /\ k - 1 # l - 1
      BY <1>4, <1>6, <2>1, <2>6
    <3> QED
      BY <3>1 DEF Sorted
  <2> QED
    BY <1>6, <2>1, <2>2, <2>3, <2>4, <2>5, <2>6
<1>7. \A k, l \in 1 .. m : f[k] = f[l] => k = l
  <2> SUFFICES ASSUME NEW k \in 1 .. m, NEW l \in 1 .. m, k # l PROVE f[k] # f[l]
    BY Zenon
  <2>1. k < l \/ l < k
    OBVIOUS
  <2> HIDE DEF f
  <2> QED
    BY <1>6, <2>1
<1> HIDE DEF f
<1>8. Sorted(f, m)
  BY <1>5, <1>6, <1>7 DEF Sorted
<1> QED
  BY <1>8

\* The order of evaluation: every line comes once, and by day.
LEMMA EvaluationIs ==
  ASSUME BooksTypeOK
  PROVE  /\ Sorted(Evaluation, Len(books))
         /\ \A i \in 1 .. Len(books) : \E k \in 1 .. Len(books) : Evaluation[k] = i
<1> DEFINE n == Len(books)
           T == {m \in 0 .. n : \E e : Sorted(e, m)}
           Right(e) == /\ IsInjective(e)
                       /\ \A k, l \in DOMAIN books : k < l => Before(e[k], e[l])
<1>1. n \in Nat /\ DOMAIN books = 1 .. n
  BY LinesAre
<1>2. n \in T
  <2>1. 0 \in T
    <3>1. Sorted(<<>>, 0)
      BY DEF Sorted
    <3> QED
      BY <1>1, <3>1
  <2>2. ASSUME NEW m \in 1 .. n, m - 1 \in T PROVE m \in T
    <3>1. PICK e : Sorted(e, m - 1)
      BY <2>2
    <3>2. m \in 0 .. n /\ \E f : Sorted(f, m)
      BY <1>1, <3>1, OneMoreIsSorted
    <3> QED
      BY <3>2
  <2> HIDE DEF T, n
  <2>3. \A m \in 0 .. n : m \in T
    BY <1>1, <2>1, <2>2, UpTo
  <2> QED
    BY <1>1, <2>3
<1>3. PICK e : Sorted(e, n)
  BY <1>2
<1>4. e \in [DOMAIN books -> DOMAIN books] /\ Right(e)
  BY <1>1, <1>3 DEF Sorted, IsInjective
<1>5. Evaluation \in [DOMAIN books -> DOMAIN books] /\ Right(Evaluation)
  <2> HIDE DEF Right
  <2>1. Evaluation = CHOOSE x \in [DOMAIN books -> DOMAIN books] : Right(x)
    BY DEF Evaluation, Right
  <2> QED
    BY <1>4, <2>1
<1>6. Sorted(Evaluation, n)
  BY <1>1, <1>5 DEF Sorted, IsInjective
<1>7. Evaluation \in Surjection(1 .. n, 1 .. n)
  <2>1. Evaluation \in Injection(1 .. n, 1 .. n)
    BY <1>1, <1>5 DEF Injection
  <2>2. IsFiniteSet(1 .. n) /\ Cardinality(1 .. n) = n
    <3> HIDE DEF n
    <3>1. 1 \in Int /\ n \in Int
      BY <1>1
    <3> QED
      BY <1>1, <3>1, FS_Interval
  <2> QED
    BY <2>1, <2>2, FS_Injection
<1> QED
  BY <1>6, <1>7 DEF Surjection

Balances == [Accounts -> [held : SUBSET Commodities, qty : [Commodities -> Int]]]

\* What a line does to the balances.
AfterLine(balances, line) == [balances EXCEPT ![line.account] = Posted(@, line)]

LEMMA AfterLineIs ==
  ASSUME BooksTypeOK, NEW balances \in Balances, NEW i \in DOMAIN books
  PROVE  /\ AfterLine(balances, books[i]) \in Balances
         /\ \A a \in Accounts :
              /\ AfterLine(balances, books[i])[a].held =
                   balances[a].held \cup (IF a = books[i].account THEN {books[i].com} ELSE {})
              /\ \A c \in Commodities : AfterLine(balances, books[i])[a].qty[c] =
                   IF a = books[i].account /\ c = books[i].com
                   THEN balances[a].qty[c] + books[i].qty ELSE balances[a].qty[c]
<1> DEFINE line == books[i]
           own == balances[line.account]
           after == AfterLine(balances, line)
<1>1. line.account \in Accounts /\ line.com \in Commodities /\ line.qty \in Int
  BY LinesAre
<1> HIDE DEF line
<1>2. own.held \in SUBSET Commodities /\ own.qty \in [Commodities -> Int]
  BY <1>1 DEF Balances
<1>3. /\ Posted(own, line).held = own.held \cup {line.com}
      /\ Posted(own, line).qty = [own.qty EXCEPT ![line.com] = @ + line.qty]
      /\ Posted(own, line) \in [held : SUBSET Commodities, qty : [Commodities -> Int]]
  <2> HIDE DEF own
  <2>1. [own.qty EXCEPT ![line.com] = @ + line.qty] \in [Commodities -> Int]
    BY <1>1, <1>2
  <2> QED
    BY <1>1, <1>2, <2>1 DEF Posted
<1>4. /\ after \in Balances /\ after[line.account] = Posted(own, line)
      /\ \A a \in Accounts : a # line.account => after[a] = balances[a]
  <2> HIDE DEF own
  <2>1. after = [balances EXCEPT ![line.account] = Posted(own, line)]
    BY DEF AfterLine, own
  <2> HIDE DEF after
  <2> QED
    BY <1>1, <1>3, <2>1 DEF Balances
<1> HIDE DEF after
<1>5. ASSUME NEW a \in Accounts
      PROVE  /\ after[a].held = balances[a].held \cup (IF a = line.account THEN {line.com} ELSE {})
             /\ \A c \in Commodities : after[a].qty[c] =
                  IF a = line.account /\ c = line.com
                  THEN balances[a].qty[c] + line.qty ELSE balances[a].qty[c]
  <2>1. CASE a = line.account
    BY <1>1, <1>2, <1>3, <1>4, <2>1
  <2>2. CASE a # line.account
    BY <1>4, <2>2
  <2> QED
    BY <2>1, <2>2
<1> QED
  BY <1>4, <1>5 DEF after, line

LEMMA RunningIs ==
  ASSUME BooksTypeOK
  PROVE  /\ Running[0] = [a \in Accounts |-> Untouched]
         /\ \A k \in 1 .. Len(books) : Running[k] = AfterLine(Running[k - 1], books[Evaluation[k]])
         /\ \A k \in 0 .. Len(books) : Running[k] \in Balances
<1> DEFINE n == Len(books)
           none == [a \in Accounts |-> Untouched]
           After(x, k) == AfterLine(x, books[Evaluation[k]])
           next == [k \in 1 .. n |-> [x \in Balances |-> After(x, k)]]
           F(g) == g = [k \in 0 .. n |-> IF k = 0 THEN none ELSE After(g[k - 1], k)]
<1>1. n \in Nat /\ DOMAIN books = 1 .. n
  BY LinesAre
<1>2. none \in Balances
  BY DEF Balances, Untouched
<1>3. \A k \in 1 .. n : \A x \in Balances : After(x, k) \in Balances
  <2>1. \A k \in 1 .. n : Evaluation[k] \in DOMAIN books
    BY <1>1, EvaluationIs DEF Sorted
  <2> QED
    BY <2>1, AfterLineIs
<1> HIDE DEF After
<1>4. PICK f : Unfolded(f, Balances, n, none, next)
  <2>1. next \in [1 .. n -> [Balances -> Balances]]
    BY <1>3
  <2> HIDE DEF next, n, none
  <2> QED
    BY <1>1, <1>2, <2>1, Unfolds
<1> HIDE DEF none
<1>5. \A k \in 1 .. n : f[k] = After(f[k - 1], k)
  <2> SUFFICES ASSUME NEW k \in 1 .. n PROVE f[k] = After(f[k - 1], k)
    OBVIOUS
  <2>1. k - 1 \in 0 .. n
    BY <1>1
  <2>2. f[k - 1] \in Balances /\ f[k] = next[k][f[k - 1]]
    BY <1>4, <2>1 DEF Unfolded
  <2> QED
    BY <2>2
<1>6. F(f)
  <2>1. \A k \in 0 .. n : k # 0 => k \in 1 .. n
    BY <1>1
  <2> QED
    BY <1>4, <1>5, <2>1 DEF Unfolded
<1>7. F(Running)
  <2>1. F(CHOOSE g : F(g))
    <3> HIDE DEF F
    <3> QED
      BY <1>6
  <2>2. Running = CHOOSE g : F(g)
    BY DEF Running, After, AfterLine, none
  <2> QED
    BY <2>1, <2>2
<1>8. Running[0] = none /\ \A k \in 1 .. n : Running[k] = After(Running[k - 1], k)
  <2> DEFINE g == Running
  <2>1. g = [k \in 0 .. n |-> IF k = 0 THEN none ELSE After(g[k - 1], k)]
    BY <1>7
  <2> HIDE DEF g
  <2>2. g[0] = none /\ \A k \in 1 .. n : g[k] = After(g[k - 1], k)
    BY <1>1, <2>1
  <2> QED
    BY <2>2 DEF g
<1> DEFINE T == {k \in 0 .. n : Running[k] \in Balances}
<1>9. \A k \in 0 .. n : k \in T
  <2>1. 0 \in T
    BY <1>1, <1>2, <1>8
  <2>2. ASSUME NEW k \in 1 .. n, k - 1 \in T PROVE k \in T
    <3>1. Running[k - 1] \in Balances /\ k \in 0 .. n /\ Running[k] = After(Running[k - 1], k)
      BY <1>1, <1>8, <2>2
    <3> QED
      BY <1>3, <3>1
  <2> HIDE DEF T, n
  <2> QED
    BY <1>1, <2>1, <2>2, UpTo
<1> QED
  BY <1>8, <1>9 DEF After, none

\* The lines evaluated so far.
Evaluated(k) == {Evaluation[l] : l \in 1 .. k}

LEMMA OneMoreIsEvaluated ==
  ASSUME BooksTypeOK, NEW k \in 1 .. Len(books)
  PROVE  /\ Evaluation[k] \in DOMAIN books /\ Evaluation[k] \notin Evaluated(k - 1)
         /\ Evaluated(k) = Evaluated(k - 1) \cup {Evaluation[k]}
<1>1. k \in Nat /\ Len(books) \in Nat /\ DOMAIN books = 1 .. Len(books)
  BY LinesAre
<1>2. Evaluation[k] \in DOMAIN books
  BY <1>1, EvaluationIs DEF Sorted
<1>3. \A l \in 1 .. k - 1 : l \in 1 .. Len(books) /\ l # k
  BY <1>1
<1>4. \A l \in 1 .. k - 1 : Evaluation[l] # Evaluation[k]
  BY <1>3, EvaluationIs DEF Sorted
<1>5. \A l : l \in 1 .. k <=> l \in 1 .. k - 1 \/ l = k
  BY <1>1
<1> QED
  BY <1>2, <1>4, <1>5 DEF Evaluated

\* What an account ever held is what its lines so far are in.
LEMMA HeldIs ==
  ASSUME BooksTypeOK, NEW a \in Accounts
  PROVE  \A k \in 0 .. Len(books) :
           Running[k][a].held = {books[j].com : j \in {i \in Evaluated(k) : books[i].account = a}}
<1> DEFINE n == Len(books)
           Met(k) == {books[j].com : j \in {i \in Evaluated(k) : books[i].account = a}}
           T == {k \in 0 .. n : Running[k][a].held = Met(k)}
<1>1. n \in Nat
  BY LinesAre
<1>2. 0 \in T
  <2>1. Evaluated(0) = {}
    BY DEF Evaluated
  <2>2. Running[0][a].held = {}
    BY RunningIs DEF Untouched
  <2> QED
    BY <1>1, <2>1, <2>2
<1>3. ASSUME NEW k \in 1 .. n, k - 1 \in T PROVE k \in T
  <2> DEFINE i == Evaluation[k]
  <2>1. i \in DOMAIN books /\ Evaluated(k) = Evaluated(k - 1) \cup {i}
    BY OneMoreIsEvaluated
  <2>2. k - 1 \in 0 .. n /\ k \in 0 .. n /\ Running[k - 1][a].held = Met(k - 1)
    BY <1>1, <1>3
  <2>3. Running[k - 1] \in Balances /\ Running[k] = AfterLine(Running[k - 1], books[i])
    BY <2>2, RunningIs
  <2> HIDE DEF i
  <2>4. Running[k][a].held = Met(k - 1) \cup (IF a = books[i].account THEN {books[i].com} ELSE {})
    BY <2>1, <2>2, <2>3, AfterLineIs
  <2>5. Met(k) = Met(k - 1) \cup (IF a = books[i].account THEN {books[i].com} ELSE {})
    BY <2>1
  <2> HIDE DEF Met
  <2> QED
    BY <2>2, <2>4, <2>5
<1> HIDE DEF T, n
<1>4. \A k \in 0 .. n : k \in T
  BY <1>1, <1>2, <1>3, UpTo
<1> QED
  BY <1>4 DEF T, n

\* What the lines among some come to, in a commodity, in some accounts.
Amounting(lines, A, c) ==
    [j \in DOMAIN books |-> IF j \in lines /\ books[j].com = c /\ books[j].account \in A
                            THEN books[j].qty ELSE 0]

LEMMA AmountingIs ==
  ASSUME BooksTypeOK, NEW lines, NEW A, NEW c
  PROVE  /\ Amounting(lines, A, c) \in Seq(Int)
         /\ Len(Amounting(lines, A, c)) = Len(books)
BY LinesAre DEF Amounting

\* The balances of some accounts add up to what their lines so far come to.
LEMMA BalancesAddUp ==
  ASSUME BooksTypeOK, NEW A \in SUBSET Accounts, NEW c \in Commodities
  PROVE  \A k \in 0 .. Len(books) :
           Over(A, [a \in A |-> Running[k][a].qty[c]]) = AddUp(Amounting(Evaluated(k), A, c))
<1> DEFINE n == Len(books)
           Balance(k) == [a \in A |-> Running[k][a].qty[c]]
           Come(k) == Amounting(Evaluated(k), A, c)
           T == {k \in 0 .. n : Over(A, Balance(k)) = AddUp(Come(k))}
<1>1. n \in Nat /\ DOMAIN books = 1 .. n /\ IsFiniteSet(A)
  BY LinesAre, BooksAssumption, FS_Subset
<1>2. 0 \in T
  <2>1. \A a \in A : Balance(0)[a] = 0
    BY RunningIs DEF Untouched
  <2>2. Over(A, Balance(0)) = 0
    <3> HIDE DEF Balance
    <3> QED
      BY <1>1, <2>1, OverNone
  <2>3. Evaluated(0) = {}
    BY DEF Evaluated
  <2>4. Come(0) \in Seq(Int) /\ \A j \in 1 .. Len(Come(0)) : Come(0)[j] = 0
    BY <1>1, <2>3, AmountingIs DEF Amounting
  <2>5. AddUp(Come(0)) = 0
    <3> HIDE DEF Come
    <3> QED
      BY <2>4, SumOfNone
  <2> HIDE DEF Balance, Come
  <2> QED
    BY <1>1, <2>2, <2>5
<1>3. ASSUME NEW k \in 1 .. n, k - 1 \in T PROVE k \in T
  <2> DEFINE i == Evaluation[k]
             line == books[i]
             counts == line.com = c /\ line.account \in A
  <2>1. /\ i \in DOMAIN books /\ i \notin Evaluated(k - 1)
        /\ Evaluated(k) = Evaluated(k - 1) \cup {i}
    BY OneMoreIsEvaluated
  <2>2. k - 1 \in 0 .. n /\ k \in 0 .. n /\ Over(A, Balance(k - 1)) = AddUp(Come(k - 1))
    BY <1>1, <1>3
  <2>3. /\ Running[k - 1] \in Balances /\ Running[k] \in Balances
        /\ Running[k] = AfterLine(Running[k - 1], line)
    BY <2>2, RunningIs
  <2>4. line.qty \in Int
    BY <2>1, LinesAre
  <2>5. \A a \in A : /\ Balance(k - 1)[a] \in Int /\ Balance(k)[a] \in Int
                     /\ Balance(k)[a] = IF a = line.account /\ c = line.com
                                     THEN Balance(k - 1)[a] + line.qty ELSE Balance(k - 1)[a]
    <3> HIDE DEF i
    <3>1. \A a \in A : Running[k - 1][a].qty[c] \in Int /\ Running[k][a].qty[c] \in Int
      BY <2>3 DEF Balances
    <3>2. \A a \in A : Running[k][a].qty[c] =
             IF a = line.account /\ c = line.com
             THEN Running[k - 1][a].qty[c] + line.qty ELSE Running[k - 1][a].qty[c]
      BY <2>1, <2>3, AfterLineIs
    <3> HIDE DEF line
    <3> QED
      BY <3>1, <3>2
  <2>6. /\ Come(k - 1) \in Seq(Int) /\ Come(k) \in Seq(Int)
        /\ Len(Come(k - 1)) = n /\ Len(Come(k)) = n /\ i \in 1 .. n
    BY <1>1, <2>1, AmountingIs
  <2>7. /\ Come(k - 1)[i] = 0 /\ Come(k)[i] = IF counts THEN line.qty ELSE 0
        /\ \A j \in 1 .. n : j # i => Come(k)[j] = Come(k - 1)[j]
    <3> HIDE DEF i, n
    <3>1. \A j \in 1 .. n : j # i => (j \in Evaluated(k) <=> j \in Evaluated(k - 1))
      BY <2>1
    <3>2. i \in Evaluated(k)
      BY <2>1
    <3> QED
      BY <1>1, <2>1, <3>1, <3>2 DEF Amounting
  <2>8. CASE counts
    <3> DEFINE a == line.account
    <3>1. a \in A /\ Balance(k)[a] = Balance(k - 1)[a] + line.qty /\ \A x \in A : x # a => Balance(k)[x] = Balance(k - 1)[x]
      BY <2>5, <2>8
    <3>2. Over(A, Balance(k)) = Over(A, Balance(k - 1)) + line.qty
      <4> HIDE DEF Balance, line
      <4>1. line.account \in A /\ line.qty \in Int
        BY <2>4, <3>1
      <4> QED
        BY <1>1, <2>5, <3>1, <4>1, OverMoves
    <3>3. Come(k)[i] = Come(k - 1)[i] + line.qty
      <4> HIDE DEF Come, line, i
      <4> QED
        BY <2>4, <2>7, <2>8
    <3>4. AddUp(Come(k)) = AddUp(Come(k - 1)) + line.qty
      <4> DEFINE old == Come(k - 1)
                 new == Come(k)
                 q == line.qty
      <4> HIDE DEF Come, line, i, n
      <4>1. old \in Seq(Int) /\ new \in Seq(Int) /\ Len(new) = Len(old) /\ i \in 1 .. Len(old) /\ q \in Int
        BY <2>4, <2>6
      <4>2. new[i] = old[i] + q /\ \A j \in 1 .. Len(old) : j # i => new[j] = old[j]
        BY <2>6, <2>7, <3>3
      <4> HIDE DEF old, new, q
      <4>3. AddUp(new) = AddUp(old) + q
        BY <4>1, <4>2, SumMoves
      <4> QED
        BY <4>3 DEF old, new, q
    <3> HIDE DEF Balance, Come, line
    <3> QED
      BY <2>2, <3>2, <3>4
  <2>9. CASE ~counts
    <3>1. \A x \in A : Balance(k)[x] = Balance(k - 1)[x]
      BY <2>5, <2>9
    <3>2. Over(A, Balance(k)) = Over(A, Balance(k - 1))
      <4> HIDE DEF Balance
      <4> QED
        BY <1>1, <3>1, OverSame
    <3>3. \A j \in 1 .. n : Come(k)[j] = Come(k - 1)[j]
      <4> HIDE DEF Come, line, i
      <4> QED
        BY <2>7, <2>9
    <3>4. Come(k) = Come(k - 1)
      <4> HIDE DEF n
      <4> QED
        BY <1>1, <3>3 DEF Amounting
    <3> HIDE DEF Balance, Come
    <3> QED
      BY <2>2, <3>2, <3>4
  <2> QED
    BY <2>8, <2>9
<1> HIDE DEF T, n
<1>4. \A k \in 0 .. n : k \in T
  BY <1>1, <1>2, <1>3, UpTo
<1> QED
  BY <1>4 DEF T, n

\* The lines evaluated by an assertion's turn are those up to its day.
LEMMA EvaluatedByDay ==
  ASSUME BooksTypeOK, NEW k \in 1 .. Len(books)
  PROVE  Evaluated(k) = {j \in DOMAIN books : Before(j, Evaluation[k])}
<1> DEFINE n == Len(books)
           e == Evaluation
<1>1. n \in Nat /\ DOMAIN books = 1 .. n /\ \A i \in 1 .. n : books[i].day \in Nat
  BY LinesAre
<1>2. /\ \A l \in 1 .. n : e[l] \in 1 .. n
      /\ \A l, m \in 1 .. n : e[l] = e[m] => l = m
      /\ \A l, m \in 1 .. n : l < m => Before(e[l], e[m])
      /\ \A i \in 1 .. n : \E l \in 1 .. n : e[l] = i
  BY EvaluationIs DEF Sorted
<1> HIDE DEF e, n
<1>3. ASSUME NEW l \in 1 .. n PROVE l <= k <=> Before(e[l], e[k])
  <2>1. e[l] \in 1 .. n /\ e[k] \in 1 .. n /\ k \in 1 .. n /\ k \in Nat /\ l \in Nat
    BY <1>1, <1>2 DEF n
  <2>2. books[e[l]].day \in Nat /\ books[e[k]].day \in Nat /\ e[l] \in Nat /\ e[k] \in Nat
    BY <1>1, <2>1
  <2>3. CASE l < k
    BY <1>2, <2>1, <2>3
  <2>4. CASE l = k
    BY <2>1, <2>2, <2>4 DEF Before
  <2>5. CASE l > k
    <3>1. Before(e[k], e[l]) /\ e[l] # e[k]
      BY <1>2, <2>1, <2>5
    <3>2. ~Before(e[l], e[k])
      BY <2>2, <3>1 DEF Before
    <3> QED
      BY <2>1, <2>5, <3>2
  <2> QED
    BY <2>1, <2>3, <2>4, <2>5
<1>4. k \in 1 .. n /\ Evaluated(k) = {e[l] : l \in 1 .. k}
  BY DEF Evaluated, e, n
<1>5. ASSUME NEW l \in 1 .. k PROVE e[l] \in 1 .. n /\ Before(e[l], e[k])
  <2>1. l \in 1 .. n /\ l <= k
    BY <1>1, <1>4
  <2> QED
    BY <1>2, <1>3, <2>1
<1>6. ASSUME NEW j \in 1 .. n, Before(j, e[k]) PROVE \E l \in 1 .. k : j = e[l]
  <2>1. PICK l \in 1 .. n : e[l] = j
    BY <1>2
  <2>2. l <= k
    BY <1>3, <1>6, <2>1
  <2>3. l \in 1 .. k
    BY <1>1, <1>4, <2>2
  <2> QED
    BY <2>1, <2>3
<1>7. Evaluated(k) = {j \in 1 .. n : Before(j, e[k])}
  BY <1>4, <1>5, <1>6
<1> QED
  BY <1>1, <1>7 DEF e

\* FailuresAreFalseOfTheBooks, of one line and one commodity.
LEMMA FailsWhenFalse ==
  ASSUME BooksTypeOK, NEW k \in 1 .. Len(books), NEW c \in Commodities,
         books[Evaluation[k]].assertion # NoAssertion
  PROVE  LET line == books[Evaluation[k]]
             of == AddUp(Amounting(Evaluated(k), Covered(line.account, line.assertion.inclusive), c))
             met == {books[j].com : j \in {i \in Evaluated(k) : books[i].account = line.account}}
         IN c \in FailedCommodities(Running[k], line)
              <=> IF c = line.assertion.com THEN of # line.assertion.balance
                  ELSE line.assertion.total /\ c \in met /\ of # 0
<1> DEFINE line == books[Evaluation[k]]
           A == Covered(line.account, line.assertion.inclusive)
           of == AddUp(Amounting(Evaluated(k), A, c))
           met == {books[j].com : j \in {i \in Evaluated(k) : books[i].account = line.account}}
<1>1. k \in 0 .. Len(books) /\ Evaluation[k] \in DOMAIN books
  BY LinesAre, OneMoreIsEvaluated
<1>2. line.account \in Accounts /\ line.com \in Commodities
  BY <1>1, LinesAre
<1>3. A \in SUBSET Accounts
  <2> HIDE DEF line
  <2> QED
    BY <1>2, BooksAssumption DEF Covered
<1>4. Subject(Running[k], line.account, line.assertion.inclusive, c)
        = Over(A, [a \in A |-> Running[k][a].qty[c]])
  <2> DEFINE order == SetToSeq(A)
             held == [a \in A |-> Running[k][a].qty[c]]
  <2>1. IsFiniteSet(A)
    BY <1>3, BooksAssumption, FS_Subset
  <2>2. order \in Seq(A)
    BY <2>1, OrderIs
  <2>3. Over(A, held) = AddUp([n \in DOMAIN order |-> held[order[n]]])
    BY DEF Over
  <2>4. Subject(Running[k], line.account, line.assertion.inclusive, c)
          = AddUp([n \in DOMAIN order |-> Running[k][order[n]].qty[c]])
    BY DEF Subject
  <2> HIDE DEF order, A
  <2>5. [n \in DOMAIN order |-> held[order[n]]] = [n \in DOMAIN order |-> Running[k][order[n]].qty[c]]
    BY <2>2
  <2> QED
    BY <2>3, <2>4, <2>5
<1>5. Subject(Running[k], line.account, line.assertion.inclusive, c) = of
  <2> HIDE DEF A, line
  <2> QED
    BY <1>1, <1>3, <1>4, BalancesAddUp
<1>6. Running[k][line.account].held = met
  <2> HIDE DEF line
  <2> QED
    BY <1>1, <1>2, HeldIs
<1>7. c \in FailedCommodities(Running[k], line) <=>
        \/ /\ c = line.assertion.com
           /\ Subject(Running[k], line.account, line.assertion.inclusive, c) # line.assertion.balance
        \/ /\ c # line.assertion.com /\ line.assertion.total /\ c \in Running[k][line.account].held
           /\ Subject(Running[k], line.account, line.assertion.inclusive, c) # 0
  <2> HIDE DEF line
  <2> QED
    BY DEF FailedCommodities
<1> HIDE DEF line, A, of, met
<1>8. c \in FailedCommodities(Running[k], line)
        <=> IF c = line.assertion.com THEN of # line.assertion.balance
            ELSE line.assertion.total /\ c \in met /\ of # 0
  BY <1>5, <1>6, <1>7
<1> QED
  BY <1>8 DEF line, A, of, met

\* FailuresAreFalseOfTheBooks: the assertions that fail are those that are false of
\* the books up to their day, for any number of lines, accounts and days and in
\* whatever order the lines were read.
THEOREM FailsWhatIsFalse == BooksSpec => []FailuresAreFalseOfTheBooks
<1>1. BooksTypeOK => FailuresAreFalseOfTheBooks
  <2> SUFFICES ASSUME BooksTypeOK PROVE FailuresAreFalseOfTheBooks
    OBVIOUS
  <2> DEFINE n == Len(books)
             upTo(i) == {j \in DOMAIN books : books[j].day < books[i].day
                                        \/ (books[j].day = books[i].day /\ j <= i)}
             of(i, c) == AddUp([j \in DOMAIN books |->
                        IF /\ j \in upTo(i) /\ books[j].com = c
                           /\ books[j].account \in Covered(books[i].account, books[i].assertion.inclusive)
                        THEN books[j].qty ELSE 0])
             met(i) == {books[j].com : j \in {k \in upTo(i) : books[k].account = books[i].account}}
             False(i, c) == /\ books[i].assertion # NoAssertion
                            /\ IF c = books[i].assertion.com THEN of(i, c) # books[i].assertion.balance
                               ELSE books[i].assertion.total /\ c \in met(i) /\ of(i, c) # 0
  <2>1. DOMAIN books = 1 .. n
    BY LinesAre
  <2>2. \A k \in 1 .. n : Evaluation[k] \in 1 .. n
    BY EvaluationIs DEF Sorted
  <2>3. \A i \in 1 .. n : \E k \in 1 .. n : Evaluation[k] = i
    BY EvaluationIs
  <2>4. ASSUME NEW k \in 1 .. n, NEW c \in Commodities
        PROVE  False(Evaluation[k], c) <=> /\ books[Evaluation[k]].assertion # NoAssertion
                                           /\ c \in FailedCommodities(Running[k], books[Evaluation[k]])
    <3> DEFINE i == Evaluation[k]
    <3>1. Evaluated(k) = upTo(i)
      BY EvaluatedByDay DEF Before
    <3>2. of(i, c) = AddUp(Amounting(Evaluated(k), Covered(books[i].account, books[i].assertion.inclusive), c))
      <4> HIDE DEF i, upTo
      <4> QED
        BY <3>1 DEF Amounting
    <3>3. met(i) = {books[j].com : j \in {l \in Evaluated(k) : books[l].account = books[i].account}}
      <4> HIDE DEF i, upTo
      <4> QED
        BY <3>1
    <3> HIDE DEF of, met
    <3> QED
      BY <3>2, <3>3, FailsWhenFalse
  <2>5. Failures = {ic \in (1 .. n) \X Commodities : False(ic[1], ic[2])}
    <3> DEFINE Checked == {k \in 1 .. n : books[Evaluation[k]].assertion # NoAssertion}
               Of(k) == {<<Evaluation[k], c>> : c \in FailedCommodities(Running[k], books[Evaluation[k]])}
    <3>1. Failures = UNION {Of(k) : k \in Checked}
      BY <2>1 DEF Failures
    <3>2. \A k \in 1 .. n : FailedCommodities(Running[k], books[Evaluation[k]]) \subseteq Commodities
      BY DEF FailedCommodities
    <3> HIDE DEF n, False
    <3>3. ASSUME NEW x \in Failures PROVE x \in (1 .. n) \X Commodities /\ False(x[1], x[2])
      <4>1. PICK k \in Checked : x \in Of(k)
        BY <3>1
      <4>2. PICK c \in FailedCommodities(Running[k], books[Evaluation[k]]) : x = <<Evaluation[k], c>>
        BY <4>1
      <4>3. c \in Commodities /\ Evaluation[k] \in 1 .. n
        BY <2>2, <3>2, <4>1
      <4>4. False(Evaluation[k], c)
        BY <2>4, <4>1, <4>2, <4>3
      <4> QED
        BY <4>2, <4>3, <4>4
    <3>4. ASSUME NEW i \in 1 .. n, NEW c \in Commodities, False(i, c) PROVE <<i, c>> \in Failures
      <4>1. PICK k \in 1 .. n : Evaluation[k] = i
        BY <2>3
      <4>2. k \in Checked /\ c \in FailedCommodities(Running[k], books[Evaluation[k]])
        BY <2>4, <3>4, <4>1
      <4>3. <<i, c>> \in Of(k)
        BY <4>1, <4>2
      <4> HIDE DEF Of, Checked
      <4> QED
        BY <3>1, <4>2, <4>3
    <3> QED
      BY <3>3, <3>4
  <2> QED
    BY <2>1, <2>5 DEF FailuresAreFalseOfTheBooks
<1> QED
  BY <1>1, BooksTyped, PTL

-----------------------------------------------------------------------------
(* A review run, its pages: that none is missed while none crosses a change. *)

\* What is picked from a sequence is a sequence, and all of it is there.
LEMMA PickedIs ==
  ASSUME NEW S, NEW s \in Seq(S), NEW places
  PROVE  /\ Picked(s, places) \in Seq(S)
         /\ \A m \in DOMAIN s : m \in places =>
              \E k \in DOMAIN Picked(s, places) : Picked(s, places)[k] = s[m]
<1>1. Len(s) \in Nat /\ DOMAIN s = 1 .. Len(s) /\ \A i \in 1 .. Len(s) : s[i] \in S
  BY LenProperties, ElementOfSeq
<1> DEFINE Q == Seq(S)
           next == [i \in 1 .. Len(s) |->
                      [q \in Q |-> IF i \in places THEN Append(q, s[i]) ELSE q]]
           F(g) == g = [i \in 0 .. Len(s) |->
                          IF i = 0 THEN <<>>
                          ELSE IF i \in places THEN Append(g[i - 1], s[i]) ELSE g[i - 1]]
<1>2. PICK f : Unfolded(f, Q, Len(s), <<>>, next)
  <2>1. next \in [1 .. Len(s) -> [Q -> Q]] /\ <<>> \in Q
    BY <1>1, AppendProperties
  <2> HIDE DEF next, Q
  <2> QED
    BY <1>1, <2>1, Unfolds
<1>3. \A i \in 1 .. Len(s) :
         f[i] = IF i \in places THEN Append(f[i - 1], s[i]) ELSE f[i - 1]
  <2> SUFFICES ASSUME NEW i \in 1 .. Len(s)
               PROVE  f[i] = IF i \in places THEN Append(f[i - 1], s[i]) ELSE f[i - 1]
    OBVIOUS
  <2>1. i - 1 \in 0 .. Len(s)
    BY <1>1
  <2>2. f[i - 1] \in Q /\ f[i] = next[i][f[i - 1]]
    <3> HIDE DEF Q, next
    <3> QED
      BY <1>2, <2>1 DEF Unfolded
  <2> HIDE DEF Q
  <2> QED
    BY <2>2
<1>4. F(f)
  <2>1. \A i \in 0 .. Len(s) : i # 0 => i \in 1 .. Len(s)
    BY <1>1
  <2>2. f = [i \in 0 .. Len(s) |-> f[i]] /\ f[0] = <<>>
    BY <1>2 DEF Unfolded
  <2> QED
    BY <1>3, <2>1, <2>2
<1>5. PICK g : F(g) /\ Picked(s, places) = g[Len(s)]
  BY <1>4 DEF Picked
<1>6. /\ g[0] = <<>>
      /\ \A i \in 1 .. Len(s) :
            g[i] = IF i \in places THEN Append(g[i - 1], s[i]) ELSE g[i - 1]
  <2>1. 0 \in 0 .. Len(s) /\ \A i \in 1 .. Len(s) : i \in 0 .. Len(s) /\ i # 0
    BY <1>1
  <2> QED
    BY <1>5, <2>1
<1> DEFINE Has(q, i) == \A m \in 1 .. i : m \in places => \E k \in 1 .. Len(q) : q[k] = s[m]
           T == {i \in 0 .. Len(s) : g[i] \in Seq(S) /\ Has(g[i], i)}
<1>7. 0 \in T
  <2>1. 0 \in 0 .. Len(s) /\ 1 .. 0 = {} /\ <<>> \in Seq(S)
    BY <1>1, EmptySeq
  <2> QED
    BY <1>6, <2>1
<1>8. ASSUME NEW i \in 1 .. Len(s), i - 1 \in T PROVE i \in T
  <2>1. g[i - 1] \in Seq(S) /\ Has(g[i - 1], i - 1) /\ i \in 0 .. Len(s)
    BY <1>1, <1>8
  <2>2. \A m \in 1 .. i : m # i => m \in 1 .. i - 1
    OBVIOUS
  <2>3. CASE i \notin places
    <3>1. g[i] = g[i - 1]
      BY <1>6, <2>3
    <3>2. Has(g[i], i)
      BY <2>1, <2>2, <2>3, <3>1
    <3> QED
      BY <2>1, <3>1, <3>2
  <2>4. CASE i \in places
    <3> DEFINE q == g[i - 1]
    <3>1. g[i] = Append(q, s[i]) /\ q \in Seq(S) /\ s[i] \in S
      BY <1>1, <1>6, <2>1, <2>4
    <3>2. /\ g[i] \in Seq(S) /\ Len(q) \in Nat /\ Len(g[i]) = Len(q) + 1
          /\ g[i][Len(q) + 1] = s[i] /\ \A k \in 1 .. Len(q) : g[i][k] = q[k]
      BY <3>1, AppendProperties, LenProperties
    <3> HIDE DEF q
    <3>3. Has(g[i], i)
      <4> SUFFICES ASSUME NEW m \in 1 .. i, m \in places
                   PROVE  \E k \in 1 .. Len(g[i]) : g[i][k] = s[m]
        OBVIOUS
      <4>1. CASE m = i
        <5>1. Len(q) + 1 \in 1 .. Len(g[i])
          BY <3>2
        <5> QED
          BY <3>2, <4>1, <5>1
      <4>2. CASE m # i
        <5>1. PICK k \in 1 .. Len(q) : q[k] = s[m]
          BY <2>1, <2>2, <4>2 DEF q
        <5>2. k \in 1 .. Len(g[i]) /\ g[i][k] = s[m]
          BY <3>2, <5>1
        <5> QED
          BY <5>2
      <4> QED
        BY <4>1, <4>2
    <3> QED
      BY <2>1, <3>2, <3>3
  <2> QED
    BY <2>3, <2>4
<1>9. Len(s) \in T
  <2> HIDE DEF T
  <2>1. \A i \in 0 .. Len(s) : i \in T
    BY <1>1, <1>7, <1>8, UpTo
  <2> QED
    BY <1>1, <2>1
<1>10. g[Len(s)] \in Seq(S) /\ Has(g[Len(s)], Len(s))
  BY <1>9
<1> QED
  BY <1>1, <1>5, <1>10, LenProperties

ReviewJournals == [order : Seq(Txns \cup {Newcomer}),
             text : [Txns \cup {Newcomer} -> [own : Nat, others : Nat]],
             unknown : SUBSET (Txns \cup {Newcomer}), generation : Nat]

LEMMA UnknownsAreItems ==
  ASSUME NEW b \in ReviewJournals
  PROVE  Unknowns(b) \in Seq(Items)
<1> DEFINE back == Reverse([i \in DOMAIN b.order |-> i])
           at == Picked(back, {n \in DOMAIN back : b.order[back[n]] \in b.unknown})
<1>1. b.order \in Seq(Txns \cup {Newcomer})
  BY DEF ReviewJournals
<1>2. Len(b.order) \in Nat /\ DOMAIN b.order = 1 .. Len(b.order)
      /\ \A i \in DOMAIN b.order : b.order[i] \in Txns \cup {Newcomer}
  BY <1>1, LenProperties, ElementOfSeq
<1>3. back \in Seq(DOMAIN b.order)
  <2>1. [i \in DOMAIN b.order |-> i] \in Seq(DOMAIN b.order)
        /\ Len([i \in DOMAIN b.order |-> i]) = Len(b.order)
    BY <1>2
  <2>2. \A i \in 1 .. Len(b.order) : (Len(b.order) - i) + 1 \in 1 .. Len(b.order)
    BY <1>2
  <2>3. back = [i \in 1 .. Len(b.order) |-> (Len(b.order) - i) + 1]
    BY <1>2, <2>1, <2>2 DEF Reverse
  <2> HIDE DEF back
  <2> QED
    BY <1>2, <2>2, <2>3
<1>4. at \in Seq(DOMAIN b.order)
  <2> HIDE DEF back
  <2> QED
    BY <1>3, PickedIs
<1>5. Unknowns(b) = [n \in DOMAIN at |-> [index |-> at[n], print |-> FingerprintAt(b, at[n])]]
  BY DEF Unknowns
<1> HIDE DEF at
<1>6. DOMAIN at = 1 .. Len(at) /\ Len(at) \in Nat /\ \A n \in DOMAIN at : at[n] \in DOMAIN b.order
  BY <1>4, LenProperties, ElementOfSeq
<1>7. \A n \in DOMAIN at : [index |-> at[n], print |-> FingerprintAt(b, at[n])] \in Items
  <2> SUFFICES ASSUME NEW n \in DOMAIN at
               PROVE  [index |-> at[n], print |-> FingerprintAt(b, at[n])] \in Items
    OBVIOUS
  <2>1. at[n] \in Nat /\ b.order[at[n]] \in Txns \cup {Newcomer}
    BY <1>2, <1>6
  <2>2. b.text[b.order[at[n]]] \in [own : Nat, others : Nat]
    BY <2>1 DEF ReviewJournals
  <2> QED
    BY <2>1, <2>2 DEF Items, FingerprintAt
<1> QED
  BY <1>5, <1>6, <1>7

\* A page is that part of the queue, as it is when the page is read.
LEMMA ListingIs ==
  ASSUME NEW b \in ReviewJournals, NEW limit \in Nat, NEW offset \in Nat, NEW page,
         page = Listing(b, limit, offset)
  PROVE  /\ page \in Pages /\ page.generation = b.generation
         /\ page.total = Len(Unknowns(b)) /\ Len(page.items) <= limit
         /\ \A n \in 1 .. Len(page.items) :
               offset + n <= page.total /\ page.items[n] = Unknowns(b)[offset + n]
         /\ offset = 0 => \/ Len(page.items) = limit
                          \/ Len(page.items) = page.total
<1> DEFINE all == Unknowns(b)
           last == IF offset + limit < Len(all) THEN offset + limit ELSE Len(all)
<1>1. all \in Seq(Items) /\ Len(all) \in Nat
  BY UnknownsAreItems, LenProperties
<1>2. page = [items |-> SubSeq(all, offset + 1, last), total |-> Len(all),
              generation |-> b.generation]
  BY DEF Listing
<1>3. b.generation \in Nat
  BY DEF ReviewJournals
<1> HIDE DEF all
<1>4. last \in Nat /\ last <= Len(all) /\ last <= offset + limit
  BY <1>1
<1>5. CASE offset + 1 > last
  <2>1. SubSeq(all, offset + 1, last) = <<>>
    BY <1>1, <1>4, <1>5
  <2>2. offset = 0 => limit = 0 \/ Len(all) = 0
    BY <1>1, <1>5
  <2> HIDE DEF last
  <2>3. page.items = <<>> /\ page.total = Len(all) /\ page.generation = b.generation
    BY <1>2, <2>1
  <2>4. page \in Pages
    <3> DEFINE none == SubSeq(all, offset + 1, last)
    <3>1. none \in Seq(Items)
      BY <2>1, EmptySeq
    <3>2. page = [items |-> none, total |-> Len(all), generation |-> b.generation]
      BY <1>2
    <3> HIDE DEF none
    <3> QED
      BY <1>1, <1>3, <3>1, <3>2 DEF Pages
  <2> QED
    BY <2>2, <2>3, <2>4, <1>1, EmptySeq DEF all
<1>6. CASE offset + 1 <= last
  <2>1. SubSeq(all, offset + 1, last) \in Seq(Items)
        /\ Len(SubSeq(all, offset + 1, last)) = last - offset
        /\ \A n \in 1 .. last - offset : SubSeq(all, offset + 1, last)[n] = all[offset + n]
    BY <1>1, <1>4, <1>6
  <2>2. offset = 0 => last = limit \/ last = Len(all)
    BY <1>1
  <2> HIDE DEF last
  <2>3. page \in Pages
    BY <1>1, <1>2, <1>3, <2>1 DEF Pages
  <2>4. Len(page.items) = last - offset /\ page.total = Len(all)
        /\ page.generation = b.generation
    BY <1>2, <2>1
  <2>5. \A n \in 1 .. Len(page.items) : offset + n <= page.total /\ page.items[n] = all[offset + n]
    BY <1>1, <1>2, <1>4, <2>1, <2>4
  <2>6. Len(page.items) <= limit /\ (offset = 0 => Len(page.items) = last)
    BY <1>4, <2>4
  <2> QED
    BY <2>2, <2>3, <2>4, <2>5, <2>6 DEF all
<1> QED
  BY <1>1, <1>4, <1>5, <1>6

IsCard(c) == c = [index |-> c.index, print |-> c.print, status |-> c.status,
                  draft |-> c.draft]
AreCards(cards) ==
    /\ Len(cards) \in Nat /\ cards = [n \in 1 .. Len(cards) |-> cards[n]]
    /\ cards \in Seq(Range(cards)) /\ \A n \in 1 .. Len(cards) : IsCard(cards[n])
IsRun(r) ==
    /\ r = [cards |-> r.cards, cursor |-> r.cursor, total |-> r.total,
            fetched |-> r.fetched, generation |-> r.generation, open |-> r.open]
    /\ AreCards(r.cards)

\* A run that differs in nothing that its pages depend on.
AsIs(r, q) ==
    /\ IsRun(q) /\ Indices(q.cards) = Indices(r.cards)
    /\ q.total = r.total /\ q.fetched = r.fetched /\ q.generation = r.generation
    /\ q.open = r.open

LEMMA CardsFrom ==
  ASSUME NEW S, NEW cards \in Seq(S), \A c \in S : IsCard(c)
  PROVE  AreCards(cards)
<1>1. Len(cards) \in Nat /\ DOMAIN cards = 1 .. Len(cards)
      /\ \A n \in 1 .. Len(cards) : cards[n] \in S
  BY LenProperties, ElementOfSeq
<1>2. cards = [n \in 1 .. Len(cards) |-> cards[n]]
  BY <1>1
<1>3. cards \in Seq(Range(cards))
  BY SeqOfRange
<1> QED
  BY <1>1, <1>2, <1>3 DEF AreCards

LEMMA CardsMarked ==
  ASSUME NEW cards, AreCards(cards), NEW next,
         next = [n \in 1 .. Len(cards) |-> next[n]],
         \A n \in 1 .. Len(cards) : IsCard(next[n]) /\ next[n].index = cards[n].index
  PROVE  /\ AreCards(next) /\ Len(next) = Len(cards)
         /\ Indices(next) = Indices(cards)
<1>1. Len(cards) \in Nat /\ DOMAIN cards = 1 .. Len(cards)
  BY DEF AreCards
<1> DEFINE S == {next[n] : n \in 1 .. Len(cards)}
<1>2. next \in Seq(S) /\ DOMAIN next = 1 .. Len(cards) /\ Len(next) = Len(cards)
  BY <1>1
<1>3. AreCards(next)
  <2>1. \A c \in S : IsCard(c)
    OBVIOUS
  <2> HIDE DEF S
  <2> QED
    BY <1>2, <2>1, CardsFrom
<1>4. Indices(next) = Indices(cards)
  BY <1>1, <1>2 DEF Indices
<1> QED
  BY <1>2, <1>3, <1>4

LEMMA StatusSet ==
  ASSUME NEW r, IsRun(r), NEW k \in DOMAIN r.cards, NEW status, NEW cursor
  PROVE  AsIs(r, [r EXCEPT !.cards[k].status = status, !.cursor = cursor])
<1> DEFINE q == [r EXCEPT !.cards[k].status = status, !.cursor = cursor]
           next == [r.cards EXCEPT ![k].status = status]
<1>1. q = [cards |-> next, cursor |-> cursor, total |-> r.total, fetched |-> r.fetched,
           generation |-> r.generation, open |-> r.open]
  <2>1. \A x : [r EXCEPT !.cards = x, !.cursor = cursor] =
                [cards |-> x, cursor |-> cursor, total |-> r.total, fetched |-> r.fetched,
                 generation |-> r.generation, open |-> r.open]
    <3> SUFFICES ASSUME NEW x, NEW y, y = [r EXCEPT !.cards = x, !.cursor = cursor]
                 PROVE  y = [cards |-> x, cursor |-> cursor, total |-> r.total,
                             fetched |-> r.fetched, generation |-> r.generation,
                             open |-> r.open]
      OBVIOUS
    <3> QED
      BY DEF IsRun
  <2>2. q = [r EXCEPT !.cards = next, !.cursor = cursor]
    OBVIOUS
  <2> HIDE DEF q, next
  <2> QED
    BY <2>1, <2>2, Zenon
<1>2. AreCards(r.cards) /\ DOMAIN r.cards = 1 .. Len(r.cards) /\ k \in 1 .. Len(r.cards)
  BY DEF IsRun, AreCards
<1>3. /\ next = [n \in 1 .. Len(r.cards) |-> next[n]]
      /\ \A n \in 1 .. Len(r.cards) :
            next[n] = IF n = k THEN [r.cards[n] EXCEPT !.status = status] ELSE r.cards[n]
  BY <1>2
<1>4. \A n \in 1 .. Len(r.cards) : IsCard(next[n]) /\ next[n].index = r.cards[n].index
  <2> SUFFICES ASSUME NEW n \in 1 .. Len(r.cards)
               PROVE  IsCard(next[n]) /\ next[n].index = r.cards[n].index
    OBVIOUS
  <2>1. IsCard(r.cards[n])
    BY <1>2 DEF AreCards
  <2> HIDE DEF next
  <2> QED
    BY <1>3, <2>1 DEF IsCard
<1> HIDE DEF next, q
<1>5. AreCards(next) /\ Indices(next) = Indices(r.cards)
  BY <1>2, <1>3, <1>4, CardsMarked
<1>6. /\ q.cards = next /\ q.cursor = cursor /\ q.total = r.total /\ q.fetched = r.fetched
      /\ q.generation = r.generation /\ q.open = r.open
  BY <1>1
<1>7. IsRun(q)
  <2>1. AreCards(q.cards)
    BY <1>5, <1>6
  <2>2. q = [cards |-> q.cards, cursor |-> q.cursor, total |-> q.total,
             fetched |-> q.fetched, generation |-> q.generation, open |-> q.open]
    BY <1>1, <1>6
  <2> QED
    BY <2>1, <2>2 DEF IsRun
<1> QED
  BY <1>5, <1>6, <1>7 DEF AsIs, q

LEMMA StashedIs ==
  ASSUME IsRun(run)
  PROVE  AsIs(run, Stashed) /\ DOMAIN Stashed.cards = DOMAIN run.cards
<1>1. CASE ~HasCard(run)
  BY <1>1 DEF Stashed, AsIs
<1>2. CASE HasCard(run)
  <2> DEFINE k == run.cursor
             next == [run.cards EXCEPT ![k].draft = Draft]
  <2>1. Stashed = [cards |-> next, cursor |-> run.cursor, total |-> run.total,
                   fetched |-> run.fetched, generation |-> run.generation, open |-> run.open]
    BY <1>2 DEF IsRun, Stashed
  <2>2. AreCards(run.cards) /\ DOMAIN run.cards = 1 .. Len(run.cards) /\ k \in 1 .. Len(run.cards)
    BY <1>2 DEF IsRun, AreCards, HasCard
  <2>3. /\ next = [n \in 1 .. Len(run.cards) |-> next[n]]
        /\ \A n \in 1 .. Len(run.cards) :
              next[n] = IF n = k THEN [run.cards[n] EXCEPT !.draft = Draft] ELSE run.cards[n]
    BY <2>2
  <2>4. \A n \in 1 .. Len(run.cards) : IsCard(next[n]) /\ next[n].index = run.cards[n].index
    <3> SUFFICES ASSUME NEW n \in 1 .. Len(run.cards)
                 PROVE  IsCard(next[n]) /\ next[n].index = run.cards[n].index
      OBVIOUS
    <3>1. IsCard(run.cards[n])
      BY <2>2 DEF AreCards
    <3> HIDE DEF next
    <3> QED
      BY <2>3, <3>1 DEF IsCard
  <2> HIDE DEF next
  <2>5. AreCards(next) /\ Indices(next) = Indices(run.cards) /\ DOMAIN next = 1 .. Len(run.cards)
    BY <2>2, <2>3, <2>4, CardsMarked
  <2> QED
    BY <2>1, <2>2, <2>5 DEF AsIs, IsRun
<1> QED
  BY <1>1, <1>2

\* replaceCards changes the cards and the cursor.
LEMMA ReplaceIs ==
  ASSUME NEW r, IsRun(r), NEW next, AreCards(next)
  PROVE  /\ IsRun(Replace(r, next)) /\ Replace(r, next).cards = next
         /\ Replace(r, next).total = r.total /\ Replace(r, next).fetched = r.fetched
         /\ Replace(r, next).generation = r.generation /\ Replace(r, next).open = r.open
<1>1. PICK cursor : Replace(r, next) = [r EXCEPT !.cards = next, !.cursor = cursor]
  BY DEF Replace
<1>2. Replace(r, next) = [cards |-> next, cursor |-> cursor, total |-> r.total,
                          fetched |-> r.fetched, generation |-> r.generation, open |-> r.open]
  BY <1>1 DEF IsRun
<1> QED
  BY <1>2 DEF IsRun

\* The cards of a page's items, and those there were: every item has its card.
LEMMA NewCardsAre ==
  ASSUME NEW items \in Seq(Items), NEW cards, AreCards(cards), NEW next, AreCards(next)
  PROVE  LET all == next \o CardsOf(New(items, cards))
         IN  /\ AreCards(all) /\ Indices(next) \subseteq Indices(all)
             /\ \A n \in 1 .. Len(items) : items[n].index \in Indices(cards) \cup Indices(all)
<1> DEFINE places == {n \in DOMAIN items : items[n].index \notin Indices(cards)}
           new == New(items, cards)
           all == next \o CardsOf(new)
<1>1. Len(items) \in Nat /\ DOMAIN items = 1 .. Len(items)
  BY LenProperties
<1>2. /\ new \in Seq(Items)
      /\ \A n \in DOMAIN items : n \in places =>
            \E k \in DOMAIN new : new[k] = items[n]
  <2>1. new = Picked(items, places)
    BY DEF New
  <2> HIDE DEF places, new
  <2> QED
    BY <2>1, PickedIs
<1> HIDE DEF new, all
<1>3. Len(new) \in Nat /\ DOMAIN new = 1 .. Len(new) /\ \A k \in DOMAIN new : new[k] \in Items
  BY <1>2, LenProperties, ElementOfSeq
<1> DEFINE S == Range(next) \cup {CardOf(i) : i \in Items}
<1>4. \A c \in S : IsCard(c)
  <2>1. \A c \in Range(next) : IsCard(c)
    BY DEF AreCards, Range
  <2>2. \A i \in Items : IsCard(CardOf(i))
    BY DEF CardOf, IsCard
  <2> QED
    BY <2>1, <2>2
<1>5. /\ CardsOf(new) \in Seq(S) /\ Len(CardsOf(new)) = Len(new)
      /\ \A k \in 1 .. Len(new) : CardsOf(new)[k] = CardOf(new[k])
  <2>1. CardsOf(new) = [k \in 1 .. Len(new) |-> CardOf(new[k])]
    BY <1>3 DEF CardsOf
  <2>2. \A k \in 1 .. Len(new) : CardOf(new[k]) \in S
    BY <1>3
  <2> HIDE DEF S
  <2> QED
    BY <1>3, <2>1, <2>2
<1>6. next \in Seq(S)
  BY SeqMonotonic DEF AreCards
<1> HIDE DEF S
<1>7. /\ all \in Seq(S) /\ Len(next) \in Nat /\ Len(all) = Len(next) + Len(new)
      /\ \A n \in 1 .. Len(next) : all[n] = next[n]
      /\ \A k \in 1 .. Len(new) : all[Len(next) + k] = CardOf(new[k])
  <2>1. Len(next) \in Nat
    BY <1>6, LenProperties
  <2>2. \A k \in 1 .. Len(new) : Len(next) + k \in Len(next) + 1 .. Len(next) + Len(new)
                                 /\ Len(next) + k - Len(next) = k
    BY <1>3, <2>1
  <2> DEFINE more == CardsOf(new)
  <2>3. more \in Seq(S) /\ Len(more) = Len(new) /\ \A k \in 1 .. Len(new) : more[k] = CardOf(new[k])
    BY <1>5
  <2>4. all = next \o more
    BY DEF all
  <2> HIDE DEF more
  <2>5. /\ all \in Seq(S) /\ Len(all) = Len(next) + Len(more)
        /\ \A n \in 1 .. Len(next) + Len(more) :
              all[n] = IF n <= Len(next) THEN next[n] ELSE more[n - Len(next)]
    <3>1. next \in Seq(S) /\ more \in Seq(S)
      BY <1>6, <2>3
    <3>2. /\ next \o more \in Seq(S) /\ Len(next \o more) = Len(next) + Len(more)
          /\ \A n \in 1 .. Len(next) + Len(more) :
                (next \o more)[n] = IF n <= Len(next) THEN next[n] ELSE more[n - Len(next)]
      BY <3>1, ConcatProperties, Zenon
    <3> QED
      BY <2>4, <3>2, Zenon
  <2>6. \A n \in 1 .. Len(next) : n \in 1 .. Len(next) + Len(more) /\ n <= Len(next)
    BY <1>3, <2>1, <2>3
  <2>7. \A k \in 1 .. Len(new) :
           /\ Len(next) + k \in 1 .. Len(next) + Len(more) /\ ~(Len(next) + k <= Len(next))
    BY <1>3, <2>1, <2>3
  <2>8. \A n \in 1 .. Len(next) : all[n] = next[n]
    BY <2>5, <2>6
  <2>9. ASSUME NEW k \in 1 .. Len(new) PROVE all[Len(next) + k] = CardOf(new[k])
    <3>1. all[Len(next) + k] = more[Len(next) + k - Len(next)]
      BY <2>5, <2>7
    <3> QED
      BY <2>2, <2>3, <3>1
  <2> QED
    BY <2>1, <2>3, <2>5, <2>8, <2>9
<1>8. AreCards(all) /\ DOMAIN all = 1 .. Len(all)
  BY <1>4, <1>7, CardsFrom, LenProperties
<1>9. Indices(next) \subseteq Indices(all)
  <2> SUFFICES ASSUME NEW n \in 1 .. Len(next) PROVE next[n].index \in Indices(all)
    BY DEF Indices, AreCards
  <2>1. n \in DOMAIN all /\ all[n] = next[n]
    BY <1>3, <1>7, <1>8
  <2> QED
    BY <2>1 DEF Indices
<1>10. ASSUME NEW n \in 1 .. Len(items), n \in places PROVE items[n].index \in Indices(all)
  <2>1. PICK k \in 1 .. Len(new) : new[k] = items[n]
    BY <1>1, <1>2, <1>3, <1>10
  <2>2. Len(next) + k \in DOMAIN all
    BY <1>3, <1>7, <1>8
  <2>3. all[Len(next) + k] = CardOf(items[n])
    BY <1>7, <2>1, Zenon
  <2>4. all[Len(next) + k].index = items[n].index
    BY <2>3 DEF CardOf
  <2> QED
    BY <2>2, <2>4 DEF Indices
<1> QED
  BY <1>1, <1>8, <1>9, <1>10 DEF all, new

\* What is picked of a run's cards, changed or not, are cards.
LEMMA PickedCards ==
  ASSUME NEW S, \A c \in S : IsCard(c), NEW next \in Seq(S), NEW places
  PROVE  /\ AreCards(Picked(next, places))
         /\ \A n \in DOMAIN next : n \in places => next[n].index \in Indices(Picked(next, places))
<1>1. /\ Picked(next, places) \in Seq(S)
      /\ \A n \in DOMAIN next : n \in places =>
            \E k \in DOMAIN Picked(next, places) : Picked(next, places)[k] = next[n]
  BY PickedIs
<1>2. AreCards(Picked(next, places))
  BY <1>1, CardsFrom
<1> QED
  BY <1>1, <1>2 DEF Indices

LEMMA AppliedIs ==
  ASSUME NEW r, IsRun(r), NEW reply
  PROVE  LET q == Applied(r, reply)
         IN  IsRun(q) /\ q.total = r.total /\ q.fetched = r.fetched
             /\ q.generation = reply.generation /\ q.open = r.open
<1> DEFINE of(c) == reply.edited[c.index]
           fresh(c) == c.index \in DOMAIN reply.edited
           stays(c) == \/ ~fresh(c) \/ c.index = reply.save.card
                       \/ c.status \notin {"open", "skipped"}
           after(c) == CASE ~fresh(c) -> c
                         [] fresh(c) /\ c.index = reply.save.card ->
                              [c EXCEPT !.print = of(c), !.status = "saved", !.draft = Nil]
                         [] OTHER -> [c EXCEPT !.print = of(c)]
           mapped == [n \in DOMAIN r.cards |-> after(r.cards[n])]
           next == Picked(mapped, {n \in DOMAIN r.cards : stays(r.cards[n])})
<1>1. Applied(r, reply) = [Replace(r, next) EXCEPT !.generation = reply.generation]
  BY DEF Applied
<1>2. AreCards(r.cards) /\ DOMAIN r.cards = 1 .. Len(r.cards)
  BY DEF IsRun, AreCards
<1>3. ASSUME NEW c, IsCard(c) PROVE IsCard(after(c))
  <2> DEFINE y == after(c)
             print == of(c)
  <2>1. \/ y = c
        \/ y = [c EXCEPT !.print = print, !.status = "saved", !.draft = Nil]
        \/ y = [c EXCEPT !.print = print]
    OBVIOUS
  <2> HIDE DEF y, print
  <2>2. IsCard(y)
    BY <1>3, <2>1 DEF IsCard
  <2> QED
    BY <2>2 DEF y
<1> HIDE DEF after, stays
<1> DEFINE S == {after(r.cards[n]) : n \in DOMAIN r.cards}
<1>4. mapped \in Seq(S) /\ \A c \in S : IsCard(c)
  <2>1. \A n \in DOMAIN r.cards : IsCard(after(r.cards[n]))
    BY <1>2, <1>3 DEF AreCards
  <2> QED
    BY <1>2, <2>1 DEF AreCards
<1> HIDE DEF mapped, S
<1>5. AreCards(next)
  BY <1>4, PickedCards
<1> HIDE DEF next
<1>6. /\ IsRun(Replace(r, next)) /\ Replace(r, next).total = r.total
      /\ Replace(r, next).fetched = r.fetched /\ Replace(r, next).open = r.open
  BY <1>5, ReplaceIs
<1> DEFINE p == Replace(r, next)
           q == Applied(r, reply)
<1>7. q = [p EXCEPT !.generation = reply.generation]
  BY <1>1
<1> HIDE DEF p, q
<1>8. IsRun(q) /\ q.total = p.total /\ q.fetched = p.fetched
      /\ q.generation = reply.generation /\ q.open = p.open
  BY <1>6, <1>7 DEF p, IsRun
<1> QED
  BY <1>6, <1>8 DEF p, q

\* A re-reading leaves a card of every item it read.
LEMMA ReconciledIs ==
  ASSUME NEW r, IsRun(r), NEW page \in Pages
  PROVE  LET q == Reconciled(r, page)
         IN  /\ IsRun(q) /\ q.total = page.total /\ q.generation = page.generation
             /\ q.fetched = IF r.fetched < Len(page.items) THEN Len(page.items) ELSE r.fetched
             /\ q.open = r.open
             /\ \A n \in 1 .. Len(page.items) : page.items[n].index \in Indices(q.cards)
<1> DEFINE item(c) == {page.items[n] : n \in {n \in DOMAIN page.items :
                                                page.items[n].index = c.index}}
           stays(n) == r.cards[n].status = "saved" \/ item(r.cards[n]) # {} \/ n = r.cursor
           fresh(n) == LET c == r.cards[n]
                           i == CHOOSE i \in item(c) : TRUE IN
                       CASE c.status = "saved" \/ item(c) = {} -> c
                         [] c.status # "saved" /\ item(c) # {} /\ i.print # c.print ->
                              [c EXCEPT !.print = i.print,
                                        !.draft = IF n = r.cursor THEN @ ELSE Nil]
                         [] OTHER -> c
           mapped == [n \in DOMAIN r.cards |-> fresh(n)]
           places == {n \in DOMAIN r.cards : stays(n)}
           next == Picked(mapped, places)
           all == next \o CardsOf(New(page.items, r.cards))
           fetched == IF r.fetched < Len(page.items) THEN Len(page.items) ELSE r.fetched
<1>1. /\ page.items \in Seq(Items) /\ Len(page.items) \in Nat
      /\ DOMAIN page.items = 1 .. Len(page.items)
  BY LenProperties DEF Pages
<1>2. AreCards(r.cards) /\ DOMAIN r.cards = 1 .. Len(r.cards)
      /\ \A n \in DOMAIN r.cards : IsCard(r.cards[n])
  BY DEF IsRun, AreCards
<1>3. ASSUME NEW n \in DOMAIN r.cards
      PROVE  IsCard(fresh(n)) /\ fresh(n).index = r.cards[n].index
  <2> DEFINE c == r.cards[n]
             y == fresh(n)
             print == (CHOOSE i \in item(c) : TRUE).print
             draft == IF n = r.cursor THEN c.draft ELSE Nil
  <2>1. y = c \/ y = [c EXCEPT !.print = print, !.draft = draft]
    OBVIOUS
  <2>2. IsCard(c)
    BY <1>2
  <2> HIDE DEF c, y, print, draft
  <2>3. IsCard(y) /\ y.index = c.index
    BY <2>1, <2>2 DEF IsCard
  <2> QED
    BY <2>3 DEF c, y
<1>4. \A n \in 1 .. Len(page.items), m \in DOMAIN r.cards :
         r.cards[m].index = page.items[n].index => m \in places
  BY <1>1
<1>5. Reconciled(r, page) = [Replace(r, all) EXCEPT
         !.generation = page.generation, !.total = page.total, !.fetched = fetched]
  <2>1. Reconciled(r, page) = [Replace(r, all) EXCEPT
          !.generation = page.generation, !.total = page.total,
          !.fetched = IF @ < Len(page.items) THEN Len(page.items) ELSE @]
    BY DEF Reconciled
  <2> QED
    BY <2>1 DEF Replace, IsRun
<1> HIDE DEF fresh, places
<1> DEFINE S == {fresh(n) : n \in DOMAIN r.cards}
<1>6. /\ mapped \in Seq(S) /\ \A c \in S : IsCard(c)
      /\ DOMAIN mapped = DOMAIN r.cards
      /\ \A n \in DOMAIN r.cards : mapped[n].index = r.cards[n].index
  BY <1>2, <1>3 DEF AreCards
<1> HIDE DEF mapped, S
<1>7. /\ AreCards(next)
      /\ \A n \in DOMAIN r.cards : n \in places => r.cards[n].index \in Indices(next)
  <2>1. /\ AreCards(next)
        /\ \A n \in DOMAIN mapped : n \in places => mapped[n].index \in Indices(next)
    BY <1>6, PickedCards
  <2> QED
    BY <1>6, <2>1
<1> HIDE DEF next
<1>8. /\ AreCards(all) /\ Indices(next) \subseteq Indices(all)
      /\ \A n \in 1 .. Len(page.items) :
            page.items[n].index \in Indices(r.cards) \cup Indices(all)
  BY <1>1, <1>2, <1>7, NewCardsAre
<1>9. \A n \in 1 .. Len(page.items) : page.items[n].index \in Indices(all)
  <2> SUFFICES ASSUME NEW n \in 1 .. Len(page.items), page.items[n].index \in Indices(r.cards)
               PROVE  page.items[n].index \in Indices(all)
    BY <1>8
  <2>1. PICK m \in DOMAIN r.cards : r.cards[m].index = page.items[n].index
    BY DEF Indices
  <2> QED
    BY <1>4, <1>7, <1>8, <2>1
<1> HIDE DEF all, fetched
<1>10. IsRun(Replace(r, all)) /\ Replace(r, all).cards = all /\ Replace(r, all).open = r.open
  BY <1>8, ReplaceIs
<1> DEFINE p == Replace(r, all)
           q == Reconciled(r, page)
<1>11. q = [p EXCEPT !.generation = page.generation, !.total = page.total, !.fetched = fetched]
  BY <1>5
<1> HIDE DEF p, q
<1>12. IsRun(q) /\ q.cards = p.cards /\ q.total = page.total /\ q.fetched = fetched
       /\ q.generation = page.generation /\ q.open = p.open
  BY <1>10, <1>11 DEF p, IsRun
<1> QED
  BY <1>9, <1>10, <1>12 DEF p, q, fetched

\* Nothing of a run's saves is under way, and none failed.
NothingPends ==
    run.open /\ saves = <<>> /\ \A n \in DOMAIN told : told[n] # "failed"
ListIsHere == again # Nil /\ again.state = "answered"

RunIsWhole ==
    /\ journal \in ReviewJournals /\ IsRun(run)
    /\ run.total \in Nat /\ run.fetched \in Nat /\ run.generation \in Nat /\ seen \in Nat
    /\ run.fetched = 0 => run.total = 0

\* What was heard of the journal is of an earlier one, or of this one.
GenerationsAreOld ==
    /\ run.generation <= journal.generation /\ seen <= journal.generation
    /\ wire # Nil /\ wire.state = "ok" =>
         wire.generation \in Nat /\ wire.generation <= journal.generation
    /\ ListIsHere => again.page \in Pages /\ again.page.generation <= journal.generation

\* A page continues those there are, and what it was read from is still so.
PagesInTurn ==
    /\ paging # Nil => run.fetched > 0
    /\ paging # Nil /\ paging.state = "asked" => paging.offset = run.fetched
    /\ paging # Nil /\ paging.state = "answered" =>
         /\ ~Rereading /\ run.generation = journal.generation
         /\ paging.page = Listing(journal, PageSize, run.fetched)

\* A re-reading covers all the pages there are.
RereadsWhatItFetched ==
    /\ again # Nil /\ again.state = "asked" => again = Asked(run)
    /\ ListIsHere =>
         /\ Len(again.page.items) <= Asked(run).limit
         /\ Len(again.page.items) = 0 => again.page.total = 0
         /\ again.page.generation = journal.generation =>
              again.page = Listing(journal, Asked(run).limit, 0)

\* With nothing of its own pending the run is of the generation the page knows of,
\* or the page has yet to be told, or the queue is being read again.
HearsOfChanges ==
    NothingPends =>
        /\ again = Nil /\ seen = journal.generation => run.generation = journal.generation
        /\ ListIsHere /\ again.page.generation # journal.generation =>
             seen # journal.generation /\ run.generation # journal.generation

\* Of a journal that has not changed since, all that was fetched has a card.
ShowsWhatItFetched ==
    NothingPends /\ again = Nil /\ run.generation = journal.generation =>
        /\ run.total = Len(Unknowns(journal))
        /\ \A n \in 1 .. run.total :
              n <= run.fetched => Unknowns(journal)[n].index \in Indices(run.cards)

PagesInv ==
    /\ RunIsWhole /\ GenerationsAreOld /\ PagesInTurn
    /\ RereadsWhatItFetched /\ HearsOfChanges /\ ShowsWhatItFetched

LEMMA AskedIs ==
  ASSUME NEW r, r.fetched \in Nat
  PROVE  /\ Asked(r) # Nil /\ Asked(r).state = "asked"
         /\ Asked(r).limit = IF r.fetched > 0 THEN r.fetched ELSE PageSize
         /\ Asked(r).limit \in Nat \ {0}
<1> DEFINE limit == IF r.fetched > 0 THEN r.fetched ELSE PageSize
<1>1. limit \in Nat \ {0}
  BY ReviewAssumption
<1>2. Asked(r) = [state |-> "asked", limit |-> limit]
  BY DEF Asked
<1> HIDE DEF limit
<1>3. Asked(r) \in [state : {"asked"}, limit : Nat]
  BY <1>1, <1>2
<1> QED
  BY <1>1, <1>2, <1>3, ReviewAssumption DEF limit

LEMMA AnsweredIs ==
  ASSUME NEW page \in Pages
  PROVE  [state |-> "answered", page |-> page] # Nil
<1>1. [state |-> "answered", page |-> page] \in [state : {"answered"}, page : Pages]
  OBVIOUS
<1> QED
  BY <1>1, ReviewAssumption

LEMMA FailedIs == [state |-> "failed"] # Nil
<1>1. [state |-> "failed"] \in [state : {"failed"}]
  OBVIOUS
<1> QED
  BY <1>1, ReviewAssumption

LEMMA PageForIs ==
  ASSUME NEW r, r.fetched \in Nat, r.total \in Nat, r.fetched = 0 => r.total = 0, NEW now
  PROVE  \/ PageFor(r, now) = now
         \/ /\ PageFor(r, now).state = "asked" /\ PageFor(r, now).offset = r.fetched
            /\ r.fetched > 0
<1>1. CASE now # Nil \/ r.fetched >= r.total \/ (r.cursor - 1) + PageAhead < Len(r.cards)
  BY <1>1 DEF PageFor
<1>2. CASE ~(now # Nil \/ r.fetched >= r.total \/ (r.cursor - 1) + PageAhead < Len(r.cards))
  <2>1. PageFor(r, now) = [state |-> "asked", offset |-> r.fetched]
    BY <1>2 DEF PageFor
  <2>2. r.fetched > 0
    BY <1>2
  <2> QED
    BY <2>1, <2>2
<1> QED
  BY <1>1, <1>2

\* The user moves and types.
LEMMA MovingKeepsPages ==
  ASSUME PagesInv, AsIs(run, run'), UNCHANGED <<journal, wire, again, seen>>,
         paging' = paging \/ paging' = PageFor(run', paging),
         (saves' = saves /\ told' = told) \/ saves' # <<>>
  PROVE  PagesInv'
<1>1. /\ run'.total = run.total /\ run'.fetched = run.fetched
      /\ run'.generation = run.generation /\ run'.open = run.open
      /\ IsRun(run') /\ Indices(run'.cards) = Indices(run.cards)
  BY DEF AsIs
<1>2. RunIsWhole'
  BY <1>1 DEF PagesInv, RunIsWhole
<1>3. Asked(run') = Asked(run) /\ ListIsHere' = ListIsHere /\ Rereading' = Rereading
  BY <1>1 DEF Asked, ListIsHere, Rereading
<1>4. GenerationsAreOld'
  BY <1>1, <1>3 DEF PagesInv, GenerationsAreOld
<1>5. RereadsWhatItFetched'
  BY <1>3 DEF PagesInv, RereadsWhatItFetched
<1>6. PagesInTurn'
  <2>1. CASE paging' = paging
    BY <1>1, <1>3, <2>1 DEF PagesInv, PagesInTurn
  <2>2. CASE paging'.state = "asked" /\ paging'.offset = run'.fetched /\ run'.fetched > 0
    BY <2>2 DEF PagesInTurn
  <2> QED
    BY <1>2, <2>1, <2>2, PageForIs DEF RunIsWhole
<1>7. NothingPends' => NothingPends
  BY <1>1 DEF NothingPends
<1>8. HearsOfChanges' /\ ShowsWhatItFetched'
  BY <1>1, <1>3, <1>7 DEF PagesInv, HearsOfChanges, ShowsWhatItFetched
<1> QED
  BY <1>2, <1>4, <1>5, <1>6, <1>8 DEF PagesInv

\* The journal changes, by a save or elsewhere, while no page is on its way.
LEMMA ChangesKeepPages ==
  ASSUME PagesInv, ~Overlap, Clear, journal' \in ReviewJournals,
         journal'.generation = journal.generation + 1,
         UNCHANGED <<run, saves, paging, again, seen, told>>,
         wire' = wire \/ wire'.generation = journal'.generation
  PROVE  PagesInv'
<1>1. journal.generation \in Nat /\ run.generation \in Nat /\ seen \in Nat
  BY DEF PagesInv, RunIsWhole, ReviewJournals
<1>2. ListIsHere' = ListIsHere
  BY DEF ListIsHere
<1>3. ListIsHere => again.page.generation \in Nat
                    /\ again.page.generation <= journal.generation
  BY DEF PagesInv, GenerationsAreOld, Pages
<1>4. /\ run'.generation # journal'.generation /\ seen' # journal'.generation
      /\ ListIsHere' => again'.page.generation # journal'.generation
  BY <1>1, <1>2, <1>3 DEF PagesInv, GenerationsAreOld
<1>5. RunIsWhole'
  BY DEF PagesInv, RunIsWhole
<1>6. GenerationsAreOld'
  <2>1. wire' # Nil /\ wire'.state = "ok" =>
          wire'.generation \in Nat /\ wire'.generation <= journal'.generation
    BY <1>1 DEF PagesInv, GenerationsAreOld
  <2>2. run'.generation <= journal'.generation /\ seen' <= journal'.generation
    BY <1>1 DEF PagesInv, GenerationsAreOld
  <2>3. ListIsHere' => again'.page \in Pages /\ again'.page.generation <= journal'.generation
    BY <1>1, <1>2, <1>3 DEF PagesInv, GenerationsAreOld
  <2> QED
    BY <2>1, <2>2, <2>3 DEF GenerationsAreOld
<1>7. PagesInTurn'
  BY DEF PagesInv, PagesInTurn, Clear
<1>8. RereadsWhatItFetched'
  BY <1>2, <1>4 DEF PagesInv, RereadsWhatItFetched, Asked
<1>9. HearsOfChanges' /\ ShowsWhatItFetched'
  BY <1>4 DEF HearsOfChanges, ShowsWhatItFetched
<1> QED
  BY <1>5, <1>6, <1>7, <1>8, <1>9 DEF PagesInv

\* The wire alone changes.
LEMMA WireKeepsPages ==
  ASSUME PagesInv, UNCHANGED <<journal, run, saves, paging, again, seen, told>>,
         wire' # Nil /\ wire'.state = "ok" =>
           wire'.generation \in Nat /\ wire'.generation <= journal.generation
  PROVE  PagesInv'
<1>1. ListIsHere' = ListIsHere /\ Rereading' = Rereading /\ NothingPends' = NothingPends
  BY DEF ListIsHere, Rereading, NothingPends
<1> QED
  BY <1>1
     DEF PagesInv, RunIsWhole, GenerationsAreOld, PagesInTurn, RereadsWhatItFetched, Asked,
         HearsOfChanges, ShowsWhatItFetched

LEMMA JournalFrom ==
  ASSUME NEW order \in Seq(Txns \cup {Newcomer}),
         NEW text \in [Txns \cup {Newcomer} -> [own : Nat, others : Nat]],
         NEW unknown \in SUBSET (Txns \cup {Newcomer}), NEW generation \in Nat
  PROVE  LET b == [order |-> order, text |-> text, unknown |-> unknown,
                   generation |-> generation + 1]
         IN  b \in ReviewJournals /\ b.generation = generation + 1
  BY DEF ReviewJournals

LEMMA OthersKeepPages ==
  ASSUME PagesInv, ~Overlap, NEW kind, NEW t \in Txns, Others(kind, t)
  PROVE  PagesInv'
<1>1. Clear /\ UNCHANGED <<run, wire, saves, paging, again, seen, told>>
  BY DEF Others
<1>2. journal \in ReviewJournals
  BY DEF PagesInv, RunIsWhole
<1>3. journal.order \in Seq(Txns \cup {Newcomer})
      /\ journal.text \in [Txns \cup {Newcomer} -> [own : Nat, others : Nat]]
      /\ journal.unknown \in SUBSET (Txns \cup {Newcomer}) /\ journal.generation \in Nat
  BY <1>2 DEF ReviewJournals
<1> DEFINE text == [journal.text EXCEPT ![t].others = @ + 1]
<1>4. text \in [Txns \cup {Newcomer} -> [own : Nat, others : Nat]]
  BY <1>3
<1>5. journal' \in ReviewJournals /\ journal'.generation = journal.generation + 1
  <2>1. ASSUME journal' = [journal EXCEPT !.text[t].others = @ + 1, !.generation = @ + 1]
        PROVE  journal' \in ReviewJournals /\ journal'.generation = journal.generation + 1
    <3>1. journal' = [journal EXCEPT !.text = text, !.generation = journal.generation + 1]
      BY <2>1, <1>2 DEF ReviewJournals
    <3> HIDE DEF text
    <3>2. journal' = [order |-> journal.order, text |-> text, unknown |-> journal.unknown,
                      generation |-> journal.generation + 1]
      BY <3>1, <1>2 DEF ReviewJournals
    <3> QED
      BY <3>2, <1>3, <1>4, JournalFrom
  <2>2. ASSUME journal' = [journal EXCEPT !.text[t].others = @ + 1, !.unknown = @ \ {t},
                                          !.generation = @ + 1]
        PROVE  journal' \in ReviewJournals /\ journal'.generation = journal.generation + 1
    <3>1. journal' = [journal EXCEPT !.text = text, !.unknown = journal.unknown \ {t},
                                     !.generation = journal.generation + 1]
      BY <2>2, <1>2 DEF ReviewJournals
    <3> DEFINE unknown == journal.unknown \ {t}
    <3> HIDE DEF text, unknown
    <3>2. journal' = [order |-> journal.order, text |-> text, unknown |-> unknown,
                      generation |-> journal.generation + 1]
      BY <3>1, <1>2 DEF ReviewJournals, unknown
    <3>3. unknown \in SUBSET (Txns \cup {Newcomer})
      BY <1>3 DEF unknown
    <3> QED
      BY <3>2, <3>3, <1>3, <1>4, JournalFrom
  <2>3. ASSUME journal' = [journal EXCEPT !.order = <<Newcomer>> \o @,
                                          !.unknown = @ \cup {Newcomer},
                                          !.generation = @ + 1]
        PROVE  journal' \in ReviewJournals /\ journal'.generation = journal.generation + 1
    <3> DEFINE order == <<Newcomer>> \o journal.order
    <3>1. order \in Seq(Txns \cup {Newcomer})
      BY <1>3
    <3>2. journal' = [journal EXCEPT !.order = order, !.unknown = journal.unknown \cup {Newcomer},
                                     !.generation = journal.generation + 1]
      BY <2>3, <1>2 DEF ReviewJournals
    <3> DEFINE unknown == journal.unknown \cup {Newcomer}
    <3> HIDE DEF order, unknown
    <3>3. journal' = [order |-> order, text |-> journal.text, unknown |-> unknown,
                      generation |-> journal.generation + 1]
      BY <3>2, <1>2 DEF ReviewJournals, unknown
    <3>4. unknown \in SUBSET (Txns \cup {Newcomer})
      BY <1>3 DEF unknown
    <3> QED
      BY <3>1, <3>3, <3>4, <1>3, JournalFrom
  <2> QED
    BY <2>1, <2>2, <2>3 DEF Others
<1> QED
  BY <1>1, <1>5, ChangesKeepPages

LEMMA ServerKeepsPages ==
  ASSUME PagesInv, ~Overlap, ServerSaves
  PROVE  PagesInv'
<1>1. Clear /\ UNCHANGED <<run, saves, paging, again, seen, told>>
  BY DEF ServerSaves
<1>2. CASE Accepts(journal, wire.save.edits)
  <2>1. journal' = Written(journal, wire.save.edits) /\ wire'.generation = journal'.generation
    BY <1>2 DEF ServerSaves
  <2> DEFINE ids == {journal.order[e.index] : e \in wire.save.edits}
             text == [t \in DOMAIN journal.text |->
                        IF t \in ids THEN [journal.text[t] EXCEPT !.own = @ + 1]
                        ELSE journal.text[t]]
  <2>2. journal \in ReviewJournals
    BY DEF PagesInv, RunIsWhole
  <2>3. text \in [Txns \cup {Newcomer} -> [own : Nat, others : Nat]]
    <3>1. journal.text \in [Txns \cup {Newcomer} -> [own : Nat, others : Nat]]
      BY <2>2 DEF ReviewJournals
    <3> HIDE DEF ids
    <3> QED
      BY <3>1
  <2>4. journal' = [journal EXCEPT !.text = text, !.unknown = journal.unknown \ ids,
                                   !.generation = journal.generation + 1]
    BY <2>1, <2>2 DEF Written, ReviewJournals
  <2>5. journal' \in ReviewJournals /\ journal'.generation = journal.generation + 1
    <3> DEFINE unknown == journal.unknown \ ids
    <3>1. /\ journal.order \in Seq(Txns \cup {Newcomer}) /\ journal.generation \in Nat
          /\ unknown \in SUBSET (Txns \cup {Newcomer})
      BY <2>2 DEF ReviewJournals
    <3> HIDE DEF text, unknown
    <3>2. journal' = [order |-> journal.order, text |-> text, unknown |-> unknown,
                      generation |-> journal.generation + 1]
      BY <2>2, <2>4 DEF ReviewJournals, unknown
    <3> QED
      BY <2>3, <3>1, <3>2, JournalFrom
  <2> QED
    BY <1>1, <2>1, <2>5, ChangesKeepPages
<1>3. CASE ~Accepts(journal, wire.save.edits)
  <2>1. wire'.state = "conflict" /\ UNCHANGED journal
    BY <1>3 DEF ServerSaves
  <2> QED
    BY <1>1, <2>1, WireKeepsPages
<1> QED
  BY <1>2, <1>3

LEMMA WiringKeepsPages ==
  ASSUME PagesInv, Send \/ SaveIsLost \/ SaveIsNobodys
  PROVE  PagesInv'
<1>1. UNCHANGED <<journal, run, saves, paging, again, seen, told>>
  BY DEF Send, SaveIsLost, SaveIsNobodys
<1>2. ~(wire' # Nil /\ wire'.state = "ok")
  BY DEF Send, SaveIsLost, SaveIsNobodys
<1> QED
  BY <1>1, <1>2, WireKeepsPages

LEMMA UserKeepsPages ==
  ASSUME PagesInv, NEW similar, Type \/ Skip \/ Back \/ Save(similar)
  PROVE  PagesInv'
<1>1. IsRun(run)
  BY DEF PagesInv, RunIsWhole
<1>2. AsIs(run, Stashed) /\ DOMAIN Stashed.cards = DOMAIN run.cards /\ IsRun(Stashed)
  BY <1>1, StashedIs DEF AsIs
<1>3. CASE Type
  <2>1. AsIs(run, run')
    BY <1>1, <1>3 DEF Type, AsIs
  <2> QED
    BY <1>3, <2>1, MovingKeepsPages DEF Type
<1>4. CASE Skip
  <2>1. PICK status, cursor : run' = [Stashed EXCEPT !.cards[run.cursor].status = status,
                                                     !.cursor = cursor]
    BY <1>4 DEF Skip, Go, Show
  <2>2. run.cursor \in DOMAIN Stashed.cards
    BY <1>2, <1>4 DEF Skip, HasCard
  <2>3. AsIs(Stashed, run')
    BY <1>2, <2>1, <2>2, StatusSet
  <2>4. AsIs(run, run')
    BY <1>2, <2>3 DEF AsIs
  <2> QED
    BY <1>4, <2>4, MovingKeepsPages DEF Skip, Go, Show
<1>5. CASE Back
  <2> DEFINE cursor == Stashed.cursor - 1
             stashed == Stashed
  <2>1. run' = [stashed EXCEPT !.cursor = cursor]
    BY <1>5 DEF Back, Go, Show
  <2> HIDE DEF cursor, stashed
  <2>2. AsIs(stashed, run')
    BY <1>2, <2>1 DEF AsIs, IsRun, stashed
  <2>3. AsIs(run, run')
    BY <1>2, <2>2 DEF AsIs, stashed
  <2> QED
    BY <1>5, <2>3, MovingKeepsPages DEF Back, Go, Show
<1>6. CASE Save(similar)
  <2>1. PICK cursor : run' = [Stashed EXCEPT !.cards[run.cursor].status = "saving",
                                             !.cursor = cursor]
    BY <1>6 DEF Save, Go, Show
  <2>2. run.cursor \in DOMAIN Stashed.cards
    BY <1>2, <1>6 DEF Save, HasCard
  <2>3. AsIs(Stashed, run')
    BY <1>2, <2>1, <2>2, StatusSet
  <2>4. AsIs(run, run')
    BY <1>2, <2>3 DEF AsIs
  <2>5. PICK e : saves' = Append(saves, e)
    BY <1>6 DEF Save
  <2> QED
    BY <1>6, <2>4, <2>5, MovingKeepsPages DEF Save, Go, Show
<1> QED
  BY <1>3, <1>4, <1>5, <1>6

LEMMA ClosingKeepsPages ==
  ASSUME PagesInv, Close
  PROVE  PagesInv'
<1>1. /\ run' = [run EXCEPT !.open = FALSE, !.cards = <<>>, !.cursor = 1]
      /\ paging' = Nil /\ again' = Nil /\ UNCHANGED <<journal, wire, seen>>
  BY DEF Close
<1>2. IsRun(run)
  BY DEF PagesInv, RunIsWhole
<1>3. AreCards(<<>>)
  <2> DEFINE S == {}
  <2>1. <<>> \in Seq(S) /\ \A c \in S : IsCard(c)
    BY EmptySeq
  <2> HIDE DEF S
  <2> QED
    BY <2>1, CardsFrom
<1>4. /\ IsRun(run') /\ run'.open = FALSE /\ run'.total = run.total
      /\ run'.fetched = run.fetched /\ run'.generation = run.generation
  BY <1>1, <1>2, <1>3 DEF IsRun
<1>5. ~NothingPends' /\ ~ListIsHere'
  BY <1>1, <1>4 DEF NothingPends, ListIsHere
<1> QED
  BY <1>1, <1>4, <1>5
     DEF PagesInv, RunIsWhole, GenerationsAreOld, PagesInTurn, RereadsWhatItFetched,
         HearsOfChanges, ShowsWhatItFetched

\* A save's answer changes the cards; behind the last one the queue is read again.
LEMMA LandingKeepsPages ==
  ASSUME ReviewInv, PagesInv, ~Overlap, SaveLands
  PROVE  PagesInv'
<1>1. /\ Clear /\ wire # Nil /\ wire.state = "ok" /\ saves # <<>> /\ wire' = Nil
      /\ run' = Applied(run, wire) /\ paging' = PageFor(run', paging)
      /\ again' = IF Len(saves) = 1 THEN Asked(run') ELSE again
      /\ saves' = Tail(saves) /\ UNCHANGED <<journal, seen>>
  BY DEF SaveLands, Go, Show
<1>2. IsRun(run)
  BY DEF PagesInv, RunIsWhole
<1>3. /\ IsRun(run') /\ run'.total = run.total /\ run'.fetched = run.fetched
      /\ run'.generation = wire.generation
  BY <1>1, <1>2, AppliedIs
<1>4. /\ run'.generation \in Nat /\ run'.generation <= journal'.generation
      /\ run'.fetched \in Nat
  BY <1>1, <1>3 DEF PagesInv, GenerationsAreOld, RunIsWhole
<1>5. Asked(run') = Asked(run)
  BY <1>3 DEF Asked
<1>6. again' = again \/ (again' = Asked(run') /\ again' # Nil /\ ~ListIsHere')
  BY <1>1, <1>4, AskedIs DEF ListIsHere
<1>7. RunIsWhole'
  BY <1>1, <1>3, <1>4 DEF PagesInv, RunIsWhole
<1>8. GenerationsAreOld'
  BY <1>1, <1>4, <1>6 DEF PagesInv, GenerationsAreOld, ListIsHere
<1>9. PagesInTurn'
  <2>1. CASE paging' = paging
    BY <1>1, <1>3, <2>1 DEF PagesInv, PagesInTurn, Clear
  <2>2. CASE paging'.state = "asked" /\ paging'.offset = run'.fetched /\ run'.fetched > 0
    BY <2>2 DEF PagesInTurn
  <2> QED
    BY <1>1, <1>7, <2>1, <2>2, PageForIs DEF RunIsWhole
<1>10. RereadsWhatItFetched'
  BY <1>1, <1>5, <1>6 DEF PagesInv, RereadsWhatItFetched, ListIsHere
<1>11. NothingPends' => again' # Nil /\ ~ListIsHere'
  <2>1. saves \in Seq(Range(saves))
    BY DEF ReviewInv, QueuesAreOrderly
  <2>2. Len(Tail(saves)) = Len(saves) - 1 /\ Len(saves) \in Nat
    BY <1>1, <2>1, HeadTailProperties, LenProperties
  <2>3. Tail(saves) = <<>> => Len(saves) = 1
    <3>1. Tail(saves) = <<>> => Len(Tail(saves)) = 0
      BY EmptySeq
    <3> QED
      BY <2>2, <3>1
  <2> QED
    BY <1>1, <1>4, <2>3, AskedIs DEF NothingPends, ListIsHere
<1>12. HearsOfChanges' /\ ShowsWhatItFetched'
  BY <1>11 DEF HearsOfChanges, ShowsWhatItFetched
<1> QED
  BY <1>7, <1>8, <1>9, <1>10, <1>12 DEF PagesInv

LEMMA FailingKeepsPages ==
  ASSUME ReviewInv, PagesInv, ~Overlap, SaveFails
  PROVE  PagesInv'
<1> DEFINE s == wire.save
           reopened == {saves[n].card : n \in DOMAIN saves}
           next == [n \in DOMAIN run.cards |->
                      IF run.cards[n].index \in reopened /\ run.cards[n].status = "saving"
                      THEN [run.cards[n] EXCEPT !.status = "open"] ELSE run.cards[n]]
<1>1. /\ Clear /\ wire # Nil /\ wire.state \in {"conflict", "failed"} /\ wire' = Nil
      /\ paging' = PageFor(run', paging) /\ UNCHANGED <<journal, seen>>
      /\ again' = IF wire.state = "conflict" THEN Asked(run) ELSE again
  BY DEF SaveFails, Stop, Go, Show
<1>2. IsRun(run) /\ run.fetched \in Nat
  BY DEF PagesInv, RunIsWhole
<1>3. PICK cursor : run' = [run EXCEPT !.cards = next, !.cursor = cursor]
  BY <1>2 DEF SaveFails, Stop, Go, Show, IsRun
<1>4. AreCards(run.cards) /\ DOMAIN run.cards = 1 .. Len(run.cards)
  BY <1>2 DEF IsRun, AreCards
<1>5. AreCards(next) /\ Indices(next) = Indices(run.cards)
  <2>1. next = [n \in 1 .. Len(run.cards) |-> next[n]]
    BY <1>4
  <2>2. \A n \in 1 .. Len(run.cards) : IsCard(next[n]) /\ next[n].index = run.cards[n].index
    <3> SUFFICES ASSUME NEW n \in 1 .. Len(run.cards)
                 PROVE  IsCard(next[n]) /\ next[n].index = run.cards[n].index
      OBVIOUS
    <3> DEFINE y == next[n]
               c == run.cards[n]
    <3>1. IsCard(c)
      BY <1>4 DEF AreCards
    <3>2. y = c \/ y = [c EXCEPT !.status = "open"]
      BY <1>4
    <3> HIDE DEF y, c
    <3>3. IsCard(y) /\ y.index = c.index
      BY <3>1, <3>2 DEF IsCard
    <3> QED
      BY <3>3 DEF y, c
  <2> HIDE DEF next
  <2> QED
    BY <1>4, <2>1, <2>2, CardsMarked
<1> HIDE DEF next
<1>6. AsIs(run, run')
  BY <1>2, <1>3, <1>5 DEF AsIs, IsRun
<1>7. /\ run'.total = run.total /\ run'.fetched = run.fetched
      /\ run'.generation = run.generation /\ run'.open = run.open /\ IsRun(run')
  BY <1>6 DEF AsIs
<1>8. Asked(run') = Asked(run)
  BY <1>7 DEF Asked
<1>9. again' = again \/ (again' = Asked(run') /\ again' # Nil /\ ~ListIsHere')
  BY <1>1, <1>2, <1>8, AskedIs DEF ListIsHere
<1>10. RunIsWhole'
  BY <1>1, <1>7 DEF PagesInv, RunIsWhole
<1>11. GenerationsAreOld'
  BY <1>1, <1>7, <1>9 DEF PagesInv, GenerationsAreOld, ListIsHere
<1>12. PagesInTurn'
  <2>1. CASE paging' = paging
    BY <1>1, <1>7, <2>1 DEF PagesInv, PagesInTurn, Clear
  <2>2. CASE paging'.state = "asked" /\ paging'.offset = run'.fetched /\ run'.fetched > 0
    BY <2>2 DEF PagesInTurn
  <2> QED
    BY <1>1, <1>10, <2>1, <2>2, PageForIs DEF RunIsWhole
<1>13. RereadsWhatItFetched'
  BY <1>1, <1>8, <1>9 DEF PagesInv, RereadsWhatItFetched, ListIsHere
<1>14. NothingPends' => again' # Nil /\ ~ListIsHere'
  <2>1. CASE wire.state = "conflict"
    BY <1>1, <1>2, <2>1, AskedIs DEF ListIsHere
  <2>2. CASE wire.state = "failed"
    <3>1. s.number \in DOMAIN told
      BY <1>1 DEF ReviewInv, WireIsTheHead, Promised
    <3>2. told'[s.number] = "failed" /\ s.number \in DOMAIN told'
      BY <2>2, <3>1 DEF SaveFails, Stop
    <3> QED
      BY <3>2 DEF NothingPends
  <2> QED
    BY <1>1, <2>1, <2>2
<1>15. HearsOfChanges' /\ ShowsWhatItFetched'
  BY <1>14 DEF HearsOfChanges, ShowsWhatItFetched
<1> QED
  BY <1>10, <1>11, <1>12, <1>13, <1>15 DEF PagesInv

\* A page is asked for, read or lost.
LEMMA PagingKeepsPages ==
  ASSUME PagesInv, ~Overlap, ServerPages \/ PageFails
  PROVE  PagesInv'
<1>1. UNCHANGED <<journal, run, saves, wire, again, seen, told>>
  BY DEF ServerPages, PageFails
<1>2. PagesInTurn'
  <2>1. CASE ServerPages
    <3>1. /\ paging # Nil /\ paging.state = "asked" /\ ~Rereading
          /\ run.generation = journal.generation
          /\ paging' = [state |-> "answered", page |-> Listing(journal, PageSize, paging.offset)]
      BY <2>1 DEF ServerPages
    <3>2. paging.offset = run.fetched /\ run.fetched > 0
      BY <3>1 DEF PagesInv, PagesInTurn
    <3>3. paging'.state = "answered" /\ paging'.page = Listing(journal, PageSize, run.fetched)
      BY <3>1, <3>2
    <3> QED
      BY <1>1, <3>1, <3>2, <3>3 DEF PagesInTurn, Rereading
  <2>2. CASE PageFails
    BY <2>2 DEF PageFails, PagesInTurn
  <2> QED
    BY <2>1, <2>2
<1>3. ListIsHere' = ListIsHere /\ NothingPends' = NothingPends
  BY <1>1 DEF ListIsHere, NothingPends
<1> QED
  BY <1>1, <1>2, <1>3
     DEF PagesInv, RunIsWhole, GenerationsAreOld, RereadsWhatItFetched, Asked,
         HearsOfChanges, ShowsWhatItFetched

LEMMA ArrivingKeepsPages ==
  ASSUME PagesInv, ~Overlap, PageArrives
  PROVE  PagesInv'
<1> DEFINE page == paging.page
           items == paging.page.items
           all == run.cards \o CardsOf(New(items, run.cards))
           p == Replace(run, all)
           fetched == run.fetched + Len(items)
<1>1. /\ paging # Nil /\ paging.state = "answered" /\ paging' = Nil
      /\ run' = [p EXCEPT !.fetched = @ + Len(items), !.total = page.total]
      /\ UNCHANGED <<journal, saves, wire, again, seen, told>>
  BY DEF PageArrives, Show
<1>2. IsRun(run) /\ journal \in ReviewJournals /\ run.fetched \in Nat /\ run.total \in Nat
      /\ run.generation \in Nat /\ run.fetched > 0
  BY <1>1 DEF PagesInv, RunIsWhole, PagesInTurn
<1>3. /\ ~Rereading /\ run.generation = journal.generation
      /\ page = Listing(journal, PageSize, run.fetched)
  BY <1>1 DEF PagesInv, PagesInTurn
<1>4. /\ page \in Pages /\ page.total = Len(Unknowns(journal))
      /\ \A n \in 1 .. Len(items) :
            run.fetched + n <= page.total /\ items[n] = Unknowns(journal)[run.fetched + n]
  <2>1. PageSize \in Nat
    BY ReviewAssumption
  <2> QED
    BY <1>2, <1>3, <2>1, ListingIs
<1>5. items \in Seq(Items) /\ Len(items) \in Nat /\ page.total \in Nat
  BY <1>4, LenProperties DEF Pages
<1> HIDE DEF page, items
<1>6. /\ AreCards(all) /\ Indices(run.cards) \subseteq Indices(all)
      /\ \A n \in 1 .. Len(items) : items[n].index \in Indices(run.cards) \cup Indices(all)
  BY <1>2, <1>5, NewCardsAre DEF IsRun
<1> HIDE DEF all
<1>7. /\ IsRun(p) /\ p.cards = all /\ p.fetched = run.fetched
      /\ p.generation = run.generation /\ p.open = run.open
  BY <1>2, <1>6, ReplaceIs
<1> HIDE DEF p
<1>8. /\ IsRun(run') /\ run'.cards = all /\ run'.fetched = fetched /\ run'.total = page.total
      /\ run'.generation = run.generation /\ run'.open = run.open
  <2>1. run' = [p EXCEPT !.fetched = fetched, !.total = page.total]
    BY <1>1, <1>7 DEF IsRun
  <2> HIDE DEF fetched
  <2> QED
    BY <1>7, <2>1 DEF IsRun
<1>9. RunIsWhole'
  BY <1>1, <1>2, <1>5, <1>8 DEF PagesInv, RunIsWhole
<1>10. ListIsHere' = ListIsHere /\ ~ListIsHere /\ (NothingPends' => NothingPends)
       /\ ~(again # Nil /\ again.state = "asked")
  BY <1>1, <1>3, <1>8 DEF ListIsHere, NothingPends, Rereading
<1>11. GenerationsAreOld' /\ PagesInTurn' /\ RereadsWhatItFetched' /\ HearsOfChanges'
  BY <1>1, <1>8, <1>10
     DEF PagesInv, GenerationsAreOld, PagesInTurn, RereadsWhatItFetched, HearsOfChanges
<1>12. ShowsWhatItFetched'
  <2> SUFFICES ASSUME NothingPends, again = Nil, NEW n \in 1 .. page.total, n <= fetched
               PROVE  Unknowns(journal)[n].index \in Indices(all)
    BY <1>1, <1>4, <1>8, <1>10 DEF ShowsWhatItFetched
  <2>1. CASE n <= run.fetched
    BY <1>3, <1>4, <1>6, <2>1 DEF PagesInv, ShowsWhatItFetched
  <2>2. CASE ~(n <= run.fetched)
    <3>1. n - run.fetched \in 1 .. Len(items) /\ run.fetched + (n - run.fetched) = n
      BY <1>2, <1>5, <2>2
    <3>2. items[n - run.fetched] = Unknowns(journal)[n]
      BY <1>4, <3>1
    <3>3. items[n - run.fetched].index \in Indices(all)
      BY <1>6, <3>1
    <3> QED
      BY <3>2, <3>3
  <2> QED
    BY <2>1, <2>2
<1> QED
  BY <1>9, <1>11, <1>12 DEF PagesInv

LEMMA RereadingKeepsPages ==
  ASSUME PagesInv, ServerListsAgain \/ ListFails
  PROVE  PagesInv'
<1>1. UNCHANGED <<journal, run, saves, wire, paging, seen, told>>
  BY DEF ServerListsAgain, ListFails
<1>2. NothingPends' = NothingPends /\ Asked(run') = Asked(run)
  BY <1>1 DEF NothingPends
<1>3. CASE ListFails
  <2>1. again' = [state |-> "failed"] /\ again' # Nil
    BY <1>3, FailedIs DEF ListFails
  <2>2. ~ListIsHere' /\ again'.state # "asked" /\ ~Rereading'
    BY <2>1 DEF ListIsHere, Rereading
  <2> QED
    BY <1>1, <2>1, <2>2
       DEF PagesInv, RunIsWhole, GenerationsAreOld, PagesInTurn, RereadsWhatItFetched,
           HearsOfChanges, ShowsWhatItFetched
<1>4. CASE ServerListsAgain
  <2> DEFINE page == Listing(journal, again.limit, 0)
  <2>1. /\ again # Nil /\ again.state = "asked" /\ again = Asked(run)
        /\ again' = [state |-> "answered", page |-> page]
    BY <1>4 DEF ServerListsAgain, PagesInv, RereadsWhatItFetched
  <2>2. again.limit \in Nat \ {0} /\ again.limit = Asked(run).limit
    BY <2>1, AskedIs DEF PagesInv, RunIsWhole
  <2>3. /\ page \in Pages /\ page.generation = journal.generation
        /\ Len(page.items) <= again.limit /\ (Len(page.items) = 0 => page.total = 0)
    <3>1. journal \in ReviewJournals /\ 0 \in Nat /\ again.limit \in Nat
      BY <2>2 DEF PagesInv, RunIsWhole
    <3> DEFINE limit == again.limit
    <3>2. page = Listing(journal, limit, 0) /\ limit \in Nat
      BY <3>1
    <3> HIDE DEF page, limit
    <3>3. /\ page \in Pages /\ page.generation = journal.generation
          /\ Len(page.items) <= limit
          /\ Len(page.items) = limit \/ Len(page.items) = page.total
      BY <3>1, <3>2, ListingIs
    <3> QED
      BY <2>2, <3>3 DEF limit
  <2>4. page = Listing(journal, Asked(run).limit, 0)
    BY <2>2
  <2>5. Rereading /\ (paging # Nil => paging.state # "answered")
    <3>1. Rereading
      BY <2>1 DEF Rereading
    <3> QED
      BY <3>1 DEF PagesInv, PagesInTurn
  <2> HIDE DEF page
  <2>6. again' # Nil /\ again'.state = "answered" /\ again'.page = page /\ ListIsHere'
    BY <2>1, <2>3, AnsweredIs DEF ListIsHere
  <2>7. journal.generation \in Nat
    BY DEF PagesInv, RunIsWhole, ReviewJournals
  <2>8. GenerationsAreOld'
    BY <1>1, <2>3, <2>6, <2>7 DEF PagesInv, GenerationsAreOld
  <2>9. RereadsWhatItFetched'
    BY <1>1, <1>2, <2>2, <2>3, <2>4, <2>6 DEF RereadsWhatItFetched
  <2>10. PagesInTurn'
    BY <1>1, <2>5 DEF PagesInv, PagesInTurn
  <2>11. HearsOfChanges' /\ ShowsWhatItFetched'
    BY <1>1, <2>3, <2>6 DEF HearsOfChanges, ShowsWhatItFetched
  <2> QED
    BY <1>1, <2>8, <2>9, <2>10, <2>11 DEF PagesInv, RunIsWhole
<1> QED
  BY <1>3, <1>4

LEMMA ListingKeepsPages ==
  ASSUME PagesInv, ListArrives
  PROVE  PagesInv'
<1>1. /\ again # Nil /\ again.state = "answered" /\ again' = Nil /\ ListIsHere
      /\ UNCHANGED <<journal, saves, wire, seen, told>>
  BY DEF ListArrives, ListIsHere
<1>2. ~ListIsHere' /\ Rereading
  BY <1>1 DEF ListIsHere, Rereading
<1>3. CASE saves # <<>>
  <2>1. UNCHANGED <<run, paging>> /\ ~NothingPends'
    BY <1>1, <1>3 DEF ListArrives, NothingPends
  <2>2. paging # Nil => paging.state # "answered"
    BY <1>2 DEF PagesInv, PagesInTurn
  <2> QED
    BY <1>1, <1>2, <2>1, <2>2
       DEF PagesInv, RunIsWhole, GenerationsAreOld, PagesInTurn, RereadsWhatItFetched,
           HearsOfChanges, ShowsWhatItFetched
<1>4. CASE saves = <<>>
  <2> DEFINE page == again.page
             limit == Asked(run).limit
  <2>1. run' = Reconciled(run, page) /\ paging' = PageFor(run', paging)
    BY <1>4 DEF ListArrives, Go, Show
  <2>2. /\ IsRun(run) /\ journal \in ReviewJournals /\ run.fetched \in Nat /\ run.total \in Nat
        /\ page \in Pages /\ page.generation <= journal.generation
    BY <1>1 DEF PagesInv, RunIsWhole, GenerationsAreOld
  <2>3. /\ limit = IF run.fetched > 0 THEN run.fetched ELSE PageSize
        /\ limit \in Nat \ {0}
    BY <2>2, AskedIs
  <2>4. /\ Len(page.items) <= limit /\ (Len(page.items) = 0 => page.total = 0)
        /\ page.generation = journal.generation => page = Listing(journal, limit, 0)
    BY <1>1 DEF PagesInv, RereadsWhatItFetched
  <2>5. /\ page.items \in Seq(Items) /\ Len(page.items) \in Nat /\ page.total \in Nat
        /\ page.generation \in Nat
    BY <2>2, LenProperties DEF Pages
  <2>6. NothingPends' => NothingPends
    BY <1>1, <2>1, <2>2, ReconciledIs DEF NothingPends
  <2>7. page.generation # journal.generation /\ NothingPends' => seen # journal.generation
    BY <1>1, <2>6 DEF PagesInv, HearsOfChanges
  <2> HIDE DEF page, limit
  <2>8. /\ IsRun(run') /\ run'.total = page.total /\ run'.generation = page.generation
        /\ run'.fetched = IF run.fetched < Len(page.items) THEN Len(page.items)
                          ELSE run.fetched
        /\ \A n \in 1 .. Len(page.items) : page.items[n].index \in Indices(run'.cards)
    BY <2>1, <2>2, ReconciledIs
  <2>9. /\ run'.fetched \in Nat /\ (run'.fetched = 0 => run'.total = 0)
        /\ run.fetched > 0 => run'.fetched = run.fetched
        /\ run.fetched = 0 => run'.fetched = Len(page.items)
    BY <2>2, <2>3, <2>4, <2>5, <2>8
  <2>10. RunIsWhole'
    BY <1>1, <2>2, <2>5, <2>8, <2>9 DEF PagesInv, RunIsWhole
  <2>11. GenerationsAreOld'
    BY <1>1, <1>2, <2>2, <2>8 DEF PagesInv, GenerationsAreOld
  <2>12. RereadsWhatItFetched'
    BY <1>1, <1>2 DEF RereadsWhatItFetched
  <2>13. PagesInTurn'
    <3>1. CASE paging' = paging
      BY <1>2, <2>9, <3>1 DEF PagesInv, PagesInTurn
    <3>2. CASE paging'.state = "asked" /\ paging'.offset = run'.fetched /\ run'.fetched > 0
      BY <3>2 DEF PagesInTurn
    <3> QED
      BY <2>1, <2>10, <3>1, <3>2, PageForIs DEF RunIsWhole
  <2>14. HearsOfChanges'
    BY <1>1, <1>2, <2>7, <2>8 DEF HearsOfChanges
  <2>15. ShowsWhatItFetched'
    <3> SUFFICES ASSUME page.generation = journal.generation
                 PROVE  /\ page.total = Len(Unknowns(journal))
                        /\ \A n \in 1 .. page.total : n <= run'.fetched =>
                              Unknowns(journal)[n].index \in Indices(run'.cards)
      BY <1>1, <2>8 DEF ShowsWhatItFetched
    <3>1. page = Listing(journal, limit, 0) /\ limit \in Nat /\ 0 \in Nat
      BY <2>3, <2>4
    <3>2. /\ page.total = Len(Unknowns(journal))
          /\ \A n \in 1 .. Len(page.items) :
                0 + n <= page.total /\ page.items[n] = Unknowns(journal)[0 + n]
          /\ Len(page.items) = limit \/ Len(page.items) = page.total
      BY <2>2, <3>1, ListingIs
    <3>3. ASSUME NEW n \in 1 .. page.total, n <= run'.fetched
          PROVE  Unknowns(journal)[n].index \in Indices(run'.cards)
      <4>1. n \in 1 .. Len(page.items)
        BY <2>2, <2>3, <2>5, <2>9, <3>2, <3>3
      <4>2. page.items[n] = Unknowns(journal)[n]
        BY <3>2, <4>1
      <4>3. page.items[n].index \in Indices(run'.cards)
        BY <2>8, <4>1
      <4> QED
        BY <4>2, <4>3
    <3> QED
      BY <3>2, <3>3
  <2> QED
    BY <2>10, <2>11, <2>12, <2>13, <2>14, <2>15 DEF PagesInv
<1> QED
  BY <1>3, <1>4

LEMMA PollingKeepsPages ==
  ASSUME PagesInv, ~Overlap, Poll
  PROVE  PagesInv'
<1>1. /\ Clear /\ seen' = journal.generation
      /\ again' = IF run.open /\ run.generation # journal.generation /\ saves = <<>>
                  THEN Asked(run) ELSE again
      /\ UNCHANGED <<journal, run, saves, wire, paging, told>>
  BY DEF Poll
<1>2. journal.generation \in Nat /\ run.fetched \in Nat
  BY DEF PagesInv, RunIsWhole, ReviewJournals
<1>3. NothingPends' = NothingPends /\ Asked(run') = Asked(run)
  BY <1>1 DEF NothingPends
<1>4. \/ again' = again
      \/ again' = Asked(run) /\ again' # Nil /\ again'.state = "asked" /\ ~ListIsHere'
  BY <1>1, <1>2, AskedIs DEF ListIsHere
<1>5. RunIsWhole'
  BY <1>1, <1>2 DEF PagesInv, RunIsWhole
<1>6. GenerationsAreOld'
  BY <1>1, <1>2, <1>4 DEF PagesInv, GenerationsAreOld, ListIsHere
<1>7. PagesInTurn'
  BY <1>1 DEF PagesInv, PagesInTurn, Clear
<1>8. RereadsWhatItFetched'
  BY <1>1, <1>3, <1>4 DEF PagesInv, RereadsWhatItFetched, ListIsHere
<1>9. NothingPends /\ run.generation # journal.generation => again' # Nil /\ ~ListIsHere'
  BY <1>1, <1>2, AskedIs DEF NothingPends, ListIsHere
<1>10. HearsOfChanges'
  BY <1>1, <1>3, <1>4, <1>9 DEF PagesInv, HearsOfChanges, ListIsHere
<1>11. ShowsWhatItFetched'
  BY <1>1, <1>3, <1>4, <1>9 DEF PagesInv, ShowsWhatItFetched
<1> QED
  BY <1>5, <1>6, <1>7, <1>8, <1>10, <1>11 DEF PagesInv

LEMMA PagesNextInv ==
  ASSUME ReviewInv, PagesInv, ~Overlap, [ReviewNext]_reviewVars
  PROVE  PagesInv'
<1>1. CASE UNCHANGED reviewVars
  <2>1. UNCHANGED <<journal, run, saves, wire, paging, again, seen, told>>
    BY <1>1 DEF reviewVars
  <2>2. wire' # Nil /\ wire'.state = "ok" =>
          wire'.generation \in Nat /\ wire'.generation <= journal.generation
    BY <2>1 DEF PagesInv, GenerationsAreOld
  <2> QED
    BY <2>1, <2>2, WireKeepsPages
<1>2. ASSUME NEW similar, Type \/ Skip \/ Back \/ Save(similar) PROVE PagesInv'
  BY <1>2, UserKeepsPages
<1> QED
  BY <1>1, <1>2, OthersKeepPages, ServerKeepsPages, WiringKeepsPages, ClosingKeepsPages,
     LandingKeepsPages, FailingKeepsPages, PagingKeepsPages, ArrivingKeepsPages,
     RereadingKeepsPages, ListingKeepsPages, PollingKeepsPages
     DEF ReviewNext

LEMMA PagesInitInv == ReviewInit => PagesInv
<1> SUFFICES ASSUME ReviewInit PROVE PagesInv
  OBVIOUS
<1> DEFINE page == Listing(journal, PageSize, 0)
           text == [t \in Txns \cup {Newcomer} |-> [own |-> 0, others |-> 0]]
           order == SetToSeq(Txns)
<1>1. /\ journal = [order |-> order, text |-> text, unknown |-> Txns, generation |-> 0]
      /\ run = [cards |-> CardsOf(page.items), cursor |-> 1, total |-> page.total,
                fetched |-> Len(page.items), generation |-> 0, open |-> TRUE]
      /\ wire = Nil /\ again = Nil /\ seen = 0 /\ paging = PageFor(run, Nil)
  BY DEF ReviewInit
<1>2. order \in Seq(Txns)
  <2>1. IsFiniteSet(Txns)
    BY ReviewAssumption
  <2>2. Cardinality(Txns) \in Nat
    BY <2>1, FS_CardinalityType
  <2>3. \E f \in [1 .. Cardinality(Txns) -> Txns] : IsInjective(f)
    <3>1. ExistsBijection(1 .. Cardinality(Txns), Txns)
      BY <2>1, FS_CardinalityType
    <3>2. PICK g : g \in Bijection(1 .. Cardinality(Txns), Txns)
      BY <3>1 DEF ExistsBijection
    <3> QED
      BY <3>2 DEF Bijection, Injection, Surjection, IsInjective
  <2>4. order \in [1 .. Cardinality(Txns) -> Txns]
    BY <2>3 DEF SetToSeq
  <2> HIDE DEF order
  <2> QED
    BY <2>2, <2>4
<1>3. journal \in ReviewJournals /\ journal.generation = 0
  <2>1. order \in Seq(Txns \cup {Newcomer})
    BY <1>2, SeqMonotonic
  <2>2. text \in [Txns \cup {Newcomer} -> [own : Nat, others : Nat]]
    OBVIOUS
  <2> HIDE DEF order, text
  <2> QED
    BY <1>1, <2>1, <2>2 DEF ReviewJournals
<1>4. PageSize \in Nat \ {0}
  BY ReviewAssumption
<1>5. /\ page \in Pages /\ page.total = Len(Unknowns(journal))
      /\ \A n \in 1 .. Len(page.items) :
            0 + n <= page.total /\ page.items[n] = Unknowns(journal)[0 + n]
      /\ Len(page.items) = PageSize \/ Len(page.items) = page.total
  <2> HIDE DEF page
  <2>1. page = Listing(journal, PageSize, 0)
    BY DEF page
  <2> QED
    BY <1>3, <1>4, <2>1, ListingIs
<1> HIDE DEF page
<1>6. /\ page.items \in Seq(Items) /\ Len(page.items) \in Nat /\ page.total \in Nat
      /\ DOMAIN page.items = 1 .. Len(page.items)
  BY <1>5, LenProperties DEF Pages
<1> DEFINE S == {CardOf(i) : i \in Items}
           cards == CardsOf(page.items)
<1>7. cards \in Seq(S) /\ \A c \in S : IsCard(c)
  <2>1. \A n \in 1 .. Len(page.items) : CardOf(page.items[n]) \in S
    BY <1>6, ElementOfSeq
  <2>2. \A c \in S : IsCard(c)
    BY DEF CardOf, IsCard
  <2> HIDE DEF S
  <2> QED
    BY <1>6, <2>1, <2>2 DEF CardsOf
<1>8. \A n \in 1 .. Len(page.items) : page.items[n].index \in Indices(cards)
  <2> SUFFICES ASSUME NEW n \in 1 .. Len(page.items)
               PROVE  page.items[n].index \in Indices(cards)
    OBVIOUS
  <2>1. n \in DOMAIN cards /\ cards[n].index = page.items[n].index
    BY <1>6 DEF CardsOf, CardOf
  <2> HIDE DEF cards
  <2> QED
    BY <2>1 DEF Indices
<1> HIDE DEF S
<1>9. AreCards(cards)
  BY <1>7, CardsFrom
<1> HIDE DEF cards
<1>10. /\ IsRun(run) /\ run.cards = cards /\ run.total = page.total
       /\ run.fetched = Len(page.items) /\ run.generation = 0
  BY <1>1, <1>9 DEF IsRun, cards
<1>11. RunIsWhole
  BY <1>1, <1>3, <1>4, <1>5, <1>6, <1>10 DEF RunIsWhole
<1>12. ~ListIsHere
  BY <1>1 DEF ListIsHere
<1>13. GenerationsAreOld /\ RereadsWhatItFetched /\ HearsOfChanges
  BY <1>1, <1>3, <1>10, <1>12 DEF GenerationsAreOld, RereadsWhatItFetched, HearsOfChanges
<1>14. PagesInTurn
  <2>1. CASE paging = Nil
    BY <2>1 DEF PagesInTurn
  <2>2. CASE paging.state = "asked" /\ paging.offset = run.fetched /\ run.fetched > 0
    BY <2>2 DEF PagesInTurn
  <2> QED
    BY <1>1, <1>11, <2>1, <2>2, PageForIs DEF RunIsWhole
<1>15. ShowsWhatItFetched
  <2>1. ASSUME NEW n \in 1 .. page.total, n <= Len(page.items)
        PROVE  Unknowns(journal)[n].index \in Indices(cards)
    <3>1. n \in 1 .. Len(page.items) /\ 0 + n = n
      BY <1>6, <2>1
    <3>2. page.items[n] = Unknowns(journal)[n]
      BY <1>5, <3>1
    <3> QED
      BY <1>8, <3>1, <3>2
  <2> QED
    BY <1>5, <1>10, <2>1 DEF ShowsWhatItFetched
<1> QED
  BY <1>11, <1>13, <1>14, <1>15 DEF PagesInv

\* The inductive invariant of a run's pages: what was fetched has a card, or the queue is
\* being read again, or the page has yet to hear of a change.
THEOREM PagesInvariant == ReviewSpec => [](~Overlap => PagesInv)
<1>1. ReviewInit => ReviewInv /\ (~Overlap => PagesInv)
  BY PagesInitInv, ReviewInitInv
<1>2. ReviewInv /\ (~Overlap => PagesInv) /\ [ReviewNext]_reviewVars =>
        ReviewInv' /\ (~Overlap => PagesInv)'
  BY PagesNextInv, ReviewNextInv
<1> QED
  BY <1>1, <1>2, PTL DEF ReviewSpec

\* stores/review.svelte.ts, pageAhead and revalidate: while no page is on its way when
\* something else happens, a run that was worked through to its summary has had a card of
\* every transaction that is still unknown, however saves and other programs' changes
\* shortened and shifted the queue between its pages.
THEOREM NoneIsMissed == ReviewSpec => [](~Overlap => RunMissesNothing)
<1>1. PagesInv => RunMissesNothing
  <2> SUFFICES ASSUME PagesInv, AtRest, NEW n \in DOMAIN Unknowns(journal)
               PROVE  Unknowns(journal)[n].index \in Indices(run.cards)
    BY DEF RunMissesNothing
  <2>1. /\ NothingPends /\ again = Nil /\ seen = journal.generation
        /\ run.fetched >= run.total
    BY DEF AtRest, NothingPends
  <2>2. run.generation = journal.generation
    BY <2>1 DEF PagesInv, HearsOfChanges
  <2>3. /\ run.total = Len(Unknowns(journal))
        /\ \A m \in 1 .. run.total :
              m <= run.fetched => Unknowns(journal)[m].index \in Indices(run.cards)
    BY <2>1, <2>2 DEF PagesInv, ShowsWhatItFetched
  <2>4. Unknowns(journal) \in Seq(Items) /\ run.fetched \in Nat /\ run.total \in Nat
    BY UnknownsAreItems DEF PagesInv, RunIsWhole
  <2>5. n \in 1 .. run.total
    BY <2>3, <2>4, LenProperties
  <2> QED
    BY <2>1, <2>3, <2>4, <2>5
<1> QED
  BY <1>1, PagesInvariant, PTL

=============================================================================

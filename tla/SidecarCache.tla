----------------------------- MODULE SidecarCache -----------------------------
(***************************************************************************)
(* The caches kept in a file beside the journal (sidecar.rs), under the      *)
(* requests that fill them: the benchmark histories (benchmarks_api.rs) and   *)
(* the commodity profiles (profiles_api.rs).  A request looks at the cache,   *)
(* asks the network for what is missing with no lock held, and merges what    *)
(* came.  The slot holds the cache of one file; File>Open moves it.           *)
(*                                                                           *)
(* An entry is the first and last day it covers (a profile: one day).        *)
(***************************************************************************)
EXTENDS Naturals

CONSTANTS
    Askers,              \* HTTP requests
    Ledgers,             \* the journals, each with its own cache file
    Symbols, Today,      \* days are 1 .. Today; Today has closed
    NoEntry, NoOne,
    ReadsFail,           \* whether a cache file can fail to be read
    MaxAsks, MaxMoves    \* bounds of a run: requests; File>Open and deletions

Dates == 1 .. Today
Entry == [from : Dates, through : Dates]
Cache == [Symbols -> Entry \cup {NoEntry}]
Empty == [s \in Symbols |-> NoEntry]

ASSUME SidecarAssumption ==
    /\ Today \in Nat \ {0} /\ Ledgers # {} /\ MaxAsks \in Nat /\ MaxMoves \in Nat
    /\ ReadsFail \in BOOLEAN
    /\ NoEntry \notin Entry /\ NoOne \notin Askers \cup Ledgers

VARIABLES
    sidecar,   \* ledger -> what its cache file holds
    ledger,    \* the journal that is open
    slot,      \* the loaded cache: the file it mirrors, its value
    slotLock,  \* the slot's mutex
    ask,       \* request -> where it is
    asked      \* counters, for the bounds

sidecarVars == <<sidecar, ledger, slot, slotLock, ask, asked>>

AskState == [at : {"idle", "named", "looked", "fetched", "renamed", "store", "serve"},
             wants : SUBSET Symbols, from : Dates, file : Ledgers \cup {NoOne},
             seen : Cache, answers : Cache, failed : BOOLEAN]
NoAsk == [at |-> "idle", wants |-> {}, from |-> 1, file |-> NoOne, seen |-> Empty,
          answers |-> Empty, failed |-> FALSE]

SidecarTypeOK ==
    /\ sidecar \in [Ledgers -> Cache] /\ ledger \in Ledgers
    /\ slot \in [of : Ledgers \cup {NoOne}, value : Cache]
    /\ slotLock \in Askers \cup {NoOne}
    /\ ask \in [Askers -> AskState]
    /\ asked \in [requests : 0 .. MaxAsks, moves : 0 .. MaxMoves]
    /\ \A q \in Askers : slotLock = q <=> ask[q].at = "store"

\* Wrong: whatever is loaded is taken for the file's.
CurrentAsLoaded(file) == IF slot.of = NoOne THEN [of |-> file, value |-> sidecar[file]]
                         ELSE [slot EXCEPT !.of = file]

\* SidecarCache::current: the slot made to mirror a file.
Current(file) == IF slot.of = file THEN slot ELSE [of |-> file, value |-> sidecar[file]]

\* A file that cannot be read counts as empty.
Mirrors(file) ==
    {Current(file)} \cup (IF ReadsFail /\ slot.of # file THEN {[of |-> file, value |-> Empty]} ELSE {})

\* History::refetch_from: an entry that does not reach is refetched whole, from
\* the earliest day either wants.
Covers(entry, from) == entry # NoEntry /\ entry.from <= from /\ entry.through >= Today
RefetchFrom(entry, from) ==
    IF entry # NoEntry /\ entry.from < from THEN entry.from ELSE from
Missing(q) == {s \in ask[q].wants : ~Covers(ask[q].seen[s], ask[q].from)}

\* Wrong: what was there stays.
MergedAroundOld(value, answers) == [s \in Symbols |-> IF value[s] = NoEntry THEN answers[s] ELSE value[s]]

\* extend: what came replaces what was there.
Merged(value, answers) == [s \in Symbols |-> IF answers[s] = NoEntry THEN value[s] ELSE answers[s]]

SidecarInit ==
    /\ sidecar \in [Ledgers -> {Empty, [s \in Symbols |-> [from |-> Today, through |-> Today]]}]
    /\ ledger \in Ledgers
    /\ slot = [of |-> NoOne, value |-> Empty] /\ slotLock = NoOne
    /\ ask = [q \in Askers |-> NoAsk]
    /\ asked = [requests |-> 0, moves |-> 0]

\* File>Open of another journal.
MoveTo(l) ==
    /\ asked.moves < MaxMoves /\ l # ledger
    /\ ledger' = l /\ asked' = [asked EXCEPT !.moves = @ + 1]
    /\ UNCHANGED <<sidecar, slot, slotLock, ask>>

\* The user deletes a cache file.
DeleteSidecar(l) ==
    /\ asked.moves < MaxMoves /\ sidecar[l] # Empty
    /\ sidecar' = [sidecar EXCEPT ![l] = Empty]
    /\ asked' = [asked EXCEPT !.moves = @ + 1]
    /\ UNCHANGED <<ledger, slot, slotLock, ask>>

\* A request for some symbols over a window; the file of the cache is that of the
\* journal open now, before the slot's lock is had.
Ask(q, wants, from) ==
    /\ ask[q].at = "idle" /\ asked.requests < MaxAsks
    /\ ask' = [ask EXCEPT ![q] = [NoAsk EXCEPT !.at = "named", !.wants = wants, !.from = from,
                                               !.file = ledger]]
    /\ asked' = [asked EXCEPT !.requests = @ + 1]
    /\ UNCHANGED <<sidecar, ledger, slot, slotLock>>

\* SidecarCache::snapshot, and what of it must be fetched.
Look(q) ==
    /\ ask[q].at = "named" /\ slotLock = NoOne
    /\ slot' \in Mirrors(ask[q].file)
    /\ ask' = [ask EXCEPT ![q].at = "looked", ![q].seen = slot'.value]
    /\ UNCHANGED <<sidecar, ledger, slotLock, asked>>

\* The network answers for some of what was missing, up to some day, and fails or
\* times out for the rest.  With no answer the request serves what it saw.
Fetch(q) ==
    /\ ask[q].at = "looked"
    /\ \E got \in SUBSET Missing(q), through \in Dates :
         LET answers == [s \in Symbols |->
               IF s \notin got THEN NoEntry
               ELSE [from |-> RefetchFrom(ask[q].seen[s], ask[q].from), through |-> through]]
         IN ask' = [ask EXCEPT ![q] =
                [@ EXCEPT !.at = IF got = {} THEN "serve" ELSE "fetched",
                          !.answers = answers,
                          !.failed = got # Missing(q) \/ through # Today]]
    /\ UNCHANGED <<sidecar, ledger, slot, slotLock, asked>>

\* SidecarCache::update: the file is that of the journal open by now; ...
Rename(q) ==
    /\ ask[q].at = "fetched"
    /\ ask' = [ask EXCEPT ![q].at = "renamed", ![q].file = ledger]
    /\ UNCHANGED <<sidecar, ledger, slot, slotLock, asked>>

\* ... under the lock the slot is made its mirror and the answers merged; ...
Merge(q) ==
    /\ ask[q].at = "renamed" /\ slotLock = NoOne
    /\ slotLock' = q
    /\ \E now \in Mirrors(ask[q].file) :
         slot' = [now EXCEPT !.value = Merged(@, ask[q].answers)]
    /\ ask' = [ask EXCEPT ![q].at = "store", ![q].seen = slot'.value]
    /\ UNCHANGED <<sidecar, ledger, asked>>

\* ... and the whole is written through; a failure is logged and no more.
Store(q) ==
    /\ ask[q].at = "store"
    /\ \/ sidecar' = [sidecar EXCEPT ![ask[q].file] = ask[q].seen]
       \/ UNCHANGED sidecar
    /\ slotLock' = NoOne
    /\ ask' = [ask EXCEPT ![q].at = "serve"]
    /\ UNCHANGED <<ledger, slot, asked>>

\* The lines are drawn from what was seen.
Serve(q) ==
    /\ ask[q].at = "serve"
    /\ ask' = [ask EXCEPT ![q] = NoAsk]
    /\ UNCHANGED <<sidecar, ledger, slot, slotLock, asked>>

AskSteps(q) == Look(q) \/ Fetch(q) \/ Rename(q) \/ Merge(q) \/ Store(q) \/ Serve(q)

SidecarNext ==
    \/ \E l \in Ledgers : MoveTo(l) \/ DeleteSidecar(l)
    \/ \E q \in Askers, wants \in (SUBSET Symbols) \ {{}}, from \in Dates : Ask(q, wants, from)
    \/ \E q \in Askers : AskSteps(q)

-----------------------------------------------------------------------------
(* Properties.                                                               *)

Held(cache) == {s \in Symbols : cache[s] # NoEntry}

KeepsSymbols ==
    \A l \in Ledgers : sidecar'[l] # Empty => Held(sidecar[l]) \subseteq Held(sidecar'[l])

\* The write-through of one request loses no symbol another one, or a session on
\* another journal, put into that file (sidecar.rs: merge runs "on the CURRENT
\* cache"; File>Open moves the slot, never its contents).
CacheIsNotLost == [][KeepsSymbols]_sidecarVars

\* As the code stands, of files that can be read.
StoreKeepsSymbols == [][~ReadsFail => KeepsSymbols]_sidecarVars

\* What a request was told by the network is what it draws, also when the cache
\* held something else for the symbol or moved to another journal meanwhile.
ServesWhatItFetched ==
    \A q \in Askers : ask[q].at = "serve" =>
        \A s \in Symbols : ask[q].answers[s] # NoEntry => ask[q].seen[s] = ask[q].answers[s]

\* A line that is not marked stale covers the window (benchmarks_api.rs: stale is
\* "a refresh was needed and did not land").
UnmarkedLinesCover ==
    \A q \in Askers : ask[q].at = "serve" /\ ~ask[q].failed =>
        \A s \in ask[q].wants : Covers(ask[q].seen[s], ask[q].from)

=============================================================================

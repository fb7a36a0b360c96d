------------------------------ MODULE JournalPage ------------------------------
(***************************************************************************)
(* The journal page of the web frontend: the metadata store, whose rounds     *)
(* learn the engine's generation (journal.svelte.ts), and the view store,     *)
(* which fetches the rows of the current filter a block at a time             *)
(* (journalView.svelte.ts) as the page's effects ask it to (+page.svelte,     *)
(* TransactionTable.svelte).  JavaScript runs one callback at a time; the     *)
(* answers it waits for come in any order, and some never.                    *)
(*                                                                           *)
(* Rows are abstracted to the generation and the filter they are of; totals   *)
(* to the number of blocks.                                                  *)
(***************************************************************************)
EXTENDS Naturals, SequencesExt

CONSTANTS
    Filters,
    Totals,              \* how many blocks the rows of a filter can fill
    Scrolls,             \* the blocks the table can be scrolled to
    MAX_BLOCKS,          \* the most blocks held: more than the table asks for at once
    Null,
    Orders,              \* whether the view's answers keep their order
    Fallible,            \* the kinds of requests that can fail
    MaxEdits, MaxMoves   \* bounds of a run: generations; what the user does

Most == CHOOSE n \in Totals : \A t \in Totals : t <= n
Blocks == 0 .. Most - 1
Generations == 0 .. MaxEdits
Kinds == {"info", "summary", "block"}

ASSUME PageAssumption ==
    /\ Filters # {} /\ Totals \subseteq Nat \ {0} /\ Totals # {} /\ IsFiniteSet(Totals)
    /\ Scrolls \subseteq Blocks /\ 0 \in Scrolls
    /\ MAX_BLOCKS \in Nat /\ MAX_BLOCKS >= 3 /\ Orders \subseteq BOOLEAN /\ Orders # {}
    /\ Fallible \subseteq Kinds
    /\ Null \notin Nat /\ Null \notin Filters
    /\ MaxEdits \in Nat /\ MaxMoves \in Nat

VARIABLES
    engine,      \* the snapshot served: its generation, its number of blocks
    known,       \* journal.generation: the last the metadata store heard of
    user,        \* the filter chosen, where the table is scrolled to
    query,       \* the view's (generation, filter), or Null
    epoch,       \* bumped on every filter change
    summary,     \* the generation and filter of the summary held, or Null
    total,       \* the number of blocks, and the filter it is of, or Null
    held,        \* block -> the generation and filter of its rows, or Null
    asks,        \* the requests in flight, in the order they were sent
    due,         \* the table's effect has to run
    focus,       \* focusBlock: the block the table last asked around
    missed,      \* history: the blocks, or Null for the summary, of the current view
                 \* whose requests failed and that are not asked for again
    orderly,     \* the view's answers keep their order
    moves        \* counter, for the bound

pageVars == <<engine, known, user, query, epoch, summary, total, held, asks, due, focus, missed,
              orderly, moves>>

Nothing == [b \in Blocks |-> Null]
Snapshot == [gen : Generations, total : Totals]
OfView == [gen : Generations, filter : Filters]

\* A request: its epoch, the view it is for, the block, and, once the engine
\* answered it, the snapshot it was answered from.
Ask(kind, view, block) == [kind |-> kind, epoch |-> epoch, view |-> view, block |-> block, answer |-> Null]
Requested == [kind : Kinds, epoch : 0 .. MaxMoves + 1, view : OfView \cup {Null},
              block : Blocks \cup {Null}, answer : Snapshot \cup {Null}]

PageTypeOK ==
    /\ engine \in Snapshot /\ known \in Generations \cup {Null}
    /\ user \in [filter : Filters, scroll : Scrolls]
    /\ query \in OfView \cup {Null} /\ epoch \in 0 .. MaxMoves + 1
    /\ summary \in OfView \cup {Null} /\ total \in [n : Totals, of : Filters] \cup {Null}
    /\ held \in [Blocks -> OfView \cup {Null}]
    /\ \A i \in DOMAIN asks : asks[i] \in Requested
    /\ due \in BOOLEAN /\ focus \in Blocks /\ missed \subseteq Blocks \cup {Null}
    /\ orderly \in Orders /\ moves \in 0 .. MaxMoves

PageInit ==
    /\ engine \in [gen : {0}, total : Totals]
    /\ known = Null
    /\ user \in [filter : Filters, scroll : {0}]
    /\ query = Null /\ epoch = 0 /\ summary = Null /\ total = Null
    /\ held = Nothing /\ asks = <<>> /\ due = FALSE /\ focus = 0 /\ missed = {}
    /\ orderly \in Orders /\ moves = 0

-----------------------------------------------------------------------------
(* The engine and the network.                                               *)

\* The journal changes, by an edit or on disk.
JournalMoves ==
    /\ engine.gen < MaxEdits
    /\ \E t \in Totals : engine' = [gen |-> engine.gen + 1, total |-> t]
    /\ UNCHANGED <<known, user, query, epoch, summary, total, held, asks, due, focus, missed, orderly, moves>>

\* A request is answered from the snapshot of that moment.
Replied(i) ==
    /\ asks[i].answer = Null
    /\ asks' = [asks EXCEPT ![i].answer = engine]
    /\ UNCHANGED <<engine, known, user, query, epoch, summary, total, held, due, focus, missed, orderly, moves>>

Without(i) == [j \in 1 .. Len(asks) - 1 |-> IF j < i THEN asks[j] ELSE asks[j + 1]]

\* Answers about the view arrive in the order they were asked for, or in any order.
Arrives(i, kind) ==
    /\ asks[i].kind = kind /\ asks[i].answer # Null
    /\ orderly => \A j \in 1 .. i - 1 : kind = "info" \/ asks[j].kind = "info"

-----------------------------------------------------------------------------
(* The metadata store.                                                       *)

InRound == \E i \in DOMAIN asks : asks[i].kind = "info"
NoRound(list) == SelectSeq(list, LAMBDA q : q.kind # "info")

\* refresh(): a round under way is joined.
Refreshed(list) ==
    IF \E i \in DOMAIN list : list[i].kind = "info" THEN list ELSE Append(list, Ask("info", Null, Null))

\* The 5-second poll.
Poll ==
    /\ ~InRound
    /\ asks' = Refreshed(asks)
    /\ UNCHANGED <<engine, known, user, query, epoch, summary, total, held, due, focus, missed, orderly, moves>>

\* After an edit of its own the page forces a round, which supersedes and aborts
\* the one under way.
ForceRefresh ==
    /\ moves < MaxMoves /\ InRound
    /\ asks' = Append(NoRound(asks), Ask("info", Null, Null))
    /\ moves' = moves + 1
    /\ UNCHANGED <<engine, known, user, query, epoch, summary, total, held, due, focus, missed, orderly>>

InfoArrives(i) ==
    /\ Arrives(i, "info")
    /\ known' = asks[i].answer.gen
    /\ asks' = Without(i)
    /\ UNCHANGED <<engine, user, query, epoch, summary, total, held, due, focus, missed, orderly, moves>>

-----------------------------------------------------------------------------
(* The view store.                                                           *)

\* Wrong: any request for the block in flight will do, of whatever generation.
PendingForAny(view, b) ==
    \E i \in DOMAIN asks : /\ asks[i].kind = "block" /\ asks[i].epoch = epoch
                           /\ asks[i].block = b

\* Requests already in flight are not sent again.
Pending(view, b) ==
    \E i \in DOMAIN asks : /\ asks[i].kind = "block" /\ asks[i].epoch = epoch
                           /\ asks[i].view.gen = view.gen /\ asks[i].block = b

\* sync, the page's effect: a new filter is a different list, and everything held
\* is dropped; a new generation is the same list.
Sync ==
    LET view == [gen |-> known, filter |-> user.filter]
        same == query # Null /\ query.filter = user.filter
        summaryAsk == [Ask("summary", view, Null) EXCEPT !.epoch = epoch']
        firstBlock == [Ask("block", view, 0) EXCEPT !.epoch = epoch']
    IN /\ known # Null /\ query # view
       /\ query' = view /\ due' = TRUE
       /\ epoch' = IF same THEN epoch ELSE epoch + 1
       /\ held' = IF same THEN held ELSE Nothing
       /\ total' = IF same THEN total ELSE Null
       /\ focus' = IF same THEN focus ELSE 0
       /\ missed' = {}
       /\ asks' = LET others == SelectSeq(asks, LAMBDA q : q.kind # "summary")
                  IN Append(others, summaryAsk) \o (IF same THEN <<>> ELSE <<firstBlock>>)
       /\ UNCHANGED <<engine, known, user, summary, orderly, moves>>

\* ensure, the table's effect, which runs when the query or its window moved: the
\* blocks in sight and one either side that are missing or of another generation.
Shown == IF user.scroll < total.n THEN user.scroll ELSE total.n - 1
Window == {b \in Blocks : b + 1 >= Shown /\ b <= Shown + 1 /\ b < total.n}
Wanting == {b \in Window : held[b] = Null \/ held[b].gen # query.gen}

Ensure ==
    LET wanted == IF total = Null THEN {} ELSE {b \in Wanting : ~Pending(query, b)}
    IN /\ due
       /\ due' = FALSE
       /\ focus' = IF total = Null THEN focus ELSE Shown
       /\ missed' = missed \ wanted
       /\ asks' = asks \o SetToSortSeq({Ask("block", query, b) : b \in wanted},
                                       LAMBDA p, q : p.block < q.block)
       /\ UNCHANGED <<engine, known, user, query, epoch, summary, total, held, orderly, moves>>

\* The total comes with every answer, and the window with it.
Counted(q) ==
    /\ total' = [n |-> q.answer.total, of |-> q.view.filter]
    /\ due' = (due \/ total = Null \/ total'.n # total.n)

\* A newer summary request supersedes the older.
SummaryArrives(i) ==
    /\ Arrives(i, "summary")
    /\ summary' = [gen |-> asks[i].answer.gen, filter |-> asks[i].view.filter]
    /\ Counted(asks[i])
    /\ asks' = Without(i)
    /\ UNCHANGED <<engine, known, user, query, epoch, held, focus, missed, orderly, moves>>

\* evict: the MAX_BLOCKS blocks nearest to where the table looks.
Distance(b) == IF b > focus THEN b - focus ELSE focus - b
Evicted(map) ==
    LET full == {b \in Blocks : map[b] # Null}
    IN IF Cardinality(full) <= MAX_BLOCKS THEN map
       ELSE [map EXCEPT ![CHOOSE b \in full : \A c \in full : Distance(c) <= Distance(b)] = Null]

\* loadBlock: an answer of an older epoch is dropped; one from a snapshot other
\* than the one asked about has the metadata catch up.
BlockArrives(i) ==
    LET q == asks[i]
        ahead == q.answer.gen # q.view.gen
    IN /\ Arrives(i, "block")
       /\ IF q.epoch # epoch
          THEN asks' = Without(i) /\ UNCHANGED <<held, total, due>>
          ELSE /\ held' = Evicted([held EXCEPT ![q.block] = [gen |-> q.answer.gen, filter |-> q.view.filter]])
               /\ Counted(q)
               /\ asks' = IF ahead THEN Refreshed(Without(i)) ELSE Without(i)
       /\ UNCHANGED <<engine, known, user, query, epoch, summary, focus, missed, orderly, moves>>

\* A request fails: what was held stays.  Nothing asks for the summary or the block
\* again until the generation or the filter changes or the table's window moves.
AskFails(i) ==
    /\ asks[i].kind \in Fallible /\ moves < MaxMoves
    /\ asks' = Without(i)
    /\ missed' = IF asks[i].kind # "info" /\ asks[i].view = query /\ asks[i].epoch = epoch
                 THEN missed \cup {asks[i].block} ELSE missed
    /\ moves' = moves + 1
    /\ UNCHANGED <<engine, known, user, query, epoch, summary, total, held, due, focus, orderly>>

-----------------------------------------------------------------------------
(* The user.                                                                 *)

ChooseFilter(f) ==
    /\ moves < MaxMoves /\ f # user.filter
    /\ user' = [user EXCEPT !.filter = f]
    /\ moves' = moves + 1
    /\ UNCHANGED <<engine, known, query, epoch, summary, total, held, asks, due, focus, missed, orderly>>

Scroll(b) ==
    /\ moves < MaxMoves /\ b # user.scroll /\ total # Null /\ b < total.n
    /\ user' = [user EXCEPT !.scroll = b] /\ due' = TRUE
    /\ moves' = moves + 1
    /\ UNCHANGED <<engine, known, query, epoch, summary, total, held, asks, focus, missed, orderly>>

Arrival(i) == InfoArrives(i) \/ SummaryArrives(i) \/ BlockArrives(i)

PageNext ==
    \/ JournalMoves \/ Poll \/ ForceRefresh \/ Sync \/ Ensure
    \/ \E i \in DOMAIN asks : Replied(i) \/ Arrival(i) \/ AskFails(i)
    \/ \E f \in Filters : ChooseFilter(f)
    \/ \E b \in Scrolls : Scroll(b)

-----------------------------------------------------------------------------
(* Properties.                                                               *)

\* The rows in sight, the totals and the summary are those of the journal as the
\* engine serves it.
OnScreen(gen) ==
    /\ query # Null /\ query.gen = gen /\ query.filter = user.filter
    /\ summary = query /\ total = [n |-> engine.total, of |-> user.filter]
    /\ \A b \in Window : held[b] = query

\* Once the journal and the user rest, a page that has heard from the engine comes
\* to show the journal
\* (journalView: "the held blocks stay on screen, marked stale, until their fresh
\* copies arrive").
PageCatchesUp == <>(known # Null) => <>[]OnScreen(engine.gen)

\* But for what requests that failed took from it: the block that each was about, or
\* the summary, and with it the total.  (The total comes with every answer, but only
\* the summary is sure to be asked about each new query.)
OnScreenButMissed(gen) ==
    /\ query # Null /\ query.gen = gen /\ query.filter = user.filter
    /\ Null \notin missed => summary = query /\ total = [n |-> engine.total, of |-> user.filter]
    /\ total # Null => \A b \in Window \ missed : held[b] = query

\* As the code stands, if the answers about the view keep their order: the page
\* comes to show the journal but for what failed since the view or its window last
\* moved, and a failure costs no more than what was asked for.
OrderlyPageCatchesUp ==
    orderly => (<>(known # Null) => <>[]OnScreenButMissed(engine.gen))

=============================================================================

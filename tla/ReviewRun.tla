------------------------------ MODULE ReviewRun ------------------------------
(* A review run over the uncategorised transactions (stores/review.svelte.ts  *)
(* and its overlay): cards served page by page, saves sent one at a time       *)
(* behind the user's back, a failed save that rewinds, and a background        *)
(* re-reading of the queue after saves and after changes made elsewhere.       *)
(* A transaction is addressed by its place in the journal and guarded by a     *)
(* fingerprint of its text.                                                    *)
EXTENDS Naturals, SequencesExt

CONSTANTS Txns,         \* the transactions of the journal
          Newcomer,     \* one that another program puts before them
          PageSize,     \* cards in a page
          PageAhead,    \* PAGE_AHEAD
          Changes,      \* what another program does: "edit", "fix", "insert"
          MayFail,      \* requests that may fail: "save", "page", "again"
          Overlap,      \* pages cross changes, saves and re-readings on the wire
          MaxChanges,   \* how often it does it
          MaxReviewSaves, \* saves of a run
          MaxSimilar,   \* similar cards saved with one
          MaxDrafts,    \* cards left edited
          Nil

\* The answers of the server.
Items == [index : Nat, print : [txn : Txns \cup {Newcomer}, text : [own : Nat, others : Nat]]]
Pages == [items : Seq(Items), total : Nat, generation : Nat]

ASSUME ReviewAssumption ==
    /\ Newcomer \notin Txns
    /\ PageSize \in Nat \ {0} /\ PageAhead \in Nat /\ Overlap \in BOOLEAN
    /\ MaxChanges \in Nat /\ MaxReviewSaves \in Nat /\ MaxSimilar \in Nat
    /\ MaxDrafts \in Nat
    /\ IsFiniteSet(Txns)
    /\ Nil \notin [state : {"asked"}, limit : Nat] \cup [state : {"answered"}, page : Pages]
                 \cup [state : {"failed"}]

VARIABLES journal,    \* the server's journal: order, text and what is unknown
          changes,  \* changes made elsewhere so far
          run,      \* the run: cards, cursor, what was fetched, at which generation
          form,     \* the fields on screen: the card they are for, the text they were filled from, edited or not
          saves,    \* the saves queued, the first one being sent
          wire,     \* the head's request or its answer
          paging,   \* the next page's request or answer
          again,    \* the latest re-reading's request or answer
          seen,     \* the generation the page last heard of
          told,     \* what each save's promise said
          landed    \* the edits that were written: save, text made from, text written over

reviewVars == <<journal, changes, run, form, saves, wire, paging, again, seen,
                told, landed>>

-----------------------------------------------------------------------------
\* What a sequence has at some of its places, in its order.
Picked(s, places) ==
    LET upto[n \in 0 .. Len(s)] ==
            IF n = 0 THEN <<>>
            ELSE IF n \in places THEN Append(upto[n - 1], s[n]) ELSE upto[n - 1]
    IN  upto[Len(s)]

-----------------------------------------------------------------------------
(* The server. *)

\* A text is told apart by how often the page and others have written it.
FingerprintAt(b, i) == [txn |-> b.order[i], text |-> b.text[b.order[i]]]

\* The unknown transactions, newest first.
Unknowns(b) ==
    LET places == Reverse([i \in DOMAIN b.order |-> i])
        at == Picked(places, {n \in DOMAIN places : b.order[places[n]] \in b.unknown})
    IN  [n \in DOMAIN at |-> [index |-> at[n],
                              print |-> FingerprintAt(b, at[n])]]

Listing(b, limit, offset) ==
    LET all == Unknowns(b) IN
    [items |-> SubSeq(all, offset + 1, IF offset + limit < Len(all)
                                       THEN offset + limit ELSE Len(all)),
     total |-> Len(all), generation |-> b.generation]

\* The batch is refused whole when one text has changed since it was served.
Accepts(b, edits) ==
    \A e \in edits : /\ e.index \in DOMAIN b.order
                     /\ FingerprintAt(b, e.index) = e.print

Written(b, edits) ==
    LET ids == {b.order[e.index] : e \in edits}
        text == [t \in DOMAIN b.text |-> IF t \in ids THEN [b.text[t] EXCEPT !.own = @ + 1]
                                         ELSE b.text[t]]
    IN  [b EXCEPT !.text = text, !.unknown = @ \ ids, !.generation = @ + 1]

\* No page is on its way, or pages may cross what happens.
Clear == Overlap \/ ~(paging # Nil /\ paging.state = "answered")

Others(kind, t) ==
    /\ Clear /\ changes < MaxChanges /\ kind \in Changes
    /\ changes' = changes + 1
    /\ \/ /\ kind = "edit"
          /\ journal' = [journal EXCEPT !.text[t].others = @ + 1, !.generation = @ + 1]
       \/ /\ kind = "fix" /\ t \in journal.unknown
          /\ journal' = [journal EXCEPT !.text[t].others = @ + 1, !.unknown = @ \ {t},
                                    !.generation = @ + 1]
       \/ /\ kind = "insert" /\ ~Contains(journal.order, Newcomer)
          /\ journal' = [journal EXCEPT !.order = <<Newcomer>> \o @,
                                    !.unknown = @ \cup {Newcomer},
                                    !.generation = @ + 1]
    /\ UNCHANGED <<run, form, saves, wire, paging, again, seen, told, landed>>

-----------------------------------------------------------------------------
(* The run. *)

CardOf(item) == [index |-> item.index, print |-> item.print, status |-> "open",
                 draft |-> Nil]

CardsOf(items) == [n \in DOMAIN items |-> CardOf(items[n])]

Indices(cards) == {cards[n].index : n \in DOMAIN cards}

HasCard(r) == r.cursor \in DOMAIN r.cards

OnScreen(r) == r.cards[r.cursor]

\* replaceCards: the cursor stays on its card, or goes to the first one left
\* that was after it.
Replace(r, next) ==
    LET stays == {n \in DOMAIN next : HasCard(r) /\ next[n].index = OnScreen(r).index}
        before == Indices(SubSeq(r.cards, 1, r.cursor - 1))
        cursor == IF ~HasCard(r)
                  THEN IF r.cursor <= Len(next) + 1 THEN r.cursor ELSE Len(next) + 1
                  ELSE IF stays # {} THEN CHOOSE n \in stays : \A m \in stays : n <= m
                  ELSE Cardinality({n \in DOMAIN next : next[n].index \in before}) + 1
    IN  [r EXCEPT !.cards = next, !.cursor = cursor]

\* The overlay's effect: another card fills the form from its draft or its
\* text, a card refreshed underneath does too unless the form is being edited.
Seeded(r, f) ==
    IF ~HasCard(r) THEN [index |-> 0, print |-> Nil, from |-> Nil, edited |-> FALSE]
    ELSE LET c == OnScreen(r)
             key == [index |-> c.index, print |-> c.print] IN
         CASE key.index = f.index /\ key.print = f.print -> f
           [] key.index = f.index /\ key.print # f.print /\ f.edited ->
                [f EXCEPT !.print = key.print]
           [] OTHER -> [index |-> c.index, print |-> c.print,
                        from |-> IF c.draft = Nil THEN c.print ELSE c.draft,
                        edited |-> c.draft # Nil]

Show(r) == run' = r /\ form' = Seeded(r, form)

\* pageAhead, asked wherever the cursor or the cards may have moved.
PageFor(r, now) ==
    IF now # Nil \/ r.fetched >= r.total
       \/ (r.cursor - 1) + PageAhead < Len(r.cards)
    THEN now
    ELSE [state |-> "asked", offset |-> r.fetched]

\* Wrong: A re-reading of the first page only.
AskedOnePage(r) == [state |-> "asked", limit |-> PageSize]

\* revalidate: a later one's token makes an earlier one's answer void.
Asked(r) ==
    [state |-> "asked",
     limit |-> IF r.fetched > 0 THEN r.fetched ELSE PageSize]

ReviewInit ==
    /\ journal = [order |-> SetToSeq(Txns), text |-> [t \in Txns \cup {Newcomer} |-> [own |-> 0, others |-> 0]],
                unknown |-> Txns, generation |-> 0]
    /\ changes = 0
    /\ run = LET page == Listing(journal, PageSize, 0) IN
             [cards |-> CardsOf(page.items), cursor |-> 1, total |-> page.total,
              fetched |-> Len(page.items), generation |-> 0, open |-> TRUE]
    /\ form = Seeded(run, [index |-> 0, print |-> Nil, from |-> Nil, edited |-> FALSE])
    /\ saves = <<>> /\ wire = Nil /\ again = Nil /\ seen = 0
    /\ paging = PageFor(run, Nil)
    /\ told = <<>> /\ landed = {}

Draft == IF form.edited THEN form.from ELSE Nil

Stashed == IF HasCard(run) THEN [run EXCEPT !.cards[run.cursor].draft = Draft]
           ELSE run

Type ==
    /\ run.open /\ HasCard(run) /\ ~form.edited
    /\ Cardinality({n \in DOMAIN run.cards : run.cards[n].draft # Nil}) < MaxDrafts
    /\ form' = [form EXCEPT !.edited = TRUE]
    /\ UNCHANGED <<journal, changes, run, saves, wire, paging, again, seen, told,
                   landed>>

Go(r) == Show(r) /\ paging' = PageFor(r, paging)

Skip ==
    /\ run.open /\ HasCard(run)
    /\ Go([Stashed EXCEPT
             !.cards[run.cursor].status = IF @ = "open" THEN "skipped" ELSE @,
             !.cursor = @ + 1])
    /\ UNCHANGED <<journal, changes, saves, wire, again, seen, told, landed>>

Back ==
    /\ run.open /\ run.cursor > 1
    /\ Go([Stashed EXCEPT !.cursor = @ - 1])
    /\ UNCHANGED <<journal, changes, saves, wire, again, seen, told, landed>>

\* nextFree: the cards the batch is about to change are passed over.
NextFree(cards, from, busy) ==
    CHOOSE n \in (from + 1)..(Len(cards) + 1) :
        /\ n \in DOMAIN cards => cards[n].index \notin busy
        /\ \A m \in (from + 1)..(n - 1) : cards[m].index \in busy

\* The card and the similar ones picked with it go into one batch, and the next
\* card is shown at once.
Save(similar) ==
    /\ run.open /\ HasCard(run) /\ OnScreen(run).status # "saving"
    /\ Len(told) < MaxReviewSaves
    /\ Cardinality(similar) <= MaxSimilar
    /\ similar \subseteq {n \in DOMAIN run.cards : run.cards[n].status \in {"open", "skipped"}}
                        \ {run.cursor}
    /\ LET own == OnScreen(run)
           edits == {[index |-> own.index, print |-> own.print, from |-> form.from]}
                    \cup {[index |-> run.cards[n].index, print |-> run.cards[n].print,
                           from |-> run.cards[n].print] : n \in similar}
           busy == {run.cards[n].index : n \in similar}
       IN  /\ Go([Stashed EXCEPT
                    !.cards[run.cursor].status = "saving",
                    !.cursor = NextFree(run.cards, run.cursor, busy)])
           /\ saves' = Append(saves, [card |-> own.index, edits |-> edits,
                                      number |-> Len(told) + 1])
           /\ told' = Append(told, "waiting")
    /\ UNCHANGED <<journal, changes, wire, again, seen, landed>>

Close ==
    /\ run.open
    /\ run' = [run EXCEPT !.open = FALSE, !.cards = <<>>, !.cursor = 1]
    /\ form' = Seeded(run', form)
    /\ saves' = <<>> /\ paging' = Nil /\ again' = Nil
    /\ told' = [n \in DOMAIN told |-> IF told[n] = "waiting" THEN "closed" ELSE told[n]]
    /\ UNCHANGED <<journal, changes, wire, seen, landed>>

-----------------------------------------------------------------------------
(* Saves. *)

Send ==
    /\ saves # <<>> /\ wire = Nil
    /\ wire' = [state |-> "sent", save |-> Head(saves)]
    /\ UNCHANGED <<journal, changes, run, form, saves, paging, again, seen, told,
                   landed>>

Sent == wire # Nil /\ wire.state = "sent"

ServerSaves ==
    /\ Sent /\ Clear
    /\ LET s == wire.save IN
       IF Accepts(journal, s.edits)
       THEN /\ journal' = Written(journal, s.edits)
            /\ landed' = landed \cup
                   {[save |-> s.number, from |-> e.from,
                     over |-> FingerprintAt(journal, e.index)] : e \in s.edits}
            /\ wire' = [state |-> "ok", save |-> s, generation |-> journal'.generation,
                        edited |-> [i \in {e.index : e \in s.edits} |->
                                      FingerprintAt(journal', i)]]
       ELSE /\ wire' = [state |-> "conflict", save |-> s]
            /\ UNCHANGED <<journal, landed>>
    /\ UNCHANGED <<changes, run, form, saves, paging, again, seen, told>>

\* The request or its answer is lost.
SaveIsLost ==
    /\ "save" \in MayFail /\ wire # Nil /\ wire.state \in {"sent", "ok"}
    /\ wire' = [state |-> "failed", save |-> wire.save]
    /\ UNCHANGED <<journal, changes, run, form, saves, paging, again, seen, told,
                   landed>>

\* applyResult: the card is saved, and a queued card the batch categorised
\* leaves the run.
Applied(r, answer) ==
    LET of(c) == answer.edited[c.index]
        fresh(c) == c.index \in DOMAIN answer.edited
        stays(c) == \/ ~fresh(c) \/ c.index = answer.save.card
                    \/ c.status \notin {"open", "skipped"}
        after(c) == CASE ~fresh(c) -> c
                      [] fresh(c) /\ c.index = answer.save.card ->
                           [c EXCEPT !.print = of(c), !.status = "saved", !.draft = Nil]
                      [] OTHER -> [c EXCEPT !.print = of(c)]
        next == Picked([n \in DOMAIN r.cards |-> after(r.cards[n])],
                       {n \in DOMAIN r.cards : stays(r.cards[n])})
    IN  [Replace(r, next) EXCEPT !.generation = answer.generation]

SaveLands ==
    /\ Clear /\ wire # Nil /\ wire.state = "ok" /\ saves # <<>> /\ Head(saves) = wire.save
    /\ LET r == Applied(run, wire) IN
       /\ Go(r)
       /\ again' = IF Len(saves) = 1 THEN Asked(r) ELSE again
    /\ saves' = Tail(saves)
    /\ told' = [told EXCEPT ![wire.save.number] = "ok"]
    /\ wire' = Nil
    /\ UNCHANGED <<journal, changes, seen, landed>>

\* Wrong: Only the failed save is taken out of the queue.
StopKeepsTheRest(r, s) ==
    LET at == {n \in DOMAIN r.cards : r.cards[n].index = s.card} IN
    /\ Go([r EXCEPT !.cards = [n \in DOMAIN @ |->
                                 IF n \in at THEN [@[n] EXCEPT !.status = "open"] ELSE @[n]],
                    !.cursor = IF at = {} THEN @ ELSE CHOOSE n \in at : TRUE])
    /\ saves' = Tail(saves)
    /\ told' = [n \in DOMAIN told |->
                  CASE n = s.number -> wire.state
                    [] n # s.number /\ told[n] = "waiting" -> "cancelled"
                    [] OTHER -> told[n]]

\* stop: the run rewinds to the failed card and cancels what was queued behind.
Stop(r, s) ==
    LET reopened == {saves[n].card : n \in DOMAIN saves}
        at == {n \in DOMAIN r.cards : r.cards[n].index = s.card} IN
    /\ Go([r EXCEPT !.cards = [n \in DOMAIN @ |->
                                 IF @[n].index \in reopened /\ @[n].status = "saving"
                                 THEN [@[n] EXCEPT !.status = "open"] ELSE @[n]],
                    !.cursor = IF at = {} THEN @
                               ELSE CHOOSE n \in at : \A m \in at : n <= m])
    /\ saves' = <<>>
    /\ told' = [n \in DOMAIN told |->
                  CASE n = s.number -> wire.state
                    [] n # s.number /\ told[n] = "waiting" -> "cancelled"
                    [] OTHER -> told[n]]

SaveFails ==
    /\ Clear /\ wire # Nil /\ wire.state \in {"conflict", "failed"}
    /\ saves # <<>> /\ Head(saves) = wire.save
    /\ Stop(run, wire.save)
    /\ again' = IF wire.state = "conflict" THEN Asked(run) ELSE again
    /\ wire' = Nil
    /\ UNCHANGED <<journal, changes, seen, landed>>

\* The run was closed meanwhile: the answer is nobody's.
SaveIsNobodys ==
    /\ wire # Nil /\ wire.state # "sent" /\ ~run.open
    /\ wire' = Nil
    /\ UNCHANGED <<journal, changes, run, form, saves, paging, again, seen, told,
                   landed>>

-----------------------------------------------------------------------------
(* Pages and re-readings. *)

Rereading == again # Nil /\ again.state # "failed"

ServerPages ==
    /\ paging # Nil /\ paging.state = "asked"
    /\ Overlap \/ (~Rereading /\ run.generation = journal.generation)
    /\ paging' = [state |-> "answered", page |-> Listing(journal, PageSize, paging.offset)]
    /\ UNCHANGED <<journal, changes, run, form, saves, wire, again, seen, told, landed>>

\* The items of a page that the run has no card of.
New(items, cards) ==
    Picked(items, {n \in DOMAIN items : items[n].index \notin Indices(cards)})

PageArrives ==
    /\ paging # Nil /\ paging.state = "answered"
    /\ LET page == paging.page
       IN  Show([Replace(run, run.cards \o CardsOf(New(page.items, run.cards))) EXCEPT
                    !.fetched = @ + Len(page.items), !.total = page.total])
    /\ paging' = Nil
    /\ UNCHANGED <<journal, changes, saves, wire, again, seen, told, landed>>

PageFails ==
    /\ "page" \in MayFail /\ paging # Nil
    /\ paging' = Nil
    /\ UNCHANGED <<journal, changes, run, form, saves, wire, again, seen, told, landed>>

ServerListsAgain ==
    /\ again # Nil /\ again.state = "asked"
    /\ again' = [state |-> "answered", page |-> Listing(journal, again.limit, 0)]
    /\ UNCHANGED <<journal, changes, run, form, saves, wire, paging, seen, told, landed>>

\* revalidate's merge: what left the queue leaves the run unless it is on
\* screen, what changed is refreshed, what is new is appended.
Reconciled(r, page) ==
    LET item(c) == {page.items[n] : n \in {n \in DOMAIN page.items :
                                             page.items[n].index = c.index}}
        stays(n) == r.cards[n].status = "saved" \/ item(r.cards[n]) # {} \/ n = r.cursor
        fresh(n) == LET c == r.cards[n]
                        i == CHOOSE i \in item(c) : TRUE IN
                    CASE c.status = "saved" \/ item(c) = {} -> c
                      [] c.status # "saved" /\ item(c) # {} /\ i.print # c.print ->
                           [c EXCEPT !.print = i.print,
                                     !.draft = IF n = r.cursor THEN @ ELSE Nil]
                      [] OTHER -> c
        next == Picked([n \in DOMAIN r.cards |-> fresh(n)], {n \in DOMAIN r.cards : stays(n)})
    IN  [Replace(r, next \o CardsOf(New(page.items, r.cards))) EXCEPT
            !.generation = page.generation, !.total = page.total,
            !.fetched = IF @ < Len(page.items) THEN Len(page.items) ELSE @]

ListArrives ==
    /\ again # Nil /\ again.state = "answered"
    /\ IF saves = <<>>
       THEN Go(Reconciled(run, again.page))
       ELSE UNCHANGED <<run, form, paging>>
    /\ again' = Nil
    /\ UNCHANGED <<journal, changes, saves, wire, seen, told, landed>>

ListFails ==
    /\ "again" \in MayFail /\ Rereading
    /\ again' = [state |-> "failed"]
    /\ UNCHANGED <<journal, changes, run, form, saves, wire, paging, seen, told,
                   landed>>

\* The page's poll hears of a new generation, and tells the run.
Poll ==
    /\ Clear /\ seen # journal.generation
    /\ seen' = journal.generation
    /\ again' = IF run.open /\ run.generation # journal.generation /\ saves = <<>>
                THEN Asked(run) ELSE again
    /\ UNCHANGED <<journal, changes, run, form, saves, wire, paging, told, landed>>

ReviewNext ==
    \/ \E kind \in Changes, t \in Txns : Others(kind, t)
    \/ Type \/ Skip \/ Back \/ Close
    \/ \E similar \in SUBSET DOMAIN run.cards : Save(similar)
    \/ Send \/ ServerSaves \/ SaveIsLost \/ SaveLands \/ SaveFails \/ SaveIsNobodys
    \/ ServerPages \/ PageArrives \/ PageFails
    \/ ServerListsAgain \/ ListArrives \/ ListFails \/ Poll

-----------------------------------------------------------------------------
\* A save that was told it was cancelled, because one before it failed, is not
\* written, then or later (stop: "Not saved: an earlier save failed").
CancelledIsNotWritten ==
    \A l \in landed : told[l.save] # "cancelled"

AtRest ==
    /\ run.open /\ saves = <<>> /\ wire = Nil /\ paging = Nil /\ again = Nil
    /\ seen = journal.generation /\ run.cursor > Len(run.cards)
    /\ run.fetched >= run.total
    /\ \A n \in DOMAIN told : told[n] # "failed"

\* A run worked through to its summary has shown every transaction that is
\* still unknown: the pages are cut from a queue that its own saves and other
\* programs' changes shorten under it, and the re-reading makes up for it.
RunMissesNothing ==
    AtRest => \A n \in DOMAIN Unknowns(journal) :
                  Unknowns(journal)[n].index \in Indices(run.cards)

\* What a save writes over is what its fields were filled from: the same
\* transaction, as the others left it (review_api.rs, Fingerprints: a changed
\* text is a 409 "rather than an edit to text nobody saw").
WritesOverWhatWasShown ==
    \A l \in landed : /\ l.from.txn = l.over.txn
                       /\ l.from.text.others = l.over.text.others

=============================================================================

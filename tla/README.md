# Ledgeline, specified and checked

Ledgeline is a local GUI for hledger journals: a Rust server (`ledgeline-server`)
over a Rust core (`ledgeline-core`), a web frontend, a desktop window and a mobile
host. It keeps a journal in plain text files that the user also edits with other
programs, and its promise is that it never loses or repeats what those files say.
These modules specify the parts of the code that keep that promise: the write path
of the server, the conditional write underneath it, the routes that go round the
editor, live reload and the phone's refresh, the settings file, the import of bank
statements and the staging area an import works in, the calls of other programs, the
caches, the parts of the engine that keep state while they go through a journal, and
the two screens of the frontend that keep a conversation with the server.

Paths below are relative to `crates/`; `server` and `core` are the two crates' `src`.

## 1. Inventory

| part | state | operations | hard behaviour |
|---|---|---|---|
| write path (`server/lib.rs`, `server/edit_api.rs`, `core/edit.rs`) | one `JournalEditor` behind a mutex that may be poisoned, the published `Snapshot`, the journal's files | edit (add, replace, delete, batch, patch, statuses), save, publish, re-sync after a failure, recovery after a panic, reload, File>Open, republish on a settings change | handlers, watcher, import and window interleave; a save of several files fails half-way; a handler panics with an edit half made |
| pinned writes (`core/pinned.rs`, `core/vault`) | directory, inodes, the pin (identity and fingerprint) of the last read | `read_pinned`, `replace`, `write_atomic`, `create_new` | other programs write the same inode or rename over the name between any two system calls; inode numbers are reused; power fails |
| live reload (`server/main.rs`) | watched directories, an event channel, stamps of the sources | callback, debounce, stamp, reload, stamp again | saves land at every point; the set of sources changes with the journal |
| import commit (`server/import_api.rs`, `core/reimport.rs`) | the journal, hledger's `.latest` marker, the editor, what to undo | CSV, pin, dry run, id reconciliation, review edits, append, catch-up, roll-back, undo, assertion, status flips, re-open | many steps, each may fail; hledger's runs take seconds; the process may die; a timeout races the work |
| staging area (`server/stage.rs`) | at most eight stages, run directories in each, a counter | put and evict, materialize, dry run, rule preview, discard | requests share a stage without a lock; an upload evicts a stage in use |
| sibling writers (`account_api`, `alias_api`, `auto_api`, `budget_api`, `prices_api`, plan files) | the import mutex | list, save a line, create a file and its include, re-open the editor | the editor, other tabs and programs write the same file; the process dies between two files |
| rules files (`rules_api`, `review_rules_api`, `core/rules*`) | a `.rules` file per account, `rules_writes` | list, save with the client's revision, generate | two clients save one file |
| settings (`conf_api`, `core/hledger_conf`) | `hledger.conf` beside the journal or the user's own; a reading of it in every snapshot | read and republish, save with the client's revision | the file is read several times per request; File>Open moves to another file |
| projections (`projections_api`, `projection_cache`) | four cached sides per snapshot, plan files | run, save a plan | racing builders; the least recently used side goes |
| sidecar caches (`sidecar`, Yahoo histories, profiles, benchmarks) | one slot and the file beside the journal it mirrors | look, fetch, merge, write through | fetches hold no lock; File>Open between the path and the lock |
| balance checks (`core/parse`, `core/assertions`, `core/decimal`) | running balances by account and commodity | infer an elided amount, judge a transaction, evaluate assertions | precision of what was written; order of dates against order of files |
| average-cost replay (`core/holdings/engine`) | a pool of shares, basis and what is unknown | buy, sell, move, split, return of capital | a position oversold, closed and re-opened years apart |
| calls of other programs (`hledger.rs`, `workbook_sandbox.rs`) | a child, its pipes, three threads, a deadline | feed, drain, wait, kill, collect | full pipes; a program that hangs or leaves a child holding its pipes |
| review run (`stores/review`, `ReviewOverlay`, `core/review`) | cards, a form, a queue of saves, pages and re-readings in flight | type, save, skip, back, page, re-read | saves in the background fail and rewind; the queue moves while it is paged |
| journal page (`stores/journal`, `stores/journalView`, the table) | generation, query, summary, blocks of rows, requests in flight | poll, filter, scroll, fetch, evict | answers late, failed, or of another generation or filter |
| mobile host (`ledgeline-ffi`) | a server without a watcher, a coordinated vault, a record of evicted files | refresh, coordinated replace | files are evicted and synced under every read; two refreshes overlap |
| reports, statement conversion, rule matching, the rest of the frontend, HTTP, desktop | none that outlives a call | text to data, data to views | sizes and formats, tested against hledger and golden files |

How they interact. A request that edits takes the editor mutex, changes the editor's
ropes, saves through the vault (pinned writes), re-parses and publishes a snapshot.
Every read takes the snapshot without a lock. The watcher, an import, a sibling writer
and File>Open replace editor and snapshot together through `reopen_editor` or
`bind_editor`. An import and the sibling writers exclude each other (`import_writes`),
but not the editor: the pins stand between them. Rule previews and dry runs read the
staging area and the destinations' markers; a commit moves the marker. A settings save
republishes the snapshot of the moment. On a phone nothing watches: the host calls
`refresh`. The frontend polls the generation and asks again for what it shows.

What makes each part correct is stated by its properties, section 4.

## 2. Modules

* `EditService`: what the write path promises a client, in four actions.
* `AppState`: the write path. `MCAppState` instantiates it.
* `FileService`: what a conditional write promises its caller, whoever else writes the file
  and whenever the power fails.
* `PinnedReplace` (`MCPinnedReplace`): one file, its directory and everybody who writes it.
* `Watcher` (`MCWatcher`): the live-reload thread and its callback.
* `ImportCommit` (`MCImportCommit`): `run_commit` and all that may come between its steps.
* `StageArea`: the staging area and the requests working in it.
* `SiblingWrite` (`MCWriters`): the routes that write one line of one file, beside the editor.
* `ConfFile`: `hledger.conf`, its readings and the settings screens.
* `MobileRefresh`, `JournalPage` (together in `MCClients`): the phone's journal; the journal page.
* `SidecarCache`, `SideCache`, `HoldingsReplay`, `BooksCheck`, `ReviewRun`, `ToolRun`
  (together in `MCEngines`): the caches, the replay of a security, the balance checks, a
  review run and one call of another program.
* `AppStateProofs`, `PinnedProofs`, `WatcherProofs`, `ImportProofs`, `StageProofs`,
  `WriterProofs` (of `SiblingWrite`), `ConfProofs` and `EngineProofs` (of `SidecarCache`,
  `SideCache`, `ReviewRun`, `ToolRun`, `HoldingsReplay` and `BooksCheck`): the theorems,
  section 6. `Adding` is the sum that the last two share.

`MCEngines` and `MCClients` join systems that share no state, one of them moving in
each behaviour: they have no interface to check and are together only to be run at once.

The others share an interface. A conditional write is one step in `AppState` and in
`SiblingWrite` (guard: the revision still matches) and its system calls are
`PinnedReplace`. A reload is a handful of steps in `AppState` and two in `Watcher`, where
the debounce and the stamps are the subject. Another request's edit is one step of
`ImportCommit` and of `SiblingWrite`, which rely on what `AppState` establishes: such a
request writes only over what it read. A run of hledger is one step of `ImportCommit` and
`StageArea`, with the outcomes `ToolRun` gives it. A review save is a request of
`AppState` that checks a fingerprint. They share no variables: the product is beyond TLC,
and the interfaces are the guards just named.

### AppState

A journal is a set of files and a file's text the set of marks (edits) it shows; an edit
toggles marks, so that making it twice, or making somebody else's, is visible. `editor`
is `JournalEditor` (`rope`, `rev` the revisions read, `dirty`); `snapshot` is what
`ArcSwap` publishes, with the `location` it was paired with; `lock` and `poisoned` are
the mutex; `pc` and `task` are each thread's place in its handler. Handlers of whole
edits (add, replace, delete, batch: validated, then made or refused) and of sequences of
operations (`apply_patch`, `apply_statuses`, which fail in the middle) are the two
values of `whole`. `save` is `CheckFile`/`CheckRefuses` (pass 1 over every dirty file)
and `WriteFile`/`WriteFails` (pass 2, file by file). Reading a journal is a step per file.
`replace_journal` is two steps, `Locate` and `Store`, because it reads the location from
the snapshot in place and then replaces it. Panics hit any holder of the mutex.

### PinnedReplace

`dir` maps names to inodes; `device` is the set of directories a power cut may leave
(every one since the last directory sync); `synced` the inodes whose data is durable.
Each system call of `replace` is an action: open and compare the identity, create the
temp file, write, `fsync`, compare the content through the descriptor, look at the name
again, rename, sync the directory, clean up. `create_new` shares the tail. Any of them can
fail; when the removal of what a failed write made fails too (`CleanFails`), its error is
ignored and the file stays.
Other programs write in place, rename over the name (also a link) and remove. Inodes
are allocated from the free ones, so numbers are reused as soon as they may be.
`Service` is the view of all this from outside: `File` is what the name leads to, `Kept`
what each directory in `device` would make of it after a power cut, `Request` a call that
may still change the file, `Checked` the replacements whose looks have found what their
caller knew, `Making` the callers of `create_new` whose file is not whole yet. `rename` is
the step `Replace`, `fsync` of a created file `Complete`, the last look `Check`; a creation
that leaves its torn file behind is `Abandon`.

### Watcher

`Save` and `Edit` change a file; an event is delivered later by `Callback`, which
filters it as the code does, against the sources of the snapshot of that moment. The
thread is `TakeEvent`, `Drain`, `Quiet` (the debounce elapsed), `StampFile` per source,
`Unchanged` or `StartReload`, `ReadFile` per file, `ReloadDone` or `ReloadFails`,
`StampFile` again and `Restamped`. Time is not modelled: the debounce may elapse
whenever the channel is empty.

### ImportCommit

A statement is a set of rows numbered by date; the marker is the newest row covered;
some rows carry an id from the rules file. A journal file counts each row, says which
are cleared and which edits of others it has. `at` is the program counter of the commit
holding `import_writes`; every `?` and every early return of `run_commit` is an action
or a disjunct. `held` is the editor mutex while review edits are in place. `Faults`
names the I/O that may fail in a run: `"write"`, `"reread"`, and `"late"`, a catch-up
that did its work and then reported a failure (killed at its timeout).

### StageArea

`dirs` maps a stage to its run directories and those to their files; `live` is the
queue `put` evicts from. `materialize` is `Clear`, `Make`, `Copy`, `Mark`, and nothing
but the file system orders two requests. A request records for each hledger run what
it was meant to read and what it read.

### SiblingWrite

A file is what each of its lines says and what it includes; `page` is the listing a tab
shows, with its revision, and `job` the request it sent. A save takes the mutex of its
kind (`TakeMutex`), reads the file pinned, checks the revision and that the whole journal
still parses (`ReadAndPlan`), replaces (`ReplaceFile`), re-opens the editor
(`ReopenAfterWrite`) and answers. `create_*_file` goes through `PlanFile` and `CreateFile`
before the replace that adds the include. What differs between the routes is in the
guards: prices append and check no revision, rules files have a mutex of their own, a
plan file does not belong to the journal. The editor's save, other programs, the watcher
and a restart come between any two steps.

### ConfFile

A config file is its `--auto` line and the rest. `snaps` are the snapshots published: each
has the journal, whether `--auto` was in force when it was made, and a reading of the
config file once one was made. `GET` is `GetBegins`, `GetReads`, `GetPublishes`,
`GetAnswers` (`refresh_conf` reads, then compares with the snapshot's own reading); `PUT`
is `PutLocks`, `PutReads` (the revision check), `PutTargets` (a second reading, which the
write is pinned to), `PutWrites`, `PutRereads`, `PutAnswers`.

### MobileRefresh

A file has a text and may be off the device; a read of one that is off is recorded (`seen`)
and its download asked for. `refresh` looks at every source, then opens an editor when
there is none, or compares the sources with the editor's and re-opens it if one differs;
a read that fails unbinds the editor. An edit compares with the file inside the
coordinated block, and re-opens the editor when it differs. Which of its answers a
refresh gives the host changes nothing here and is left out.

### JournalPage

Rows are the generation and filter they are of. `asks` holds the requests in flight in the
order they were sent; an answer arrives (in that order in the listed run, in any order in
`MCClientsLimits.cfg`) or its request fails. A failed round of the metadata store is
followed by the next poll; a failed summary or block is not asked for again while the
generation, the filter and the table's window stay what they are, and `missed` records it. `Sync` and `Ensure` are the effects that load a
changed query and the blocks around what is on screen; `Pending` is the ticket that keeps
a block from being asked for twice.

### SidecarCache, SideCache

A request names the cache file (`Ask`, `Rename`) before it takes the slot's lock (`Look`,
`Merge`), fetches with no lock (`Fetch`), and merges into what the slot holds then. An
entry is the days it covers. `SideCache` is lookup, build and insert of the sides a
snapshot keeps, with `recent` the history it is compared with.

### HoldingsReplay, BooksCheck

`HoldingsReplay` takes a journal transaction by transaction: the legs of one security, with
costs known, missing or in a foreign commodity, and what takes up the rest; `pool` is
`SymbolPool`, `tally` the per-account shares. `BooksCheck` builds one transaction and one
journal posting by posting, and is otherwise functions of them: `Inferred` (elided
amounts), `LeftOver` and `Residue` (the commodities with something left over, at the
precision `Tolerance` gives), `Reported` (the verdict: none balance, two are a conversion,
one or three are reported), `Failures` (assertions, evaluated in the order `Evaluation` sorts them in: by
day, and as read within a day). Mantissas are unbounded integers: where an `i128`
overflows the code reports an error and judges nothing.

### ReviewRun

A transaction has a place in the journal and a text: whether it is still unknown, and
others' edits of it. `run` holds the cards served so far; `form` is what is on screen and
the text it was filled from; `saves` is the queue, `wire`, `paging`, `again` the head's
request, the next page's and the latest re-reading's. A failed save (`Stop`) cancels those
behind it and goes back to its card.

### ToolRun

Bytes of input and output are counted through pipes of bounded size; the child reads,
writes, forks an heir that holds its pipes, exits, fails or hangs. The server's threads
feed, drain and wait; `Collect` and `CollectTimesOut` are hledger's detached readers,
`Join` the worker's scoped ones.

## 3. Runs

A few seconds to four minutes each. Deadlock is not checked, except in `settings`: the
numbers of requests, saves and commits are bounded, so the other models come to rest.
In `settings` a screen may always be opened again, so TLC asks that some step is possible.

| run | instance | shows |
|---|---|---|
| `edits` | two threads, one journal of two files, four requests, two outside changes | `ServedWasOnDisk`, `ServedIsTheEditors`, `QuietEditorIsClean`, `WritesOnlyTheRequest` |
| `open` | two threads, two journals of one file, three requests, two outside changes, one panic | `ImplementsService`, `RequestsEnd` |
| `pinned` | two writers, one outside change, one power cut, two writes of any kind, three inodes | `ReplacesWhatWasRead`, `TargetIsWhole`, `TempsAreInUse`, `ImplementsService` |
| `watch` | a main file that includes none or one of two files, three saves or edits | `QuietServesTheDisk`, `Settles` |
| `watch_during` | the same | `SaveDuringReloadIsSeen` fails, section 7 |
| `money` | two commits, two other edits, one death, early faults | `NoDuplicates`, `IdentifiedOnce`, `RecordedRowsAreThere`, `OthersEditsSurvive` |
| `reviews` | two commits with review edits in one file, one other edit, early faults | `AllOrNothing`, `CommitsEnd` |
| `stage` | two uploads with room for one, two requests at a time, three in all, two folders, two skips | `RunsReadTheirOwn`, `PreviewsCleanUp` |
| `tabs` | two tabs on each pair of routes that meet in a file or a mutex, two saves, one act of others, files of two lines | `IncludeHasItsFile`, `EditorKnowsItsDisk`, `ChangesWhatWasShown`, `WritersEnd` |
| `settings` | two screens, two journals and the user's own file, one save, one act of others | `SaveLosesOnlyTheGap`, `ConfCatchesUp` |
| `clients` | phone: one or two refreshers, one editing client, two files, three texts, two events; page: two filters, two or four blocks with room for three, one edit, one move of the user or one failed request | `EditingReturns`, `LoneRefreshCatchesUp`, `OrderlyPageCatchesUp` |
| `engines` | two askers, two ledgers, two symbols; three builders, four keys, two sides; two brokers, three transactions; transactions of three postings in two groups and three commodities, journals of three lines in two commodities with assertions of one of them; three transactions reviewed a card at a time with two saves; programs of up to two bytes over pipes of one | `StoreKeepsSymbols`, `ServesWhatItFetched`, `KeepsTheMostRecent`, `PoolIsConsistent`, `BalanceIsJudgedRight`, `FailuresAreFalseOfTheBooks`, `RunMissesNothing`, `CancelledIsNotWritten`, `AnswersAreWhole`, `NeverStuck`, `NothingHoldsTheCaller` |

Why these bounds. Every race in the code is between two parties: a second thread, a
second writer, one outside change between two steps. Two files show a save or an undo
that stops half-way, two journals a reader and an editor on different ones; three inodes
are a file, its replacement and a number to reuse; two commits are an import and its
repetition; two edits and one death are enough for an edit before and after the
point of no return. `MaxLive` is 1 in place of the code's 8, `SIDES` 2 in place of 4,
`PageSize` 1 and `MAX_BLOCKS` 3: what goes is the oldest, and what comes is the next,
whatever the number. A pipe of one byte is full as soon as one of 64 KiB. Three
transactions are a purchase, a sale that closes or oversells it, and a re-opening. Three
postings are two that are written and one that is inferred, or a priced one among two.
`tabs` pairs the routes that can meet. `edits` and `pinned` use symmetry of the threads
and of the model values; the runs with a liveness property do not.

Each property of these runs is also checked to break: the definitions whose comment
starts with "A mistake" or "Wrong" are the code with one plausible slip (an unconditional
write, a missing `fsync`, a roll-back forgotten, an include before its file, a reader
joined), and each makes the property named beside it in `PROJECT.json` fail.

## 4. Properties

* **The editor.** `WritesOnlyTheRequest`: a save changes a file by exactly the edits of
  the request that holds the mutex, on top of what is there. `QuietEditorIsClean`:
  between requests no unsaved edit is left for the next one to save.
  `ServedIsTheEditors`: between requests readers see the journal that edits go to.
  `ServedWasOnDisk`: nothing is served that no file ever said.
  `RequestsEnd`: whatever fails, no request waits for ever.
  `ImplementsService`: each file takes a request's edits once, whole, or not at all.
* **The write.** `ReplacesWhatWasRead`: only a change after the last look is lost (that
  window is stated in `pinned.rs`). `TargetIsWhole`: the name is never torn by a power
  cut. `TempsAreInUse`: an error at any step leaves a temp file only if its removal fails as
  well, or the power does. `ImplementsService`: to its callers the
  dozen system calls are the steps of `FileService`: the file is replaced at once, by a
  whole text, after a moment of the same call at which it said what the caller knew; a
  write that fails, at whichever call, has changed nothing (`FailedLeavesTheFile`, which
  is a theorem of its own); and what a power cut can make of the file is one of the texts
  it had since it was last on the device.
* **Live reload.** `QuietServesTheDisk`: with no event pending, what is served is the
  include tree on disk, unless the last reload failed, a save fell inside it, or an
  edit of the program's own was undone before it was stamped (each exception is a
  divergence below). `Settles`: a burst ends.
* **Import.** `NoDuplicates`, `IdentifiedOnce`, `RecordedRowsAreThere`: a row is in the
  journal once, and a row the marker covers is in it; exceptions are only a commit that
  said its entries stayed unrecorded, and for rows without an id a death between append
  and marker. `OthersEditsSurvive`: no commit takes back what somebody else saved.
  `AllOrNothing`: a refused commit leaves nothing. `CommitsEnd`.
* **Staging.** `RunsReadTheirOwn`: hledger reads the CSV and the marker of its own
  request, whatever stage directories earlier or parallel requests leave.
  `PreviewsCleanUp`: a preview's directory is gone when it has answered.
* **Writers beside the editor.** `ChangesWhatWasShown`: a save changes the line its tab
  showed in the file as it is at the write, and no other. `IncludeHasItsFile`: a journal
  never includes a file that is not there yet, a death between the two writes included.
  `EditorKnowsItsDisk`: when no such writer is under way the editor holds their text.
  `WritersEnd`: every save is answered.
* **Settings.** `SaveLosesOnlyTheGap`: a save replaces the text its screen showed, unless
  the file changed between the save's own two readings. `ConfCatchesUp`: readings
  published late or with another journal are replaced in the end.
* **The phone.** `EditingReturns`: however its files were evicted or broken, editing comes
  back once they read cleanly. `LoneRefreshCatchesUp`: refreshes that do not overlap
  come to show what is on disk.
* **The page.** `OrderlyPageCatchesUp`: once journal and user rest, rows, totals and
  summary in sight are those of the generation served, whatever was evicted. A request that
  fails costs no more than what it was for: the one block, or the summary and the total.
* **Review.** `CancelledIsNotWritten`: a save the user was told is cancelled is never
  written. `RunMissesNothing`: a run worked through to its summary has shown every
  transaction that is still unknown.
* **Caches.** `StoreKeepsSymbols`: no write-through drops what another request or journal
  put in the file. `ServesWhatItFetched`: a request draws what it was told.
  `KeepsTheMostRecent`: racing misses leave the most recently used sides, each once.
* **Money.** `BalanceIsJudgedRight`: what is inferred balances, and what does not
  balance is seen. `FailuresAreFalseOfTheBooks`: exactly the assertions that are false of
  the books up to their day fail. `PoolIsConsistent`: the pool agrees with the accounts, and
  claims to know its basis only when it does.
* **Other programs.** `NeverStuck`: no program that would end is left waiting.
  `AnswersAreWhole`: an answer is never part of the output. `NothingHoldsTheCaller`: past the
  deadline nothing outside the server keeps the caller.

## 5. Fairness

`AppState!FairSpec` has weak fairness of each thread's next step: a handler, once it
runs, is scheduled. No request has to be made and nothing has to fail. A waiting
`Bind` may be overtaken by other requests; their number is bounded in a run, and a
standard mutex is not fair, so under an endless stream of requests a request could wait.
`Watcher!Spec` has weak fairness of the watcher's thread and of notify's callback, and
the number of saves is bounded: under endless writes the debounce window, which has no
upper limit, never closes. `ImportCommit!FairSpec` has weak fairness of the commit's
steps, a thread of its own with timeouts on every hledger run; a commit waiting for
the editor mutex waits for requests that end (`RequestsEnd`).
`SiblingWrite` and `ConfFile` have weak fairness of a request's steps and strong fairness
of taking the mutex, because a tokio mutex is handed on in order; `ConfFile` also has a
screen read the settings again and again, which the frontend does while it is visible.
For `MobileRefresh` (in `MCClients`) the provider delivers what was asked for, the host
refreshes again on each foreground, and the editor's mutex is handed on (strong fairness
of a refresher's next step). For `JournalPage` the poll runs while the page is visible,
effects run, and for each kind of request an answer keeps arriving, unless it failed.

## 6. What is proved

Every theorem holds for all values of the constants that meet the assumption of its
module (`AppStateAssumption`, `PinnedReplaceAssumption` and so on: which values are
distinct, which sets are not empty, what a function on them maps to). Where a theorem has
a hypothesis beyond that, it excludes a situation in which the code violates the
property, and section 7 has the instance that shows it. The property in brackets is the
one TLC checks.

**`AppStateProofs`**, the write path.

* `TypeCorrect`, `Invariant`: `Spec => []TypeOK`, `Spec => []IInv`.
* `EditorIsCleanWhenQuiet` (`QuietEditorIsClean`), `WritesAreTheRequests`
  (`WritesOnlyTheRequest`).
* `Implements`: `Spec => ImplementsService`, that is, `AppState` implements `EditService`
  under the mapping in `AppState!Service`.
* `ServesTheDisk` (`ServedWasOnDisk`), if nothing panics or no settings change is sent:
  the settings change publishes what a panic left half made (`MCAppStateLimits.cfg`).
* `ServesTheEditor` (`ServedIsTheEditors`), if no other journal is opened:
  `bind_editor` publishes before it takes the mutex (`MCAppStateDiverges.cfg`).

`QuietEditorIsClean` is not inductive: whether the editor is clean after a request
depends on what it held at every stage of it. `IInv` says what that is. `Mutex`: a thread
is inside exactly when it holds the lock, so there is one request at a time.
`Applying`: the ropes are the files as read with the operations done so far (`Draft`),
which for a recovering request starts at none (`RecoversFirst`). `Checking`: all its
operations. `Writing`: the written files have become the read ones, the others are still
as drafted. `CleanUnlessDrafting`: at every other stage the ropes are what was read.
`EditingIsBound` and `PublishesFor` tie a stage to why it was entered. Each action moves
one thread from one stage to the next, so each lemma (`ReadKeeps`, `RequestKeeps`,
`ApplyKeeps`, `SaveKeeps`, `PublishKeeps`, `EnvironmentKeeps`) takes one group of actions
and one conjunct at a time. `WritesOnlyTheRequest` follows from `Writing` and the guard of
the conditional write: the rope is the revision with the request's edits, and the revision
is what is on disk. The refinement adds `WroteWhat`, what the history of written files is
at each stage; every action then maps to `Accept`, `Save`, `Abandon`, `Outside` or a
stutter. The third part proves what readers see. `DiskInv`: what is read, what the editor
holds as read, what is about to be published and what is published was, file by file, on
the disk (`FilesAreRecorded` gives the induction its start). `OneJournalInv`: readers are
served the editor's journal, except while the thread at one of the stages of `Diverging`
is on its way to publish, and what it then offers is the editor's (`OffersTheEditors`).

**`PinnedProofs`**, the conditional write. `PinnedInvariant`: `Spec => []PinnedInv`;
from it `ReplacesOnlyWhatWasRead` (`ReplacesWhatWasRead`), `TargetStaysWhole`
(`TargetIsWhole`), `NoTempIsLeft` (`TempsAreInUse`: of every step but a removal that fails
itself, and a power cut), `FailureLeavesTheFile` (`FailedLeavesTheFile`). What makes them hold is which inode a name and a handle lead to.
`FreeIsUnused`: a new inode is one no name, no handle and no directory the device may
still come back with leads to. So two writers never fill one inode (`NewsDiffer`), a temp
name that leads to a writer's inode is that writer's (`NewIsUnderItsTemp`), and no
directory on the device has it as the target before the rename. `SeenIsThere` says of
each look at the file what is true until the history variable `late` records that
somebody changed the text or the name. `FilledIsWhole` and `DeviceIsWhole` are about every
directory in `device`, since a power cut takes any of them.

`ImplementsFileService`: `Spec => ImplementsService`. The mapping needs two more invariants.
`OpensFiles`: the file a writer made and the one it opened are no links, and nobody has
opened a temp file, so a writer that has looked still has when somebody else makes or
renames one. `FilledAsAsked`: what is about to be renamed is the text that was asked for.
Then there is a lemma for each kind of step that says which step of `FileService` it is
(`QuietServes` for those nobody sees). `KeptFollows` and `DirectoryStays` are what they
share: a step can be judged directory by directory, and one that leaves alone the inode a
directory has under the name leaves alone what a power cut would make of it.

**`WriterProofs`**, the routes beside the editor. `WriterInvariant`: `SiblingSpec =>
[]WriterInv`; from it `NoDanglingInclude` (`IncludeHasItsFile`), `NoStaleEditor`
(`EditorKnowsItsDisk`), `WritesWhatWasAsked` (`ChangesWhatWasShown`).
`MutexesAreHeld`: a request past its mutex holds the one of its kind. `PlansHold`: what a
request is about to write is what it read with one line changed, that line was what its
tab showed, and a request that includes the budget file has made it. `EditorIsToldSoon`:
where the editor does not know its disk, the request that holds the mutex is at its
`reopen`.

**`WatcherProofs`**, live reload. `ServesTheDiskWhenQuiet` (`QuietServesTheDisk`), if the
sources are in one directory: a directory first named by an include read later is not
watched (`MCWatcherDirs.cfg`). `ChangesAreSeen`: a source that is not as it was
stamped has an event in flight or pending, or the thread is on its way to compare it.
`ServedIsStamped`: what is served is what was stamped, unless a save fell into a reload, a
reload failed, or the app published an edit of its own. `WholeSources` makes the set of
sources of a journal a matter of its main file.

**`ImportProofs`**, a commit.

* `TakesNothingAway` (`OthersEditsSurvive`), for commits without review edits: the undo of
  review edits overwrites edits made since (`MCImportReverts.cfg`).
* `RefusedLeavesNothing` (`AllOrNothing`), if the review edits of a commit are in one
  file: of several, those saved before a refused one stay (the same instance).
* `NoRowTwice` (`NoDuplicates`) and `NoIdTwice` (`IdentifiedOnce`), for all commits,
  review edits and faults.
* `RecordedAreThere` (`RecordedRowsAreThere`), if a catch-up that fails has not moved the
  marker: one killed at its timeout may have (`MCImportLimits.cfg`).

The first needs `PinHasTheEdits`: the text a roll-back writes has every edit of the text
the append was pinned to, and the pin lets neither replace anything else. The second
carries what a refused commit will put back: `RowsCanBePutBack`, `ReviewsCanBeUndone`, and
`TextsAreOld`, that no text has the edits of a commit still to come. The last three rest
on `RowsOfTheCommit`: until a commit has landed, the rows are those it found, and after
the append each of its own once more. `RowsAreSingle` says what keeps a row single: once it is
in the journal it is `Covered`, by the marker or by an id the served journal has, so the
preview or the reconciliation of the next commit leaves it out, and what remains to be
appended is in none of the files the commit found. A crash takes the marker's half away,
which is why only rows with an id survive it (`Counted`). `RecordedStay`: while a commit is
on its way the recorded rows are among those it found, so that a roll-back keeps them.

**`StageProofs`**, the staging area. `PreviewsLeaveNothing` (`PreviewsCleanUp`), and
`ReadsItsOwn` (`RunsReadTheirOwn`) if no two dry runs of one upload overlap: they share a
directory (`MCStageShared.cfg`). `SlotsAreRight` bounds the slot of a preview by its
stage's counter, which is why no two share one (`Exclusive`); `LaidOut` says what a
directory holds at each step of the request it belongs to, if it is still there.

**`EngineProofs`** and **`ConfProofs`**.

* `NoSymbolIsLost` (`StoreKeepsSymbols`), from `SidecarInvariant`. `SidecarInv` says that
  the slot covers the file it mirrors (`SlotCovers`, while files can be read), that a
  request that is storing holds the slot's lock and stores the slot (`StoresTheSlot`), and
  that its file is named (`NamesAFile`). `MirrorsCover` is the one lemma about loading,
  `MergedIsACache` the one about merging.
* `DrawsWhatItWasTold` (`ServesWhatItFetched`): `AnswersAreSeen` has the answers of a
  fetch in what the request draws from the merge on.
* `CancelledStaysUnwritten` (`CancelledIsNotWritten`), of a review run.
  `QueuesAreOrderly`: no save in the queue is one that was cancelled; `WireIsTheHead`: the
  one on the wire is its head; `LandedIsPromised`: nothing that landed is told cancelled.
* `NoneIsMissed` (`RunMissesNothing`), from `PagesInvariant`, while no page is on its way
  when something else happens (`MCEnginesReview.cfg`). A page is a piece of a queue that saves
  and other programs shorten and shift, so that what was fetched has a card cannot be kept
  at every step. `PagesInv` says when it is so (`ShowsWhatItFetched`): nothing of the
  run's own pends, no re-reading is under way, and the journal is of the run's generation. And
  it says what makes up for it when it is not (`HearsOfChanges`): the queue is being read
  again, over all the pages there are (`RereadsWhatItFetched`), or the page has yet to hear of
  the journal's generation. The queue is taken from the journal by places (`Picked`), of which
  `PickedIs` has all that the proofs use.
* `KeepsTheLatest` (`KeepsTheMostRecent`). `SidesInv`: the keys of a snapshot's list and
  those of its history of uses are each there once, and the list is the end of the history
  (`HoldsTheEnd`), full or with all of it.
* `AnswersWhole` (`AnswersAreWhole`). `ToolInv` counts: what was drained, is in the pipe
  and is still to be written is what the program writes (`BytesAreKept`); a reader that
  ended has all of it (`EndsMeanAll`); and a caller that looks at a stream has waited for
  its reader (`CallerHasSeen`).
* `NoStandstill` and `CallerIsNotHeld`: what `NeverStuck` and `NothingHoldsTheCaller` say
  with `ENABLED`, said with guards, those of the threads, the caller and the program
  (`ThreadsMay`, `CallerMay`, `ProgramMay`). `EveryoneIsHeard`: every stream of a program that
  runs has a thread that drains it. That the guards are those of the actions is read off the
  actions; with the two properties it is TLC that judges the actions themselves.
* `PoolAgreesWithAccounts` (`PoolIsConsistent`), from `PoolInvariant`. `Consistent` is what
  each leg of a transaction preserves (`AfterLegKeeps`), whichever way it was read
  (`ReplayedKeeps`). That the pool has the shares of its accounts is about a sum over all of
  them: `Sums` are the partial sums, and induction is done through the least number at which
  they would not exist, or differ (`LeastOf`, from the library's `WFMin`). `SumMoves` is
  what is then used: one number more, as much more in the sum (`OverMoves`, of a sum over
  a set).
* `JudgesRight` (`BalanceIsJudgedRight`). A recursive definition over the postings is
  taken apart with `Unfolds`: a first value and a step within a set give a function, so the
  `CHOOSE` behind it has what to choose. `InferenceBalances`: the inferred amount is the
  sum negated, whatever `AtCost` and `Normalized` made of the prices, and zero passes at any
  tolerance. `BareAmountsShow`: a sum has no more places than the widest of its amounts
  (`TotalIsNoWider`), and the tolerance is at least that wide (`ToleranceIs`), so the exact
  test decides what is left over; `TwoAreAcceptable` turns the verdict's count into what
  hledger accepts, nothing or the two commodities of a conversion.
* `FailsWhatIsFalse` (`FailuresAreFalseOfTheBooks`). `EvaluationIs`: a stable order by day
  exists (`OneMoreIsSorted` puts a line in) and has every line once. `HeldIs` and
  `BalancesAddUp`, by induction over the lines evaluated: an account has met the commodities
  of its lines so far, and the balances of a set of accounts, added up account by
  account, come to those of their lines, added up line by line. `EvaluatedByDay`: the lines
  evaluated by an assertion's turn are those up to its day.
* `OnlyTheGapIsLost` (`SaveLosesOnlyTheGap`), from `ConfInvariant`. `ConfInv` carries what
  a save learned at its first reading to its write (`SaveHoldsTheShown`: past the check,
  what was read is what the screen showed), across every other step of the file, of the
  journal and of other screens.

`SurvivalInv`, `RefusalInv`, `RowsInv` with `RowsAreSingle`, and `WatcherInv` were checked
with TLC, faults and crashes included, before they were proved; `PagesInv` too, with pages of
one and of two cards. Some assumptions are there for the proofs and exclude no state of the
code: the values named in `SiblingAssumption` are pairwise distinct, `Targets` of
`ImportCommit` is not empty, and any of its rows have a newest among them (there are finitely
many); `Brokers`, `Accounts` and `Txns` are finite sets, and `Nil` of `ReviewRun` is none of
the states of a request.

Only model-checked:

* every liveness property: outside what the proof system does;
* `NeverStuck` and `NothingHoldsTheCaller` as they stand, which speak of `ENABLED`: what is
  proved has the guards in its place;
* `MobileRefresh` and `JournalPage`, whose properties are liveness.

## 7. Where the code and its words differ

One disagreement is a run that ends in a counterexample:

* `watch_during` (`main.rs:573`): the stamps are taken afresh after a reload, so a save
  inside the reload is stamped as loaded, and its event finds nothing changed.

The others have an instance here that is not a listed run. `tlc -config X.cfg M` shows the
first property it names violated; to see another one of the same instance leave those
before it out.

| instance, module | property violated | what happens |
|---|---|---|
| `MCAppStateDiverges.cfg`, `MCAppState` | `QuietServesTheEditors` | `bind_editor` stores the new journal's snapshot before it takes the editor mutex, so an edit to the old journal publishes over it: readers are on the old journal, edits go to the new one (`lib.rs:663`) |
| | `ServedPairsWithStorage` | the same race pairs one journal with the other's storage (`lib.rs:563`) |
| `MCAppStateLimits.cfg`, `MCAppState` | `ServedWasOnDisk` | a settings change publishes an edit a panic left half made (`lib.rs:723`) |
| | `RefusedBatchWroteNothing` | a batch refused at its second file has written its first (`edit.rs:2255`) |
| `MCPinnedCreateFails.cfg`, `MCPinnedReplace` | `CreateRemovesItsOwn` | a failed create removes by name, whatever has the name by then (`pinned.rs:424`) |
| `MCWatcherLimits.cfg`, `MCWatcher` | `IncludesAreHonored` | creating a file already included wakes nobody (`main.rs:616`) |
| | `NoMissedEdit` | an edit of the app undone outside within the debounce (`main.rs:566`) |
| `MCWatcherDirs.cfg`, `MCWatcher` | `QuietServesTheDisk` | an include from a directory not watched at start (`main.rs:639`) |
| `MCImportLimits.cfg`, `MCImportCommit` | `RecordedRowsAreThere` | a catch-up killed at its timeout after it wrote the marker is rolled back; its rows are covered by the marker and in no journal (`import_api.rs:4253`) |
| | `RetryIsPossible` | the advised retry is refused, the editor is unbound (`import_api.rs:3719`) |
| | `IdentifiedNeverTwice` | ids are matched against a snapshot without the last commit's rows (`import_api.rs:3631`) |
| `MCImportReverts.cfg`, `MCImportCommit` | `OthersEditsSurvive` | the undo of review edits pins to a fresh read, not to what the save wrote, and overwrites an edit made since (`import_api.rs:4421`) |
| | `AllOrNothing` | review edits saved half-way are kept (`import_api.rs:4467`) |
| | `WarnedEntriesAreThere` | the undo takes out entries just said to be in the journal (`import_api.rs:4257`) |
| `MCStageShared.cfg`, `StageArea` | `RunsReadTheirOwn` | two dry runs of one upload share the directory `with-latest`; hledger can run without the marker (`import_api.rs:3219`) |
| `MCWritersLimits.cfg`, `MCWriters` | `ProjectionsStayBeside` | a plan file the journal comes to include meanwhile is saved over (`projections_api.rs:2750`) |
| | `GoalsChangeWhatWasShown` | the goals listed are the served journal's, their revision that of a fresh read: a goal is changed that the tab did not show (`budget_api.rs:627`) |
| `MCConfLimits.cfg`, `ConfFile` | `NothingIsOverwritten` | what is written to `hledger.conf` between the save's two readings is lost (`conf_api.rs:436`) |
| | `AutoCatchesUp` | a snapshot whose config is first read after the file changed is not republished, and keeps the `--auto` it was made with (`lib.rs:714`) |
| `MCClientsLimits.cfg`, `MCClients` | `RefreshCatchesUp` | two refreshes open the journal at once, publish in one order and bind in the other: the editor has the last text, readers an older one, and no later refresh finds a change (`lib.rs:663`) |
| | `PageCatchesUp` | an answer about an older generation that overtakes a newer one stays on screen (`journalView.svelte.ts:106`); with `Orders = {TRUE}` and `MaxMoves = 1`: a summary or a block whose request failed is not asked for again (`journalView.svelte.ts:94`, `:125`) |
| `MCEnginesLimits.cfg`, `MCEngines` | `CacheIsNotLost` | a cache file that cannot be read for a moment counts as empty and is written over (`sidecar.rs:191`) |
| | `UnmarkedLinesCover` | File>Open during a fetch moves the slot, and the lines that were not fetched are drawn, unmarked, from the other journal's cache (`benchmarks_api.rs:484`) |
| | `DiscrepanciesShow` | a discrepancy somebody typed passes for rounding (`parse.rs:3480`) |
| | `ClosedHasNoBasis` | a position split away leaves its basis to the next one (`engine.rs:917`) |
| `MCEnginesReview.cfg`, `MCEngines` | `WritesOverWhatWasShown` | a form filled from an older text is saved with the fingerprint of the newer one (`ReviewOverlay.svelte:338`) |
| | `RunMissesNothing` | with pages crossing changes on the wire, a transaction falls between two pages (`review.svelte.ts:246`) |

The instances of the passing runs avoid these: `edits` opens no second journal and has
no panic, a commit of `reviews` has its review edits in one file, `money` has none, neither
has a late failure of the catch-up, `watch` has one directory, `stage` lets dry runs of one
stage follow each other (`Overlap = FALSE`), cache files of `engines` can be read
(`ReadsFail = FALSE`) and its review run has no page in flight across a change
(`Overlap = FALSE`), and the page's answers keep their order (`Orders = {TRUE}`), so that
`clients` says nothing of an answer that overtakes another. Where a property
itself is narrowed to what the code does keep (`LoneRefreshCatchesUp`,
`OrderlyPageCatchesUp`, `SaveLosesOnlyTheGap`, `StoreKeepsSymbols`, `BalanceIsJudgedRight`,
`PoolIsConsistent`), its unnarrowed form is in the table.

## 8. Not modelled

* Text: tokens, placement and sorting of transactions, the grammar of the parser, statement
  conversion, rule matching and inference, the formats of plan files and reports. They are
  functions of their input, compared with hledger by the repository's tests; an edit or a
  parse that may be refused stands for all of them. This is most of the code by lines
  (`core/rules.rs`, `core/parse.rs`, `core/projections*`, `core/reports`, `core/convert`,
  the wire formats of every route, the components of the frontend), and the reason why the
  models stand for a small part of the lines: a state machine of a text transformation
  would say no more than the tests of that transformation do.
* Reports and views (`core/reports`, `core/view`, `reports_api`): folds of a snapshot over
  exact decimals. `BooksCheck` has the arithmetic they share; their layout is theirs.
* Periods and allocation (`core/periodic`, `decimal::allocate`): pure, without a state between
  two calls.
* A pipe whose reading fails while a program runs: the call then never answers with output.
* File modes and owners, which `replace` carries forward from the file it opened.
* Fingerprint collisions: contents are compared exactly.
* hledger's own work: a dry run proposes the rows past the marker, a catch-up moves it.
* QuickBooks import: the same staging and append as the CSV import, with less around it.
* HTTP, the window, preferences, what Yahoo answers, the frontend's other screens: the
  models let a client send any request at any time.

## 9. Plan

1. An abstract import (a statement's rows enter the journal once, or never) that
   `ImportCommit` implements, checked and then proved from `RowsInv` and `RowsAreSingle`.
2. Allocation by weights and the expansion of a period, against reference definitions.
3. Placement and sorting of an edit inside the editor's text.

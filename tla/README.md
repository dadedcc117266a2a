# A TLA+ verification of table-viewer

table-viewer shows and edits tables (xlsx, csv, parquet, dta) in VS Code
and in a desktop program. Several views, windows and processes may show the same
file at once. What they share is one SQLite database with the state of each file:
view settings, unsaved edits and an *authority*, the durable record of which bytes
and which header settings were committed last. This directory holds TLA+ modules of
the parts where those actors meet, the TLC runs that check them, and TLAPS proofs.

Line references are to this repository; `PROJECT.json` maps every definition
to the lines it models and lists the hazards the properties are for.

## 1. The system and its parts

| component | state it keeps | operations | talks to | what is hard |
|---|---|---|---|---|
| authority order (`src/authority-order.ts`) | none | compare two authority vectors | everyone | is it an order; does a commit always move forward |
| keyed store (`src/state.ts`, `src/sqlite-file-state-*.ts`) | entries by path: state, revision, authority, stages, recency, copy provenance; leases; two revision counters | read, compare-and-set, stage / finalize / discard / inspect a commit, canonicalize, lease, copy, touch, trim, retention inside nearly all of them | coordinators and views of all processes | stale writes, eviction and re-creation, merging aliases, retries |
| commit coordinator (`src/file-coordinator.ts`) | per file and process: installed authority, operations, commit turn, highlight queue, subscribers, refresh reservations | begin, request a turn, finalize, release, cancel, install; header settings; highlights; registration; refresh dispatch | store (awaited calls), views (callbacks) | interleavings at every await, lost answers, crashes, turn leaks |
| viewer controller (`src/viewer-controller.ts`) | per view: candidates, edit claims, write fence, save in progress, refresh lanes | load and commit a candidate, save, claim edits, refresh | coordinator, store, panel session, webview messages | everything asynchronous about a view |
| panel session (`src/panel-session.ts`) | receiver epoch, adoption, desired / acknowledged delivery, ledger, timer | ready, replace, post, acknowledge, time out, retry | webview over an unreliable post | late and stale acknowledgements, retained results, dormant retry |
| history replay (`src/history-replay-*.ts`, `src/webview/history-replay-coordinator.ts`) | the page's two stacks and its slot, one lease, preparations and commits in progress | begin, prepare, commit, abandon, settle, invalidate, reset | controller, webview | everything that happens between the keypress and the answer: edits, saves, refreshes, reloads, expiry |
| open and recovery (`src/sqlite-open-recovery.ts`, `desktop/main/desktop-state-database.ts`) | all on disk: reader tokens, exclusive intent, blockade marker, the names of the set, recovery directories with manifests | initialize, open, close, quarantine, reclaim, preserve, resume | processes through the file system | mutual exclusion without locks, crashes between file operations |
| edit sessions and save (`src/webview/edit-session-*.ts`, `csv-save-lifecycle.ts`) | sessions, dirty cells, save generations | edit, save, settle | controller by messages | edits newer than a save in flight |
| row loader (`src/webview/row-loader.ts`) | requests in flight and pending, cache | request, reply, reset | panel core by messages | stale replies, slots |
| desktop host (`desktop/main/`) | windows, shutdown | open, close, quit | controller | shutdown racing work |
| comparison, table transforms, readers and writers, webview grid | | | | sequential computation and rendering |

The core is the path that a commit takes: a view computes a plan from the state it
read, *stages* it in the store, waits for the *commit turn* of its process, starts to
*finalize* (the store checks that revision and commit sequence are still those the
plan was made from), *inspects* the store, installs the resulting authority and
publishes a receipt. Rivals in the same process are ordered by the turn, those in
other processes by the store's checks.

Under it lies the database file itself. Processes come to it through a *gate* of marker
files; when it cannot be opened, the desktop offers to *preserve* it, that is to move all
its files into a recovery directory, and to start with a new one.

## 2. The modules

    AuthorityOrder            the order of authorities
      StoreTransactions       the bodies of the store's transactions, as functions
        AuthorityStore        sessions that run them on one database
      CoordinatorEntry        one process's bookkeeping of a file, as functions
    FileCoordinator           StoreTransactions + CoordinatorEntry: the operations,
                              await by await, in several processes
    CommitLog                 what FileCoordinator implements
    ViewRefresh               the views of a file: events, loads, commits, headers, saves
    PanelSession              one view's deliveries to its page
    HistoryReplay             undo and redo between a page and its host
    RecoveryGate              the marker files beside the database
      OpenRecovery            the database's files, under the gate
    MC*                       bounds for TLC
    AuthorityOrderProofs, AuthorityStoreProofs, FileCoordinatorProofs, ViewRefreshProofs,
    PanelSessionProofs, HistoryReplayProofs, HistoryDocumentProofs, OpenRecoveryProofs

**AuthorityOrder** translates `equal`, `dominates`, `compare_authority`, and `advance`,
the vector that a finalization writes.

**StoreTransactions** has one operator per transaction body of `state.ts`, from the
database before to the database after, the retention at its tail included. Bodies that
throw roll back, so their operator is only used where the code does not throw. Stored
states are opaque values of which only "empty" and "has unsaved edits" are told apart.
Timestamps are one bit per stage (older than `STALE_STAGE_MS`); the total order of
`recencyOrder` numbers is a set of pairs.

**AuthorityStore** runs them: a step is one transaction of one session. Callers are
abstracted to the worst: a write may expect any revision and commit sequence that was
ever handed out, so every caller of the real program, however slow, is included.
`reader` is what one arbitrary client remembers of its last read; the properties
judge what a write that it bases on that memory could do.

**CoordinatorEntry** translates the synchronous functions on `FileCoordinatorEntry`;
none awaits, so each is a function on the entry record. Tokens and their
`OperationState` objects are functions of the operation.

**FileCoordinator** composes both. `pc[o]` names the await at which operation `o` is
suspended, `loc[o]` its locals that live across it; one action runs from an await to
the next, with every call the code makes in between. A store call joins its process's
queue and `Execute` runs the head of it as one transaction. `ExecuteThrows` makes it
throw, with or without having taken effect; `Crash` ends a process and restarts it on
what the store holds; `EvictElsewhere` is another window's retention or trim. A stored
state is the *set of operations whose change it contains*: a lost update is a missing
member. `Physical*` actions are `commit_physical_candidate` of `viewer-controller.ts`,
`Header*` are `commit_excel_header`, `Highlight*` `execute_cell_highlight_command`.

**CommitLog** is the abstract specification: one sequence of commits per file, each
operation at most once in it and never after its answer, changes never lost, answers
true. `Log` in FileCoordinator is the refinement mapping and `ImplementsCommitLog` the
property.

**ViewRefresh** is about several views of one file in one process. The file has numbered
contents; `signal` says that the watcher has yet to report a change. The coordinator's
refresh dispatch (`pending`, `flush`, `held`) hands events to every open view.
A view's load reads, verifies, begins a physical operation, waits for its commit and
adopts what was committed: one action from an await to the next, and a new load may
supersede it at each. What the operations do in the store is FileCoordinator's; here
`finalize_authority_commit` is one step that may fail (`FinalizeFails`) or be rejected because another content
was committed (`invalidate`). Header settings reach all views in one
step, since their receipts are handled in microtasks. Of a save it has the two checks of
the file, the reservation, the write, and the refresh that takes the reservation's place; panels
open and close between any two steps.

**PanelSession** models one session with its page. The methods of the class never await, so
each is an operator from a session to the next, as long as the code calls it; the owner's
handlers and the timers are the actions. A post may arrive, or be answered with false, late
or not before the timeout; the page takes snapshots in order, classifies each
(`classify_snapshot`) and answers, and may be loaded again, with or without what was
on its way. The owner is reduced to what it asks of the session: loads that commit and
are adopted later, header results retained before, with, or instead of an adoption, new
state, `dispose`. The two modules meet in `handle_snapshot_applied`: ViewRefresh takes
a page that gets every post in order, which is what PanelSession's `EventuallyShown` and
`PageNeverGoesBack` say of the page in the end.

**HistoryReplay** follows an undo or redo through both ends. The page (`webview/app.tsx`,
`history-replay-coordinator.ts`, `history-stack-model.ts`) has a cell, its two stacks, what it
published last and whether that is acknowledged, its edit session, and the `slot` of the
replay it has outstanding. The host (`viewer-controller.ts`,
`history-replay-lease-model.ts`) has the durable edits, the edit session, the latest snapshot
and its acknowledgement, the flag of a preparation, and the lease. `pending_edit_writes` are a
queue of their own: a preparation or a commit that drains them waits for those that were there
(`awaits`). An edit session is claimed by `HandleSession` and, once the durable edits are read,
given by `GrantSession`, under its number if the panel has it already. A preparation goes from
`HandlePrepare` over `BindPreparation` and `ComparePreparation` to `IssueLease`, and gives the flag
back when its post to the page ends (`PostEnds`), together with the lease if the page did not
get it. A commit goes from `HandleCommit` over `StartCommit` (before the drain) and `VerifyCommit`
(after it) to `commit_history_replay` (the compare-and-set) and `AnswerCommit`; meanwhile the
file may turn out to have changed on disk (`PreparationOutdated`, `CommitOutdated`).
`replay_is_current` is asked again where the code asks. Messages of one direction keep their order.
Values stand for contents of one cell; an entry is the pair of values before and after. The
transport of snapshots is PanelSession's: here a snapshot comes at once or late, and `For`
drops what is for an earlier load.

**RecoveryGate** has one action per call of the file system. A marker file is absent,
torn (created, not yet written: `write_private_file_exclusive` creates and then writes) or
valid. A reader looks for an intent, creates and writes its token, looks again, and goes
through the door or withdraws. A holder creates and writes its intent and waits until no
token is left. `Attest` is the user's word, in the recovery dialog, that all other
processes are closed (the desktop has a single-instance lock, `main.ts:1747`); with it, torn
markers are quarantined and the intent and the tokens of dead processes reclaimed. `Crash` is
the death of a process and also any exception that leaves the files as they are.

**OpenRecovery** extends RecoveryGate with the set: which inode each name (main, journal,
wal, candidates) is linked to, its size, and the recovery directories with their
manifests. An opening takes the inventory, builds a candidate where there is no database,
links it to the canonical name unless that is taken, connects and writes. A preservation
surveys what earlier ones left (`Resume`, `StartOver`, `Adopt`), writes manifest and
blockade and moves member by member: link, record, unlink, record. `Fault` is a file
operation that throws, `Die` a death, between any two steps; `StopFailed` is the `finally`
block. SQLite is abstracted to its journal: a transaction has one, a commit deletes it,
and connecting rolls back what a dead writer left. `Desktop` selects the desktop's flow
(preflight, dialog, attestation); without it processes use the library alone.

## 3. The runs

| run | instance | shows |
|---|---|---|
| `store` | a file and its alias, two sessions and a lease, one kind of stage, one copy, confirmed deletions, revisions below 3 | `RevisionIdentifiesState`, `RecencyOrdersEntries`, `PendingEditsSurvive`, `AuthorityNeverRegresses`, `ProvenanceNamesUntouchedCopy`, `LeaseProtects` |
| `two_processes` | any three of two header settings in one process and a load and a highlight in another; one failing call, one crash | `HeadersInOrder`, `InstalledNeverAhead`, `ReceiptIsOneStep`, `ImplementsCommitLog` (refinement) |
| `live` | any two of a header setting and two loads in one process; one failing call, one eviction | `OperationsBalance`, `EveryOperationEnds` |
| `evicted` | one header setting after an eviction by another window | `LiveWindowRewrites` is **violated**, see section 6 |
| `panel` | one command; any three page loads, lost posts, loads, changes of the file or writes of the state | `AcknowledgedIsShown`, `PageNeverGoesBack`, `EventuallyShown` |
| `panel_results` | two commands, one such event | `CommandsEnd` is **violated**, see section 6 |
| `views` | two views; any two changes, saves, header settings, openings, further loads or failed commits | `ReservationsBalance`, `AuthorityNamesTheView`, `ViewsCatchUp` |
| `replays` | one panel; one edit, one save, three undos or redos, one lost or late post, refused session, changed file, refresh, edit of another panel or page load | `HistoryDescribesDocument`, `AnswerIsOwed`, `SavesExcludeReplays`, `CommitKeepsLease` |
| `gate` | three processes, three tokens, any number of crashes | `MutualExclusion`, `OpenersKeepTokens`, `WaitsOnlyForTheSettled` |
| `preserve` | the desktop, two recovery directories, four files, two deaths or failing operations | `NothingLost`, `HalfMovedIsBlocked`, `OnlyDeadEndsRefuse` |
| `shared` | two processes, one recovery directory, three files, one death or failing operation | `ConnectedToCanonical`, `NoForeignReplay` |
| `resume` | as `preserve`, one death or failing operation | `PreserveResumes` is **violated**, see section 6 |

Bounds. `Sentinel` bounds the revision counter (in the code `EXHAUSTION_SENTINEL`, a
huge number; transactions that would pass it throw, in the model too). With 3 there are
two writes and a deletion, enough to create, delete and create an entry again. `MaxStored = 1` puts the store at its limit from the second entry on.
Two paths suffice because no transaction relates more than two (a merge of three aliases
repeats the comparison of two, and the comparison is proved to be an order). Three
operations suffice to overtake, to conflict and to be overtaken while conflicting.
`MaxFaults`, `MaxCrashes` and `MaxEvictions` bound the failures: one lost answer is what
reconciliation exists for. In FileCoordinator, `Sentinel = 50` is never met.
`MaxConflicts` and `MaxHighlightAttempts` are the code's own limits. Symmetry is used in
OpenRecovery's runs.
Deadlock checking is off throughout: a finished set of operations, or a store whose
counters are used up, may stop. Only `gate` checks for deadlock.

In OpenRecovery, `File` bounds the inodes alive at once (one without a name or a connection
is used again): three are two candidates and a journal, four are a main file and a journal
set aside with a main file and a journal in their place. Two recovery directories are one
that is complete and a later one, or one that an attempt left and another. `MaxSize` only
has to tell that a file was written to. Two faults are a failure and one more while
recovering from it. Files and directories are interchangeable and named symmetric; the
properties checked with them are invariants and properties of single steps.
Deadlock checking is off here too: without an attestation nothing removes the intent of a
dead process, and readers then retry for ever, as in the code; and directories run out.

`MaxOps` bounds how many of the operations are begun: all triples of four, all pairs of three.
In PanelSession `MaxEvents` bounds page loads, lost posts, loads that the owner wants, changes
of the file and writes of the state *together*: with three, a page can be
reloaded while a delivery is lost and another commit overtakes it. One retry delay stands
for the code's four (`BackoffLength`), a ledger of two for 32: a delivery is then forgotten
while its acknowledgement is on the way. `MaxInFlight` keeps timers from posting
without end to a page that takes nothing. In ViewRefresh `MaxEvents` bounds changes of the
file, saves, header settings, opened panels, further loads and failed commits together: two
suffice for any of them to overtake another, with two views and any of them settled, loading or not there at
the start. `RetryCount = 3` is `RELOAD_RETRY_COUNT`; it has to exceed what the events can fail.

In HistoryReplay one edit suffices because a discard and every replay record or move entries
too; three replays are an undo, its redo and one that overtakes or follows them; one
fault (`MaxFaults`) is one disturbance at any of some forty steps, next to expiries, which are not
bounded. All properties are about states and single steps, so that it needs no fairness;
`AnswerIsOwed` says where the answer that a busy page waits for is, instead of that it comes.

Fairness. In FileCoordinator: weak fairness of `Resume(o)` for each operation (a
promise that has settled resumes its continuation: the event loop runs on) and of
`Execute(p)` for each process (the store queue keeps running, `enqueue` in `state.ts`
continues after a failed operation). Starting an operation, failures, crashes and
evictions are not fair. `EveryOperationEnds` is checked without crashes, which
would end operations trivially. In RecoveryGate: weak fairness of the steps that a
reader takes by itself and of the holder's `Drain`, both loops of a process that yields and
goes on. Nobody has to open, close or die. `waitForReaders` may therefore wait for ever,
for a database that stays open or a token that a dead process left;
`WaitsOnlyForTheSettled` says that it waits for nothing else, in particular for no reader
that in turn waits for the intent to go.

In PanelSession: weak fairness of the page taking a snapshot, of the owner handling a
message, of what the owner has begun (completing a ready epoch, loading, answering a
command), of answers to posts, and of timers. Page loads, lost posts, changes and writes
are not fair, and bounded. In ViewRefresh: the watcher reports, microtasks run,
operations end, loads and saves that have begun go on, pages answer. Nobody has to
change, save, open, close or set headers; commits fail boundedly often.

## 4. What is proved

TLAPS checks these for all values of the constants that satisfy the named ASSUMEs
(`StoreAssumption`, `AuthorityStoreAssumption`, `NoEntryAssumption`, `EntryAssumption`,
`FileCoordinatorAssumption`, `MarkerAssumption`, `ViewRefreshAssumption`,
`PanelSessionAssumption`, `HistoryReplayAssumption`, `GateAssumption`, `SetAssumption`):
any number of paths, states, sessions, leases and stage ids, any `MaxStored` and `Sentinel`,
both canonicalization policies; any finite number of operations in any processes, any
number of failing calls and crashes; any finite number of views, any number of retries, page
loads, edits and replays; any number of files and recovery directories. The assumptions say
no more than that the constants have their types and that a value which marks an absence
(`NoEntry`, `NoState`, `NoDigest`, ...) is not one of the values whose absence it marks.

*AuthorityOrderProofs.* Domination is asymmetric and transitive, `compare_authority`
answers consistently from both sides, being equal-or-later is reflexive and transitive,
and the vector that a commit produces dominates the one it was made on. A process that
installs only dominating vectors never goes back.

*AuthorityStoreProofs.* `TypeCorrect == Spec => []TypeOK` and
`RevisionsIdentifyStates == Spec => []RevisionIdentifiesState`: a compare-and-set cannot
overwrite a state its caller did not see. `RevisionIdentifiesState` is not inductive by
itself: it speaks of one path, while copies and merges carry revisions from path to path,
and deletions make a path read at the absence revision, which all absent paths share.
The invariant `IInv` strengthens it in two ways:

- `Sound`: *one revision names one state in the whole database*, across paths; entries
  at the absence revision hold the empty state; all revisions are below `nextRevision`.
- `Names`: a revision that was ever seen is below `nextRevision`, and if it is anywhere in
  the database it still names the state it was seen with.

Every transaction body is a composition of few primitive changes: refresh the recency
order, write under a fresh revision, write without changing state and revision, remove
and move the absence revision. There is one lemma per primitive (`FreshWriteKeeps`,
`SameWriteKeeps`, `RemoveKeeps`, ...), one per transaction body, and one per action.
`RecencyIsTotal` goes along with them (`Ordered` in the invariant).

The four properties of single steps (`AuthoritiesMoveForward`, `EditsSurvive`,
`ProvenanceIsExact`, `LeasesProtect`) are read off what a transaction may do to an entry
(`Honest`): between its effect, retention and the merge of an alias, an entry is left alone,
goes to its canonical path, is written under a fresh revision, or is removed where nothing
protects it. What retention takes away is said once (`Spares`): nothing that is leased in
this session, that holds unsaved edits or that the transaction itself wrote, and never
the most recently used entry.

*FileCoordinatorProofs.* Two layers. The first one, `LocalInv`, holds with evictions
and crashes, and gives `CoordinatorTypes == Spec => []TypeOK` and
`NothingLeaks == Spec => []OperationsBalance`. That an entry counts its operations is not
inductive: an operation is counted out by whichever of `conclude`, `cancel` and `reject_operation` comes
first, and meanwhile others invalidate it, reject its request or give it the turn. So `LocalInv` says

- where an operation stands in the entry of its process at each await (`Stances`): in no
  entry, planning, waiting for the turn (still in line, granted, or rejected and not yet
  told) or finalizing; a step of one operation may only take others from one of these places to
  the next (`Moves`);
- the count of the entry is that of the operations that run (`Balanced`);
- the highlight commands of a process stand in `cellHighlightTail` once each, and only the first one
  has gone past "queued" (`Lines`);
- a call in a store queue is the one its operation awaits, or a discard nobody awaits (`Calls`).

The second layer speaks of the store, and of one whose entry nobody evicts (`MaxEvictions = 0`,
as in `two_processes`): an eviction takes the durable authority back to the empty one, on which
processes that still believe in the old one then disagree with the store; section 6 has what
comes of it. `Chain` says that all authorities anybody holds, in an entry, a local or a reply, are
comparable and none is later than the durable one; then `NeverAhead`. `AllTied` ties the
locals of an operation to the store:

- a revision that an operation knows names one state (`Revised`);
- what it decides on builds on what its process has installed (`Based`);
- from the stage call until it is finalized, its stage is in the store exactly as it made it,
  or the operation has taken effect (`StageHeld`);
- if it took effect, its stage is gone, its place is the sequence number after its basis, and no
  reply it has or can get says that the stage is still there; if a reply says it took effect,
  it did (`TookEffect`, `Told`);
- a highlight is in the stored state once its write succeeded, and not before it ran
  (`Marked`); who has not ended has no answer (`Unanswered`).

With it, `ReceiptsAreSteps == Spec => []ReceiptIsOneStep`, and the refinement
`RefinesCommitLog == Spec => ImplementsCommitLog`: a store call that takes effect is the
log's `Commit` or `Write`, the end of an operation is its answer, everything else stutters. The
argument for `reconcile` is the interesting one: after a finalization that threw, the
stage is present and the operation has not taken effect, or it is absent and it has; the
inspection sees which, because only the operation itself finalizes or discards its stage
(here no stage gets as old as `STALE_STAGE_MS`).

`SettingsInOrder == Spec => []HeadersInOrder` puts `InOrder` on top, which says of the header
settings of one process where they stand in line, since the ordinals alone do not give it:

- of two valid ones the older waits for the turn or has it, and none older than the one
  that has the turn is valid (`InLine`): a setting asks for its turn before the next one begins,
  is granted it before the younger ones, and a grant invalidates what it overtakes;
- if the newer of two has taken effect, the older one has before it, or it is neither valid
  nor deciding and never will (`Ordered`).

`InLine` is kept by every operator of the entry, one lemma each; `Ranks` is what a step of an
operation does to it, one lemma per action.

*PanelSessionProofs.* `SessionTypes`, `BelievesThePage == Spec => []AcknowledgedIsShown` and
`NeverGoesBack == Spec => PageNeverGoesBack`. The invariant has two halves. `Sound` is what each
method of the class keeps, so there is a lemma per method: what is desired is the latest
snapshot issued (`Latest`), snapshots travel in the order they were issued and none is older than what
the page shows (`InOrder`), and what counts as acknowledged the page shows, or its "ready" is
on the way (`Believed`). `Answered` is about what the page has said: an acknowledgement on
its way is of a snapshot the page still shows or has passed, or a "ready" comes after it. The order
of messages alone does not give this, since posts are repeated.

*HistoryReplayProofs.* `ReplayTypes`, `AnswersAreOwed == Spec => []AnswerIsOwed`, `LeasesAreKept ==
Spec => []CommitKeepsLease` and `SavesAndReplaysExclude == Spec => SavesExcludeReplays`.
`AnswersAreOwed` needs to know where an answer can be (`Owed`: on the wire, or with a preparation
or commit of the present epoch), that a load of the page is announced once, after everything the
old page sent, and answered once (`Loading`), so that what is dropped is only what nobody waits
for, and that snapshots are acknowledged only after they were posted (`Deliveries`). A spent lease
belongs to a commit that runs (`Spent`). That a commit in turn keeps its lease speaks of the
present page only, since a page load forgets the lease and leaves the commit running; it
needs that there is at most one commit of an epoch and that its replay was bound in that epoch
(`Numbered`, below). Both directions meet in `SavesAndReplaysExclude`: until preparations of two
pages have overlapped there is one preparation, which holds the flag, and neither flag nor lease
while a save runs (`Exclusive`), so that a commit which still runs then has lost its lease to a
page load and belongs to an earlier epoch, which `replay_is_current` refuses.

*HistoryDocumentProofs.* `HistoryDescribes == Spec => []HistoryDescribesDocument`. AtRest is a
statement about one moment; what leads to it is a statement about everything on the way. The
invariant `DocInv` (stated in HistoryReplayProofs, whose second half says what each
handler does to the fields it speaks of) says of each moment what the page will show once it has
read its queue. A queue is described by two formulas only, `NoneIn(q, A)` (no message of A) and
`NoneAfter(q, A, B)` (none of B follows one of A), which taking from the front and adding behind
keep or change in an obvious way. The parts:

- `Numbered`, `Heard`: an admitted commit waits for exactly the edits that are pending, only the
  first commit is past its drain, and the panel has heard of the durable edits but for the time
  between a compare-and-set and its answer.
- `Arriving`: once the host has heard that a page was loaded again, nothing of the old page is
  left but what a former epoch marks, and the first snapshot precedes all the page can use.
- `Ordered`: no snapshot follows the latest, and none is on its way when it is acknowledged. This is
  why `host.acked` makes a preparation or a commit safe: the page has seen what the host knows.
- `Tokens`, `Bound`: the replay that the slot waits for is in one place, a call, a preparation, a
  commit or a verdict; its entry stays the newest of its stack.
- `Sessions`: one question about the edit session at a time; without a session the page has
  nothing published, and after a discard is handled no edit of it can land.
- `Pipeline`: the last publication is behind all others, so that its acknowledgement means that
  no edit is pending.
- `Document`: from then on, and from the comparison of a preparation on, the host knows and shows
  what the page shows or, once a replay is committed, what its entry leads to (`Agreement`);
  the edits behind the replay say the same (`InFlight`); and a page that saves while it holds
  back a change cannot get a replay past its save (`Saving`). All that holds while no replay was
  refused after it was written (`host.overtaken`, which the property excepts) and no answer to a
  commit was lost (`Stuck`: the page then stays busy until it is loaded again, and never rests).
- `Linked`: in each stack one entry leads to the next, and both stacks meet at the cell. The
  property's claim about the newest entries is not inductive without it, since an undo
  uncovers an older entry. Between two edit sessions the history leads to the document without
  edits, and so do the durable edits: a grant installs just that.

`Values` adds which values occur, so that publishing something new is never mistaken for
publishing nothing. TLC found all parts to be invariants of a small instance before they were proved.
The step lemmas then go part by part and, within a part, handler by handler (`NextNumbered` to
`NextLinked`), and `NextDocInv` puts them together.

*OpenRecoveryProofs, the gate.* `GateTypeCorrect`, `MutuallyExclusive == GateSpec => []MutualExclusion`
and `TokensKept`. That no door is open while a process holds (`DoorsShut`) is not inductive:
it needs that the token of a reader past its writing is on disk and its own
(`TokensOwned`), so that a drained holder has seen it; that a claimant's intent is on disk and
there is one claimant (`IntentClaimed`), so that a reader's second look sees it; and that who
acts on the attestation is alone (`AttestedAlone`), so that clearing takes nothing from
the living. One step of the proof per action.

*OpenRecoveryProofs, the files.* Every action on the files is built from one of the gate or leaves the
gate alone, so that the theorems of the gate hold of OpenRecovery; the lemma `ImplementsGate`
says just that and no more. With them, `ConnectionsCanonical ==
Spec => []ConnectedToCanonical`: who is connected is inside (`ConnectedInside`); a mover
unlinks the canonical name only while it holds, when nobody is inside; an installer links
it only where nothing has it, when nobody is connected.

What the moves preserve is proved from one invariant, `FilesInv`: `FilesTyped == Spec =>
[]SetTypeOK`, `FilesKept == Spec => []NothingLost`, `HalfMovesBlocked == Spec =>
[]HalfMovedIsBlocked`, `RefusalsAreDeadEnds == Spec => []OnlyDeadEndsRefuse` and `NothingReplayed ==
Spec => NoForeignReplay`. Its parts were checked by TLC as invariants of both instances first.
`Aside` says of each member how far it is: under its name, under its name and in the
directory, or in the directory alone, and its record never ahead of that; it holds from the
moment a blockade is claimed until the manifest is complete. Not earlier: after a failed attempt
has let go of the gate the members of its manifest may be written to, and a transaction that dies
leaves a journal beside it. `Kept` is what remains true then: the database stays the one that the
manifest names, and a file it does not name can only be such a journal. `Directories` has at
most one directory unfinished, and no first run while there is one, so that a valid blockade
names the only one (`Blockades`) and an attempt that finds no blockade finds that one, or
nothing, to continue from; what it cannot continue from is a dead end (`RefusesOnlyDeadEnds`).
`Movers` says where a holder's position leaves its directory, `Workers` the same of those
inside, and `Rollback` that a journal is of the main file that is there: a name is free for a new main file
only where the inventory found no journal. The gate makes the steps separable: while a
process holds, nobody is inside and nobody else moves (`HolderAlone`), so that a
holder's step disturbs nobody's position (`OthersStay`), and a step of an opening meets no mover.

*ViewRefreshProofs.* `ReservationsBelongToWrites == Spec => []ReservationsBalance` needs with
types only that a view which was never open has no save (`FreshRests`). For
`SameAuthoritySameView == Spec => []AuthorityNamesTheView` every pair of a revision and a content
that is written down anywhere, in the authority, in a view's adoption or in a load that has
committed and is not adopted yet, is a *claim* about that revision, and so is every pair of a
revision and headers. The invariant says that claims are functional (`ClaimsAgree`): there is at
most one of each revision, and none of a revision to come. A step passes claims on, or makes
the one of a new revision. It takes two more facts: the operation that commits a load is the
only current one of its view and carries the content of that load (`OperationsMatch`), and a load that
keeps the adoption has the content that is shown (`same_is_shown`). One lemma per operator on a view, and one per action.

## 5. What is only model-checked

Every invariant, every action property and every refinement that a passing run checks is a theorem.

Out of reach of TLAPS here and left to TLC: liveness under fairness (`EveryOperationEnds`,
`ViewsCatchUp`, `EventuallyShown`, `WaitsOnlyForTheSettled`) and the three runs that expect a violation. No module that is proved about
uses a RECURSIVE operator, and no result rests on induction over data.

## 6. Disagreements between documentation and code

`docs/development.md:102-103` argues that clearing an entry that a sibling window
shows is harmless: "the worst case is clearing view state a live window would rewrite
anyway". The run `evicted` shows otherwise. The live window keeps its installed authority,
which now dominates the (empty) durable one. `install_authority`
(`file-coordinator.ts:734-749`) calls the durable one stale, so the window never comes
back to it; a header setting stages with a commit sequence that the store does not have,
conflicts, and `reject_authority_mismatch` (`:1134-1167`) rejects it, as it will
every later one. Physical commits conflict in the same way
(`viewer-controller.ts:6577-6599`), until the views of the file are closed and reopened.

`desktop/main/state-recovery-dialog.ts:69-70` says of a preservation that did not finish: "The
preserve action resumes that state machine rather than starting a new one." The run
`resume` finds an attempt in which no file operation fails and that refuses. A process that
dies, or whose write fails, between creating and writing `manifest.json` leaves a
directory that is neither empty nor described; `preserve_sqlite_basename_set` then throws
`orphan-preservation-manifest` (`sqlite-open-recovery.ts:2911`), that time and every later
time. Torn markers of the gate are quarantined; a torn manifest is not. There is a second
way: an attempt fails after the manifest and before the blockade, its intent is released,
the database is opened and written to, and the manifest no longer matches
(`orphan-preservation-state`, 2669-2676). `OnlyDeadEndsRefuse` in `preserve` shows that
there is no third within the bounds. No file is lost in either.

`panel-session.ts:462-465` says that `retain_command_result` retains a result "until an exact
containing ACK settles it", and the test at `test/panel-session.test.ts:843` that a session
"delivers retained results in order without dropping an unacknowledged request". The run
`panel_results` finds a result that is never delivered. The page asks for a header
setting, gets its result with a delivery and acknowledges it; the delivery stays the
desired one. The page asks for a second setting, which is rejected
(`viewer-controller.ts:9965-9972`). The guard `this.desired?.commandResult !== undefined`
(`panel-session.ts:482`) leaves the second result to the acknowledgement of the first, which
has already come. Nothing is sent until something else makes a delivery, and meanwhile
the page waits and can ask for no other setting.

Some known gaps are stated in a property rather than shown by a run of their own. The first: a header
refresh that is asked for while another one is scheduled or runs is dropped
(`viewer-controller.ts:6998`). If the running one has committed and is reading the state
(`:7546`) it then adopts headers from before the setting, and the view keeps them until
something makes it load again, though `test/excel-header-controller.test.ts:1073` says that
the coordinator "broadcasts the latest projection to every tab". It takes a panel that opens
while another one toggles its headers twice. `ViewsCatchUp` marks such a view (`dropped`)
and shows that within the bounds there is no other way to keep old headers.

A second one is in HistoryReplay. `webview/history-replay-request-model.ts:61-63` calls
`document-changed` a refusal after which "the history is left exactly where it was so the user
can try again". But `commit_history_replay` checks once more after the compare-and-set
(`viewer-controller.ts:13381`), and a snapshot that is sent between the two, by a refresh, say,
makes `acknowledged_current` false: the replay is refused although the durable edits have moved.
The page keeps its history and, with no snapshot to follow, goes on showing the old edits; trying
again is a conflict, since the page reports what it shows. The same refusal is given where rows
that the replay restores are not admitted (13382-13385); the model allows it for any replay.
`host.overtaken` marks a state after either, and `HistoryDescribes` proves of the model that history
and document part in no other.

A third is `count.overlap` in the same module. The comment at `viewer-controller.ts:3469-3472`
gives a prepared or committing replay the durable edits to itself. The flag behind it is
shared by all preparations: when a page is loaded again while one runs, or while its answer is being
posted, the next page may begin another one, and the `finally` of the first (12252) takes the
flag of the second away. `SavesExcludeReplays` shows that saves and replays are kept apart as long
as this does not happen. A page load also clears the lease of a commit that goes on; that such a
commit writes nothing during a save is due to the epoch in `replay_is_current` alone, and the
property includes it.

HistoryReplay also shows two smaller ones that no property is about. An answer
that is lost leaves the slot of the page busy until it is loaded again: though
`history-replay-lease-model.ts:15-17` provides for it, the page never sends a commit twice
(`AnswerIsOwed` assumes that no post was lost). And edits that a new page publishes while the
commit of the old one still runs are dropped (`viewer-controller.ts:11898`) and not
acknowledged; they are published again with the next change of them.

## 7. What the models leave out

- Leases protect only within their session. This is deliberate in the code
  (`sqlite-file-state-repository.ts:360-374`), and `LeaseProtects` says exactly that.
- A highlight command that is answered "rejected" may have been saved: the code
  checks its basis again after the write. CommitLog's `truthful` allows it.
- `register_store` is one step; after a crash it installs what the store holds.
- The commit paths discard their stage in a `finally` block without awaiting it; some
  discard it earlier too. The model discards once.
- `CompareAndSet` in AuthorityStore is one without an authority basis. One with a basis
  is accepted less often and then does the same; FileCoordinator has it with one.
- Entries that meet under one key are not modelled, nor is the release of an entry that
  nobody uses.
- Projection recovery (`dispatch_projection_recovery`) is not modelled; in ViewRefresh it would
  be one more event that dispatches.
- PanelSession leaves out the presentation of a snapshot (initial or refresh), the callbacks
  that release an adoption or report its first acknowledgement, replacement by no adoption (the
  controller never does it) and posts that throw (`post_to_receiver` catches). There is
  one file, so `canonicalFileId` never changes.
- ViewRefresh leaves out comparison with another file, transforms, edits, the size
  dialog, and failures of the header path; its pages get every post in order. If a post is
  lost or the page reloads between a header adoption and the adoption of an older commit,
  the page does not answer "stale" and old headers may stay as above.
- In ViewRefresh a header setting that is committed is the last one; which of several that
  were planned is rejected is FileCoordinator's `HeadersInOrder`.
- The page of PanelSession does not compare the physical and projection revisions of two
  snapshots (`viewer-snapshot.ts:450-465`): they move only with the authority's revision
  (`state.ts:1232-1249`), which is compared first.
- In ViewRefresh a header setting's receipt is handled in the step of its commit, so a view never
  has the result, or a newer one, before the receipt (`viewer-controller.ts:7022-7049`). Revisions
  stand for the semantic basis: commit sequences, in which alone the two alternatives of
  `exact_basis` differ, are FileCoordinator's.
- HistoryReplay leaves out highlights, structural changes and the admission of rows (but for the
  refusal that it may end in, after the compare-and-set), several
  cells and worksheets in one entry, barriers, eviction and re-keying of entries, a second
  initial snapshot within one load of the page, what a save does to the edits it saved, and the
  claims of other panels (`OtherPanelEdits` is what they may do to the file meanwhile).
  `decide_commit` also joins and repeats commits that are sent again; the page never does that.
- OpenRecovery leaves out `-shm` (it is treated as `-wal` is), files of size zero,
  custom databases, the later installation of a candidate that was kept
  (`install_recognized_sqlite_candidate_no_clobber`), `replaceConnection`, initialization
  under an exclusive gate, and what a foreign program does to managed directories. A
  recovery directory's flushes are taken to have happened: what a call wrote is on
  disk when the next one runs. `replace_private_json` is one step (it renames).
- In OpenRecovery a candidate's install snapshot is a second link to the same file and
  goes with it; `Tidy` keeps or removes both.
- Rows, SQL, JSON and schema migration are conversions of the same entries.
- `move_leases` never moves a lease in AuthorityStore's reachable states, because leases
  are taken on canonical paths; it is kept because the code keeps it.

## 8. Plan

Further modules, in this order:

1. **EditClaims**: one owner of a file's edits, the write fence of a save; composed with
   ViewRefresh's saves and HistoryReplay's sessions.
2. **StoreRegistration**: alias migration in `register_store`, composed with
   AuthorityStore.
3. **SaveLifecycle**, **RowLoader**, **DesktopLifecycle**.

The theorems to come are those of these modules: that a file's edits have one owner, and that
a registration loses neither the state nor the lease of either name. In OpenRecovery the install of a
recognized candidate has to be modelled before `NothingLost` can be proved of it.

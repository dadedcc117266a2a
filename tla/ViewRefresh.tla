---------------------------- MODULE ViewRefresh ----------------------------
(***************************************************************************)
(* How the open views of one file follow the file: the watcher's events,   *)
(* which the file coordinator gathers and holds back while a save writes;  *)
(* the load that each event starts in every view, superseded by the next   *)
(* one at any of its awaits; the physical commits of those loads; the      *)
(* header settings and the saves that get in between.                      *)
(*                                                                         *)
(* A view has one load at a time: whatever a superseded load does later,   *)
(* other than to finish the commit it has begun, is thrown away.  The      *)
(* numbers that identify events and loads (refreshRevision, episode,       *)
(* load_seq) serve only to tell the current one and are left out.          *)
(* Contents of the file are numbered in the order in which it has them,    *)
(* and a number stands for fingerprint and digest.                         *)
(***************************************************************************)
EXTENDS Naturals, FiniteSets

CONSTANTS
    View,
    RetryCount,   \* RELOAD_RETRY_COUNT
    MaxEvents     \* bound: changes of the file, saves, header settings, loads for
                  \* other reasons and failures, all together

ASSUME ViewRefreshAssumption == {RetryCount, MaxEvents} \subseteq Nat /\ IsFiniteSet(View)

VARIABLES
    disk,       \* the file: its content, and whether it is there
    signal,     \* the watcher has yet to report a change
    pending,    \* entry.pendingRefresh is set
    flush,      \* and a microtask will flush it
    held,       \* entry.refreshReservations
    authority,  \* the authority: its revision, physical content and headers
    settings,   \* the contents whose header settings are about to be committed
    ops,        \* the physical operations begun and not finished
    view,       \* the views
    save,       \* how far the save of each view is
    events      \* bounded events so far

vars == <<disk, signal, pending, flush, held, authority, settings, ops, view, save, events>>

refreshVars == <<pending, flush, held>>

More == events < MaxEvents
Counted == More /\ events' = events + 1

NoLoad ==
    [ phase |-> "none", forced |-> FALSE, header |-> FALSE, same |-> FALSE, expected |-> 0,
      content |-> 0, basis |-> 0, headers |-> 0, attempts |-> 0 ]

\* shown, headers, adopted: what the adoption installed last holds, and the authority it
\* is of; basis: source_authority, which a commit that adopts nothing moves on; page: the
\* authority that the page holds; answer: what it said of the adoption.
NewView ==
    [ fresh |-> TRUE, open |-> FALSE, shown |-> 0, headers |-> 0, adopted |-> 0,
      basis |-> 0, page |-> 0, answer |-> "none", failed |-> FALSE, scheduled |-> FALSE,
      dropped |-> FALSE, load |-> NoLoad ]

-----------------------------------------------------------------------------
(* Loads *)

\* A new load supersedes the one that is running.
begin_load(w, forced, header, expected) ==
    [w EXCEPT !.failed = FALSE,
              !.load = [NoLoad EXCEPT !.phase = "reading", !.forced = forced,
                                      !.header = header, !.expected = expected]]

superseded(operations, v) ==
    {IF op.view = v THEN [op EXCEPT !.current = FALSE] ELSE op : op \in operations}

\* Mutant: one attempt too many.
attempt_failed_once_more(w) ==
    LET ended == IF w.load.header THEN [w EXCEPT !.scheduled = FALSE] ELSE w
        again == [w.load EXCEPT !.phase = "waiting", !.header = FALSE, !.attempts = @ + 1]
    IN  IF w.load.attempts <= RetryCount THEN [ended EXCEPT !.load = again]
        ELSE [ended EXCEPT !.load = NoLoad, !.failed = TRUE]

\* The attempt has failed: another one follows after a while, or the failure is
\* reported.
attempt_failed(w) ==
    LET ended == IF w.load.header THEN [w EXCEPT !.scheduled = FALSE] ELSE w
        again == [w.load EXCEPT !.phase = "waiting", !.header = FALSE, !.attempts = @ + 1]
    IN  IF w.load.attempts < RetryCount THEN [ended EXCEPT !.load = again]
        ELSE [ended EXCEPT !.load = NoLoad, !.failed = TRUE]

LoadIn(v, phase) == view[v].open /\ view[v].load.phase = phase

\* The file is read, and parsed.
Read(v) ==
    /\ LoadIn(v, "reading")
    /\ view' = [view EXCEPT ![v] =
          IF disk.present
          THEN [@ EXCEPT !.load.phase = "built", !.load.content = disk.content]
          ELSE attempt_failed(@)]
    /\ UNCHANGED <<disk, signal, refreshVars, authority, settings, ops, save, events>>

\* built_source_currency
Verify(v) ==
    /\ LoadIn(v, "built")
    /\ view' = [view EXCEPT ![v] =
          IF disk.present /\ disk.content = @.load.content
          THEN [@ EXCEPT !.load.phase = "verified"]
          ELSE attempt_failed(@)]
    /\ UNCHANGED <<disk, signal, refreshVars, authority, settings, ops, save, events>>

\* Operations of other contents are invalid, but for one that has its turn.
invalidate(operations, content) ==
    {IF op.content # content /\ ~op.turn THEN [op EXCEPT !.valid = FALSE] ELSE op :
        op \in operations}

begin_physical(v) ==
    LET load == view[v].load
    IN  /\ LoadIn(v, "verified")
        /\ IF load.expected # authority.revision /\ load.content # authority.content
           THEN /\ view' = [view EXCEPT ![v] = attempt_failed(@)]
                /\ ops' = ops
           ELSE /\ view' = [view EXCEPT ![v].load =
                      [@ EXCEPT !.phase = "committing",
                                !.same = /\ ~load.forced /\ load.content = view[v].shown
                                         /\ view[v].answer = "acked"]]
                /\ ops' = invalidate(ops, load.content) \cup
                            {[view |-> v, content |-> load.content, valid |-> TRUE,
                              turn |-> FALSE, current |-> TRUE]}
        /\ UNCHANGED <<disk, signal, refreshVars, authority, settings, save, events>>

\* The operation is over without a commit.
Unfinished(op) ==
    /\ ops' = ops \ {op}
    /\ view' = IF op.current THEN [view EXCEPT ![op.view] = attempt_failed(@)] ELSE view
    /\ UNCHANGED <<disk, signal, refreshVars, authority, settings, save>>

\* It was invalidated, or its load is superseded, before it had its turn.
Rejected(op) ==
    /\ ~op.turn /\ (~op.valid \/ ~op.current)
    /\ Unfinished(op)
    /\ UNCHANGED events

request_commit_turn(op) ==
    /\ op.valid /\ \A other \in ops : ~other.turn
    /\ ops' = (ops \ {op}) \cup {[op EXCEPT !.turn = TRUE]}
    /\ UNCHANGED <<disk, signal, refreshVars, authority, settings, view, save, events>>

\* The commit fails, or another process got ahead of it.
FinalizeFails(op) == op.turn /\ Counted /\ Unfinished(op)

finalize_authority_commit(op) ==
    LET changes == op.content # authority.content
        revision == IF changes THEN authority.revision + 1 ELSE authority.revision
    IN  /\ op.turn
        /\ authority' = [authority EXCEPT !.content = op.content, !.revision = revision]
        /\ ops' = IF changes THEN invalidate(ops \ {op}, op.content) ELSE ops \ {op}
        /\ view' = IF op.current
                   THEN [view EXCEPT ![op.view].load =
                           [@ EXCEPT !.phase = "committed", !.basis = revision,
                                     !.headers = authority.headers]]
                   ELSE view
        /\ UNCHANGED <<disk, signal, refreshVars, save, events, settings>>

\* What is adopted is posted at once and posts arrive in order, so that the page holds
\* the adoption before, if it is newer than what it held.
install(w, content, headers, revision) ==
    [w EXCEPT !.shown = content, !.headers = headers, !.adopted = revision,
              !.basis = revision, !.answer = "none",
              !.page = IF w.adopted > @ THEN w.adopted ELSE @,
              !.dropped = @ /\ headers # authority.headers]

\* The source that was committed is adopted, though the view may have gone further in the
\* meantime, with a header setting.
adopt_committed_candidate(v) ==
    LET load == view[v].load
    IN  /\ LoadIn(v, "committed") /\ ~load.same
        /\ view' = [view EXCEPT ![v] =
              [install(@, load.content, load.headers, load.basis) EXCEPT
                  !.scheduled = view[v].scheduled /\ ~load.header, !.load = NoLoad]]
        /\ UNCHANGED <<disk, signal, refreshVars, authority, settings, ops, save, events>>

\* What the page had and acknowledged before the commit is not adopted again.
Deduplicate(v) ==
    /\ LoadIn(v, "committed") /\ view[v].load.same
    /\ view' = [view EXCEPT ![v] = [@ EXCEPT !.basis = view[v].load.basis, !.load = NoLoad]]
    /\ UNCHANGED <<disk, signal, refreshVars, authority, settings, ops, save, events>>

\* The page answers the adoption.  One that is older than what it holds is stale, and
\* the panel loads the file again.
handle_snapshot_applied(v) ==
    /\ view[v].open /\ view[v].shown # 0 /\ view[v].answer = "none"
    /\ IF view[v].adopted < view[v].page
       THEN /\ view' = [view EXCEPT ![v] =
                  [begin_load(@, TRUE, FALSE, authority.revision) EXCEPT !.answer = "stale"]]
            /\ ops' = superseded(ops, v)
       ELSE /\ view' = [view EXCEPT ![v] =
                  [@ EXCEPT !.answer = "acked", !.page = view[v].adopted]]
            /\ UNCHANGED ops
    /\ UNCHANGED <<disk, signal, refreshVars, authority, settings, save, events>>

\* The delay is over.
RetryLoad(v) ==
    /\ LoadIn(v, "waiting")
    /\ view' = [view EXCEPT ![v].load =
          [@ EXCEPT !.phase = "reading", !.expected = authority.revision]]
    /\ UNCHANGED <<disk, signal, refreshVars, authority, settings, ops, save, events>>

\* A panel is created; its page is ready and the panel loads the file.  (What becomes of
\* the coordinator's entry with the last panel is FileCoordinator's.)
Open(v) ==
    /\ view[v].fresh /\ Counted
    /\ (\A w \in View : view[w].fresh) \/ (\E w \in View : view[w].open)
    /\ view' = [view EXCEPT ![v] =
          [begin_load(@, TRUE, FALSE, authority.revision) EXCEPT !.fresh = FALSE, !.open = TRUE]]
    /\ UNCHANGED <<disk, signal, refreshVars, authority, settings, ops, save>>

\* A load that no event asks for: the page is ready again, or the host wants one.
refresh_panel_source(v) ==
    /\ view[v].open /\ Counted
    /\ view' = [view EXCEPT ![v] = begin_load(@, TRUE, FALSE, authority.revision)]
    /\ ops' = superseded(ops, v)
    /\ UNCHANGED <<disk, signal, refreshVars, authority, settings, save>>

-----------------------------------------------------------------------------
(* Events of the file *)

FileChanges ==
    /\ Counted
    /\ \E present \in BOOLEAN :
          disk' = [content |-> disk.content + 1, present |-> present]
    /\ signal' = TRUE
    /\ UNCHANGED <<refreshVars, authority, settings, ops, view, save>>

\* Events of the watcher that come before the flush are gathered.
queue_watcher_refresh ==
    /\ signal /\ \E v \in View : view[v].open
    /\ signal' = FALSE
    /\ pending' = TRUE
    /\ flush' = (flush \/ ~pending)
    /\ UNCHANGED <<disk, held, authority, settings, ops, view, save, events>>

\* Every subscriber begins a load.
dispatch_refresh ==
    /\ view' = [v \in View |->
          IF view[v].open THEN begin_load(view[v], FALSE, FALSE, authority.revision)
          ELSE view[v]]
    /\ ops' = {[op EXCEPT !.current = FALSE] : op \in ops}

flush_pending_refresh ==
    /\ flush
    /\ flush' = FALSE
    /\ IF held > 0 THEN UNCHANGED <<pending, view, ops>>
       ELSE pending' = FALSE /\ dispatch_refresh
    /\ UNCHANGED <<disk, signal, held, authority, settings, save, events>>

\* Mutant: what was held back waits for the next event.
release_without_flush == held' = held - 1 /\ UNCHANGED flush

\* A reservation ends, and what was held back is flushed.
release_reservation ==
    /\ held' = held - 1
    /\ flush' = (flush \/ (held' = 0 /\ pending))

-----------------------------------------------------------------------------
(* Header settings *)

\* schedule_header_refresh: what comes while one is scheduled or runs is dropped.
receive_header_refresh(w, revision) ==
    IF w.scheduled THEN [w EXCEPT !.dropped = TRUE]
    ELSE [begin_load(w, TRUE, TRUE, revision) EXCEPT !.scheduled = TRUE]

\* Mutant: a view with a source takes the setting, whatever basis the source is of.
takes_header_on_any_basis(w) == w.open /\ w.shown # 0

\* exact_basis: the view has what the setting was made for.  Revisions say only that the
\* bases mean the same, which is enough: of such a basis, too, the setting is taken.
takes_header(w) == w.open /\ w.shown # 0 /\ w.basis = authority.revision

\* Every view is told of a setting: one that was current has it at once, any other loads
\* the file again.  It is told in the step of the commit, so that it cannot have the
\* result already, or a newer one: receipts that are skipped for that do not occur.
process_excel_header_receipts ==
    LET headers == authority.headers + 1
        revision == authority.revision + 1
    IN  /\ authority' = [authority EXCEPT !.headers = headers, !.revision = revision]
        /\ view' = [v \in View |->
              IF takes_header(view[v])
              THEN [install(view[v], view[v].shown, headers, revision) EXCEPT !.dropped = FALSE]
              ELSE IF view[v].open THEN receive_header_refresh(view[v], revision)
              ELSE view[v]]
        /\ ops' = {IF takes_header(view[op.view]) \/ view[op.view].scheduled THEN op
                    ELSE [op EXCEPT !.current = FALSE] : op \in ops}

\* A view that is current asks for a header setting.
setExcelFirstRowHeader(v) ==
    /\ view[v].open /\ view[v].answer = "acked" /\ view[v].basis = authority.revision
    /\ Counted
    /\ settings' = settings \cup {authority.content}
    /\ UNCHANGED <<disk, signal, refreshVars, authority, ops, view, save>>

\* The setting is committed unless the physical content has changed.
commit_excel_header(content) ==
    /\ \A op \in ops : ~op.turn
    /\ settings' = settings \ {content}
    /\ IF content = authority.content THEN process_excel_header_receipts
       ELSE UNCHANGED <<authority, view, ops>>
    /\ UNCHANGED <<disk, signal, refreshVars, save, events>>

\* The load that was scheduled was superseded, and has noticed.
HeaderRefreshReturns(v) ==
    /\ view[v].open /\ view[v].scheduled /\ ~view[v].load.header
    /\ view' = [view EXCEPT ![v].scheduled = FALSE]
    /\ UNCHANGED <<disk, signal, refreshVars, authority, settings, ops, save, events>>

-----------------------------------------------------------------------------
(* Saves *)

\* The file is the one that the view has adopted, and so is the authority; or the view
\* loads it again.
BeginSave(v) ==
    /\ view[v].open /\ view[v].shown # 0 /\ save[v] = "none"
    /\ Counted
    /\ IF disk.present /\ disk.content = view[v].shown
          /\ view[v].basis = authority.revision
       THEN /\ save' = [save EXCEPT ![v] = "checked"]
            /\ UNCHANGED <<view, ops>>
       ELSE /\ view' = [view EXCEPT ![v] = begin_load(@, TRUE, FALSE, authority.revision)]
            /\ ops' = superseded(ops, v)
            /\ UNCHANGED save
    /\ UNCHANGED <<disk, signal, refreshVars, authority, settings>>

\* The last look at the file; then the watcher's events are held and the write begins.
BeginWrite(v) ==
    /\ save[v] = "checked" /\ view[v].open
    /\ IF disk.present /\ disk.content = view[v].shown
       THEN /\ save' = [save EXCEPT ![v] = "writing"]
            /\ held' = held + 1
            /\ UNCHANGED <<view, ops>>
       ELSE /\ save' = [save EXCEPT ![v] = "none"]
            /\ view' = [view EXCEPT ![v] = begin_load(@, TRUE, FALSE, authority.revision)]
            /\ ops' = superseded(ops, v)
            /\ UNCHANGED held
    /\ UNCHANGED <<disk, signal, pending, flush, authority, settings, events>>

Writes(v) ==
    /\ save[v] = "writing"
    /\ save' = [save EXCEPT ![v] = "written"]
    /\ disk' = [content |-> disk.content + 1, present |-> TRUE]
    /\ signal' = TRUE
    /\ UNCHANGED <<refreshVars, authority, settings, ops, view, events>>

\* The save fails, after the write or with it.
SaveFails(v) ==
    /\ save[v] \in {"writing", "written"}
    /\ \/ save[v] = "written" /\ view[v].basis # authority.revision /\ UNCHANGED events
       \/ Counted
    /\ save' = [save EXCEPT ![v] = "none"]
    /\ IF view[v].open THEN release_reservation ELSE UNCHANGED <<held, flush>>
    /\ UNCHANGED <<disk, signal, pending, authority, settings, ops, view>>

\* The save asks for a refresh, which takes the place of what was held back.
request_post_save(v) ==
    /\ save[v] = "written" /\ (view[v].open => view[v].basis = authority.revision)
    /\ save' = [save EXCEPT ![v] = "none"]
    /\ IF view[v].open
       THEN /\ held' = held - 1
            /\ pending' = FALSE
            /\ flush' = FALSE
            /\ dispatch_refresh
       ELSE UNCHANGED <<refreshVars, view, ops>>
    /\ UNCHANGED <<disk, signal, authority, settings, events>>

\* Mutant: the write of a closed panel keeps its reservation.
dispose_without_release(v) ==
    /\ view[v].open
    /\ view' = [view EXCEPT ![v] = [@ EXCEPT !.open = FALSE, !.load = NoLoad]]
    /\ ops' = superseded(ops, v)
    /\ save' = [save EXCEPT ![v] = IF @ = "checked" THEN "none" ELSE @]
    /\ UNCHANGED <<disk, signal, refreshVars, authority, settings, events>>

\* A panel is closed; its write goes on.
Dispose(v) ==
    /\ view[v].open
    /\ view' = [view EXCEPT ![v] = [@ EXCEPT !.open = FALSE, !.load = NoLoad]]
    /\ ops' = superseded(ops, v)
    /\ save' = [save EXCEPT ![v] = IF @ = "checked" THEN "none" ELSE @]
    /\ IF save[v] \in {"writing", "written"} THEN release_reservation
       ELSE UNCHANGED <<held, flush>>
    /\ UNCHANGED <<disk, signal, pending, authority, settings, events>>

-----------------------------------------------------------------------------
\* Some views show the file, and nothing goes on; the others are not there yet.
Init ==
    /\ disk = [content |-> 1, present |-> TRUE]
    /\ signal = FALSE
    /\ pending = FALSE /\ flush = FALSE /\ held = 0
    /\ authority = [revision |-> 1, content |-> 1, headers |-> 0]
    /\ ops = {} /\ settings = {}
    /\ \E settled \in SUBSET View :
          view = [v \in View |-> IF v \in settled
                                THEN [NewView EXCEPT !.fresh = FALSE, !.open = TRUE,
                                                     !.shown = 1, !.adopted = 1, !.basis = 1,
                                                     !.page = 1, !.answer = "acked"]
                                ELSE NewView]
    /\ save = [v \in View |-> "none"]
    /\ events = 0

LoadStep(v) ==
    \/ Read(v) \/ Verify(v) \/ begin_physical(v)
    \/ adopt_committed_candidate(v) \/ Deduplicate(v) \/ RetryLoad(v)

OperationEnds(op) ==
    Rejected(op) \/ request_commit_turn(op) \/ finalize_authority_commit(op)

SaveEnds(v) == BeginWrite(v) \/ Writes(v) \/ SaveFails(v) \/ request_post_save(v)

Next ==
    \/ FileChanges \/ queue_watcher_refresh \/ flush_pending_refresh
    \/ \E content \in settings : commit_excel_header(content)
    \/ \E v \in View :
          \/ LoadStep(v) \/ handle_snapshot_applied(v) \/ SaveEnds(v)
          \/ setExcelFirstRowHeader(v)
          \/ Open(v) \/ refresh_panel_source(v) \/ HeaderRefreshReturns(v)
          \/ BeginSave(v) \/ Dispose(v)
    \/ \E op \in ops : OperationEnds(op) \/ FinalizeFails(op)

Fairness ==
    /\ WF_vars(queue_watcher_refresh) /\ WF_vars(flush_pending_refresh)
    /\ WF_vars(\E op \in ops : OperationEnds(op))
    /\ WF_vars(\E content \in settings : commit_excel_header(content))
    /\ \A v \in View :
          /\ WF_vars(handle_snapshot_applied(v))
          /\ WF_vars(LoadStep(v)) /\ WF_vars(SaveEnds(v))
          /\ WF_vars(HeaderRefreshReturns(v))

Spec == Init /\ [][Next]_vars /\ Fairness

-----------------------------------------------------------------------------
(* Properties *)

Load ==
    [ phase : {"none", "reading", "built", "verified", "committing", "committed", "waiting"},
      forced : BOOLEAN, header : BOOLEAN, same : BOOLEAN, expected : Nat, content : Nat,
      basis : Nat, headers : Nat, attempts : 0..RetryCount ]

Operation ==
    [ view : View, content : Nat, valid : BOOLEAN, turn : BOOLEAN, current : BOOLEAN ]

ViewState ==
    [ fresh : BOOLEAN, open : BOOLEAN, shown : Nat, headers : Nat, adopted : Nat,
      basis : Nat, page : Nat, answer : {"none", "acked", "stale"}, failed : BOOLEAN,
      scheduled : BOOLEAN, dropped : BOOLEAN, load : Load ]

\* Types; no load makes more attempts than RELOAD_RETRY_COUNT allows.
TypeOK ==
    /\ disk \in [content : Nat, present : BOOLEAN]
    /\ signal \in BOOLEAN /\ pending \in BOOLEAN /\ flush \in BOOLEAN
    /\ held \in Nat /\ events \in Nat
    /\ authority \in [revision : Nat, content : Nat, headers : Nat]
    /\ settings \subseteq Nat
    /\ ops \subseteq Operation
    /\ view \in [View -> ViewState]
    /\ save \in [View -> {"none", "checked", "writing", "written"}]

Writing(v) == view[v].open /\ save[v] \in {"writing", "written"}

\* However saves fail, or are overtaken by the panel's end or by each other, every
\* reservation that holds the watcher's events back belongs to a write of an open view.
ReservationsBalance == held = Cardinality({v \in View : Writing(v)})

\* Views that hold adoptions of the same authority show the same content with the same
\* header settings, whichever loads, commits and settings of theirs overtook each other.
AuthorityNamesTheView ==
    \A v, w \in View :
        view[v].shown # 0 /\ view[w].shown # 0 /\ view[v].adopted = view[w].adopted
        => view[v].shown = view[w].shown /\ view[v].headers = view[w].headers

\* When the file rests, every open view comes to show it with the latest header
\* settings, or to have reported that it is not there: nothing is lost between watcher,
\* reservations, commits, loads and acknowledgements, and no load gives up on a file that
\* is there.  The one way to keep old header settings is a header refresh that was dropped.
ViewsCatchUp ==
    <>[](\A v \in View : view[v].open =>
            IF disk.present
            THEN /\ view[v].shown = disk.content
                 /\ view[v].headers = authority.headers \/ view[v].dropped
            ELSE view[v].failed)
=============================================================================

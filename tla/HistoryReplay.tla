--------------------------- MODULE HistoryReplay ---------------------------
(***************************************************************************)
(* Undo and redo in one panel.  The page keeps the history and a slot for  *)
(* the one replay it has outstanding; the host prepares the replay against *)
(* the durable pending edits, issues a lease for it, and when the page     *)
(* spends the lease commits the replay under a compare-and-set.  Around    *)
(* it: edits and their publication, the discard that ends the edit session *)
(* and can be undone, saves, refreshes, edits by another panel, page loads *)
(* and lost posts.                                                         *)
(*                                                                         *)
(* The document is one cell.  A value stands for what the cell holds, 0    *)
(* for what the file has, and every edit gives a new one, MaxEdits + 1 the *)
(* edit of another panel.                                                  *)
(***************************************************************************)
EXTENDS Naturals, Sequences, SequencesExt, FiniteSets

CONSTANTS
    MaxEdits,     \* bound: edits
    MaxReplays,   \* bound: undos and redos, over all loads of the page
    MaxSaves,     \* bound: saves
    MaxFaults     \* bound: lost and late posts, refused sessions, files that changed,
                  \* refreshes, edits by other panels and page loads, all together

ASSUME HistoryReplayAssumption == {MaxEdits, MaxReplays, MaxSaves, MaxFaults} \subseteq Nat

VARIABLES
    page,       \* the page: its cell, its publication, its edit session, its history
    slot,       \* the coordinator's slot for the one outstanding replay
    host,       \* the controller: durable edits, document, receiver, edit session, save
    lease,      \* the lease registry
    preparing,  \* the preparations in flight
    committing, \* the commits that run, in their order
    writes,     \* pending_edit_writes: the admitted edits that are not yet durable
    toHost,     \* messages to the host
    toPage,     \* and to the page
    count       \* bounded events, and whether an answer was lost

vars == <<page, slot, host, lease, preparing, committing, writes, toHost, toPage, count>>

Directions == {"undo", "redo"}
NoLease == [state |-> "none"]
Idle == [phase |-> "idle"]

\* cell: what the page shows; published, sequence: what it published last, and its
\* number; acknowledged: the host has that one; session: its edit session; saving: a
\* save is under way; request: the number of its last prepare.  The page of a new load
\* starts to number anew.
Nothing == MaxEdits + 2

NewPage ==
    [ up |-> FALSE, cell |-> 0, published |-> Nothing, sequence |-> 0, acknowledged |-> TRUE,
      session |-> "none", saving |-> FALSE, request |-> 0, undo |-> <<>>, redo |-> <<>> ]

Init ==
    /\ page = [NewPage EXCEPT !.up = TRUE]
    /\ slot = Idle
    \* durable: the stored edits; known: those the panel has heard of; overtaken: a replay
    \* was refused after it was written; basis: which document is adopted; epoch, readying:
    \* the load of the page, and whether it still waits for its first snapshot; delivery to
    \* acked: the latest snapshot, what it shows, whether it was posted and acknowledged;
    \* claiming: a session is asked for and not yet granted; posting: leases whose post to
    \* the page has not ended, and whether the page got it.
    /\ host = [ durable |-> 0, known |-> 0, overtaken |-> FALSE,
                basis |-> 0, epoch |-> 0, readying |-> FALSE,
                delivery |-> 0, shown |-> 0, posted |-> TRUE, acked |-> TRUE,
                session |-> 0, sessions |-> 0, claiming |-> FALSE,
                flag |-> FALSE, posting |-> {}, saving |-> FALSE, leases |-> 0 ]
    /\ lease = NoLease
    /\ preparing = {}
    /\ committing = <<>>
    /\ writes = <<>>
    /\ toHost = <<>> /\ toPage = <<>>
    /\ count = [ edits |-> 0, replays |-> 0, saves |-> 0, faults |-> 0,
                 lost |-> FALSE, overlap |-> FALSE, others |-> FALSE ]

hostVars == <<host, lease, preparing, committing, writes>>
pageVars == <<page, slot>>

-----------------------------------------------------------------------------
(* Messages *)

Send(message) == toHost' = Append(toHost, message)

Fault == count.faults < MaxFaults /\ count' = [count EXCEPT !.faults = @ + 1]

\* post_to_receiver: a message for an earlier load of the page is not delivered, and
\* one for this load may be lost.
For(epoch, message) == IF epoch = host.epoch THEN <<message>> ELSE <<>>

Lost == count.faults < MaxFaults /\ count' = [count EXCEPT !.faults = @ + 1, !.lost = TRUE]

Post(epoch, message) ==
    \/ toPage' = toPage \o For(epoch, message) /\ UNCHANGED count
    \/ Lost /\ epoch = host.epoch /\ UNCHANGED toPage

\* A new snapshot, of the edits the panel knows, replaces one that was not acknowledged.
shown(h) == [h EXCEPT !.delivery = @ + 1, !.shown = h.known, !.posted = TRUE, !.acked = FALSE]
Snapshot(h) ==
    [type |-> "snapshot", initial |-> FALSE, delivery |-> h.delivery, cell |-> h.shown]

\* Its post may fail, and is then repeated, so that it comes late.
Late(h) == host' = [shown(h) EXCEPT !.posted = FALSE]

stored(value) == [host EXCEPT !.durable = value, !.known = value]

\* The snapshot precedes the answers.  While a page announces itself there is none.
Deliver(h, answers) ==
    LET shows   == IF h.readying THEN <<>> ELSE <<Snapshot(shown(h))>>
        showing == host' = IF h.readying THEN h ELSE shown(h)
    IN  \/ showing /\ toPage' = toPage \o shows \o answers /\ UNCHANGED count
        \/ Fault /\ ~h.readying /\ Late(h) /\ toPage' = toPage \o answers
        \/ Lost /\ answers # <<>> /\ showing /\ toPage' = toPage \o shows

Redraw(h) ==
    \/ host' = shown(h) /\ toPage' = Append(toPage, Snapshot(shown(h)))
    \/ Late(h) /\ UNCHANGED toPage

AtHost(type) == toHost # <<>> /\ Head(toHost).type = type /\ toHost' = Tail(toHost)
AtPage(type) == toPage # <<>> /\ Head(toPage).type = type /\ toPage' = Tail(toPage)

-----------------------------------------------------------------------------
(* The page *)

is_busy == slot.phase # "idle"

\* Recording a gesture clears what could be redone.
record_history_action(w, after) ==
    [w EXCEPT !.undo = Append(@, [before |-> w.cell, after |-> after]),
              !.redo = <<>>, !.cell = after]

publish(w) == [w EXCEPT !.published = w.cell, !.sequence = @ + 1, !.acknowledged = FALSE]
Edits(w) == [type |-> "edits", value |-> w.published, sequence |-> w.sequence]

\* A page whose cell has changed publishes it, before it takes the next message, unless
\* it saves.
Show(w, messages) ==
    IF w.session = "held" /\ ~w.saving /\ w.cell # w.published
    THEN page' = publish(w) /\ toHost' = toHost \o messages \o <<Edits(publish(w))>>
    ELSE page' = w /\ toHost' = toHost \o messages

Edit ==
    /\ page.up /\ page.session = "held" /\ ~is_busy /\ ~page.saving
    /\ count.edits < MaxEdits
    /\ count' = [count EXCEPT !.edits = @ + 1]
    /\ Show(record_history_action(page, count.edits + 1), <<>>)
    /\ UNCHANGED <<slot, hostVars, toPage>>

\* A discard empties the cell, is recorded, and ends the edit session.
Discard ==
    /\ page.up /\ page.session = "held" /\ ~is_busy /\ ~page.saving /\ page.cell # 0
    /\ page' = [record_history_action(page, 0) EXCEPT
                  !.session = "discarding", !.published = Nothing,
                  !.acknowledged = TRUE]
    /\ Send([type |-> "discard"])
    /\ UNCHANGED <<slot, hostVars, toPage, count>>

\* A user asks for an edit session, or ensure_replay_session does for a replay.
RequestSession ==
    /\ page.up /\ page.session = "none"
    /\ page' = [page EXCEPT !.session = "requested"]
    /\ Send([type |-> "session"])
    /\ UNCHANGED <<slot, hostVars, toPage, count>>

RequestSave ==
    /\ page.up /\ page.session = "held" /\ ~page.saving /\ page.cell # 0
    /\ page.cell = page.published
    /\ count.saves < MaxSaves
    /\ count' = [count EXCEPT !.saves = @ + 1]
    /\ page' = [page EXCEPT !.saving = TRUE]
    /\ Send([type |-> "save"])
    /\ UNCHANGED <<slot, hostVars, toPage>>

stack_for(w, direction) == IF direction = "undo" THEN w.undo ELSE w.redo
from_side(entry, direction) == IF direction = "undo" THEN entry.after ELSE entry.before
to_side(entry, direction) == IF direction = "undo" THEN entry.before ELSE entry.after

\* begin: the slot is taken before an edit session is asked for.
Begin(direction) ==
    /\ page.up /\ ~is_busy /\ stack_for(page, direction) # <<>>
    /\ count.replays < MaxReplays
    /\ count' = [count EXCEPT !.replays = @ + 1]
    /\ slot' = [phase |-> "acquiring", direction |-> direction]
    /\ UNCHANGED <<page, hostVars, toHost, toPage>>

\* The session is held: the entry and the cell are read, now, for the request.
Prepare ==
    /\ slot.phase = "acquiring" /\ page.session = "held"
    /\ page' = [page EXCEPT !.request = @ + 1]
    /\ slot' = [phase |-> "preparing", direction |-> slot.direction,
                entry |-> Last(stack_for(page, slot.direction)), request |-> page'.request]
    /\ Send([type |-> "prepare", request |-> page'.request, cell |-> page.cell])
    /\ UNCHANGED <<hostVars, toPage, count>>

running(request) == slot.phase = "preparing" /\ slot.request = request

\* A lease whose snapshot is not what the cell holds, or not what the entry expects, is
\* given back; with any other one the replay commits.
on_prepared ==
    LET answer == Head(toPage)
        planned == from_side(slot.entry, slot.direction)
    IN  /\ AtPage("prepared")
        /\ IF ~running(answer.request)
           THEN UNCHANGED <<slot, toHost>>
           ELSE IF answer.cell = page.cell /\ answer.cell = planned
           THEN /\ slot' = [phase |-> "committing", direction |-> slot.direction,
                            entry |-> slot.entry, lease |-> answer.lease]
                /\ Send([type |-> "commit", lease |-> answer.lease,
                         value |-> to_side(slot.entry, slot.direction)])
           ELSE /\ slot' = Idle
                /\ Send([type |-> "abandon", lease |-> answer.lease])
        /\ UNCHANGED <<page, hostVars, count>>

on_prepare_refused ==
    /\ AtPage("prepareRefused")
    /\ slot' = IF running(Head(toPage).request) THEN Idle ELSE slot
    /\ UNCHANGED <<page, hostVars, toHost, count>>

\* The entry leaves one stack for the other, if it is still the newest of its stack.
commit_history_move(w, direction, entry) ==
    LET from == stack_for(w, direction)
    IN  IF from = <<>> \/ Last(from) # entry THEN w
        ELSE IF direction = "undo"
        THEN [w EXCEPT !.undo = Front(@), !.redo = Append(@, entry)]
        ELSE [w EXCEPT !.redo = Front(@), !.undo = Append(@, entry)]

\* Mutant: the cell moves and the history does not.
apply_without_history(w) == [w EXCEPT !.cell = to_side(slot.entry, slot.direction)]

\* The cell and the history move together.
apply_committed_replay(w) ==
    [commit_history_move(w, slot.direction, slot.entry) EXCEPT
        !.cell = to_side(slot.entry, slot.direction)]

spent(id) == slot.phase = "committing" /\ slot.lease = id

on_committed ==
    /\ AtPage("committed")
    /\ IF spent(Head(toPage).lease)
       THEN /\ Show(IF page.session = "held" THEN apply_committed_replay(page) ELSE page, <<>>)
            /\ slot' = Idle
       ELSE UNCHANGED <<pageVars, toHost>>
    /\ UNCHANGED <<hostVars, count>>

on_commit_refused ==
    /\ AtPage("commitRefused")
    /\ slot' = IF spent(Head(toPage).lease) THEN Idle ELSE slot
    /\ UNCHANGED <<page, hostVars, toHost, count>>

OnAcknowledged ==
    /\ AtPage("acknowledged")
    /\ page' = [page EXCEPT !.acknowledged = @ \/ Head(toPage).sequence = page.sequence]
    /\ UNCHANGED <<slot, hostVars, toHost, count>>

\* The cleanup after a discard is over; what follows it is a new session.
OnDiscarded ==
    /\ AtPage("discarded")
    /\ page' = [page EXCEPT !.session = IF @ = "discarding" THEN "none" ELSE @]
    /\ UNCHANGED <<slot, hostVars, toHost, count>>

\* A grant installs what is durable, which the page then publishes for its new session;
\* without one a replay that waits for it is refused.
OnSession ==
    LET answer == Head(toPage)
    IN  /\ AtPage("session")
        /\ IF page.session # "requested" THEN UNCHANGED <<pageVars, toHost>>
           ELSE IF answer.granted
           THEN /\ Show([page EXCEPT !.session = "held", !.cell = answer.cell], <<>>)
                /\ UNCHANGED slot
           ELSE /\ page' = [page EXCEPT !.session = "none"]
                /\ slot' = IF slot.phase = "acquiring" THEN Idle ELSE slot
                /\ UNCHANGED toHost
        /\ UNCHANGED <<hostVars, count>>

OnSaved ==
    /\ AtPage("saved")
    /\ Show([page EXCEPT !.saving = FALSE], <<>>)
    /\ UNCHANGED <<slot, hostVars, count>>

\* The first snapshot of a load replaces the document, and with it the history and the
\* replay; a later one refreshes the cell unless an edit of it is unacknowledged, which
\* is then published again if the snapshot does not have it.
OnSnapshot ==
    LET snapshot == Head(toPage)
        install  == [page EXCEPT !.cell = snapshot.cell]
        again    == publish(page)
        applied  == [type |-> "applied", delivery |-> snapshot.delivery]
    IN  /\ AtPage("snapshot")
        /\ IF snapshot.initial
           THEN /\ Show([install EXCEPT !.up = TRUE, !.undo = <<>>, !.redo = <<>>,
                              !.session = IF snapshot.session THEN "held" ELSE "none"],
                         <<applied>>)
                /\ slot' = Idle
           ELSE /\ page.up
                /\ slot' = slot
                /\ IF page.session = "held" /\ page.acknowledged
                   THEN Show(install, <<applied>>)
                   ELSE IF page.session = "held" /\ snapshot.cell # page.cell
                   THEN page' = again /\ toHost' = toHost \o <<Edits(again), applied>>
                   ELSE page' = page /\ Send(applied)
        /\ UNCHANGED <<hostVars, count>>

\* A page that has not been shown a snapshot knows none of the other messages.
Ignore ==
    /\ ~page.up /\ toPage # <<>>
    /\ Head(toPage).type = "snapshot" => ~Head(toPage).initial
    /\ toPage' = Tail(toPage)
    /\ UNCHANGED <<pageVars, hostVars, toHost, count>>

Load ==
    /\ page.up /\ Fault
    /\ page' = NewPage
    /\ slot' = Idle
    /\ toPage' = <<>>
    /\ Send([type |-> "ready"])
    /\ UNCHANGED hostVars

OnMessage ==
    /\ page.up
    /\ \/ on_prepared \/ on_prepare_refused \/ on_committed \/ on_commit_refused
       \/ OnAcknowledged \/ OnDiscarded \/ OnSession \/ OnSaved

-----------------------------------------------------------------------------
(* The host *)

Owns(session) == session # 0 /\ host.session = session

\* A post of the snapshot that failed is repeated.
PostSnapshot ==
    /\ ~host.posted
    /\ host' = [host EXCEPT !.posted = TRUE]
    /\ toPage' = Append(toPage, Snapshot(host))
    /\ UNCHANGED <<pageVars, lease, preparing, committing, writes, toHost, count>>

\* Edits are dropped while a commit runs, a save writes, or without an edit session.
HandleEdits ==
    LET edits == Head(toHost)
    IN  /\ AtHost("edits")
        /\ IF host.session # 0 /\ committing = <<>> /\ ~host.saving
           THEN writes' = Append(writes, [value |-> edits.value, epoch |-> host.epoch,
                              sequence |-> edits.sequence, session |-> host.session])
           ELSE UNCHANGED writes
        /\ UNCHANGED <<pageVars, host, lease, preparing, committing, toPage, count>>

\* An admitted edit becomes durable, is shown to the panels and acknowledged, unless its
\* session has ended.
WriteLands ==
    LET write == Head(writes)
        ahead(op) == [op EXCEPT !.awaits = IF @ = 0 THEN 0 ELSE @ - 1]
    IN  /\ writes # <<>>
        /\ writes' = Tail(writes)
        /\ preparing' = {ahead(op) : op \in preparing}
        /\ committing' = [i \in DOMAIN committing |-> ahead(committing[i])]
        /\ IF Owns(write.session)
           THEN Deliver(stored(write.value),
                        For(write.epoch, [type |-> "acknowledged", sequence |-> write.sequence]))
           ELSE UNCHANGED <<host, toPage, count>>
        /\ UNCHANGED <<pageVars, lease, toHost>>

\* The claim keeps other panels out while the durable edits are read.
HandleSession ==
    /\ AtHost("session")
    /\ host' = [host EXCEPT !.claiming = TRUE]
    /\ UNCHANGED <<pageVars, lease, preparing, committing, writes, toPage, count>>

\* They are read: the session is granted, under its number if the panel has it already,
\* or refused.
GrantSession ==
    LET id == IF host.session # 0 THEN host.session ELSE host.sessions + 1
    IN  /\ host.claiming
        /\ \/ Deliver([stored(host.durable) EXCEPT !.claiming = FALSE, !.session = id,
                            !.sessions = IF host.session # 0 THEN @ ELSE id],
                      <<[type |-> "session", granted |-> TRUE, cell |-> host.durable]>>)
           \/ /\ Fault
              /\ toPage' = Append(toPage, [type |-> "session", granted |-> FALSE])
              /\ host' = [host EXCEPT !.claiming = FALSE]
        /\ UNCHANGED <<pageVars, lease, preparing, committing, writes, toHost>>

\* The session ends before the durable edits are cleared and the page hears of it.
HandleDiscard ==
    /\ AtHost("discard")
    /\ Deliver([stored(0) EXCEPT !.session = 0], <<[type |-> "discarded"]>>)
    /\ UNCHANGED <<pageVars, lease, preparing, committing, writes>>

\* While this panel has no edit session, another one edits the file.
OtherPanelEdits ==
    /\ host.session = 0 /\ ~host.claiming /\ ~host.readying /\ count.faults < MaxFaults
    /\ count' = [count EXCEPT !.faults = @ + 1, !.others = TRUE]
    /\ Redraw(stored(MaxEdits + 1))
    /\ UNCHANGED <<pageVars, lease, preparing, committing, writes, toHost>>

live == lease.state # "none"

\* Mutant: only a preparation keeps saves out.
flag_blocks_save == host.flag

history_replay_blocks_save == host.flag \/ live

handle_save ==
    /\ AtHost("save")
    /\ IF history_replay_blocks_save \/ host.session = 0 \/ ~host.acked
       THEN UNCHANGED host /\ Post(host.epoch, [type |-> "saved"])
       ELSE Deliver([host EXCEPT !.saving = TRUE], <<>>)
    /\ UNCHANGED <<pageVars, lease, preparing, committing, writes>>

\* The save has written the file, or failed.
SaveEnds ==
    /\ host.saving
    /\ Deliver([host EXCEPT !.saving = FALSE], <<[type |-> "saved"]>>)
    /\ UNCHANGED <<pageVars, lease, preparing, committing, writes, toHost>>

\* Mutant: a replay of an earlier page is current too.
replay_is_current_on_any_page(op) == op.basis = host.basis /\ host.acked /\ Owns(op.session)

\* replay_is_current: everything that a preparation was bound to is still in place.
replay_is_current(op) ==
    /\ op.epoch = host.epoch /\ op.basis = host.basis
    /\ host.acked
    /\ Owns(op.session)

\* The preparation is over, which takes back the flag.
EndPreparation(op) ==
    /\ preparing' = preparing \ {op}
    /\ host' = [host EXCEPT !.flag = FALSE]

\* Mutant: the page is not told.
refuse_silently(op) ==
    /\ EndPreparation(op)
    /\ UNCHANGED <<pageVars, lease, committing, writes, toHost, toPage, count>>

RefusePreparation(op) ==
    /\ EndPreparation(op)
    /\ Post(op.epoch, [type |-> "prepareRefused", request |-> op.request])
    /\ UNCHANGED <<pageVars, lease, committing, writes, toHost>>

\* A preparation is admitted while no save and no other replay runs.
HandlePrepare ==
    LET asked == Head(toHost)
        op == [request |-> asked.request, epoch |-> host.epoch, cell |-> asked.cell,
               awaits |-> Len(writes), step |-> "draining", basis |-> 0, session |-> 0]
    IN  /\ AtHost("prepare")
        /\ IF host.saving \/ history_replay_blocks_save \/ host.session = 0
           THEN /\ Post(host.epoch, [type |-> "prepareRefused", request |-> asked.request])
                /\ UNCHANGED <<host, preparing>>
           ELSE /\ host' = [host EXCEPT !.flag = TRUE]
                /\ preparing' = preparing \cup {op}
                /\ toPage' = toPage
                /\ count' = [count EXCEPT !.overlap = @ \/ preparing # {} \/ host.posting # {}]
        /\ UNCHANGED <<pageVars, lease, committing, writes>>

\* The edits admitted before it are durable: the preparation binds itself to what is now.
BindPreparation(op) ==
    LET bound == [op EXCEPT !.step = "comparing", !.basis = host.basis,
                            !.session = host.session]
    IN  /\ op.step = "draining" /\ op.awaits = 0
        /\ IF replay_is_current(bound)
           THEN /\ preparing' = (preparing \ {op}) \cup {bound}
                /\ UNCHANGED <<pageVars, host, lease, committing, writes, toHost, toPage, count>>
           ELSE RefusePreparation(op)

ComparePreparation(op) ==
    /\ op.step = "comparing"
    /\ IF replay_is_current(op) /\ op.cell = host.durable
       THEN /\ preparing' = (preparing \ {op}) \cup {[op EXCEPT !.step = "verifying"]}
            /\ UNCHANGED <<pageVars, host, lease, committing, writes, toHost, toPage, count>>
       ELSE RefusePreparation(op)

\* The file has changed on disk: the preparation is refused.
PreparationOutdated(op) ==
    /\ op.step = "verifying" /\ Fault
    /\ EndPreparation(op)
    /\ toPage' = IF op.epoch = host.epoch
                 THEN Append(toPage, [type |-> "prepareRefused", request |-> op.request])
                 ELSE toPage
    /\ UNCHANGED <<pageVars, lease, committing, writes, toHost>>

\* The lease is live before the page is told of it.
IssueLease(op) ==
    LET id == host.leases + 1
    IN  /\ op.step = "verifying"
        /\ IF ~replay_is_current(op) \/ live
           THEN RefusePreparation(op)
           ELSE /\ preparing' = preparing \ {op}
                /\ Post(op.epoch, [type |-> "prepared", request |-> op.request,
                                   lease |-> id, cell |-> op.cell])
                /\ host' = [host EXCEPT !.leases = id,
                               !.posting = @ \cup {[lease |-> id, heard |-> toPage' # toPage]}]
                /\ lease' = [state |-> "issued", id |-> id, op |-> op]
                /\ UNCHANGED <<pageVars, committing, writes, toHost>>

abandon(id) == IF lease.state = "issued" /\ lease.id = id THEN NoLease ELSE lease

\* The post has ended, which takes back the flag, and the lease if the page did not hear
\* of it.
PostEnds(post) ==
    /\ host' = [host EXCEPT !.flag = FALSE, !.posting = @ \ {post}]
    /\ lease' = IF post.heard THEN lease ELSE abandon(post.lease)
    /\ UNCHANGED <<pageVars, preparing, committing, writes, toHost, toPage, count>>

\* Mutant: a lease expires while its commit runs.
LeaseExpires_any ==
    /\ live
    /\ lease' = NoLease
    /\ UNCHANGED <<pageVars, host, preparing, committing, writes, toHost, toPage, count>>

\* A lease that is not spent expires, or is given back.
LeaseExpires ==
    /\ lease.state = "issued"
    /\ lease' = NoLease
    /\ UNCHANGED <<pageVars, host, preparing, committing, writes, toHost, toPage, count>>

HandleAbandon ==
    /\ AtHost("abandon")
    /\ lease' = abandon(Head(toHost).lease)
    /\ UNCHANGED <<pageVars, host, preparing, committing, writes, toPage, count>>

\* decide_commit: the first commit of a lease takes it; without the lease it is refused.
\* The page never repeats a commit, so that nothing joins or replays one.
HandleCommit ==
    LET commit == Head(toHost)
    IN  /\ AtHost("commit")
        /\ IF lease.state = "issued" /\ lease.id = commit.lease
           THEN /\ lease' = [lease EXCEPT !.state = "committing"]
                /\ committing' = Append(committing,
                      [lease |-> commit.lease, op |-> lease.op, value |-> commit.value,
                       awaits |-> Len(writes), epoch |-> host.epoch, step |-> "starting"])
                /\ UNCHANGED <<toPage, count>>
           ELSE /\ Post(host.epoch, [type |-> "commitRefused", lease |-> commit.lease])
                /\ UNCHANGED <<lease, committing>>
        /\ UNCHANGED <<pageVars, host, preparing, writes>>

\* Mutant: the lease is not given back.
settle_never(id) == lease

\* settle: the lease of the commit is over, and its answer is posted.
settle(id) == IF lease.state = "committing" /\ lease.id = id THEN NoLease ELSE lease

CommitEnded ==
    /\ committing' = Tail(committing)
    /\ lease' = settle(Head(committing).lease)
    /\ UNCHANGED <<pageVars, preparing, writes, toHost>>

EndCommit(answer) ==
    LET commit == Head(committing)
    IN  CommitEnded /\ Post(commit.epoch, [type |-> answer, lease |-> commit.lease])

\* One that is refused for what this module has no state of.
RefuseCommit ==
    LET commit == Head(committing)
    IN  /\ CommitEnded /\ Fault
        /\ toPage' = toPage \o For(commit.epoch, [type |-> "commitRefused", lease |-> commit.lease])

\* The replay is still current, or refused: when it starts, and when the edits admitted
\* before it are durable.
CheckCommit(step, next) ==
    /\ committing # <<>>
    /\ LET commit == Head(committing)
       IN  /\ commit.step = step
           /\ IF replay_is_current(commit.op)
              THEN /\ committing' = <<[commit EXCEPT !.step = next]>> \o Tail(committing)
                   /\ UNCHANGED <<pageVars, host, lease, preparing, writes, toHost, toPage, count>>
              ELSE EndCommit("commitRefused") /\ UNCHANGED host

StartCommit == CheckCommit("starting", "draining")

VerifyCommit == CheckCommit("draining", "verified") /\ Head(committing).awaits = 0

\* The file has changed on disk: the commit is refused.
CommitOutdated ==
    /\ committing # <<>> /\ Head(committing).step = "verified"
    /\ RefuseCommit
    /\ UNCHANGED host

\* The compare-and-set, in which the replay is checked again.
commit_history_replay ==
    /\ committing # <<>> /\ Head(committing).step = "verified"
    /\ LET commit == Head(committing)
       IN  IF replay_is_current(commit.op) /\ commit.op.cell = host.durable
           THEN /\ host' = [host EXCEPT !.durable = commit.value]
                /\ committing' = <<[commit EXCEPT !.step = "written"]>> \o Tail(committing)
                /\ UNCHANGED <<pageVars, lease, preparing, writes, toHost, toPage, count>>
           ELSE UNCHANGED host /\ EndCommit("commitRefused")

\* The host hears of it, and checks once more: a replay that is no longer current, or
\* that restores rows which are not admitted, is refused although it has been written.
AnswerCommit ==
    /\ committing # <<>> /\ Head(committing).step = "written"
    /\ LET commit   == Head(committing)
           heard    == [host EXCEPT !.known = host.durable]
           overtaken == [heard EXCEPT !.overtaken = @ \/ commit.epoch = host.epoch]
       IN  \/ replay_is_current(commit.op) /\ host' = heard /\ EndCommit("committed")
           \/ ~replay_is_current(commit.op) /\ host' = overtaken /\ EndCommit("commitRefused")
           \/ host' = overtaken /\ RefuseCommit

\* The document is shown again, perhaps one that has moved, which an unspent lease does
\* not survive.
Refresh(moved) ==
    /\ ~host.readying /\ Fault
    /\ Redraw([host EXCEPT !.basis = IF moved THEN @ + 1 ELSE @])
    /\ lease' = IF moved /\ lease.state = "issued" THEN NoLease ELSE lease
    /\ UNCHANGED <<pageVars, preparing, committing, writes, toHost>>

HandleApplied ==
    /\ AtHost("applied")
    /\ host' = [host EXCEPT !.acked = @ \/ Head(toHost).delivery = host.delivery]
    /\ UNCHANGED <<pageVars, lease, preparing, committing, writes, toPage, count>>

\* A new page is there: leases, the flag of a preparation that runs and the claim of a
\* session are forgotten.
HandleReady ==
    /\ AtHost("ready")
    /\ host' = [host EXCEPT !.epoch = @ + 1, !.flag = FALSE, !.claiming = FALSE,
                            !.readying = TRUE, !.overtaken = FALSE,
                            !.delivery = @ + 1, !.posted = TRUE, !.acked = FALSE]
    /\ lease' = NoLease
    /\ UNCHANGED <<pageVars, preparing, committing, writes, toPage, count>>

\* The first snapshot for it, with the durable edits.
CompleteReady ==
    /\ host.readying
    /\ host' = [host EXCEPT !.readying = FALSE, !.known = host.durable]
    /\ toPage' = Append(toPage, [type |-> "snapshot", initial |-> TRUE,
          delivery |-> host.delivery, cell |-> host.durable, session |-> host.session # 0])
    /\ UNCHANGED <<pageVars, lease, preparing, committing, writes, toHost, count>>

HandleMessage ==
    HandleEdits \/ HandleSession \/ HandleDiscard \/ handle_save \/ HandlePrepare
        \/ HandleAbandon \/ HandleCommit \/ HandleApplied \/ HandleReady

Preparation(op) ==
    BindPreparation(op) \/ ComparePreparation(op) \/ PreparationOutdated(op) \/ IssueLease(op)

-----------------------------------------------------------------------------

PageActs ==
    \/ Edit \/ Discard \/ RequestSave \/ RequestSession
    \/ \E direction \in Directions : Begin(direction)

PageRuns == Prepare \/ OnMessage \/ OnSnapshot \/ Ignore

HostRuns ==
    \/ HandleMessage \/ WriteLands \/ SaveEnds \/ GrantSession
    \/ StartCommit \/ VerifyCommit \/ CommitOutdated \/ commit_history_replay \/ AnswerCommit
    \/ CompleteReady \/ PostSnapshot
    \/ \E op \in preparing : Preparation(op)
    \/ \E post \in host.posting : PostEnds(post)

Next ==
    \/ PageActs \/ PageRuns \/ HostRuns \/ Load
    \/ LeaseExpires \/ OtherPanelEdits \/ \E moved \in BOOLEAN : Refresh(moved)

Spec == Init /\ [][Next]_vars

-----------------------------------------------------------------------------
(* Properties *)

\* The states of page, slot and leases.  A spent lease belongs to a commit that runs, and
\* no preparation awaits more edits than are pending.
TypeOK ==
    /\ page.session \in {"none", "requested", "held", "discarding"}
    /\ slot.phase \in {"idle", "acquiring", "preparing", "committing"}
    /\ lease.state \in {"none", "issued", "committing"}
    /\ lease.state = "committing" => \E i \in DOMAIN committing : committing[i].lease = lease.id
    /\ \A op \in preparing : op.step \in {"draining", "comparing", "verifying"}
    /\ \A op \in preparing : op.awaits <= Len(writes)
    /\ host.acked => host.posted

\* A commit for the page that is there keeps its lease until it is answered.  Expiry, a
\* document that moves, a page that gives the lease back, a post that ends late and the
\* preparations of other requests must all leave it alone: without it the next replay
\* would be let in beside the commit (history-replay-lease-model.ts:208-247).  Only the
\* commit of an earlier load of the page has lost its lease.
CommitKeepsLease ==
    \A commit \in Range(committing) :
        commit.epoch = host.epoch => lease.state = "committing" /\ lease.id = commit.lease

\* A page at rest: no replay, no message on its way to it, and its edits acknowledged.
AtRest ==
    /\ page.up /\ page.session = "held" /\ ~is_busy
    /\ page.published = page.cell /\ page.acknowledged
    /\ toPage = <<>>

\* Whenever the page comes to rest, the document it shows is the durable one, and the
\* history leads there: the newest entry of the undo stack ends at it and the newest
\* one of the redo stack starts from it.  So a replay moved the durable edits, the cell
\* and the history together or not at all, whatever edits, saves, refreshes, page loads
\* and lost posts came between its preparation, its commit and the answers.  One thing
\* breaks it, until the page is loaded again: a replay that is refused after it has been
\* written (host.overtaken), because a snapshot was sent after the compare-and-set and
\* before the host heard of it (viewer-controller.ts:13381) or because rows that it
\* restores are not admitted (13382-13385).  History says nothing of what another
\* panel's edits did to the document.
HistoryDescribesDocument ==
    AtRest /\ ~host.overtaken =>
       /\ host.durable = page.cell
       /\ page.undo # <<>> /\ ~count.others => Last(page.undo).after = page.cell
       /\ page.redo # <<>> /\ ~count.others => Last(page.redo).before = page.cell

\* While a save runs no replay takes its lease and none is written, so that the file and
\* the durable edits stay those that the save was started with (viewer-controller.ts:
\* 3469-3481): neither a replay of the page that is there, which the flag and the lease
\* keep out, nor one of an earlier page, whose lease is forgotten and whose commit may
\* still run.  Only after the preparation of an earlier page has run next to one of the
\* present page may a replay take its lease in a save: each of them ends by clearing the
\* flag they share.
Written == committing # <<>> /\ Head(committing).step = "written"

SavesExcludeReplays ==
    [][host.saving /\ ~count.overlap =>
          lease'.state # "committing" /\ (Written' => Written)]_vars

\* A message of one of these types, about what was asked, is on its way.
Answers(types, asked(_)) ==
    \E message \in Range(toHost \o toPage) : message.type \in types /\ asked(message)

\* The page allows one replay at a time and nothing ends one but its answer.  Unless a
\* post was lost, the answer that a busy slot waits for is on its way, or the host is at
\* work on it: no way through the preparation, the lease, the commit, a discard or a
\* page load leaves the page unable to edit or to undo.
AnswerIsOwed ==
    LET any(message)     == TRUE
        request(message) == message.request = slot.request
        spends(message)  == message.lease = slot.lease
    IN  ~count.lost =>
          /\ slot.phase = "acquiring" =>
                \/ page.session \in {"none", "held"}
                \/ page.session = "requested" /\ (host.claiming \/ Answers({"session"}, any))
                \/ page.session = "discarding" /\ Answers({"discard", "discarded"}, any)
          /\ slot.phase = "preparing" =>
                \/ Answers({"prepare", "prepared", "prepareRefused"}, request)
                \/ \E op \in preparing : op.request = slot.request /\ op.epoch = host.epoch
          /\ slot.phase = "committing" =>
                \/ Answers({"commit", "committed", "commitRefused"}, spends)
                \/ \E commit \in Range(committing) :
                      commit.lease = slot.lease /\ commit.epoch = host.epoch
=============================================================================

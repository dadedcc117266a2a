---------------------------- MODULE PanelSession ----------------------------
(***************************************************************************)
(* The delivery of workbook snapshots from a PanelSession to its webview:  *)
(* a page that may reload at any time, posts that may be refused, answered *)
(* late or lost with the page, and acknowledgements on the way back.       *)
(*                                                                         *)
(* `session` is the state of the class, the snapshots it issued and what   *)
(* it has posted; the methods are operators from a session to the next,    *)
(* since the code runs each of them without an await.  The viewer          *)
(* controller, which owns the session, is reduced to what it asks of it.   *)
(* A delivery is named by its number, which stands for its whole identity, *)
(* and an adoption by its epoch.  One file, so one canonicalFileId.        *)
(***************************************************************************)
EXTENDS Naturals, Sequences, FiniteSetsExt, SequencesExt

CONSTANTS
    Result,         \* terminal results of header commands
    NoResult,
    NoAdoption,
    BackoffLength,  \* retries before delivery goes dormant (4)
    LedgerLimit,    \* issued deliveries that are remembered (32)
    MaxEvents,      \* bound: loads of the page, loads of the source that the owner
                    \* wants of its own accord, changes of the file, writes of the
                    \* state, posts that are lost: all together
    MaxInFlight     \* bound: snapshots on the way before a timer fires again

ASSUME PanelSessionAssumption ==
    /\ NoResult \notin Result
    /\ {BackoffLength, MaxEvents, MaxInFlight} \subseteq Nat
    /\ LedgerLimit \in Nat \ {0}

VARIABLES
    session,     \* the PanelSession
    acks,        \* messages from the page, in order: "ready" or an acknowledgement
    shown,       \* the delivery the page applied last, or 0
    pending,     \* the header command whose result the page waits for
    commands,    \* header command -> whether it was asked for and has its result
    durable,     \* the revision of the stored state
    authority,   \* the authority revision of the latest commit
    load,        \* what the owner's load of a source has come to
    events       \* bounded events so far, but for the posts that were lost

vars == <<session, acks, shown, pending, commands, durable, authority, load, events>>

new_session ==
    [ lifecycle    |-> "awaitingReady",
      receiver     |-> 0,            \* receiver_epoch
      gate         |-> FALSE,        \* ready_gate_epoch is set
      epoch        |-> 0,            \* adoption_epoch
      current      |-> NoAdoption,
      desired      |-> 0,
      status       |-> "none",       \* of the desired delivery
      acknowledged |-> 0,
      stale        |-> 0,            \* stale_adoption_epoch
      retained     |-> <<>>,
      settled      |-> {},
      issued       |-> <<>>,         \* the deliveries, by number
      ledger       |-> {},
      timer        |-> "none",
      retries      |-> 0,
      dormant      |-> FALSE,
      posts        |-> {},           \* posts of the desired delivery without an answer yet
      wire         |-> <<>>,         \* deliveries posted, on the way to the page
      lost         |-> 0 ]

-----------------------------------------------------------------------------
(* Transport *)

overtaken(posts) == {[post EXCEPT !.live = FALSE] : post \in posts}

invalidate_transport(s) == [s EXCEPT !.timer = "none", !.posts = overtaken(@)]

\* Answers to the posts of a delivery that is no longer desired change nothing.
supersede_desired(s) == [s EXCEPT !.desired = 0, !.status = "none", !.posts = {}]

More == events + session.lost < MaxEvents

\* Whether a post arrives; one that does not is answered with false.
Arrivals == {TRUE} \cup IF More THEN {FALSE} ELSE {}

post_desired(s, arrives) ==
    [s EXCEPT !.posts = overtaken(@) \cup {[live |-> TRUE, accepted |-> arrives]},
              !.timer = "attempt",
              !.wire = IF arrives THEN Append(@, s.desired) ELSE @,
              !.lost = IF arrives THEN @ ELSE @ + 1]

\* Mutants: delivery ends with the last delay; a delay is taken past the last one.
schedule_retry_or_stop(s) ==
    IF s.retries = BackoffLength THEN [s EXCEPT !.timer = "none", !.status = "desired"]
    ELSE [s EXCEPT !.retries = @ + 1, !.timer = "retry", !.status = "desired"]

schedule_retry_past_end(s) ==
    IF s.dormant \/ s.retries > BackoffLength
    THEN [s EXCEPT !.dormant = TRUE, !.timer = "probe", !.status = "desired"]
    ELSE [s EXCEPT !.retries = @ + 1, !.timer = "retry", !.status = "desired"]

\* The retry delays first, then a dormant probe for ever.
schedule_retry(s) ==
    IF s.dormant \/ s.retries = BackoffLength
    THEN [s EXCEPT !.dormant = TRUE, !.timer = "probe", !.status = "desired"]
    ELSE [s EXCEPT !.retries = @ + 1, !.timer = "retry", !.status = "desired"]

\* The ledger forgets the oldest deliveries.
trim_ledger(ledger) ==
    {id \in ledger : Cardinality({later \in ledger : later >= id}) <= LedgerLimit}

create_desired(s, arrives) ==
    LET id == Len(s.issued) + 1
        delivery ==
            [ epoch |-> s.current.epoch, receiver |-> s.receiver,
              authority |-> s.current.authority, revision |-> s.current.revision,
              result |-> IF s.retained = <<>> THEN NoResult ELSE Head(s.retained) ]
    IN  post_desired([supersede_desired(invalidate_transport(s)) EXCEPT
                        !.issued = Append(@, delivery), !.desired = id, !.status = "desired",
                        !.ledger = trim_ledger(@ \cup {id}),
                        !.retries = 0, !.dormant = FALSE], arrives)

-----------------------------------------------------------------------------
(* Methods *)

begin_ready(s) ==
    [supersede_desired(invalidate_transport(s)) EXCEPT
        !.receiver = @ + 1, !.gate = TRUE, !.stale = 0, !.acknowledged = 0,
        !.lifecycle = "ready"]

complete_ready(s, arrives) ==
    IF s.current = NoAdoption THEN [s EXCEPT !.gate = FALSE, !.lifecycle = "ready"]
    ELSE create_desired([s EXCEPT !.gate = FALSE, !.lifecycle = "active"], arrives)

\* A page is there and has been told of nothing that it holds to be old.
deliverable(s) ==
    /\ s.current # NoAdoption
    /\ s.receiver > 0 /\ ~s.gate
    /\ s.stale # s.current.epoch

replace_adoption(s, basis, revision, arrives) ==
    LET t == [supersede_desired(invalidate_transport(s)) EXCEPT
                !.acknowledged = 0, !.stale = 0, !.epoch = @ + 1,
                !.current = [ epoch |-> s.epoch + 1, authority |-> basis,
                              revision |-> revision ]]
    IN  IF t.receiver = 0 THEN t
        ELSE IF t.gate THEN [t EXCEPT !.lifecycle = "ready"]
        ELSE create_desired([t EXCEPT !.lifecycle = "active"], arrives)

deliver_material_refresh(s, arrives) ==
    IF deliverable(s) THEN create_desired([s EXCEPT !.acknowledged = 0], arrives) ELSE s

\* update_state_snapshot; recapture_current_projection and deliver_current_material
\* deliver in the same way.
update_state_snapshot(s, revision, deliver, arrives) ==
    LET t == [s EXCEPT !.current.revision = revision]
    IN  IF s.current = NoAdoption \/ revision < s.current.revision THEN s
        ELSE IF deliver THEN deliver_material_refresh(t, arrives)
        ELSE t

\* A result waits while a delivery with a result is desired.
retain_command_result(s, result, deliver, arrives) ==
    LET t == [s EXCEPT !.retained = Append(@, result)]
    IN  IF result \in s.settled \cup ToSet(s.retained) THEN s
        ELSE IF /\ deliver
                /\ deliverable(s)
                /\ s.desired # 0 => s.issued[s.desired].result = NoResult
             THEN create_desired([t EXCEPT !.acknowledged = 0], arrives)
        ELSE t

wake_delivery(s, arrives) ==
    IF s.desired = 0 \/ s.status = "acked" THEN s
    ELSE post_desired([invalidate_transport(s) EXCEPT
                         !.retries = 0, !.dormant = FALSE, !.status = "desired"], arrives)

acknowledged_current(s) ==
    /\ s.current # NoAdoption
    /\ s.desired # 0 /\ s.acknowledged = s.desired
    /\ s.status = "acked"
    /\ s.issued[s.acknowledged].epoch = s.current.epoch
    /\ s.issued[s.acknowledged].receiver = s.receiver

\* The page holds the desired delivery to be old: nothing more is sent of this
\* adoption, and the owner is asked for another.
acknowledged_stale(s) ==
    [supersede_desired(invalidate_transport(s)) EXCEPT
        !.ledger = @ \ {s.desired}, !.acknowledged = 0,
        !.stale = s.issued[s.desired].epoch]

\* The page has the desired delivery.  A result that it carried is settled, and the
\* next one that is retained is sent.
acknowledged_applied(s, arrives) ==
    LET result == s.issued[s.desired].result
        t == [invalidate_transport(s) EXCEPT
                !.status = "acked", !.acknowledged = s.desired,
                !.retained = RemoveFirst(@, result),
                !.settled = IF result \in ToSet(s.retained) THEN @ \cup {result} ELSE @]
    IN  IF result # NoResult /\ t.retained # <<>> THEN create_desired(t, arrives) ELSE t

\* Mutant: the acknowledgement of an earlier delivery counts for the desired one.
acknowledge_any(s, id, disposition, arrives) ==
    IF id \notin s.ledger \/ s.desired = 0 \/ s.status = "acked" THEN s
    ELSE IF disposition = "stale" THEN acknowledged_stale(s)
    ELSE acknowledged_applied(s, arrives)

\* Only the exact delivery that is desired is acknowledged; any other is forgotten.
handle_snapshot_applied(s, id, disposition, arrives) ==
    IF id \notin s.ledger THEN s
    ELSE IF id # s.desired THEN [s EXCEPT !.ledger = @ \ {id}]
    ELSE IF s.status = "acked" THEN s
    ELSE IF disposition = "stale" THEN acknowledged_stale(s)
    ELSE acknowledged_applied(s, arrives)

dispose(s) ==
    [invalidate_transport(supersede_desired(s)) EXCEPT
        !.lifecycle = "disposed", !.gate = FALSE, !.current = NoAdoption,
        !.acknowledged = 0, !.retained = <<>>, !.settled = {}, !.stale = 0, !.ledger = {}]

-----------------------------------------------------------------------------
(* The page *)

Live == session.lifecycle # "disposed"

\* Mutant: the latest delivery wins.
classify_by_number(incoming, applied) ==
    IF incoming > applied THEN "applied"
    ELSE IF incoming = applied THEN "duplicate" ELSE "stale"

\* The physical and the projection revision, which the page compares next, are left out:
\* a commit that moves one of them moves the authority's (state.ts:1232-1249), so where
\* the authorities are equal these are.
classify_snapshot(incoming, applied) ==
    LET new == session.issued[incoming]
        old == session.issued[applied]
    IN  IF applied = 0 THEN "applied"
        ELSE IF incoming = applied THEN "duplicate"
        ELSE IF new.authority # old.authority
             THEN IF new.authority > old.authority THEN "applied" ELSE "stale"
        ELSE IF new.revision # old.revision
             THEN IF new.revision > old.revision THEN "applied" ELSE "stale"
        ELSE IF incoming > applied THEN "applied" ELSE "stale"

\* The page takes the next snapshot (bound: while few of its messages are on their way).
\* Its result ends the command that the page waits for, whatever the
\* snapshot is.
Receive ==
    LET id == Head(session.wire)
        disposition == classify_snapshot(id, shown)
    IN  /\ Live /\ session.wire # <<>> /\ Len(acks) <= MaxInFlight
        /\ session' = [session EXCEPT !.wire = Tail(@)]
        /\ shown' = IF disposition = "applied" THEN id ELSE shown
        /\ pending' = IF session.issued[id].result = pending THEN NoResult ELSE pending
        /\ acks' = Append(acks, [type |-> "snapshotApplied", id |-> id,
                                 disposition |-> disposition])
        /\ UNCHANGED <<commands, durable, authority, load, events>>

\* The page asks for a header setting, one at a time.
Ask(result) ==
    /\ Live /\ shown # 0
    /\ pending = NoResult /\ commands[result] = "none"
    /\ pending' = result
    /\ commands' = [commands EXCEPT ![result] = "sent"]
    /\ acks' = Append(acks, [type |-> "setExcelFirstRowHeader", id |-> result])
    /\ UNCHANGED <<session, shown, durable, authority, load, events>>

\* The page loads, for the first time or again; snapshots on the way may be lost with
\* the old page or reach the new one.
Reload ==
    /\ Live /\ More
    /\ events' = events + 1
    /\ shown' = 0
    /\ pending' = NoResult
    /\ \E wire \in {<<>>, session.wire} : session' = [session EXCEPT !.wire = wire]
    /\ acks' = Append(acks, [type |-> "ready"])
    /\ UNCHANGED <<commands, durable, authority, load>>

-----------------------------------------------------------------------------
(* The owner of the session *)

NoLoad == [phase |-> "none"]
Wanted == [phase |-> "wanted"]

\* The next message of the page.
Message(type) == Live /\ acks # <<>> /\ Head(acks).type = type /\ acks' = Tail(acks)

HandleReady ==
    /\ Message("ready")
    /\ session' = begin_ready(session)
    /\ UNCHANGED <<shown, pending, commands, durable, authority, load, events>>

\* The state is read and the ready epoch completed; a completion of an earlier epoch
\* does nothing.  A session without a source asks for one.
CompleteReady ==
    /\ Live /\ session.gate
    /\ \E arrives \in Arrivals : session' = complete_ready(session, arrives)
    /\ load' = IF session.current = NoAdoption /\ load = NoLoad THEN Wanted ELSE load
    /\ UNCHANGED <<acks, shown, pending, commands, durable, authority, events>>

\* A session whose adoption the page holds to be old asks for another.
HandleApplied ==
    /\ Message("snapshotApplied")
    /\ \E arrives \in Arrivals :
          session' = handle_snapshot_applied(session, Head(acks).id, Head(acks).disposition,
                                             arrives)
    /\ load' = IF session'.stale # session.stale /\ load = NoLoad THEN Wanted ELSE load
    /\ UNCHANGED <<shown, pending, commands, durable, authority, events>>

\* Any other message first wakes the delivery.
HandleCommand ==
    /\ Message("setExcelFirstRowHeader")
    /\ \E arrives \in Arrivals : session' = wake_delivery(session, arrives)
    /\ commands' = [commands EXCEPT ![Head(acks).id] = "handled"]
    /\ UNCHANGED <<shown, pending, durable, authority, load, events>>

\* The owner reloads the source of its own accord: a watcher event, a recovery.
WantLoad ==
    /\ Live /\ load = NoLoad /\ More
    /\ events' = events + 1
    /\ load' = Wanted
    /\ UNCHANGED <<session, acks, shown, pending, commands, durable, authority>>

\* A load commits, of the file as it was or changed: the receipt has the authority and
\* the state of that moment.
CommitLoad ==
    /\ Live /\ load = Wanted
    /\ \E changes \in IF More THEN {0, 1} ELSE {0} :
          /\ authority' = authority + changes
          /\ events' = events + changes
    /\ load' = [phase |-> "committed", authority |-> authority', revision |-> durable]
    /\ UNCHANGED <<session, acks, shown, pending, commands, durable>>

\* The loaded source is adopted.
AdoptLoad ==
    /\ Live /\ load.phase = "committed"
    /\ \E arrives \in Arrivals :
          session' = replace_adoption(session, load.authority, load.revision, arrives)
    /\ load' = NoLoad
    /\ UNCHANGED <<acks, shown, pending, commands, durable, authority, events>>

\* A header setting is committed, and its result waits for the adoption it belongs to:
\* that of the source at hand.  A load that has committed and not been adopted yet does
\* not know of it.
CommitHeader(result) ==
    /\ session.current # NoAdoption /\ session.current.authority = authority
    /\ durable' = durable + 1
    /\ authority' = authority + 1
    /\ \E arrives \in Arrivals :
          session' = replace_adoption(retain_command_result(session, result, FALSE, arrives),
                                      authority + 1, durable + 1, arrives)
    /\ UNCHANGED load

\* It is committed, but the source at hand does not lead to it: the source is loaded
\* again, and the result waits for that.
RecoverHeader(result) ==
    /\ session.current # NoAdoption
    /\ durable' = durable + 1
    /\ authority' = authority + 1
    /\ session' = retain_command_result(session, result, FALSE, TRUE)
    /\ load' = Wanted

\* It is rejected, or its outcome is unknown: the result is all there is to send.
RejectHeader(result) ==
    /\ \E arrives \in Arrivals :
          session' = retain_command_result(session, result, TRUE, arrives)
    /\ UNCHANGED <<durable, authority, load>>

AnswerCommand(result) ==
    /\ Live /\ commands[result] = "handled"
    /\ commands' = [commands EXCEPT ![result] = "answered"]
    /\ CommitHeader(result) \/ RecoverHeader(result) \/ RejectHeader(result)
    /\ UNCHANGED <<acks, shown, pending, events>>

\* Some window writes the state of the file.
Write ==
    /\ Live /\ More
    /\ events' = events + 1
    /\ durable' = durable + 1
    /\ UNCHANGED <<session, acks, shown, pending, commands, authority, load>>

\* The owner has read the state or written it; it may have the page told.
UpdateState ==
    /\ Live /\ session.current # NoAdoption
    /\ durable > session.current.revision
    /\ \E deliver \in BOOLEAN, arrives \in Arrivals :
          session' = update_state_snapshot(session, durable, deliver, arrives)
    /\ UNCHANGED <<acks, shown, pending, commands, durable, authority, load, events>>

\* The panel is closed, and its page with it.
Dispose ==
    /\ Live
    /\ session' = [dispose(session) EXCEPT !.issued = <<>>, !.wire = <<>>]
    /\ shown' = 0
    /\ pending' = NoResult
    /\ acks' = <<>>
    /\ load' = NoLoad
    /\ UNCHANGED <<commands, durable, authority, events>>

-----------------------------------------------------------------------------
(* Answers to posts, and timers *)

\* The answer to a post; one that was overtaken is ignored.
attempt_answered(s, post) ==
    IF ~post.live THEN s
    ELSE IF post.accepted THEN [s EXCEPT !.status = "posted", !.timer = "ack"]
    ELSE schedule_retry(s)

PostAnswered ==
    /\ Live
    /\ \E post \in session.posts :
          session' = [attempt_answered(session, post) EXCEPT !.posts = @ \ {post}]
    /\ UNCHANGED <<acks, shown, pending, commands, durable, authority, load, events>>

\* The attempt or the acknowledgement takes too long.
TimesOut ==
    /\ Live /\ session.timer \in {"attempt", "ack"}
    /\ session' = schedule_retry([session EXCEPT !.posts = overtaken(@)])
    /\ UNCHANGED <<acks, shown, pending, commands, durable, authority, load, events>>

\* The delay is over and the delivery is posted again.
Retries ==
    /\ Live /\ session.timer \in {"retry", "probe"}
    /\ Len(session.wire) < MaxInFlight
    /\ \E arrives \in Arrivals : session' = post_desired(session, arrives)
    /\ UNCHANGED <<acks, shown, pending, commands, durable, authority, load, events>>

-----------------------------------------------------------------------------
Init ==
    /\ session = new_session
    /\ acks = <<>>
    /\ shown = 0
    /\ pending = NoResult
    /\ commands = [result \in Result |-> "none"]
    /\ durable = 0
    /\ authority = 0
    /\ load = Wanted
    /\ events = 0

\* What the page does, and what the owner owes the session.
PageStep == Receive \/ HandleReady \/ HandleApplied \/ HandleCommand
OwnerStep == CompleteReady \/ CommitLoad \/ AdoptLoad \/ \E r \in Result : AnswerCommand(r)
TransportStep == PostAnswered \/ TimesOut \/ Retries

Next ==
    \/ PageStep \/ OwnerStep \/ TransportStep
    \/ Reload \/ WantLoad \/ Write \/ UpdateState \/ Dispose
    \/ \E result \in Result : Ask(result)

\* Messages arrive and are handled, loads end, and timers fire.
Fairness ==
    /\ WF_vars(Receive) /\ WF_vars(HandleReady \/ HandleApplied \/ HandleCommand)
    /\ WF_vars(CompleteReady) /\ WF_vars(CommitLoad \/ AdoptLoad)
    /\ \A result \in Result : WF_vars(AnswerCommand(result))
    /\ WF_vars(PostAnswered) /\ WF_vars(TimesOut \/ Retries)

Spec == Init /\ [][Next]_vars /\ Fairness

-----------------------------------------------------------------------------
(* Properties *)

Delivery ==
    [ epoch : Nat, receiver : Nat, authority : Nat, revision : Nat,
      result : Result \cup {NoResult} ]

TypeOK ==
    /\ session.issued \in Seq(Delivery)
    /\ session.current = NoAdoption
       \/ session.current \in [epoch : Nat, authority : Nat, revision : Nat]
    /\ session.ledger \cup {session.desired, session.acknowledged, shown} \subseteq
          0..Len(session.issued)
    /\ session.lifecycle \in {"awaitingReady", "ready", "active", "disposed"}
    /\ session.status \in {"none", "desired", "posted", "acked"}
    /\ session.timer \in {"none", "attempt", "ack", "retry", "probe"}
    /\ session.retained \in Seq(Result)
    /\ session.retries \in 0..BackoffLength
    /\ session.timer # "none" => session.desired # 0

\* Saves, edits and replays trust the identity that acknowledged_current vouches for:
\* it is what the page shows, unless the page has reloaded and said so.  No late,
\* repeated or reordered acknowledgement makes the session believe otherwise.
AcknowledgedIsShown ==
    acknowledged_current(session) =>
        \/ shown = session.desired
        \/ \E i \in DOMAIN acks : acks[i].type = "ready"

\* Between two loads of the page, what it shows never goes back: not to an earlier
\* authority, and not to an earlier state of the same authority.
PageNeverGoesBack ==
    [][shown # 0 /\ shown' # 0 =>
          LET old == session.issued[shown]
              new == session.issued[shown']
          IN  \/ new.authority > old.authority
              \/ new.authority = old.authority /\ new.revision >= old.revision]_vars

\* With the page staying loaded, lost posts, timeouts and late acknowledgements end:
\* the page comes to show the session's latest adoption and the session to know it.
EventuallyShown ==
    <>[](Live /\ session.receiver > 0 =>
            acknowledged_current(session) /\ shown = session.desired)

\* A page that asks for a header setting gets its result.
CommandsEnd ==
    \A result \in Result : pending = result ~> pending # result \/ ~Live
=============================================================================

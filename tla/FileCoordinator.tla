--------------------------- MODULE FileCoordinator ---------------------------
(***************************************************************************)
(* The operations that change one file's durable authority and state, each *)
(* running in one of several processes that share the store:               *)
(*   physical    commit_physical_candidate: new bytes were loaded          *)
(*   projection  commit_excel_header: a header row setting                 *)
(*   highlight   execute_cell_highlight_command: a compare-and-set         *)
(* A process runs one step of one operation at a time, from an await to    *)
(* the next; the store call that an operation awaits goes through the      *)
(* queue of its process and runs as one transaction.  A call may throw,    *)
(* before or after its transaction took effect, and a process may crash.   *)
(*                                                                         *)
(* A stored state is the set of operations whose change it contains, so    *)
(* that a change that was lost is a change that is missing.                *)
(***************************************************************************)
EXTENDS StoreTransactions, CoordinatorEntry, Sequences

CONSTANTS
    File,                 \* the path of the file
    Proc,                 \* processes with a view of it
    ProcOf,               \* operation -> the process it runs in
    ChangesState,         \* physical operations whose plan changes the stored state
    MaxConflicts,         \* conflicts a header setting retries (3)
    MaxHighlightAttempts, \* attempts of a highlight command (16)
    MaxOps,               \* bound: operations that begin
    MaxFaults,            \* bound: store calls that throw
    MaxCrashes,           \* bound: processes that crash
    MaxEvictions          \* bound: evictions of the file's entry by other windows

ASSUME FileCoordinatorAssumption ==
    /\ File \in Path
    /\ ProcOf \in [Op -> Proc]
    /\ ChangesState \subseteq Op
    /\ {MaxConflicts, MaxHighlightAttempts, MaxOps, MaxFaults, MaxCrashes, MaxEvictions} \subseteq Nat
    /\ EmptyState = {}
    /\ IsFiniteSet(Op)

\* A staged transaction of an operation, and the entry the store has of the file.
Stage ==
    [ id                     : Op,
      kind                   : {"physical", "projection"},
      expectedStateRevision  : Nat,
      expectedCommitSequence : Nat,
      nextState              : (SUBSET Op) \cup {NoState},
      physicalDigest         : Digest \cup {NoDigest},
      stale                  : {FALSE} ]

StoredEntry ==
    [ revision       : Nat,
      state          : SUBSET Op,
      authority      : Authority,
      stages         : SUBSET Stage,
      copyProvenance : {NoCopy} ]

\* What marks a path without an entry is no entry, and what marks a stage that
\* leaves the state alone is no state.
ASSUME MarkerAssumption ==
    /\ NoEntry \notin StoredEntry
    /\ \A state \in SUBSET Op : state # NoState

VARIABLES
    db,        \* the durable store
    entry,     \* process -> its coordinator entry of the file
    queue,     \* process -> its store calls, in the order they were made
    tail,      \* process -> its highlight commands, cellHighlightTail
    pc,        \* operation -> what it awaits
    loc,       \* operation -> its local variables
    answer,    \* operation -> how it ended
    receipt,   \* operation -> the authority receipt it published
    applied,   \* history: operation -> the commit sequence its change got, or 0
    faults,    \* store calls that threw
    crashes,   \* processes that crashed
    evictions  \* evictions of the file's entry

vars == <<db, entry, queue, tail, pc, loc, answer, receipt, applied, faults, crashes, evictions>>

NoReceipt == [previous |-> empty_authority, resulting |-> empty_authority]

NoReply == [type |-> "none", authority |-> empty_authority, revision |-> 0,
            state |-> {}, stagePresent |-> FALSE]

NewLocals ==
    [ expected   |-> empty_authority,  \* the authority the caller acted on
      current    |-> empty_authority,  \* the installed authority before a turn was awaited
      basis      |-> empty_authority,  \* finalizationBasis
      finalized  |-> empty_authority,  \* what the finalization answered
      revision   |-> 0,                \* state_snapshot.revision
      state      |-> {},               \* state_snapshot.state
      sequence   |-> 0,                \* the stage's expectedCommitSequence
      conflicts  |-> 0,
      reply      |-> NoReply ]

\* The store has not seen the file, or holds what an earlier load committed.
initial_entries ==
    {[p \in Path |-> NoEntry]} \cup
    {[p \in Path |->
        IF p = File
        THEN [empty_entry(0) EXCEPT !.authority = advance(empty_authority, "physical", digest)]
        ELSE NoEntry] : digest \in Digest}

Init ==
    /\ \E entries \in initial_entries :
          db = [ entries |-> entries, absenceRevision |-> 0, nextRevision |-> 1,
                 before |-> {} ]
    /\ entry = [p \in Proc |-> new_entry(authority_of(db, File))]
    /\ queue = [p \in Proc |-> <<>>]
    /\ tail = [p \in Proc |-> <<>>]
    /\ pc = [o \in Op |-> "idle"]
    /\ loc = [o \in Op |-> NewLocals]
    /\ answer = [o \in Op |-> "none"]
    /\ receipt = [o \in Op |-> NoReceipt]
    /\ applied = [o \in Op |-> 0]
    /\ faults = 0
    /\ crashes = 0
    /\ evictions = 0

durable == authority_of(db, File)

installed(o) == entry[ProcOf[o]].authority

\* What the plan of operation o makes of the state it read.
planned_state(o) ==
    IF KindOf[o] = "physical" /\ o \notin ChangesState THEN NoState ELSE loc[o].state \cup {o}

stage_of(o) ==
    [ id |-> o, kind |-> KindOf[o], expectedStateRevision |-> loc[o].revision,
      expectedCommitSequence |-> loc[o].sequence, nextState |-> planned_state(o),
      physicalDigest |-> IF KindOf[o] = "physical" THEN DigestOf[o] ELSE NoDigest,
      stale |-> FALSE ]

\* The awaits that a store call answers.
StoreCalls == {"read", "stage", "finalize", "reconcile", "inspect", "cas"}

-----------------------------------------------------------------------------
(* Steps of an operation: the entry of its process, its locals and the      *)
(* store calls it makes.                                                    *)

SetEntry(o, new) == entry' = [entry EXCEPT ![ProcOf[o]] = new]

\* o makes a store call and awaits its answer.
Call(o, call, locals) ==
    /\ pc' = [pc EXCEPT ![o] = call]
    /\ loc' = [loc EXCEPT ![o] = [locals EXCEPT !.reply = NoReply]]
    /\ queue' = [queue EXCEPT ![ProcOf[o]] = Append(@, <<o, call>>)]
    /\ UNCHANGED <<db, tail, answer, receipt, applied, faults, crashes, evictions>>

\* o awaits its commit turn.
AwaitTurn(o, new, await, locals) ==
    /\ SetEntry(o, request_commit_turn(new, o))
    /\ pc' = [pc EXCEPT ![o] = await]
    /\ loc' = [loc EXCEPT ![o] = locals]
    /\ UNCHANGED <<db, queue, tail, answer, receipt, applied, faults, crashes, evictions>>

\* o ends with an answer.  The finally block cancels a physical operation and
\* finishes a projection, and discards the stage without awaiting it.
EndWith(o, new, result, published) ==
    /\ SetEntry(o, IF KindOf[o] = "physical" THEN cancel(new, o) ELSE finish(new, o))
    /\ pc' = [pc EXCEPT ![o] = "done"]
    /\ loc' = [loc EXCEPT ![o] = NewLocals]
    /\ answer' = [answer EXCEPT ![o] = result]
    /\ receipt' = [receipt EXCEPT ![o] = published]
    /\ queue' = [queue EXCEPT ![ProcOf[o]] = Append(@, <<o, "discard">>)]
    /\ UNCHANGED <<db, tail, applied, faults, crashes, evictions>>

End(o, new, result) == EndWith(o, new, result, NoReceipt)

\* observe_advanced_authority, then the end of the operation; a divergent
\* authority makes it throw.
EndObserved(o, authority, result) ==
    LET this == entry[ProcOf[o]]
    IN  End(o, conclude(this, o, authority),
            IF install_type(this, authority) = "invalid" THEN "failed" ELSE result)

\* finalize_authority_commit: the receipt names the authority before and after.
EndCommitted(o, authority) ==
    LET this == entry[ProcOf[o]]
        type == install_type(this, authority)
    IN  IF type \in {"installed", "unchanged"}
        THEN EndWith(o, conclude(this, o, authority), "committed",
                     [ previous  |-> IF type = "installed" THEN this.authority ELSE loc[o].basis,
                       resulting |-> authority ])
        ELSE End(o, conclude(this, o, authority), "failed")

\* A step of o that waits for a store call whose answer has come.
Answered(o, call) == pc[o] = call /\ loc[o].reply.type # "none"

Replied(o, call, type) == Answered(o, call) /\ loc[o].reply.type = type

-----------------------------------------------------------------------------
(* Physical commits *)

\* One more operation may begin.
may_begin == Cardinality({o \in Op : pc[o] # "idle"}) < MaxOps

\* The view starts to load: it notes the authority revision it loads against.
LoadCandidate(o) ==
    /\ KindOf[o] = "physical"
    /\ pc[o] = "idle" /\ may_begin
    /\ pc' = [pc EXCEPT ![o] = "loaded"]
    /\ loc' = [loc EXCEPT ![o].expected = installed(o)]
    /\ UNCHANGED <<db, entry, queue, tail, answer, receipt, applied, faults, crashes, evictions>>

\* begin_physical; a rejected candidate never gets a token.
BeginPhysical(o) ==
    LET this == entry[ProcOf[o]]
    IN  /\ pc[o] = "loaded"
        /\ IF begin_physical_accepts(this, loc[o].expected.authorityRevision, DigestOf[o])
           THEN /\ SetEntry(o, begin_physical(this, o))
                /\ Call(o, "read", loc[o])
           ELSE /\ pc' = [pc EXCEPT ![o] = "done"]
                /\ answer' = [answer EXCEPT ![o] = "rejected"]
                /\ loc' = [loc EXCEPT ![o] = NewLocals]
                /\ UNCHANGED <<db, entry, queue, tail, receipt, applied, faults, crashes, evictions>>

\* The head of the loop: another load may have superseded this one, or the
\* operation was invalidated.
PhysicalAttempt(o, new) ==
    IF new.status[o] = "valid"
    THEN \/ SetEntry(o, new) /\ Call(o, "read", loc[o])
         \/ End(o, new, "stale")
    ELSE End(o, new, "stale")

PhysicalRead(o) ==
    /\ KindOf[o] = "physical"
    /\ Replied(o, "read", "ok")
    /\ UNCHANGED entry
    /\ Call(o, "stage", [loc[o] EXCEPT !.revision = loc[o].reply.revision,
                                       !.state = loc[o].reply.state,
                                       !.sequence = installed(o).commitSequence])

PhysicalStaged(o) ==
    LET this     == entry[ProcOf[o]]
        relation == compare_authority(loc[o].reply.authority, this.authority)
    IN  /\ KindOf[o] = "physical"
        /\ \/ /\ Replied(o, "stage", "ok")
              /\ AwaitTurn(o, this, "turn", loc[o])
           \/ /\ Replied(o, "stage", "conflict")
              /\ \/ relation = "equal" /\ PhysicalAttempt(o, this)
                 \/ /\ relation = "dominates"
                    /\ AwaitTurn(o, this, "observe", [loc[o] EXCEPT !.current = this.authority])
                 \/ relation \in {"dominated", "divergent"} /\ End(o, this, "rejected")

PhysicalTurn(o) ==
    LET this == entry[ProcOf[o]]
    IN  /\ KindOf[o] = "physical"
        /\ pc[o] = "turn"
        /\ \/ this.turn[o] = "rejected" /\ End(o, this, "rejected")
           \/ /\ this.turn[o] = "granted"
              /\ SetEntry(o, start_finalization(this))
              /\ Call(o, "finalize", [loc[o] EXCEPT !.basis = this.authority])

PhysicalFinalized(o) ==
    LET this     == entry[ProcOf[o]]
        reply    == loc[o].reply
        relation == compare_authority(reply.authority, loc[o].basis)
    IN  /\ KindOf[o] = "physical"
        /\ Answered(o, "finalize")
        /\ \/ /\ reply.type = "error"
              /\ UNCHANGED entry
              /\ Call(o, "reconcile", loc[o])
           \/ /\ reply.type = "conflict"
              /\ \/ relation = "dominates" /\ EndObserved(o, reply.authority, "advanced")
                 \/ relation = "equal" /\ PhysicalAttempt(o, release_commit_turn(this, o))
                 \/ /\ relation \in {"dominated", "divergent"}
                    /\ End(o, release_commit_turn(this, o), "rejected")
           \/ /\ reply.type = "ok"
              /\ UNCHANGED entry
              /\ Call(o, "inspect", [loc[o] EXCEPT !.finalized = reply.authority])

-----------------------------------------------------------------------------
(* reconcile_finalization: what a failed finalization did, judged from one  *)
(* inspection of the store.                                                 *)

\* Mutant: anything but the exact result of the commit counts as no commit.
reconciliation_without_advance(o) ==
    LET reply == loc[o].reply
        next  == IF planned_state(o) = NoState THEN loc[o].state ELSE planned_state(o)
    IN  IF /\ ~reply.stagePresent
           /\ reply.authority = advance(loc[o].basis, KindOf[o], stage_of(o).physicalDigest)
           /\ reply.state = next
        THEN "committed" ELSE "notCommitted"

reconciliation(o) ==
    LET reply    == loc[o].reply
        basis    == loc[o].basis
        next     == IF planned_state(o) = NoState THEN loc[o].state ELSE planned_state(o)
        revised  == IF next # loc[o].state THEN reply.revision > loc[o].revision
                    ELSE reply.revision = loc[o].revision
    IN  IF /\ ~reply.stagePresent
           /\ reply.authority = advance(basis, KindOf[o], stage_of(o).physicalDigest)
           /\ revised
           /\ reply.state = next
        THEN "committed"
        ELSE IF /\ reply.stagePresent
                /\ reply.authority = basis
                /\ reply.revision = loc[o].revision
                /\ reply.state = loc[o].state
        THEN "notCommitted"
        ELSE "advanced"

PhysicalReconciled(o) ==
    LET this     == entry[ProcOf[o]]
        observed == loc[o].reply.authority
        released == release_commit_turn(this, o)
    IN  /\ KindOf[o] = "physical"
        /\ \/ Replied(o, "reconcile", "error") /\ End(o, released, "failed")
           \/ /\ Replied(o, "reconcile", "ok")
              /\ CASE reconciliation(o) = "committed"    -> EndCommitted(o, observed)
                   [] reconciliation(o) = "notCommitted" -> End(o, released, "failed")
                   [] reconciliation(o) = "advanced"     ->
                        IF compare_authority(observed, this.authority) = "dominates"
                        THEN EndObserved(o, observed, "advanced")
                        ELSE End(o, released, "rejected")

\* Mutant: the commit is taken to be the one the inspection saw.
PhysicalInspected_latest(o) ==
    /\ KindOf[o] = "physical"
    /\ \/ Replied(o, "inspect", "error") /\ EndObserved(o, loc[o].finalized, "advanced")
       \/ Replied(o, "inspect", "ok") /\ EndCommitted(o, loc[o].reply.authority)

PhysicalInspected(o) ==
    LET reply    == loc[o].reply
        relation == compare_authority(reply.authority, loc[o].finalized)
    IN  /\ KindOf[o] = "physical"
        /\ \/ Replied(o, "inspect", "error") /\ EndObserved(o, loc[o].finalized, "advanced")
           \/ /\ Replied(o, "inspect", "ok")
              /\ \/ relation = "equal" /\ EndCommitted(o, loc[o].finalized)
                 \/ relation = "dominates" /\ EndObserved(o, reply.authority, "advanced")
                 \/ /\ relation \in {"dominated", "divergent"}
                    /\ EndObserved(o, loc[o].finalized, "advanced")

\* Both kinds of commit wait for a turn to install a newer authority that a
\* conflict showed, and leave it alone when the installed one has moved since.
ObserveTurn(o) ==
    LET this   == entry[ProcOf[o]]
        result == IF KindOf[o] = "physical" THEN "advanced" ELSE "rejected"
    IN  /\ pc[o] = "observe"
        /\ \/ this.turn[o] = "rejected" /\ End(o, this, result)
           \/ /\ this.turn[o] = "granted"
              /\ IF this.authority = loc[o].current
                 THEN EndObserved(o, loc[o].reply.authority, result)
                 ELSE End(o, release_commit_turn(this, o), result)

\* A store call outside the finalization that throws ends the commit.
CallThrew(o) ==
    /\ KindOf[o] # "highlight"
    /\ \E call \in {"read", "stage"} : Replied(o, call, "error")
    /\ End(o, entry[ProcOf[o]], "failed")

-----------------------------------------------------------------------------
(* Header settings *)

physical_basis_is_current(o) ==
    /\ installed(o).physicalRevision = loc[o].expected.physicalRevision
    /\ installed(o).physicalDigest = loc[o].expected.physicalDigest

planning_is_current(o) ==
    entry[ProcOf[o]].status[o] = "valid" /\ physical_basis_is_current(o)

\* The view asks for a header setting, or for highlights, of what it shows.
Request(o) ==
    /\ KindOf[o] \in {"projection", "highlight"}
    /\ pc[o] = "idle" /\ may_begin
    /\ pc' = [pc EXCEPT ![o] = "requested"]
    /\ loc' = [loc EXCEPT ![o].expected = installed(o)]
    /\ UNCHANGED <<db, entry, queue, tail, answer, receipt, applied, faults, crashes, evictions>>

StartHeader(o) ==
    /\ KindOf[o] = "projection"
    /\ pc[o] = "requested"
    /\ IF physical_basis_is_current(o)
       THEN /\ SetEntry(o, begin_projection(entry[ProcOf[o]], o))
            /\ Call(o, "read", loc[o])
       ELSE /\ pc' = [pc EXCEPT ![o] = "done"]
            /\ answer' = [answer EXCEPT ![o] = "rejected"]
            /\ loc' = [loc EXCEPT ![o] = NewLocals]
            /\ UNCHANGED <<db, entry, queue, tail, receipt, applied, faults, crashes, evictions>>

\* The head of the loop after a conflict that left the authority as it was.
HeaderRetry(o, new) ==
    IF loc[o].conflicts >= MaxConflicts
       \/ new.status[o] # "valid" \/ ~physical_basis_is_current(o)
    THEN End(o, new, "rejected")
    ELSE SetEntry(o, new) /\ Call(o, "read", [loc[o] EXCEPT !.conflicts = @ + 1])

HeaderRead(o) ==
    /\ KindOf[o] = "projection"
    /\ Replied(o, "read", "ok")
    /\ IF planning_is_current(o)
       THEN /\ UNCHANGED entry
            /\ Call(o, "stage", [loc[o] EXCEPT !.revision = loc[o].reply.revision,
                                               !.state = loc[o].reply.state,
                                               !.sequence = installed(o).commitSequence])
       ELSE End(o, entry[ProcOf[o]], "rejected")

HeaderStaged(o) ==
    LET this     == entry[ProcOf[o]]
        relation == compare_authority(loc[o].reply.authority, this.authority)
    IN  /\ KindOf[o] = "projection"
        /\ Answered(o, "stage")
        /\ loc[o].reply.type # "error"
        /\ IF ~planning_is_current(o) THEN End(o, this, "rejected")
           ELSE \/ /\ loc[o].reply.type = "ok"
                   /\ AwaitTurn(o, this, "turn", loc[o])
                \/ /\ loc[o].reply.type = "conflict"
                   /\ \/ relation = "equal" /\ HeaderRetry(o, this)
                      \/ /\ relation = "dominates"
                         /\ AwaitTurn(o, this, "observe",
                                      [loc[o] EXCEPT !.current = this.authority])
                      \/ /\ relation \in {"dominated", "divergent"}
                         /\ End(o, this, "rejected")

HeaderTurn(o) ==
    LET this == entry[ProcOf[o]]
    IN  /\ KindOf[o] = "projection"
        /\ pc[o] = "turn"
        /\ this.turn[o] # "none"
        /\ IF this.turn[o] = "granted" /\ planning_is_current(o)
           THEN /\ SetEntry(o, start_finalization(this))
                /\ Call(o, "finalize", [loc[o] EXCEPT !.basis = this.authority])
           ELSE End(o, release_commit_turn(this, o), "rejected")

\* A newer header setting that is still valid makes a conflicting one give up.
newer_header(new, o) ==
    \E other \in valid_operations(new) :
        KindOf[other] = "projection" /\ new.ordinal[other] > new.ordinal[o]

HeaderFinalized(o) ==
    LET this     == entry[ProcOf[o]]
        reply    == loc[o].reply
        relation == compare_authority(reply.authority, loc[o].basis)
        released == release_commit_turn(this, o)
    IN  /\ KindOf[o] = "projection"
        /\ Answered(o, "finalize")
        /\ \/ /\ reply.type = "error"
              /\ UNCHANGED entry
              /\ Call(o, "reconcile", loc[o])
           \/ /\ reply.type = "conflict"
              /\ \/ /\ relation = "equal"
                    /\ IF newer_header(released, o) THEN End(o, released, "rejected")
                       ELSE HeaderRetry(o, released)
                 \/ /\ relation # "equal"
                    /\ IF compare_authority(reply.authority, this.authority) = "dominates"
                       THEN EndObserved(o, reply.authority, "rejected")
                       ELSE End(o, released, "rejected")
           \/ /\ reply.type = "ok"
              /\ UNCHANGED entry
              /\ Call(o, "inspect", [loc[o] EXCEPT !.finalized = reply.authority])

HeaderReconciled(o) ==
    LET observed == loc[o].reply.authority
        released == release_commit_turn(entry[ProcOf[o]], o)
    IN  /\ KindOf[o] = "projection"
        /\ \/ Replied(o, "reconcile", "error") /\ End(o, released, "indeterminate")
           \/ /\ Replied(o, "reconcile", "ok")
              /\ CASE reconciliation(o) = "committed" ->
                        /\ UNCHANGED entry
                        /\ Call(o, "inspect", [loc[o] EXCEPT !.finalized = observed])
                   [] reconciliation(o) = "notCommitted" -> End(o, released, "failed")
                   [] reconciliation(o) = "advanced" ->
                        EndObserved(o, observed, "indeterminate")

\* Once the commit is known, anything short of the exact authority it produced
\* makes the answer indeterminate.
HeaderInspected(o) ==
    LET this      == entry[ProcOf[o]]
        finalized == loc[o].finalized
    IN  /\ KindOf[o] = "projection"
        /\ Answered(o, "inspect")
        /\ IF \/ loc[o].reply.type = "error"
              \/ loc[o].reply.authority # finalized
              \/ ~physical_basis_is_current(o)
           THEN EndObserved(o, finalized, "indeterminate")
           ELSE IF compare_authority(this.authority, finalized) = "dominates"
           THEN EndObserved(o, this.authority, "indeterminate")
           ELSE EndCommitted(o, finalized)

-----------------------------------------------------------------------------
(* Cell highlights *)

\* state_write_is_current and basis_is_current: the expected authority is still
\* the installed one and no finalization is under way.
basis_is_current(o, this) ==
    /\ this.authority.authorityRevision = loc[o].expected.authorityRevision
    /\ this.authority.physicalRevision = loc[o].expected.physicalRevision
    /\ this.authority.projectionRevision = loc[o].expected.projectionRevision
    /\ this.authority.physicalDigest = loc[o].expected.physicalDigest
    /\ ~(this.activeTurn # NoOp /\ this.phase = "finalizing")

\* The command takes its place behind the earlier ones.
StartHighlight(o) ==
    /\ KindOf[o] = "highlight"
    /\ pc[o] = "requested"
    /\ pc' = [pc EXCEPT ![o] = "queued"]
    /\ tail' = [tail EXCEPT ![ProcOf[o]] = Append(@, o)]
    /\ entry' = [entry EXCEPT ![ProcOf[o]].operations = @ + 1]
    /\ UNCHANGED <<db, queue, loc, answer, receipt, applied, faults, crashes, evictions>>

EndHighlight(o, new, result) ==
    /\ SetEntry(o, [new EXCEPT !.operations = @ - 1])
    /\ pc' = [pc EXCEPT ![o] = "done"]
    /\ loc' = [loc EXCEPT ![o] = NewLocals]
    /\ answer' = [answer EXCEPT ![o] = result]
    /\ tail' = [tail EXCEPT ![ProcOf[o]] = Tail(@)]
    /\ UNCHANGED <<db, queue, receipt, applied, faults, crashes, evictions>>

RunHighlight(o) ==
    /\ pc[o] = "queued"
    /\ Head(tail[ProcOf[o]]) = o
    /\ IF basis_is_current(o, entry[ProcOf[o]]) THEN UNCHANGED entry /\ Call(o, "read", loc[o])
       ELSE EndHighlight(o, entry[ProcOf[o]], "rejected")

\* One attempt on the snapshot the last answer carried.
HighlightAttempt(o) ==
    /\ UNCHANGED entry
    /\ Call(o, "cas", [loc[o] EXCEPT !.revision = loc[o].reply.revision,
                                     !.state = loc[o].reply.state])

HighlightRead(o) ==
    /\ KindOf[o] = "highlight"
    /\ Replied(o, "read", "ok")
    /\ IF basis_is_current(o, entry[ProcOf[o]]) THEN HighlightAttempt(o)
       ELSE EndHighlight(o, entry[ProcOf[o]], "rejected")

\* After a conflict the observed authority is installed first; when the basis is
\* still current then, the command tries again on the state the conflict showed.
HighlightConflict(o) ==
    LET this     == entry[ProcOf[o]]
        observed == loc[o].reply.authority
        new      == install_authority(this, observed, NoOp)
    IN  /\ Replied(o, "cas", "conflict")
        /\ IF \/ install_type(this, observed) = "invalid"
              \/ ~basis_is_current(o, new)
              \/ loc[o].conflicts + 1 >= MaxHighlightAttempts
           THEN EndHighlight(o, new, "rejected")
           ELSE /\ SetEntry(o, new)
                /\ Call(o, "cas", [loc[o] EXCEPT !.revision = loc[o].reply.revision,
                                                 !.state = loc[o].reply.state,
                                                 !.conflicts = @ + 1])

HighlightWritten(o) ==
    /\ Replied(o, "cas", "ok")
    /\ EndHighlight(o, entry[ProcOf[o]],
                    IF basis_is_current(o, entry[ProcOf[o]]) THEN "committed" ELSE "rejected")

HighlightThrew(o) ==
    /\ KindOf[o] = "highlight"
    /\ \E call \in {"read", "cas"} : Replied(o, call, "error")
    /\ EndHighlight(o, entry[ProcOf[o]], "rejected")

-----------------------------------------------------------------------------
(* The store's side of a call *)

\* The few operations of an instance keep every counter far below Sentinel.

\* The answer a call gives besides its type.
reply_of(database, o, type) ==
    [ type |-> type, authority |-> authority_of(database, File),
      revision |-> revision_of(database, File), state |-> state_of(database, File),
      stagePresent |-> stage_present(database, File, o) ]

accepted(o, call) ==
    CASE call = "stage"    -> stage_accepts(db, File, stage_of(o))
      [] call = "finalize" -> finalize_accepts(db, File, o)
      [] call = "cas"      -> cas_accepts(db, File, loc[o].revision, loc[o].expected,
                                {"authorityRevision", "physicalRevision", "projectionRevision"},
                                basis_is_current(o, entry[ProcOf[o]]))
      [] OTHER             -> TRUE

\* The database after the transaction of an accepted call.
effect(o, call) ==
    CASE call = "stage"    -> stage_authority_transaction(db, File, stage_of(o), {File})
      [] call = "finalize" -> finalize_authority_transaction(db, File, o, {File})
      [] call = "cas"      -> write_state(db, File, planned_state(o), {File})
      [] call = "discard"  -> discard_authority_transaction(db, File, o, {File})
      [] OTHER             -> db

ExecuteAs(o, call, next, type) ==
    /\ db' = next
    /\ loc' = IF call = "discard" THEN loc
              ELSE [loc EXCEPT ![o].reply =
                      IF type = "error" THEN [NoReply EXCEPT !.type = "error"]
                      ELSE reply_of(next, o, type)]
    /\ applied' = IF call = "finalize" /\ authority_of(next, File) # durable
                  THEN [applied EXCEPT ![o] = authority_of(next, File).commitSequence]
                  ELSE applied
    /\ queue' = [queue EXCEPT ![ProcOf[o]] = Tail(@)]
    /\ UNCHANGED <<entry, tail, pc, answer, receipt, crashes, evictions>>

\* The transaction at the head of a process's queue runs.
Execute(p) ==
    /\ queue[p] # <<>>
    /\ LET o    == Head(queue[p])[1]
           call == Head(queue[p])[2]
       IN  /\ IF accepted(o, call) THEN ExecuteAs(o, call, effect(o, call), "ok")
              ELSE ExecuteAs(o, call, db, "conflict")
           /\ UNCHANGED faults

\* The call throws: its transaction failed, or took effect and the answer was lost.
ExecuteThrows(p) ==
    /\ queue[p] # <<>>
    /\ faults < MaxFaults
    /\ faults' = faults + 1
    /\ LET o    == Head(queue[p])[1]
           call == Head(queue[p])[2]
       IN  \/ ExecuteAs(o, call, db, "error")
           \/ accepted(o, call) /\ ExecuteAs(o, call, effect(o, call), "error")

\* The process dies and starts again: its operations, its queue and its entry are
\* gone, and register_store installs what the store holds.
Crash(p) ==
    LET lost == {o \in Op : ProcOf[o] = p /\ pc[o] \notin {"idle", "done"}}
    IN  /\ crashes < MaxCrashes
        /\ lost # {}
        /\ crashes' = crashes + 1
        /\ entry' = [entry EXCEPT ![p] = new_entry(durable)]
        /\ queue' = [queue EXCEPT ![p] = <<>>]
        /\ tail' = [tail EXCEPT ![p] = <<>>]
        /\ pc' = [o \in Op |-> IF o \in lost THEN "done" ELSE pc[o]]
        /\ loc' = [o \in Op |-> IF o \in lost THEN NewLocals ELSE loc[o]]
        /\ UNCHANGED <<db, answer, receipt, applied, faults, evictions>>

\* The session of another window, which has no lease of the file, evicts its entry
\* or trims it on request.
EvictElsewhere ==
    /\ evictions < MaxEvictions
    /\ File \in ordinary(db, {}, {})
    /\ evictions' = evictions + 1
    /\ db' = remove_entries(db, {File})
    /\ UNCHANGED <<entry, queue, tail, pc, loc, answer, receipt, applied, faults, crashes>>

-----------------------------------------------------------------------------
\* One step of an operation that has begun.
Resume(o) ==
    \/ BeginPhysical(o) \/ PhysicalRead(o) \/ PhysicalStaged(o) \/ PhysicalTurn(o)
    \/ PhysicalFinalized(o) \/ PhysicalReconciled(o) \/ PhysicalInspected(o)
    \/ ObserveTurn(o) \/ CallThrew(o)
    \/ StartHeader(o) \/ HeaderRead(o) \/ HeaderStaged(o) \/ HeaderTurn(o)
    \/ HeaderFinalized(o) \/ HeaderReconciled(o) \/ HeaderInspected(o)
    \/ StartHighlight(o) \/ RunHighlight(o) \/ HighlightRead(o)
    \/ HighlightConflict(o) \/ HighlightWritten(o) \/ HighlightThrew(o)

Next ==
    \/ \E o \in Op : LoadCandidate(o) \/ Request(o) \/ Resume(o)
    \/ \E p \in Proc : Execute(p) \/ ExecuteThrows(p) \/ Crash(p)
    \/ EvictElsewhere

\* A process keeps running its event loop and its store queue.
Fairness ==
    /\ \A o \in Op : WF_vars(Resume(o))
    /\ \A p \in Proc : WF_vars(Execute(p))

Spec == Init /\ [][Next]_vars /\ Fairness

-----------------------------------------------------------------------------
TypeOK ==
    /\ db.entries[File] \in StoredEntry \cup {NoEntry}
    /\ entry \in [Proc -> CoordinatorEntries]
    /\ pc \in [Op -> StoreCalls \cup {"idle", "requested", "loaded", "queued", "turn",
                                     "observe", "done"}]
    /\ answer \in [Op -> {"none", "committed", "rejected", "indeterminate", "advanced",
                          "stale", "failed"}]
    /\ applied \in [Op -> Nat]
    /\ \A p \in Proc : \A i \in DOMAIN queue[p] :
          queue[p][i] \in Op \X (StoreCalls \cup {"discard"})

\* A process never believes in an authority the store has not reached: what is
\* installed is equal to the durable authority or an earlier one.  (This and the
\* next two are about an entry that nobody evicts; an eviction takes the durable
\* authority back to the empty one, which LiveWindowRewrites is about.)
InstalledNeverAhead == \A p \in Proc : at_least(durable, entry[p].authority)

\* The abstract log of commits that the durable entry and the answers amount to.
Log == INSTANCE CommitLog WITH
    sequence <- durable.commitSequence,
    position <- applied,
    changes  <- state_of(db, File)

\* Every step of the protocol is a commit, an answer or nothing to the log: with
\* any interleaving of processes, lost answers and crashes, no operation takes
\* effect twice or after its answer, no change is lost, a "committed" answer is
\* true, and a header setting answered "rejected" or "failed" left no trace.
ImplementsCommitLog == Log!Spec

\* Header settings of one process take effect in the order they began: a setting
\* that a newer one has overtaken is never committed after it.
HeadersInOrder ==
    \A o, newer \in Op :
        /\ KindOf[o] = "projection" /\ KindOf[newer] = "projection"
        /\ ProcOf[o] = ProcOf[newer]
        /\ applied[o] > 0 /\ applied[newer] > 0
        /\ 0 < entry[ProcOf[o]].ordinal[o]
        /\ entry[ProcOf[o]].ordinal[o] < entry[ProcOf[o]].ordinal[newer]
        => applied[o] < applied[newer]

\* A receipt describes exactly the commit of its operation: it results in the
\* commit sequence the store gave this operation, and is the authority before it
\* advanced once, so a view that applies receipts never skips a commit unknowingly.
ReceiptIsOneStep ==
    \A o \in Op : answer[o] = "committed" /\ KindOf[o] # "highlight" =>
        /\ receipt[o].resulting.commitSequence = applied[o]
        /\ receipt[o].resulting =
              advance(receipt[o].previous, KindOf[o],
                      IF KindOf[o] = "physical" THEN DigestOf[o] ELSE NoDigest)

\* The operations an entry still carries.
live(p) ==
    {o \in Op : ProcOf[o] = p /\ (entry[p].status[o] # "none"
                                  \/ \E i \in DOMAIN tail[p] : tail[p][i] = o)}

\* Nothing leaks: entry.operations counts the operations that run, and an
\* operation that has ended holds neither the commit turn nor a place in line.
OperationsBalance ==
    \A p \in Proc :
        /\ entry[p].operations = Cardinality(live(p))
        /\ \A o \in Op : pc[o] = "done" =>
              o \notin live(p) \cup entry[p].requests \cup {entry[p].activeTurn}

\* What docs/development.md says of an entry that another window clears while this
\* one shows the file: a live window would rewrite it.  A header setting that is
\* asked for while nothing else runs or fails is saved.
alone(o) ==
    /\ \A other \in Op \ {o} : pc[other] = "done"
    /\ faults = MaxFaults

LiveWindowRewrites ==
    \A o \in Op : KindOf[o] = "projection" /\ pc[o] = "requested" /\ alone(o)
                    /\ ~present(db, File) /\ evictions = MaxEvictions
        ~> answer[o] = "committed"

\* Every operation that a view starts is answered, whatever its rivals do: no
\* commit turn is held for ever and no two operations wait for each other.
EveryOperationEnds == \A o \in Op : pc[o] # "idle" ~> pc[o] = "done"
=============================================================================

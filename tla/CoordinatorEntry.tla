-------------------------- MODULE CoordinatorEntry --------------------------
(***************************************************************************)
(* The bookkeeping of one file in one process: the FileCoordinatorEntry of *)
(* file-coordinator.ts and the functions that change it.  Each function    *)
(* runs to its end without an await, so each is an operator from the entry *)
(* before it to the entry after it.  An entry is a record                  *)
(*   authority    the installed copy of the durable authority              *)
(*   status       operation -> "none", "valid" or "invalid" (entry.states) *)
(*   ordinal      operation -> its place in the order operations began     *)
(*   nextOrdinal  the next ordinal                                         *)
(*   requested    operations with a turn promise (state.turnPromise)       *)
(*   requests     operations that wait for the commit turn                 *)
(*   turn         operation -> how its turn promise was resolved           *)
(*   activeTurn   the operation that has the commit turn, or NoOp          *)
(*   phase        of the active turn: "granted" or "finalizing"            *)
(*   operations   entry.operations, which keeps the entry registered       *)
(***************************************************************************)
EXTENDS AuthorityOrder

CONSTANTS
    Op,        \* operations of the file's views
    NoOp,
    KindOf,    \* operation -> "physical", "projection" or "highlight"
    DigestOf   \* physical operation -> the digest of the bytes it loaded

ASSUME EntryAssumption ==
    /\ NoOp \notin Op
    /\ KindOf \in [Op -> {"physical", "projection", "highlight"}]
    /\ DigestOf \in [Op -> Digest]

CoordinatorEntries ==
    [ authority   : Authority,
      status      : [Op -> {"none", "valid", "invalid"}],
      ordinal     : [Op -> Nat],
      nextOrdinal : Nat,
      requested   : SUBSET Op,
      requests    : SUBSET Op,
      turn        : [Op -> {"none", "granted", "rejected"}],
      activeTurn  : Op \cup {NoOp},
      phase       : {"granted", "finalizing"},
      operations  : Nat ]

\* entry_for, with the authority that register_store installs.
new_entry(authority) ==
    [ authority   |-> authority,
      status      |-> [o \in Op |-> "none"],
      ordinal     |-> [o \in Op |-> 0],
      nextOrdinal |-> 1,
      requested   |-> {},
      requests    |-> {},
      turn        |-> [o \in Op |-> "none"],
      activeTurn  |-> NoOp,
      phase       |-> "granted",
      operations  |-> 0 ]

valid_operations(entry) == {o \in Op : entry.status[o] = "valid"}

\* A new token, valid and without a turn request.
begin_operation(entry, o) ==
    [entry EXCEPT !.status[o] = "valid", !.ordinal[o] = entry.nextOrdinal,
                  !.nextOrdinal = @ + 1, !.turn[o] = "none"]

\* The waiting operation that began first gets the turn once nobody has it.
activate_turn(entry) ==
    LET waiting == entry.requests \cap valid_operations(entry)
        first   == CHOOSE o \in waiting :
                      \A other \in waiting : entry.ordinal[o] <= entry.ordinal[other]
    IN  IF entry.activeTurn # NoOp \/ waiting = {} THEN entry
        ELSE [entry EXCEPT !.requests = @ \ {first}, !.turn[first] = "granted",
                           !.activeTurn = first, !.phase = "granted"]

\* request.resolve({ type: 'rejected' }) for every request of the operations ops.
reject_requests(entry, ops) ==
    [entry EXCEPT !.requests = @ \ ops,
                  !.turn = [o \in Op |-> IF o \in ops \cap entry.requests
                                         THEN "rejected" ELSE @[o]]]

\* Mutant: an operation that has ended ends again.
finish_twice(entry, o) ==
    activate_turn(
        [reject_requests(entry, {o}) EXCEPT
            !.status[o] = "none", !.requested = @ \ {o}, !.operations = @ - 1])

\* Mutant: nobody is given the turn when an operation ends.
finish_without_successor(entry, o) ==
    IF entry.status[o] = "none" THEN entry
    ELSE [reject_requests(entry, {o}) EXCEPT
            !.status[o] = "none", !.requested = @ \ {o}, !.operations = @ - 1]

finish(entry, o) ==
    IF entry.status[o] = "none" THEN entry
    ELSE activate_turn(
            [reject_requests(entry, {o}) EXCEPT
                !.status[o] = "none", !.requested = @ \ {o}, !.operations = @ - 1])

\* Mutant: the requests are rejected, the operations stay valid.
reject_requests_only(entry, ops) == reject_requests(entry, ops)

\* reject_operation, of every operation in ops
reject_operations(entry, ops) ==
    [reject_requests(entry, ops) EXCEPT
        !.status = [o \in Op |-> IF o \in ops THEN "invalid" ELSE @[o]]]

invalidate(entry, physicalChange, digest) ==
    activate_turn(reject_operations(entry,
        {o \in valid_operations(entry) \ {entry.activeTurn} :
            \/ KindOf[o] = "physical" /\ DigestOf[o] # digest
            \/ KindOf[o] = "projection" /\ physicalChange}))

begin_physical_accepts(entry, expectedAuthorityRevision, digest) ==
    \/ entry.authority.authorityRevision = expectedAuthorityRevision
    \/ entry.authority.physicalDigest = digest

begin_physical(entry, o) ==
    LET invalidated ==
            invalidate(entry, entry.authority.physicalDigest # DigestOf[o], DigestOf[o])
    IN  [begin_operation(invalidated, o) EXCEPT !.operations = @ + 1]

\* The start of commit_excel_header once the physical basis is current: an older
\* header that has not asked for the turn yet gives way to the newer one.
begin_projection(entry, o) ==
    LET older == {x \in valid_operations(entry) \ ({entry.activeTurn} \cup entry.requested) :
                     KindOf[x] = "projection"}
    IN  [begin_operation(reject_operations(entry, older), o) EXCEPT !.operations = @ + 1]

-----------------------------------------------------------------------------
(* Installing an authority that was observed in the store *)

invalidate_after_authority_install(entry, finishing, previous) ==
    LET observed         == entry.authority
        physicalChange   == \/ previous.physicalRevision # observed.physicalRevision
                            \/ previous.physicalDigest # observed.physicalDigest
        projectionChange == previous.projectionRevision # observed.projectionRevision
        superseded(o)    ==
            \/ /\ physicalChange
               /\ KindOf[o] = "projection" \/ DigestOf[o] # observed.physicalDigest
            \/ /\ projectionChange
               /\ KindOf[o] = "projection"
               /\ finishing = NoOp \/ entry.ordinal[o] < entry.ordinal[finishing]
    IN  activate_turn(reject_operations(entry,
            {o \in valid_operations(entry) \ {finishing} : superseded(o)}))

\* The operation whose own commit the candidate must be, if there is one.
exact_finalizing_projection_token(entry, candidate) ==
    IF /\ entry.activeTurn # NoOp
       /\ entry.phase = "finalizing"
       /\ KindOf[entry.activeTurn] = "projection"
       /\ candidate = advance(entry.authority, "projection", NoDigest)
    THEN entry.activeTurn ELSE NoOp

install_type(entry, candidate) ==
    LET relation == compare_authority(candidate, entry.authority)
    IN  CASE relation = "equal"     -> "unchanged"
          [] relation = "dominated" -> "stale"
          [] relation = "divergent" -> "invalid"
          [] relation = "dominates" -> "installed"

install_authority(entry, candidate, finishing) ==
    LET effective == IF finishing # NoOp THEN finishing
                     ELSE exact_finalizing_projection_token(entry, candidate)
    IN  IF install_type(entry, candidate) = "installed"
        THEN invalidate_after_authority_install(
                [entry EXCEPT !.authority = candidate], effective, entry.authority)
        ELSE entry

-----------------------------------------------------------------------------
(* The commit turn *)

request_commit_turn(entry, o) ==
    IF entry.status[o] # "valid" THEN [entry EXCEPT !.turn[o] = "rejected"]
    ELSE IF o \in entry.requested THEN entry
    ELSE activate_turn([entry EXCEPT !.requested = @ \cup {o}, !.requests = @ \cup {o},
                                     !.turn[o] = "none"])

start_finalization(entry) == [entry EXCEPT !.phase = "finalizing"]

release_commit_turn(entry, o) ==
    IF entry.activeTurn # o THEN entry
    ELSE activate_turn([entry EXCEPT !.requested = @ \ {o}, !.activeTurn = NoOp])

\* cancel leaves an operation alone whose finalization is under way.
cancel(entry, o) ==
    IF entry.activeTurn = o
    THEN IF entry.phase = "finalizing" THEN entry
         ELSE finish([entry EXCEPT !.activeTurn = NoOp], o)
    ELSE finish(entry, o)

\* Mutant: the turn is not given up.
conclude_with_turn(entry, o, authority) ==
    finish(install_authority(entry, authority, o), o)

\* finalize_authority_commit and observe_advanced_authority: install what the
\* store holds, give the turn up and end the operation.
conclude(entry, o, authority) ==
    finish([install_authority(entry, authority, o) EXCEPT !.activeTurn = NoOp], o)
=============================================================================

-------------------------- MODULE StoreTransactions --------------------------
(***************************************************************************)
(* The transaction bodies of the keyed file-state store (state.ts), as     *)
(* functions from the database before a transaction to the database after  *)
(* it.  Every body runs atomically: state.ts queues them per runtime and   *)
(* the SQLite backend runs each one in a write transaction.  A body that   *)
(* throws rolls back; its operator then returns a database equal to the    *)
(* one it was given.                                                       *)
(*                                                                         *)
(* A database is a record                                                  *)
(*   entries          path -> entry, or NoEntry when the path is absent    *)
(*   absenceRevision  the revision at which absent paths read as {}        *)
(*   nextRevision     the next revision allocate_revision hands out        *)
(*   before           pairs <<p, q>> of present paths: p's recencyOrder is  *)
(*                    smaller, p was used less recently than q             *)
(* Timestamps are abstracted to one bit per stage: whether it is older     *)
(* than STALE_STAGE_MS.  A stored state is a value of the modules that use *)
(* this one; here only EmptyState and PendingStates are told apart, and    *)
(* two states with unsaved edits hold the same edits when they are equal.  *)
(***************************************************************************)
EXTENDS AuthorityOrder, FiniteSets

CONSTANTS
    Path,           \* the keys of the store
    NoEntry,        \* marks a path without an entry
    EmptyState,     \* the state {} that an absent entry reads as
    PendingStates,  \* the states that hold unsaved edits
    NoState,        \* nextState is undefined: the stage leaves the state alone
    NoCopy,         \* copyProvenance is undefined
    MaxStored,      \* get_max_stored(): how many ordinary entries to keep
    PreserveRevision, \* canonicalization_revision_policy, TRUE for 'preserve-winner-revision'
    Sentinel        \* EXHAUSTION_SENTINEL: no counter reaches it

ASSUME StoreAssumption ==
    /\ MaxStored \in Nat
    /\ Sentinel \in Nat
    /\ PreserveRevision \in BOOLEAN
    /\ EmptyState \notin PendingStates

present(db, path) == db.entries[path] # NoEntry

present_paths(db) == {path \in Path : present(db, path)}

\* snapshot_from_complete, split into its two fields
revision_of(db, path) ==
    IF present(db, path) THEN db.entries[path].revision ELSE db.absenceRevision

state_of(db, path) ==
    IF present(db, path) THEN db.entries[path].state ELSE EmptyState

authority_of(db, path) ==
    IF present(db, path) THEN db.entries[path].authority ELSE empty_authority

stages_of(db, path) ==
    IF present(db, path) THEN db.entries[path].stages ELSE {}

\* Mutant: the new entry has no state.
entry_without_state(revision) ==
    [ revision |-> revision, state |-> NoState, authority |-> empty_authority,
      stages |-> {}, copyProvenance |-> NoCopy ]

\* An entry that holds nothing but its revision: what insert_empty_entry writes.
empty_entry(revision) ==
    [ revision |-> revision, state |-> EmptyState, authority |-> empty_authority,
      stages |-> {}, copyProvenance |-> NoCopy ]

set_entry(db, path, entry) == [db EXCEPT !.entries[path] = entry]

\* The recency order without the paths gone.
forget(before, gone) == {pair \in before : pair[1] \notin gone /\ pair[2] \notin gone}

\* allocate_recency_order: path becomes the most recently used entry.
refresh_order(db, path) ==
    [db EXCEPT !.before =
        forget(@, {path}) \cup {<<p, path>> : p \in present_paths(db) \ {path}}]

allocate_revision(db) == [db EXCEPT !.nextRevision = @ + 1]

\* Every allocate_revision of a transaction found the counter below the sentinel.
within_counters(db) == db.nextRevision <= Sentinel

\* ensure_authority_incrementable: the other counters never pass commitSequence.
authority_incrementable(authority) == authority.commitSequence + 1 < Sentinel

\* Mutant: a deleted entry keeps its place in the recency order.
delete_entries_in_order(db, victims) ==
    [db EXCEPT !.entries = [p \in Path |-> IF p \in victims THEN NoEntry ELSE @[p]]]

delete_entries(db, victims) ==
    [db EXCEPT !.entries = [p \in Path |-> IF p \in victims THEN NoEntry ELSE @[p]],
               !.before = forget(@, victims)]

-----------------------------------------------------------------------------
(* Retention *)

without_stale_stages(entry) ==
    [entry EXCEPT !.stages = {s \in @ : ~s.stale}, !.copyProvenance = NoCopy]

cleanup_stale_stages(db) ==
    [db EXCEPT !.entries =
        [p \in Path |-> IF \E s \in stages_of(db, p) : s.stale
                        THEN without_stale_stages(db.entries[p]) ELSE db.entries[p]]]

\* Mutant: unsaved edits do not protect an entry from eviction.
ordinary_or_pending(db, leasedHere, protected) ==
    {p \in present_paths(db) : /\ p \notin protected
                               /\ p \notin leasedHere
                               /\ stages_of(db, p) = {}}

\* Mutant: a lease does not protect an entry from eviction.
ordinary_or_leased(db, leasedHere, protected) ==
    {p \in present_paths(db) : /\ p \notin protected
                               /\ state_of(db, p) \notin PendingStates
                               /\ stages_of(db, p) = {}}

\* The entries that eviction may remove.
ordinary(db, leasedHere, protected) ==
    {p \in present_paths(db) : /\ p \notin protected
                               /\ p \notin leasedHere
                               /\ state_of(db, p) \notin PendingStates
                               /\ stages_of(db, p) = {}}

\* All but the most recently used Math.max(1, max) of them.
victims_of(db, leasedHere, protected) ==
    LET candidates == ordinary(db, leasedHere, protected)
        keep       == IF MaxStored < 1 THEN 1 ELSE MaxStored
    IN  {p \in candidates : Cardinality({q \in candidates : <<p, q>> \in db.before}) >= keep}

\* A deletion moves the absence revision, so that what a reader saw under the
\* deleted entry's revision can never match the path again.
remove_entries(db, victims) ==
    [allocate_revision(delete_entries(db, victims)) EXCEPT !.absenceRevision = db.nextRevision]

evict_entries(db, leasedHere, protected) ==
    LET victims == victims_of(db, leasedHere, protected)
    IN  IF victims = {} THEN db ELSE remove_entries(db, victims)

run_retention(db, leasedHere, protected) ==
    evict_entries(cleanup_stale_stages(db), leasedHere, protected)

-----------------------------------------------------------------------------
(* Plain writes *)

\* basis is the set of authority fields a FileStateWriteBasis names, with expected
\* the authority that holds their values; the empty set is a write without a basis.
basis_matches(authority, expected, basis) ==
    \A field \in basis : authority[field] = expected[field]

cas_accepts(db, path, expectedRevision, expected, basis, validation) ==
    /\ validation
    /\ revision_of(db, path) = expectedRevision
    /\ basis_matches(authority_of(db, path), expected, basis)

\* Mutant: the written entry starts over at the empty authority.
write_state_without_authority(db, path, state, leasedHere) ==
    LET entry == [ revision |-> db.nextRevision, state |-> state,
                   authority |-> empty_authority,
                   stages |-> stages_of(db, path), copyProvenance |-> NoCopy ]
    IN  run_retention(refresh_order(set_entry(allocate_revision(db), path, entry), path),
                      leasedHere, {})

\* compare_and_set once its guards hold.  The entry it writes names neither copy
\* provenance nor timestamps of the entry before it.
write_state(db, path, state, leasedHere) ==
    LET entry == [ revision |-> db.nextRevision, state |-> state,
                   authority |-> authority_of(db, path),
                   stages |-> stages_of(db, path), copyProvenance |-> NoCopy ]
    IN  run_retention(refresh_order(set_entry(allocate_revision(db), path, entry), path),
                      leasedHere, {})

\* touch: an absent path only runs retention.
touch(db, path, leasedHere) ==
    run_retention(IF present(db, path) THEN refresh_order(db, path) ELSE db, leasedHere, {})

-----------------------------------------------------------------------------
(* Staged authority transactions *)

\* Mutant: only the commit sequence is compared.
stage_accepts_any_state(db, path, stage) ==
    authority_of(db, path).commitSequence = stage.expectedCommitSequence

stage_accepts(db, path, stage) ==
    /\ revision_of(db, path) = stage.expectedStateRevision
    /\ authority_of(db, path).commitSequence = stage.expectedCommitSequence

\* Mutant: staging leaves the copy provenance alone.
stage_over_copy(db, path, stage, leasedHere) ==
    LET entry   == IF present(db, path) THEN db.entries[path]
                   ELSE empty_entry(db.absenceRevision)
        staged  == [entry EXCEPT !.stages = {s \in @ : s.id # stage.id} \cup {stage}]
        written == set_entry(db, path, staged)
    IN  run_retention(IF present(db, path) THEN written ELSE refresh_order(written, path),
                      leasedHere, {})

stage_authority_transaction(db, path, stage, leasedHere) ==
    LET entry   == IF present(db, path) THEN db.entries[path]
                   ELSE empty_entry(db.absenceRevision)
        staged  == [entry EXCEPT !.stages = {s \in @ : s.id # stage.id} \cup {stage},
                                 !.copyProvenance = NoCopy]
        written == set_entry(db, path, staged)
    IN  run_retention(IF present(db, path) THEN written ELSE refresh_order(written, path),
                      leasedHere, {})

stage_named(db, path, id) == CHOOSE s \in stages_of(db, path) : s.id = id

stage_present(db, path, id) == \E s \in stages_of(db, path) : s.id = id

finalize_accepts(db, path, id) ==
    /\ stage_present(db, path, id)
    /\ stage_accepts(db, path, stage_named(db, path, id))

\* Mutant: the state changes under the revision it had.
finalize_same_revision(db, path, id, leasedHere) ==
    LET entry   == db.entries[path]
        stage   == stage_named(db, path, id)
        final   == [entry EXCEPT
                      !.state = IF stage.nextState = NoState THEN @ ELSE stage.nextState,
                      !.authority = advance(@, stage.kind, stage.physicalDigest),
                      !.stages = {s \in @ : s.id # id},
                      !.copyProvenance = NoCopy]
    IN  run_retention(refresh_order(set_entry(db, path, final), path), leasedHere, {})

finalize_authority_transaction(db, path, id, leasedHere) ==
    LET entry   == db.entries[path]
        stage   == stage_named(db, path, id)
        state   == IF stage.nextState = NoState THEN entry.state ELSE stage.nextState
        changed == state # entry.state
        final   == [entry EXCEPT
                      !.revision = IF changed THEN db.nextRevision ELSE @,
                      !.state = state,
                      !.authority = advance(@, stage.kind, stage.physicalDigest),
                      !.stages = {s \in @ : s.id # id},
                      !.copyProvenance = NoCopy]
        written == set_entry(IF changed THEN allocate_revision(db) ELSE db, path, final)
    IN  run_retention(refresh_order(written, path), leasedHere, {})

discard_authority_transaction(db, path, id, leasedHere) ==
    IF stage_present(db, path, id)
    THEN run_retention([db EXCEPT !.entries[path].stages = {s \in @ : s.id # id},
                                  !.entries[path].copyProvenance = NoCopy],
                       leasedHere, {})
    ELSE db

-----------------------------------------------------------------------------
(* Canonicalization: the entries of a file's aliases become one entry *)

\* The paths whose entries belong at canonical.
canonical_matches(db, canonical, canonicalKey) ==
    {p \in present_paths(db) : p = canonical \/ canonicalKey[p] = canonical}

\* Mutant: the newer state wins, whatever its authority.
preferred_by_revision(db, canonical, w, other) ==
    \/ revision_of(db, w) > revision_of(db, other)
    \/ /\ revision_of(db, w) = revision_of(db, other)
       /\ w = canonical \/ (other # canonical /\ <<w, other>> \in db.before)

\* choose_canonical_winner's comparison: w is kept, other is not.
preferred(db, canonical, w, other) ==
    LET relation == compare_authority(authority_of(db, w), authority_of(db, other))
    IN  \/ relation = "dominates"
        \/ /\ relation = "equal"
           /\ revision_of(db, w) > revision_of(db, other)
        \/ /\ relation = "equal"
           /\ revision_of(db, w) = revision_of(db, other)
           /\ w = canonical \/ (other # canonical /\ <<w, other>> \in db.before)

is_winner(db, canonical, candidates, w) ==
    \A other \in candidates \ {w} : preferred(db, canonical, w, other)

choose_canonical_winner(db, canonical, candidates) ==
    CHOOSE w \in candidates : is_winner(db, canonical, candidates, w)

\* The reduction visits the candidates least recently used first, to the last, and
\* throws at the first one that leaves no winner among those visited.
reduction_throws(db, canonical, candidates) ==
    \E visited \in {candidates} \cup
          {{p \in candidates : p = last \/ <<p, last>> \in db.before} : last \in candidates} :
        \A w \in visited : ~is_winner(db, canonical, visited, w)

\* assert_pending_canonicalization_safe
pending_safe(db, candidates, winner) ==
    \A p \in candidates :
        state_of(db, p) \in PendingStates =>
            /\ state_of(db, p) = state_of(db, winner)
            /\ authority_of(db, p) = authority_of(db, winner)

rebase_stages(stages, from, to) ==
    {[s EXCEPT !.expectedStateRevision = IF @ = from THEN to ELSE @] : s \in stages}

needs_canonicalization(db, canonical, canonicalKey) ==
    canonical_matches(db, canonical, canonicalKey) \ {canonical} # {}

canonicalize_throws(db, canonical, canonicalKey) ==
    LET candidates == canonical_matches(db, canonical, canonicalKey)
    IN  /\ needs_canonicalization(db, canonical, canonicalKey)
        /\ \/ reduction_throws(db, canonical, candidates)
           \/ ~pending_safe(db, candidates,
                            choose_canonical_winner(db, canonical, candidates))

\* The winner's entry as it is written under the canonical path.
canonical_entry(db, canonical, winner) ==
    LET entry    == db.entries[winner]
        moved    == ~present(db, canonical)
        revision == IF moved /\ ~PreserveRevision THEN db.nextRevision ELSE entry.revision
    IN  [entry EXCEPT
            !.revision = revision,
            !.stages = rebase_stages(@, entry.revision, revision),
            !.copyProvenance = IF winner = canonical \/ (moved /\ PreserveRevision)
                               THEN @ ELSE NoCopy]

canonicalize_in_transaction(db, canonical, canonicalKey) ==
    LET candidates == canonical_matches(db, canonical, canonicalKey)
        moved      == ~present(db, canonical)
        winner     == choose_canonical_winner(db, canonical, candidates)
        counted    == IF moved /\ ~PreserveRevision THEN allocate_revision(db) ELSE db
        written    == set_entry(counted, canonical, canonical_entry(db, canonical, winner))
    IN  IF needs_canonicalization(db, canonical, canonicalKey)
        THEN remove_entries(IF moved THEN refresh_order(written, canonical) ELSE written,
                            candidates \ {canonical})
        ELSE db

\* A lease of any candidate follows the entry to the canonical path.
move_leases(leases, db, canonical, canonicalKey) ==
    [lease \in DOMAIN leases |->
        IF /\ needs_canonicalization(db, canonical, canonicalKey)
           /\ leases[lease] \in canonical_matches(db, canonical, canonicalKey)
        THEN canonical ELSE leases[lease]]

-----------------------------------------------------------------------------
(* Copying an entry to a path that has none *)

copied_already(db, source, destination, copyId) ==
    /\ present(db, destination)
    /\ db.entries[destination].copyProvenance = [id |-> copyId, sourcePath |-> source]

\* The answer of copy_in_transaction; recovery says whether the caller names a
\* recovery record for unsaved edits, which a copy may not carry along.
copy_result(db, source, destination, copyId, recovery) ==
    IF copied_already(db, source, destination, copyId) THEN "copied"
    ELSE IF present(db, destination) THEN "destinationExists"
    ELSE IF ~present(db, source) THEN "sourceAbsent"
    ELSE IF recovery /\ state_of(db, source) \in PendingStates THEN "recoveryRequired"
    ELSE "copied"

copied_entry(db, source, copyId) ==
    LET entry == db.entries[source]
    IN  [entry EXCEPT
            !.revision = db.nextRevision,
            !.stages = rebase_stages(@, entry.revision, db.nextRevision),
            !.copyProvenance = [id |-> copyId, sourcePath |-> source]]

copy_in_transaction(db, source, destination, copyId, recovery, leasedHere) ==
    LET cleaned == cleanup_stale_stages(db)
        copied  == set_entry(allocate_revision(cleaned), destination,
                             copied_entry(cleaned, source, copyId))
    IN  IF copy_result(db, source, destination, copyId, recovery) = "recoveryRequired"
        THEN db
        ELSE IF present(db, destination) \/ ~present(db, source)
        THEN run_retention(db, leasedHere, {source, destination})
        ELSE evict_entries(refresh_order(copied, destination), leasedHere,
                           {source, destination})

-----------------------------------------------------------------------------
(* The maintenance command that deletes saved state on request *)

\* trim: the requested paths that nothing protects; unsaved edits go only when
\* the user confirmed them.
trim_targets(db, requested, confirmed, leasedHere) ==
    {p \in requested : /\ present(db, p)
                       /\ p \notin leasedHere
                       /\ stages_of(db, p) = {}
                       /\ state_of(db, p) \in PendingStates => p \in confirmed}
=============================================================================

--------------------------- MODULE AuthorityStore ---------------------------
(***************************************************************************)
(* The durable file-state store as its clients meet it: several sessions   *)
(* (extension hosts, desktop windows) run the transactions of              *)
(* StoreTransactions on one database.  A client reads in one transaction   *)
(* and writes in a later one, so what it bases a write on may be           *)
(* arbitrarily old: a write expects any revision and commit sequence that  *)
(* were ever handed out.  The variable reader is what one client, any      *)
(* client, remembers of its last read.                                     *)
(***************************************************************************)
EXTENDS StoreTransactions

CONSTANTS
    State,          \* the stored states
    StageId,        \* ids of staged authority transactions
    StageInputs,    \* the stages clients ask for
    CopyId,         \* ids of entry copies
    Session,        \* writer sessions
    Lease,          \* lease ids
    SessionOf,      \* the session that takes a lease
    NoPath,         \* a lease that is not held
    CanonicalKey    \* path -> the path canonicalKey maps it to

ASSUME AuthorityStoreAssumption ==
    /\ EmptyState \in State
    /\ PendingStates \subseteq State
    /\ NoState \notin State
    /\ SessionOf \in [Lease -> Session]
    /\ CanonicalKey \in [Path -> Path]
    /\ NoPath \notin Path
    /\ Sentinel > 1
    /\ StageInputs \subseteq
         [ id : StageId, kind : {"physical", "projection"},
           nextState : State \cup {NoState}, physicalDigest : Digest \cup {NoDigest} ]

VARIABLES
    db,        \* the database
    leases,    \* lease id -> the path it holds, or NoPath
    reader     \* the version a client read last and may still act on

vars == <<db, leases, reader>>

Stage ==
    [ id                     : StageId,
      kind                   : {"physical", "projection"},
      expectedStateRevision  : Nat,
      expectedCommitSequence : Nat,
      nextState              : State \cup {NoState},
      physicalDigest         : Digest \cup {NoDigest},
      stale                  : BOOLEAN ]

Entry ==
    [ revision       : Nat,
      state          : State,
      authority      : Authority,
      stages         : SUBSET Stage,
      copyProvenance : [id : CopyId, sourcePath : Path] \cup {NoCopy} ]

\* What marks a path without an entry is no entry.
ASSUME NoEntryAssumption == NoEntry \notin Entry

Version == [path : Path, revision : Nat, state : State]

Database ==
    [ entries         : [Path -> Entry \cup {NoEntry}],
      absenceRevision : Nat,
      nextRevision    : Nat,
      before          : SUBSET (Path \X Path) ]

TypeOK ==
    /\ db \in Database
    /\ leases \in [Lease -> Path \cup {NoPath}]
    /\ reader \in Version

\* What a read transaction returns of a path now, its authority left out.
version_of(database, path) ==
    [ path |-> path, revision |-> revision_of(database, path),
      state |-> state_of(database, path) ]

\* entry_is_leased_here: the paths a session's own leases hold.
leased_here(held, session) ==
    {held[lease] : lease \in {l \in Lease : SessionOf[l] = session}} \ {NoPath}

Init ==
    /\ db = [ entries |-> [p \in Path |-> NoEntry], absenceRevision |-> 0,
              nextRevision |-> 1, before |-> {} ]
    /\ leases = [lease \in Lease |-> NoPath]
    /\ reader \in {version_of(db, path) : path \in Path}

\* A write transaction that leaves the leases alone commits the database next,
\* unless an allocation inside it threw.
Commit(next) ==
    /\ within_counters(next)
    /\ db' = next
    /\ UNCHANGED <<leases, reader>>

\* The revisions a caller may still hold from an earlier read.
revisions == 0 .. db.nextRevision - 1

\* read and read_authority: one client takes note of a version.
Read(path) ==
    /\ reader' = version_of(db, path)
    /\ UNCHANGED <<db, leases>>

\* A write without a basis; one with a basis is accepted less often, to the same effect.
CompareAndSet(session, path) ==
    \E expectedRevision \in revisions, state \in State :
        /\ cas_accepts(db, path, expectedRevision, empty_authority, {}, TRUE)
        /\ Commit(write_state(db, path, state, leased_here(leases, session)))

StageAuthority(session, path) ==
    \E expectedStateRevision \in revisions, expectedCommitSequence \in 0 .. Sentinel - 1 :
        /\ stage_accepts(db, path, [ expectedStateRevision  |-> expectedStateRevision,
                                     expectedCommitSequence |-> expectedCommitSequence ])
        /\ \E input \in StageInputs :
              Commit(stage_authority_transaction(db, path,
                  [ id |-> input.id, kind |-> input.kind,
                    expectedStateRevision |-> expectedStateRevision,
                    expectedCommitSequence |-> expectedCommitSequence,
                    nextState |-> input.nextState,
                    physicalDigest |-> input.physicalDigest, stale |-> FALSE ],
                  leased_here(leases, session)))

FinalizeAuthority(session, path) ==
    \E id \in StageId :
        /\ finalize_accepts(db, path, id)
        /\ authority_incrementable(authority_of(db, path))
        /\ Commit(finalize_authority_transaction(db, path, id, leased_here(leases, session)))

DiscardAuthority(session, path) ==
    \E id \in StageId :
        /\ stage_present(db, path, id)
        /\ Commit(discard_authority_transaction(db, path, id, leased_here(leases, session)))

\* cleanup_authority_transactions
CleanupAuthority(session) == Commit(run_retention(db, leased_here(leases, session), {}))

Touch(session, path) == Commit(touch(db, path, leased_here(leases, session)))

CopyEntry(session, source, destination) ==
    \E id \in CopyId, recovery \in BOOLEAN :
        /\ source # destination
        /\ Commit(copy_in_transaction(db, source, destination, id, recovery,
                                      leased_here(leases, session)))

\* A request may name absent paths, and confirm what has no unsaved edits, to no effect.
unsaved(requested) == {path \in requested : state_of(db, path) \in PendingStates}

\* trim, in the maintenance module: a deletion is refused for what this session
\* leases, for staged entries and for unsaved edits that were not confirmed.
Trim(session, requested, confirmed) ==
    LET targets == trim_targets(db, requested, confirmed, leased_here(leases, session))
    IN  targets # {} /\ Commit(remove_entries(db, targets))

CanonicalizePath(session, path) ==
    LET moved == move_leases(leases, db, path, CanonicalKey)
        next  == run_retention(canonicalize_in_transaction(db, path, CanonicalKey),
                               leased_here(moved, session), {path})
    IN  /\ CanonicalKey[path] = path
        /\ ~canonicalize_throws(db, path, CanonicalKey)
        /\ within_counters(next)
        /\ db' = next
        /\ leases' = moved
        /\ UNCHANGED reader

\* lease_entry: canonicalize, then copy the entry of a legacy path or run
\* retention, and take the lease.  A copy that needs a recovery record throws, and
\* here none is named.
LeaseEntry(lease, path) ==
    \E copyId \in CopyId \cup {NoCopy}, source \in Path \ {path} :
        LET moved     == move_leases(leases, db, path, CanonicalKey)
            here      == leased_here(moved, SessionOf[lease])
            canonical == canonicalize_in_transaction(db, path, CanonicalKey)
            next      == IF copyId = NoCopy THEN run_retention(canonical, here, {path})
                         ELSE copy_in_transaction(canonical, source, path, copyId, FALSE, here)
        IN  /\ leases[lease] = NoPath
            /\ CanonicalKey[path] = path
            /\ ~canonicalize_throws(db, path, CanonicalKey)
            /\ within_counters(next)
            /\ db' = next
            /\ leases' = [moved EXCEPT ![lease] = path]
            /\ UNCHANGED reader

\* FileStateLease.release
ReleaseLease(lease) ==
    LET released == [leases EXCEPT ![lease] = NoPath]
        next     == run_retention(db, leased_here(released, SessionOf[lease]), {})
    IN  /\ leases[lease] # NoPath
        /\ within_counters(next)
        /\ db' = next
        /\ leases' = released
        /\ UNCHANGED reader

aged(entry) == [entry EXCEPT !.stages = {[s EXCEPT !.stale = TRUE] : s \in @}]

\* STALE_STAGE_MS pass: every stage there is becomes an old one.
StagesAge ==
    /\ \E p \in Path : \E s \in stages_of(db, p) : ~s.stale
    /\ db' = [db EXCEPT !.entries =
                [p \in Path |-> IF present(db, p) THEN aged(db.entries[p])
                                ELSE db.entries[p]]]
    /\ UNCHANGED <<leases, reader>>

\* One transaction of a session.
Transaction(session) ==
    \/ \E path \in Path :
          \/ CompareAndSet(session, path)
          \/ StageAuthority(session, path)
          \/ FinalizeAuthority(session, path)
          \/ DiscardAuthority(session, path)
          \/ Touch(session, path)
          \/ CanonicalizePath(session, path)
          \/ \E destination \in Path : CopyEntry(session, path, destination)
    \/ CleanupAuthority(session)
    \/ \E requested \in SUBSET present_paths(db) :
       \E confirmed \in SUBSET unsaved(requested) : Trim(session, requested, confirmed)
    \/ \E lease \in Lease :
          /\ SessionOf[lease] = session
          /\ \/ \E path \in Path : LeaseEntry(lease, path)
             \/ ReleaseLease(lease)

Next ==
    \/ StagesAge
    \/ \E path \in Path : Read(path)
    \/ \E session \in Session : Transaction(session)

Spec == Init /\ [][Next]_vars

-----------------------------------------------------------------------------
(* Safety *)

\* A revision of a path names one state: as long as a path still has the
\* revision a client read, it still has the state the client read, so that a
\* compare-and-set cannot overwrite a state its caller never saw, even when the
\* entry was evicted, trimmed, re-created or merged with its aliases in between.
RevisionIdentifiesState ==
    revision_of(db, reader.path) = reader.revision => state_of(db, reader.path) = reader.state

\* The recency order is a strict total order of the present entries, which is
\* what makes the least recently used of them well defined.
RecencyOrdersEntries ==
    /\ db.before \subseteq present_paths(db) \X present_paths(db)
    /\ \A p, q \in present_paths(db) :
          p # q => (<<p, q>> \in db.before <=> <<q, p>> \notin db.before)
    /\ \A p, q, r \in present_paths(db) :
          <<p, q>> \in db.before /\ <<q, r>> \in db.before => <<p, r>> \in db.before

\* Unsaved edits leave the store only by a write that names their revision, or by a
\* trim whose user has confirmed just that: no eviction, canonicalization, copy, lease,
\* cleanup or other trim loses them.
PendingEditsSurvive ==
    [][\A path \in Path :
          state_of(db, path) \in PendingStates =>
             \/ \E p \in {path, CanonicalKey[path]} :
                   state_of(db', p) = state_of(db, path)
             \/ present(db', path) /\ revision_of(db', path) >= db.nextRevision
             \/ \E session \in Session, requested \in SUBSET present_paths(db) :
                   \E confirmed \in SUBSET unsaved(requested) :
                      path \in confirmed /\ Trim(session, requested, confirmed)]_vars

\* While an entry stays under its path its authority only moves forward,
\* whatever winner canonicalization picks.
AuthorityNeverRegresses ==
    [][\A path \in Path :
          present(db, path) /\ present(db', path) =>
             at_least(authority_of(db', path), authority_of(db, path))]_vars

\* No transaction of a session removes an entry that the session leases, before
\* and after it.  (A session may remove what only another one leases: a killed
\* process never gives its leases back, so a foreign lease proves nothing.)
LeaseProtects ==
    [][\A session \in Session :
          (\E path \in leased_here(leases, session) \cap leased_here(leases', session) :
              present(db, path) /\ ~present(db', path))
          => ~Transaction(session)]_vars

\* A copy stays marked with its provenance only while it is still the entry
\* that was copied: a retry of the copy never reports as its own an entry that
\* someone has written, staged or committed since.
ProvenanceNamesUntouchedCopy ==
    [][\A path \in Path :
          /\ present(db, path) /\ present(db', path)
          /\ db.entries[path].copyProvenance # NoCopy
          /\ db'.entries[path].copyProvenance = db.entries[path].copyProvenance
          => /\ version_of(db', path) = version_of(db, path)
             /\ authority_of(db', path) = authority_of(db, path)
             /\ {s.id : s \in stages_of(db', path)} = {s.id : s \in stages_of(db, path)}]_vars
=============================================================================

------------------------ MODULE AuthorityStoreProofs ------------------------
(***************************************************************************)
(* Proofs about the durable store, for any number of paths, sessions,      *)
(* leases, states and stages, and whatever MaxStored, the aliases and the  *)
(* canonicalization policy are.                                            *)
(*                                                                         *)
(* RevisionIdentifiesState speaks of one path, and is not inductive: a     *)
(* merge moves the entry of one path to another with its revision, and a   *)
(* path that was absent takes the absence revision when it is staged.      *)
(* What the transactions keep is stronger: one revision names one state in *)
(* the whole database, the absence revision names EmptyState, and every    *)
(* revision in use was allocated before (Sound); and a revision a client   *)
(* has seen never names another state again (Names).                       *)
(*                                                                         *)
(* The action properties are about one entry in one step.  Retention only  *)
(* takes from an entry, or takes an entry that nothing protects (Spares),  *)
(* and never the one used last (NotLatest); every transaction is then one  *)
(* write, merge or copy before retention, and honest about every path      *)
(* (Honest).  There is one lemma for each of the writes that transactions  *)
(* are built from and one for each transaction.                            *)
(***************************************************************************)
EXTENDS AuthorityStore, AuthorityOrderProofs, FiniteSetTheorems

\* Revision r was handed out, and names no state but s.
Names(d, r, s) ==
    /\ r \in Nat /\ r < d.nextRevision
    /\ d.absenceRevision = r => s = EmptyState
    /\ \A p \in Path : present(d, p) /\ d.entries[p].revision = r => d.entries[p].state = s

\* Every revision that is in use names one state.
Sound(d) ==
    /\ d.absenceRevision < d.nextRevision
    /\ \A p \in Path : present(d, p) => d.entries[p].revision < d.nextRevision
    /\ \A p \in Path : present(d, p) /\ d.entries[p].revision = d.absenceRevision
                          => d.entries[p].state = EmptyState
    /\ \A p, q \in Path :
          present(d, p) /\ present(d, q) /\ d.entries[p].revision = d.entries[q].revision
             => d.entries[p].state = d.entries[q].state

\* What every transaction keeps, for a version that some client may have read.
Good(d, r, s) == d \in Database /\ Sound(d) /\ Names(d, r, s)

\* RecencyOrdersEntries, of a database.
Ordered(d) ==
    /\ d.before \subseteq present_paths(d) \X present_paths(d)
    /\ \A p, q \in present_paths(d) :
          p # q => (<<p, q>> \in d.before <=> <<q, p>> \notin d.before)
    /\ \A p, q, r \in present_paths(d) :
          <<p, q>> \in d.before /\ <<q, r>> \in d.before => <<p, r>> \in d.before

\* What every transaction keeps.
Fit(d, r, s) == Good(d, r, s) /\ Ordered(d)

\* The inductive invariant.
IInv ==
    /\ TypeOK
    /\ Fit(db, reader.revision, reader.state)

-----------------------------------------------------------------------------
(* What a transaction may do to an entry *)

ids(d, p) == {x.id : x \in stages_of(d, p)}

\* The entry of q is the same but for what retention may take from it.
Untouched(d, e, q) ==
    /\ revision_of(e, q) = revision_of(d, q)
    /\ state_of(e, q) = state_of(d, q)
    /\ authority_of(e, q) = authority_of(d, q)
    /\ e.entries[q].copyProvenance # NoCopy =>
          /\ e.entries[q].copyProvenance = d.entries[q].copyProvenance
          /\ ids(e, q) = ids(d, q)

\* From d to e entries were evicted, and created at the paths created.
Spares(d, e, leasedHere, protected, created) ==
    \A q \in Path :
       /\ present(e, q) => \/ present(d, q) /\ Untouched(d, e, q)
                           \/ q \in created /\ ~present(d, q)
       /\ present(d, q) /\ ~present(e, q) =>
             /\ q \notin protected /\ q \notin leasedHere
             /\ state_of(d, q) \notin PendingStates

\* What went from d to e was not the most recently used entry.
NotLatest(d, e) ==
    \A q \in Path : present(d, q) /\ ~present(e, q) => \E x \in Path : <<q, x>> \in d.before

\* What AuthorityNeverRegresses says of q.
Forward(d, e, q) ==
    present(d, q) /\ present(e, q) => at_least(authority_of(e, q), authority_of(d, q))

\* What ProvenanceNamesUntouchedCopy says of q.
CopyKept(d, e, q) ==
    /\ present(d, q) /\ present(e, q)
    /\ d.entries[q].copyProvenance # NoCopy
    /\ e.entries[q].copyProvenance = d.entries[q].copyProvenance
    => /\ revision_of(e, q) = revision_of(d, q)
       /\ state_of(e, q) = state_of(d, q)
       /\ authority_of(e, q) = authority_of(d, q)
       /\ ids(e, q) = ids(d, q)

\* The unsaved edits of q are at q or at its canonical path.
Carried(d, e, q) ==
    state_of(d, q) \in PendingStates =>
       \E p \in {q, CanonicalKey[q]} : p \in Path /\ state_of(e, p) = state_of(d, q)

\* Or they were replaced under a new revision.
NotLost(d, e, q) ==
    \/ Carried(d, e, q)
    \/ present(e, q) /\ revision_of(e, q) >= d.nextRevision

\* What a transaction does to entries, for a session that leases here before and after.
Honest(d, e, here) ==
    \A q \in Path :
       /\ Forward(d, e, q)
       /\ CopyKept(d, e, q)
       /\ NotLost(d, e, q)
       /\ q \in here /\ present(d, q) => present(e, q)

\* What a session leases before and after its transaction.
held_through(session) == leased_here(leases, session) \cap leased_here(leases', session)

-----------------------------------------------------------------------------
(* The writes that transactions are built from *)

LEMMA PresentEntry ==
    ASSUME NEW d \in Database, NEW p \in Path, present(d, p)
    PROVE  d.entries[p] \in Entry
BY DEF Database, present

LEMMA EntryFields ==
    ASSUME NEW e \in Entry
    PROVE  /\ e.revision \in Nat /\ e.state \in State /\ e.authority \in Authority
           /\ e.stages \in SUBSET Stage
           /\ e.copyProvenance \in [id : CopyId, sourcePath : Path] \cup {NoCopy}
BY DEF Entry

\* What is read of a path has the type of a version.
LEMMA ReadTypes ==
    ASSUME NEW d \in Database, NEW p \in Path
    PROVE  /\ revision_of(d, p) \in Nat
           /\ state_of(d, p) \in State
           /\ authority_of(d, p) \in Authority
           /\ stages_of(d, p) \in SUBSET Stage
<1>1. CASE present(d, p)
  BY <1>1, PresentEntry, EntryFields
     DEF revision_of, state_of, authority_of, stages_of
<1>2. CASE ~present(d, p)
  <2>1. empty_authority \in Authority
    BY DEF empty_authority, Authority
  <2>. QED BY <1>2, <2>1, AuthorityStoreAssumption
           DEF revision_of, state_of, authority_of, stages_of, Database
<1>. QED BY <1>1, <1>2

\* Whatever version a sound database shows of a path is named by it.
LEMMA ReadNames ==
    ASSUME NEW d \in Database, Sound(d), NEW p \in Path
    PROVE  Names(d, revision_of(d, p), state_of(d, p))
<1>1. revision_of(d, p) \in Nat
  BY ReadTypes
<1>. QED BY <1>1 DEF Sound, Names, revision_of, state_of, present

\* A change of the recency order, or of what entries hold besides revision and
\* state, is invisible to Sound and Names.
LEMMA SameVersions ==
    ASSUME NEW d, NEW e \in Database, NEW r, NEW s, Good(d, r, s),
           e.nextRevision = d.nextRevision,
           e.absenceRevision = d.absenceRevision,
           \A p \in Path : present(e, p) =>
              /\ present(d, p)
              /\ e.entries[p].revision = d.entries[p].revision
              /\ e.entries[p].state = d.entries[p].state
    PROVE  Good(e, r, s)
<1>1. Sound(e)
  BY DEF Good, Sound
<1>2. Names(e, r, s)
  BY DEF Good, Names
<1>. QED BY <1>1, <1>2 DEF Good

\* refresh_order
LEMMA RefreshKeeps ==
    ASSUME NEW d, NEW r, NEW s, Good(d, r, s), NEW path \in Path
    PROVE  Good(refresh_order(d, path), r, s)
<1> DEFINE e == refresh_order(d, path)
<1>1. d \in Database
  BY DEF Good
<1>2. /\ e.entries = d.entries
      /\ e.nextRevision = d.nextRevision
      /\ e.absenceRevision = d.absenceRevision
  BY <1>1 DEF refresh_order, Database
<1>3. e \in Database
  <2>1. forget(d.before, {path}) \cup {<<p, path>> : p \in present_paths(d) \ {path}}
            \in SUBSET (Path \X Path)
    BY <1>1 DEF forget, present_paths, Database
  <2>. QED BY <1>1, <2>1 DEF refresh_order, Database
<1>. QED BY <1>2, <1>3, SameVersions DEF present

\* An entry is written under a fresh revision.
LEMMA FreshWriteKeeps ==
    ASSUME NEW d, NEW r, NEW s, Good(d, r, s), NEW path \in Path,
           NEW entry \in Entry, entry.revision = d.nextRevision
    PROVE  Good(set_entry(allocate_revision(d), path, entry), r, s)
<1> DEFINE e == set_entry(allocate_revision(d), path, entry)
<1>1. d \in Database /\ d.nextRevision \in Nat /\ d.absenceRevision \in Nat
  BY DEF Good, Database
<1>2. /\ e.entries = [d.entries EXCEPT ![path] = entry]
      /\ e.nextRevision = d.nextRevision + 1
      /\ e.absenceRevision = d.absenceRevision
      /\ e \in [ entries : {e.entries}, absenceRevision : {d.absenceRevision},
                 nextRevision : {d.nextRevision + 1}, before : {d.before} ]
  BY <1>1 DEF set_entry, allocate_revision, Database
<1>3. e \in Database
  <2>1. e.entries \in [Path -> Entry \cup {NoEntry}]
    BY <1>1, <1>2 DEF Database
  <2>. QED BY <1>1, <1>2, <2>1 DEF Database
<1>4. \A p \in Path : e.entries[p] = IF p = path THEN entry ELSE d.entries[p]
  BY <1>1, <1>2 DEF Database
<1>5. \A p \in Path : present(d, p) => d.entries[p].revision < d.nextRevision
                                       /\ d.entries[p].revision \in Nat
  BY <1>1, PresentEntry, EntryFields DEF Good, Sound
<1>6. Sound(e)
  <2>1. e.absenceRevision < e.nextRevision /\ e.absenceRevision # entry.revision
    BY <1>1, <1>2 DEF Good, Sound
  <2>2. \A p \in Path : present(e, p) => e.entries[p].revision < e.nextRevision
    BY <1>1, <1>2, <1>4, <1>5 DEF present
  <2>3. \A p \in Path : present(e, p) /\ e.entries[p].revision = e.absenceRevision
                           => e.entries[p].state = EmptyState
    BY <1>2, <1>4, <2>1 DEF present, Good, Sound
  <2>4. ASSUME NEW p \in Path, NEW q \in Path, present(e, p), present(e, q),
               e.entries[p].revision = e.entries[q].revision
        PROVE  e.entries[p].state = e.entries[q].state
    <3>1. CASE p = path \/ q = path
      BY <3>1, <2>4, <1>1, <1>4, <1>5 DEF present
    <3>2. CASE p # path /\ q # path
      BY <3>2, <2>4, <1>4 DEF present, Good, Sound
    <3>. QED BY <3>1, <3>2
  <2>. QED BY <2>1, <2>2, <2>3, <2>4 DEF Sound
<1>7. Names(e, r, s)
  <2>1. r \in Nat /\ r < d.nextRevision
    BY DEF Good, Names
  <2>2. r < e.nextRevision
    BY <2>1, <1>1, <1>2
  <2>3. r # entry.revision
    BY <2>1, <1>1
  <2>. QED BY <2>2, <2>3, <1>2, <1>4 DEF Good, Names, present
<1>. QED BY <1>3, <1>6, <1>7 DEF Good

\* An entry is written with the revision and state of some path.
LEMMA SameWriteKeeps ==
    ASSUME NEW d, NEW r, NEW s, Good(d, r, s), NEW path \in Path, NEW q \in Path,
           NEW entry \in Entry,
           entry.revision = revision_of(d, q), entry.state = state_of(d, q)
    PROVE  Good(set_entry(d, path, entry), r, s)
<1> DEFINE e == set_entry(d, path, entry)
<1>1. d \in Database /\ Sound(d)
  BY DEF Good
<1>2. /\ e.nextRevision = d.nextRevision
      /\ e.absenceRevision = d.absenceRevision
      /\ e \in Database
  BY <1>1 DEF set_entry, Database
<1>3. \A p \in Path : e.entries[p] = IF p = path THEN entry ELSE d.entries[p]
  BY <1>1 DEF set_entry, Database
<1>4. \A p \in Path : present(e, p) =>
         \E o \in Path : e.entries[p].revision = revision_of(d, o)
                         /\ e.entries[p].state = state_of(d, o)
  <2>. TAKE p \in Path
  <2>1. CASE p = path
    BY <2>1, <1>3
  <2>2. CASE p # path
    BY <2>2, <1>3 DEF present, revision_of, state_of
  <2>. QED BY <2>1, <2>2
<1>5. \A o \in Path : Names(d, revision_of(d, o), state_of(d, o))
  BY <1>1, ReadNames
<1>6. Sound(e)
  <2>1. ASSUME NEW p \in Path, present(e, p)
        PROVE  /\ e.entries[p].revision < e.nextRevision
               /\ e.entries[p].revision = e.absenceRevision => e.entries[p].state = EmptyState
    BY <2>1, <1>2, <1>4, <1>5 DEF Names
  <2>2. \A o, o2 \in Path : revision_of(d, o) = revision_of(d, o2)
                               => state_of(d, o) = state_of(d, o2)
    BY <1>5 DEF Names, revision_of, state_of
  <2>3. \A p1, p2 \in Path :
           present(e, p1) /\ present(e, p2) /\ e.entries[p1].revision = e.entries[p2].revision
              => e.entries[p1].state = e.entries[p2].state
    BY <2>2, <1>4
  <2>4. e.absenceRevision < e.nextRevision
    BY <1>1, <1>2 DEF Sound
  <2>. QED BY <2>1, <2>3, <2>4 DEF Sound
<1>7. Names(e, r, s)
  <2>1. \A o \in Path : revision_of(d, o) = r => state_of(d, o) = s
    BY DEF Good, Names, revision_of, state_of
  <2>. QED BY <2>1, <1>2, <1>4 DEF Good, Names
<1>. QED BY <1>2, <1>6, <1>7 DEF Good

\* remove_entries
LEMMA RemoveKeeps ==
    ASSUME NEW d, NEW r, NEW s, Good(d, r, s), NEW victims
    PROVE  Good(remove_entries(d, victims), r, s)
<1> DEFINE e == remove_entries(d, victims)
<1>1. d \in Database /\ d.nextRevision \in Nat
  BY DEF Good, Database
<1>2. /\ e.nextRevision = d.nextRevision + 1
      /\ e.absenceRevision = d.nextRevision
      /\ e.entries = [p \in Path |-> IF p \in victims THEN NoEntry ELSE d.entries[p]]
      /\ e.before = forget(d.before, victims)
      /\ e \in [ entries : {e.entries}, absenceRevision : {d.nextRevision},
                 nextRevision : {d.nextRevision + 1}, before : {e.before} ]
  BY <1>1 DEF remove_entries, allocate_revision, delete_entries, Database
<1>3. e \in Database
  <2>1. forget(d.before, victims) \in SUBSET (Path \X Path)
    BY <1>1 DEF forget, Database
  <2>2. e.entries \in [Path -> Entry \cup {NoEntry}]
    BY <1>1, <1>2 DEF Database
  <2>. QED BY <1>1, <1>2, <2>1, <2>2 DEF Database
<1>4. \A p \in Path : present(e, p) => present(d, p) /\ e.entries[p] = d.entries[p]
  BY <1>2 DEF present
<1>5. \A p \in Path : present(d, p) => d.entries[p].revision < d.nextRevision
                                       /\ d.entries[p].revision \in Nat
  BY <1>1, PresentEntry, EntryFields DEF Good, Sound
<1>6. Sound(e)
  BY <1>1, <1>2, <1>4, <1>5 DEF Good, Sound
<1>7. Names(e, r, s)
  <2>1. r \in Nat /\ r < d.nextRevision
    BY DEF Good, Names
  <2>2. \A p \in Path : present(e, p) /\ e.entries[p].revision = r => e.entries[p].state = s
    BY <1>4 DEF Good, Names
  <2>. QED BY <2>1, <2>2, <1>1, <1>2 DEF Names
<1>. QED BY <1>3, <1>6, <1>7 DEF Good

\* A recency order that was just refreshed has no path after path.
LEMMA RefreshLast ==
    ASSUME NEW d \in Database, NEW path \in Path
    PROVE  /\ refresh_order(d, path).entries = d.entries
           /\ \A x \in Path : <<path, x>> \notin refresh_order(d, path).before
<1>1. refresh_order(d, path).before =
         forget(d.before, {path}) \cup {<<p, path>> : p \in present_paths(d) \ {path}}
  BY DEF refresh_order, Database
<1>2. ASSUME NEW x \in Path, <<path, x>> \in refresh_order(d, path).before
      PROVE  FALSE
  BY <1>1, <1>2 DEF forget
<1>3. refresh_order(d, path).entries = d.entries
  BY DEF refresh_order, Database
<1>. QED BY <1>2, <1>3

LEMMA SetEntryAt ==
    ASSUME NEW d \in Database, NEW path \in Path, NEW entry
    PROVE  /\ set_entry(d, path, entry).entries = [d.entries EXCEPT ![path] = entry]
           /\ set_entry(allocate_revision(d), path, entry).entries
                  = [d.entries EXCEPT ![path] = entry]
           /\ set_entry(d, path, entry).before = d.before
           /\ set_entry(allocate_revision(d), path, entry).before = d.before
BY DEF set_entry, allocate_revision, Database

LEMMA OrderedSame ==
    ASSUME NEW d, Ordered(d), NEW e, e.before = d.before,
           \A q \in Path : present(e, q) <=> present(d, q)
    PROVE  Ordered(e)
<1>1. present_paths(e) = present_paths(d)
  BY DEF present_paths
<1>. QED BY <1>1 DEF Ordered

\* The path that was used last, which may be new, comes after all others.
LEMMA OrderedRefresh ==
    ASSUME NEW d, Ordered(d), NEW w \in Database, NEW path \in Path,
           w.before = d.before, present(w, path),
           \A q \in Path : q # path => (present(w, q) <=> present(d, q))
    PROVE  Ordered(refresh_order(w, path))
<1> DEFINE e == refresh_order(w, path)
           P == present_paths(d)
           Q == present_paths(w)
<1>1. /\ e.entries = w.entries
      /\ e.before = forget(w.before, {path}) \cup {<<p, path>> : p \in Q \ {path}}
  BY DEF refresh_order, Database
<1>2. present_paths(e) = Q
  BY <1>1 DEF present_paths, present
<1>3. Q \ {path} = P \ {path} /\ path \in Q
  BY DEF present_paths
<1>4. /\ d.before \subseteq P \X P
      /\ \A p, q \in P : p # q => (<<p, q>> \in d.before <=> <<q, p>> \notin d.before)
      /\ \A p, q, r \in P :
            <<p, q>> \in d.before /\ <<q, r>> \in d.before => <<p, r>> \in d.before
  BY DEF Ordered
<1> HIDE DEF P, Q, e
<1>5. \A p, q : <<p, q>> \in e.before <=>
         \/ <<p, q>> \in d.before /\ p # path /\ q # path
         \/ p \in Q \ {path} /\ q = path
  BY <1>1 DEF forget
<1>6. e.before \subseteq Q \X Q
  <2>1. forget(d.before, {path}) \subseteq Q \X Q
    <3>. SUFFICES ASSUME NEW x \in d.before, x[1] # path, x[2] # path PROVE x \in Q \X Q
      BY DEF forget
    <3>. QED BY <1>3, <1>4
  <2>. QED BY <1>1, <1>3, <2>1
<1>7. ASSUME NEW p \in Q, NEW q \in Q, p # q
      PROVE  <<p, q>> \in e.before <=> <<q, p>> \notin e.before
  <2>1. /\ <<p, q>> \in e.before <=>
              \/ <<p, q>> \in d.before /\ p # path /\ q # path
              \/ p \in Q \ {path} /\ q = path
        /\ <<q, p>> \in e.before <=>
              \/ <<q, p>> \in d.before /\ q # path /\ p # path
              \/ q \in Q \ {path} /\ p = path
    BY <1>5
  <2>2. CASE p # path /\ q # path
    BY <1>3, <1>4, <1>7, <2>1, <2>2
  <2>3. CASE p = path \/ q = path
    BY <1>7, <2>1, <2>3
  <2>. QED BY <2>2, <2>3
<1>8. \A p, q, r \in Q : <<p, q>> \in e.before /\ <<q, r>> \in e.before => <<p, r>> \in e.before
  BY <1>3, <1>4, <1>5
<1>. QED BY <1>2, <1>6, <1>7, <1>8 DEF Ordered, e

LEMMA OrderedRemove ==
    ASSUME NEW d \in Database, Ordered(d), NEW victims
    PROVE  Ordered(remove_entries(d, victims))
<1> DEFINE e == remove_entries(d, victims)
           P == present_paths(d)
<1>1. /\ e.entries = [p \in Path |-> IF p \in victims THEN NoEntry ELSE d.entries[p]]
      /\ e.before = forget(d.before, victims)
  BY DEF remove_entries, allocate_revision, delete_entries, Database
<1>2. present_paths(e) = P \ victims
  BY <1>1 DEF present_paths, present
<1>3. /\ d.before \subseteq P \X P
      /\ \A p, q \in P : p # q => (<<p, q>> \in d.before <=> <<q, p>> \notin d.before)
      /\ \A p, q, r \in P :
            <<p, q>> \in d.before /\ <<q, r>> \in d.before => <<p, r>> \in d.before
  BY DEF Ordered
<1> HIDE DEF P, e
<1>4. \A p, q : <<p, q>> \in e.before <=>
         <<p, q>> \in d.before /\ p \notin victims /\ q \notin victims
  BY <1>1 DEF forget
<1>5. e.before \subseteq (P \ victims) \X (P \ victims)
  BY <1>1, <1>3 DEF forget
<1>6. \A p, q \in P \ victims : p # q => (<<p, q>> \in e.before <=> <<q, p>> \notin e.before)
  BY <1>3, <1>4
<1>7. \A p, q, r \in P \ victims :
         <<p, q>> \in e.before /\ <<q, r>> \in e.before => <<p, r>> \in e.before
  BY <1>3, <1>4
<1>. QED BY <1>2, <1>5, <1>6, <1>7 DEF Ordered, e
\* The entry that is written at path is used last.
LEMMA OrderedWrite ==
    ASSUME NEW d \in Database, Ordered(d), NEW path \in Path, NEW entry \in Entry,
           NEW w \in Database, w.before = d.before,
           w.entries = [d.entries EXCEPT ![path] = entry]
    PROVE  /\ Ordered(refresh_order(w, path))
           /\ present(d, path) => Ordered(w)
<1>1. \A q \in Path : w.entries[q] = IF q = path THEN entry ELSE d.entries[q]
  BY DEF Database
<1>2. present(w, path) /\ \A q \in Path : q # path => (present(w, q) <=> present(d, q))
  BY <1>1, NoEntryAssumption DEF present
<1>3. Ordered(refresh_order(w, path))
  BY <1>2, OrderedRefresh
<1>4. present(d, path) => \A q \in Path : present(w, q) <=> present(d, q)
  BY <1>2
<1>5. present(d, path) => Ordered(w)
  BY <1>4, OrderedSame
<1>. QED BY <1>3, <1>5

-----------------------------------------------------------------------------
(* Retention *)

LEMMA CleanupType ==
    ASSUME NEW d \in Database
    PROVE  cleanup_stale_stages(d) \in Database
<1> DEFINE entries == [p \in Path |->
               IF \E x \in stages_of(d, p) : x.stale
               THEN without_stale_stages(d.entries[p]) ELSE d.entries[p]]
<1>1. ASSUME NEW p \in Path PROVE entries[p] \in Entry \cup {NoEntry}
  <2>1. CASE \E x \in stages_of(d, p) : x.stale
    <3>1. present(d, p)
      BY <2>1 DEF stages_of
    <3>2. d.entries[p] \in Entry
      BY <3>1, PresentEntry
    <3>3. entries[p] = [d.entries[p] EXCEPT
                             !.stages = {x \in d.entries[p].stages : ~x.stale},
                             !.copyProvenance = NoCopy]
      BY <2>1 DEF without_stale_stages
    <3> HIDE DEF entries
    <3>. QED BY <3>2, <3>3 DEF Entry
  <2>2. CASE ~ \E x \in stages_of(d, p) : x.stale
    BY <2>2 DEF Database
  <2>. QED BY <2>1, <2>2
<1>2. cleanup_stale_stages(d) = [d EXCEPT !.entries = entries]
  BY DEF cleanup_stale_stages
<1>3. entries \in [Path -> Entry \cup {NoEntry}]
  BY <1>1
<1> HIDE DEF entries
<1>. QED BY <1>2, <1>3 DEF Database

LEMMA CleanupSpares ==
    ASSUME NEW d \in Database, NEW here, NEW protected
    PROVE  /\ Spares(d, cleanup_stale_stages(d), here, protected, {})
           /\ \A q \in Path : present(cleanup_stale_stages(d), q) <=> present(d, q)
           /\ cleanup_stale_stages(d).before = d.before
<1> DEFINE e == cleanup_stale_stages(d)
<1>1. /\ e.entries = [p \in Path |-> IF \E x \in stages_of(d, p) : x.stale
                                     THEN without_stale_stages(d.entries[p])
                                     ELSE d.entries[p]]
      /\ e.before = d.before
  BY DEF cleanup_stale_stages, Database
<1>2. ASSUME NEW q \in Path
      PROVE  /\ present(e, q) <=> present(d, q)
             /\ present(e, q) => Untouched(d, e, q)
  <2>1. CASE \E x \in stages_of(d, q) : x.stale
    <3>1. present(d, q)
      BY <2>1 DEF stages_of
    <3>2. d.entries[q] \in Entry /\ d.entries[q] # NoEntry
      BY <3>1, PresentEntry DEF present
    <3>3. e.entries[q] = [d.entries[q] EXCEPT
                             !.stages = {x \in d.entries[q].stages : ~x.stale},
                             !.copyProvenance = NoCopy]
      BY <2>1, <1>1 DEF without_stale_stages
    <3>4. /\ e.entries[q].revision = d.entries[q].revision
          /\ e.entries[q].state = d.entries[q].state
          /\ e.entries[q].authority = d.entries[q].authority
          /\ e.entries[q].copyProvenance = NoCopy
      BY <3>2, <3>3 DEF Entry
    <3>5. present(e, q)
      <4>1. e.entries[q] \in Entry
        BY <3>2, <3>3 DEF Entry
      <4>. QED BY <4>1, NoEntryAssumption DEF present
    <3>. QED BY <3>1, <3>4, <3>5 DEF Untouched, revision_of, state_of, authority_of
  <2>2. CASE ~ \E x \in stages_of(d, q) : x.stale
    <3>1. e.entries[q] = d.entries[q]
      BY <2>2, <1>1
    <3>. QED BY <3>1 DEF present, Untouched, revision_of, state_of, authority_of, ids, stages_of
  <2>. QED BY <2>1, <2>2
<1>. QED BY <1>1, <1>2 DEF Spares

LEMMA CleanupFit ==
    ASSUME NEW d, NEW r, NEW s, Fit(d, r, s)
    PROVE  Fit(cleanup_stale_stages(d), r, s)
<1> DEFINE e == cleanup_stale_stages(d)
<1>1. d \in Database /\ e \in Database
  BY CleanupType DEF Fit, Good
<1>2. e.nextRevision = d.nextRevision /\ e.absenceRevision = d.absenceRevision
  BY <1>1 DEF cleanup_stale_stages, Database
<1>3. /\ Spares(d, e, {}, {}, {}) /\ e.before = d.before
      /\ \A q \in Path : present(e, q) <=> present(d, q)
  BY <1>1, CleanupSpares
<1> HIDE DEF e
<1>4. \A q \in Path : present(e, q) =>
         /\ present(d, q)
         /\ e.entries[q].revision = d.entries[q].revision
         /\ e.entries[q].state = d.entries[q].state
  BY <1>3 DEF Spares, Untouched, revision_of, state_of
<1>. QED BY <1>1, <1>2, <1>3, <1>4, SameVersions, OrderedSame DEF Fit, e

\* Evicting only what retention may evict.
LEMMA EvictSpares ==
    ASSUME NEW d \in Database, NEW here, NEW protected
    PROVE  /\ Spares(d, evict_entries(d, here, protected), here, protected, {})
           /\ NotLatest(d, evict_entries(d, here, protected))
<1> DEFINE victims == victims_of(d, here, protected)
           e == evict_entries(d, here, protected)
<1>1. ASSUME NEW p \in victims
      PROVE  /\ p \in Path /\ present(d, p)
             /\ p \notin protected /\ p \notin here
             /\ state_of(d, p) \notin PendingStates
             /\ \E x \in Path : <<p, x>> \in d.before
  <2> DEFINE candidates == ordinary(d, here, protected)
             later == {x \in candidates : <<p, x>> \in d.before}
             keep == IF MaxStored < 1 THEN 1 ELSE MaxStored
  <2>1. p \in candidates /\ Cardinality(later) >= keep
    BY <1>1 DEF victims_of
  <2>2. keep \in Nat /\ keep >= 1
    BY StoreAssumption
  <2>3. Cardinality({}) = 0
    BY FS_EmptySet
  <2>4. later # {}
    <3> HIDE DEF keep, later
    <3> QED BY <2>1, <2>2, <2>3
  <2>5. candidates \subseteq Path
    BY DEF ordinary, present_paths
  <2>. QED BY <2>1, <2>4, <2>5 DEF ordinary, present_paths
<1>2. \A q \in Path : e.entries[q] = IF q \in victims THEN NoEntry ELSE d.entries[q]
  <2>1. remove_entries(d, victims).entries
           = [p \in Path |-> IF p \in victims THEN NoEntry ELSE d.entries[p]]
    BY DEF remove_entries, allocate_revision, delete_entries, Database
  <2>. QED BY <2>1 DEF evict_entries
<1> HIDE DEF victims, e
<1>3. ASSUME NEW q \in Path, present(e, q)
      PROVE  present(d, q) /\ Untouched(d, e, q)
  <2>1. e.entries[q] = d.entries[q]
    BY <1>2, <1>3 DEF present
  <2>. QED BY <2>1, <1>3 DEF present, Untouched, revision_of, state_of, authority_of, ids,
                             stages_of
<1>4. ASSUME NEW q \in Path, present(d, q), ~present(e, q)
      PROVE  q \in victims
  BY <1>2, <1>4 DEF present
<1>. QED BY <1>1, <1>3, <1>4 DEF Spares, NotLatest, e


\* What is spared twice is spared.
LEMMA SparesTwice ==
    ASSUME NEW d, NEW c, NEW e, NEW here, NEW protected, NEW created,
           Spares(d, c, here, protected, {}),
           Spares(c, e, here, protected, created),
           \A q \in Path : present(c, q) <=> present(d, q)
    PROVE  Spares(d, e, here, protected, created)
<1>. SUFFICES ASSUME NEW q \in Path
              PROVE  /\ present(e, q) => \/ present(d, q) /\ Untouched(d, e, q)
                                         \/ q \in created /\ ~present(d, q)
                     /\ present(d, q) /\ ~present(e, q) =>
                           /\ q \notin protected /\ q \notin here
                           /\ state_of(d, q) \notin PendingStates
  BY DEF Spares
<1>1. /\ present(c, q) => Untouched(d, c, q)
      /\ present(e, q) => \/ present(c, q) /\ Untouched(c, e, q)
                          \/ q \in created /\ ~present(c, q)
      /\ present(c, q) /\ ~present(e, q) =>
             /\ q \notin protected /\ q \notin here
             /\ state_of(c, q) \notin PendingStates
  BY DEF Spares
<1>2. Untouched(d, c, q) /\ Untouched(c, e, q) => Untouched(d, e, q)
  BY DEF Untouched
<1>3. Untouched(d, c, q) => state_of(c, q) = state_of(d, q)
  BY DEF Untouched
<1>. QED BY <1>1, <1>2, <1>3

LEMMA RetentionSpares ==
    ASSUME NEW d \in Database, NEW here, NEW protected
    PROVE  /\ Spares(d, run_retention(d, here, protected), here, protected, {})
           /\ NotLatest(d, run_retention(d, here, protected))
<1> DEFINE c == cleanup_stale_stages(d)
<1>1. c \in Database
  BY CleanupType
<1>2. /\ Spares(d, c, here, protected, {}) /\ c.before = d.before
      /\ \A q \in Path : present(c, q) <=> present(d, q)
  BY CleanupSpares
<1> HIDE DEF c
<1>3. /\ Spares(c, evict_entries(c, here, protected), here, protected, {})
      /\ NotLatest(c, evict_entries(c, here, protected))
  BY <1>1, EvictSpares
<1>4. Spares(d, evict_entries(c, here, protected), here, protected, {})
  BY <1>2, <1>3, SparesTwice
<1>5. NotLatest(d, evict_entries(c, here, protected))
  BY <1>2, <1>3 DEF NotLatest
<1>. QED BY <1>4, <1>5 DEF run_retention, c

LEMMA EvictFit ==
    ASSUME NEW d, NEW r, NEW s, Fit(d, r, s), NEW leasedHere, NEW protected
    PROVE  Fit(evict_entries(d, leasedHere, protected), r, s)
BY RemoveKeeps, OrderedRemove DEF evict_entries, Fit, Good

LEMMA RetentionFit ==
    ASSUME NEW d, NEW r, NEW s, Fit(d, r, s), NEW leasedHere, NEW protected
    PROVE  Fit(run_retention(d, leasedHere, protected), r, s)
BY CleanupFit, EvictFit DEF run_retention

\* An entry as it was, for the properties below.
LEMMA SpareIsHonest ==
    ASSUME NEW d, NEW e, NEW here, NEW protected, NEW q \in Path,
           Spares(d, e, here, protected, {})
    PROVE  Forward(d, e, q) /\ CopyKept(d, e, q) /\ Carried(d, e, q)
           /\ (q \in here /\ present(d, q) => present(e, q))
<1>1. /\ present(e, q) => present(d, q) /\ Untouched(d, e, q)
      /\ present(d, q) /\ ~present(e, q) =>
             /\ q \notin here /\ state_of(d, q) \notin PendingStates
  BY DEF Spares
<1>2. Forward(d, e, q)
  BY <1>1, AtLeastReflexive DEF Forward, Untouched
<1>3. CopyKept(d, e, q)
  BY <1>1 DEF CopyKept, Untouched
<1>4. Carried(d, e, q)
  <2>1. state_of(d, q) \in PendingStates => present(d, q)
    BY StoreAssumption DEF state_of
  <2>2. state_of(d, q) \in PendingStates => state_of(e, q) = state_of(d, q)
    BY <1>1, <2>1 DEF Untouched
  <2>. QED BY <2>2 DEF Carried
<1>. QED BY <1>1, <1>2, <1>3, <1>4

\* A write to one path, then retention.
LEMMA WriteIsHonest ==
    ASSUME NEW d \in Database, NEW w \in Database, NEW path \in Path, NEW entry \in Entry,
           NEW here,
           w.entries = [d.entries EXCEPT ![path] = entry],
           present(d, path) => at_least(entry.authority, authority_of(d, path)),
           entry.copyProvenance = NoCopy,
           \/ entry.state = state_of(d, path)
           \/ entry.revision >= d.nextRevision /\ \A x \in Path : <<path, x>> \notin w.before
    PROVE  Honest(d, run_retention(w, here, {}), here)
<1> DEFINE e == run_retention(w, here, {})
<1>1. Spares(w, e, here, {}, {}) /\ NotLatest(w, e)
  BY RetentionSpares
<1> HIDE DEF e
<1>2. \A q \in Path : w.entries[q] = IF q = path THEN entry ELSE d.entries[q]
  BY DEF Database
<1>3. ASSUME NEW q \in Path
      PROVE  /\ Forward(d, e, q) /\ CopyKept(d, e, q) /\ NotLost(d, e, q)
             /\ (q \in here /\ present(d, q) => present(e, q))
  <2>1. /\ Forward(w, e, q) /\ CopyKept(w, e, q) /\ Carried(w, e, q)
        /\ (q \in here /\ present(w, q) => present(e, q))
    BY <1>1, SpareIsHonest
  <2>2. /\ present(e, q) => present(w, q) /\ Untouched(w, e, q)
        /\ present(w, q) /\ ~present(e, q) =>
               /\ state_of(w, q) \notin PendingStates
               /\ \E x \in Path : <<q, x>> \in w.before
    BY <1>1 DEF Spares, NotLatest
  <2>3. CASE q # path
    <3>1. w.entries[q] = d.entries[q]
      BY <1>2, <2>3
    <3>2. /\ present(w, q) <=> present(d, q)
          /\ state_of(w, q) = state_of(d, q)
          /\ present(d, q) => /\ revision_of(w, q) = revision_of(d, q)
                              /\ authority_of(w, q) = authority_of(d, q)
                              /\ ids(w, q) = ids(d, q)
      BY <3>1 DEF present, state_of, revision_of, authority_of, ids, stages_of
    <3>3. Forward(d, e, q)
      BY <2>1, <3>2 DEF Forward
    <3>4. CopyKept(d, e, q)
      BY <2>1, <3>1, <3>2 DEF CopyKept
    <3>5. NotLost(d, e, q)
      <4>1. state_of(d, q) \in PendingStates => present(w, q)
        BY <3>2, StoreAssumption DEF state_of
      <4>2. state_of(d, q) \in PendingStates => state_of(e, q) = state_of(d, q)
        BY <2>2, <3>2, <4>1 DEF Untouched
      <4>. QED BY <4>2 DEF NotLost, Carried
    <3>. QED BY <2>1, <3>2, <3>3, <3>4, <3>5
  <2>4. CASE q = path
    <3>1. /\ present(w, q) /\ w.entries[q] = entry
          /\ revision_of(w, q) = entry.revision /\ state_of(w, q) = entry.state
          /\ authority_of(w, q) = entry.authority
      BY <1>2, <2>4, NoEntryAssumption DEF present, revision_of, state_of, authority_of
    <3>2. Forward(d, e, q)
      BY <2>2, <2>4, <3>1 DEF Forward, Untouched
    <3>3. present(e, q) => e.entries[q].copyProvenance = NoCopy
      BY <2>2, <3>1 DEF Untouched
    <3>4. CopyKept(d, e, q)
      BY <3>3 DEF CopyKept
    <3>5. NotLost(d, e, q)
      <4>1. CASE entry.state = state_of(d, path)
        <5>1. state_of(d, q) \in PendingStates => state_of(e, q) = state_of(d, q)
          BY <4>1, <2>2, <2>4, <3>1 DEF Untouched
        <5>. QED BY <5>1 DEF NotLost, Carried
      <4>2. CASE entry.revision >= d.nextRevision
                 /\ \A x \in Path : <<path, x>> \notin w.before
        BY <4>2, <2>2, <2>4, <3>1 DEF NotLost, Untouched
      <4>. QED BY <4>1, <4>2
    <3>. QED BY <2>1, <3>1, <3>2, <3>4, <3>5
  <2>. QED BY <2>3, <2>4
<1>. QED BY <1>3 DEF Honest, e

LEMMA RetentionHonest ==
    ASSUME NEW d \in Database, NEW w \in Database, w.entries = d.entries, NEW here,
           NEW protected
    PROVE  Honest(d, run_retention(w, here, protected), here)
<1> DEFINE e == run_retention(w, here, protected)
<1>1. Spares(w, e, here, protected, {})
  BY RetentionSpares
<1> HIDE DEF e
<1>2. ASSUME NEW q \in Path
      PROVE  /\ Forward(w, e, q) /\ CopyKept(w, e, q) /\ NotLost(d, e, q)
             /\ (q \in here /\ present(d, q) => present(e, q))
  <2>1. /\ Forward(w, e, q) /\ CopyKept(w, e, q) /\ Carried(w, e, q)
        /\ (q \in here /\ present(w, q) => present(e, q))
    BY <1>1, SpareIsHonest
  <2>. QED BY <2>1 DEF Carried, NotLost, state_of, present
<1>. QED BY <1>2 DEF Honest, Forward, CopyKept, present, state_of, revision_of, authority_of,
                 ids, stages_of, e

\* A transaction that writes one entry, which is used last if it is new or has a new state,
\* and runs retention.
LEMMA WriteThenRetain ==
    ASSUME NEW d, NEW r, NEW s, Fit(d, r, s), NEW path \in Path, NEW entry \in Entry,
           NEW written, Good(written, r, s),
           written.entries = [d.entries EXCEPT ![path] = entry], written.before = d.before,
           present(d, path) => at_least(entry.authority, authority_of(d, path)),
           entry.copyProvenance = NoCopy,
           NEW w, \/ w = refresh_order(written, path)
                  \/ w = written /\ present(d, path) /\ entry.state = state_of(d, path),
           entry.state = state_of(d, path) \/ entry.revision >= d.nextRevision, NEW here
    PROVE  Fit(run_retention(w, here, {}), r, s) /\ Honest(d, run_retention(w, here, {}), here)
<1>1. d \in Database /\ Ordered(d) /\ written \in Database
  BY DEF Fit, Good
<1>2. Good(w, r, s) /\ w \in Database
  BY RefreshKeeps DEF Good
<1>3. /\ w.entries = [d.entries EXCEPT ![path] = entry]
      /\ \/ entry.state = state_of(d, path)
         \/ entry.revision >= d.nextRevision /\ \A x \in Path : <<path, x>> \notin w.before
  BY <1>1, RefreshLast
<1>4. Ordered(w)
  BY <1>1, OrderedWrite
<1>. QED BY <1>1, <1>2, <1>3, <1>4, WriteIsHonest, RetentionFit DEF Fit

-----------------------------------------------------------------------------
(* The transactions *)

LEMMA WriteKeeps ==
    ASSUME NEW d, NEW r, NEW s, Fit(d, r, s), NEW path \in Path, NEW state \in State,
           NEW here
    PROVE  LET e == write_state(d, path, state, here) IN Fit(e, r, s) /\ Honest(d, e, here)
<1> DEFINE entry == [ revision |-> d.nextRevision, state |-> state,
                      authority |-> authority_of(d, path),
                      stages |-> stages_of(d, path), copyProvenance |-> NoCopy ]
           written == set_entry(allocate_revision(d), path, entry)
<1>1. d \in Database /\ d.nextRevision \in Nat
  BY DEF Fit, Good, Database
<1>2. /\ entry \in Entry /\ entry.revision = d.nextRevision
      /\ entry.authority = authority_of(d, path) /\ entry.copyProvenance = NoCopy
  BY <1>1, ReadTypes DEF Entry
<1>3. write_state(d, path, state, here) = run_retention(refresh_order(written, path), here, {})
  BY DEF write_state
<1> HIDE DEF entry
<1>4. Good(written, r, s)
  BY <1>2, FreshWriteKeeps DEF Fit
<1>5. written.entries = [d.entries EXCEPT ![path] = entry] /\ written.before = d.before
  BY <1>1, SetEntryAt
<1> HIDE DEF written
<1>6. at_least(entry.authority, authority_of(d, path)) /\ entry.revision >= d.nextRevision
  BY <1>1, <1>2, AtLeastReflexive
<1>. QED BY <1>2, <1>3, <1>4, <1>5, <1>6, WriteThenRetain

LEMMA TouchKeeps ==
    ASSUME NEW d, NEW r, NEW s, Fit(d, r, s), NEW path \in Path, NEW here
    PROVE  LET e == touch(d, path, here) IN Fit(e, r, s) /\ Honest(d, e, here)
<1> DEFINE w == IF present(d, path) THEN refresh_order(d, path) ELSE d
<1>1. d \in Database /\ Good(w, r, s)
  BY RefreshKeeps DEF Fit, Good
<1>2. w \in Database /\ w.entries = d.entries /\ Ordered(w)
  BY <1>1, RefreshLast, OrderedRefresh DEF Fit, Good
<1>3. touch(d, path, here) = run_retention(w, here, {})
  BY DEF touch
<1> HIDE DEF w
<1>. QED BY <1>1, <1>2, <1>3, RetentionHonest, RetentionFit DEF Fit

LEMMA StageKeeps ==
    ASSUME NEW d, NEW r, NEW s, Fit(d, r, s), NEW path \in Path, NEW stage \in Stage,
           NEW here
    PROVE  LET e == stage_authority_transaction(d, path, stage, here)
           IN  Fit(e, r, s) /\ Honest(d, e, here)
<1> DEFINE entry  == IF present(d, path) THEN d.entries[path]
                     ELSE empty_entry(d.absenceRevision)
           staged == [entry EXCEPT !.stages = {x \in entry.stages : x.id # stage.id} \cup {stage},
                                   !.copyProvenance = NoCopy]
           written == set_entry(d, path, staged)
           w == IF present(d, path) THEN written ELSE refresh_order(written, path)
<1>1. d \in Database /\ Good(d, r, s)
  BY DEF Fit, Good
<1>2. /\ entry \in Entry
      /\ entry.revision = revision_of(d, path)
      /\ entry.state = state_of(d, path)
      /\ entry.authority = authority_of(d, path)
  <2>1. CASE present(d, path)
    BY <2>1, <1>1, PresentEntry DEF revision_of, state_of, authority_of
  <2>2. CASE ~present(d, path)
    <3>1. empty_authority \in Authority
      BY DEF empty_authority, Authority
    <3>. QED BY <2>2, <3>1, <1>1, AuthorityStoreAssumption
             DEF revision_of, state_of, authority_of, empty_entry, Entry, Database
  <2>. QED BY <2>1, <2>2
<1>3. /\ staged \in Entry /\ staged.revision = entry.revision /\ staged.state = entry.state
      /\ staged.authority = entry.authority /\ staged.copyProvenance = NoCopy
  BY <1>2 DEF Entry
<1>4. stage_authority_transaction(d, path, stage, here) = run_retention(w, here, {})
  BY DEF stage_authority_transaction
<1> HIDE DEF entry, staged
<1>5. Good(written, r, s)
  BY <1>1, <1>2, <1>3, SameWriteKeeps
<1>6. written.entries = [d.entries EXCEPT ![path] = staged] /\ written.before = d.before
  BY <1>1, SetEntryAt
<1>7. at_least(staged.authority, authority_of(d, path)) /\ staged.state = state_of(d, path)
  BY <1>2, <1>3, AtLeastReflexive
<1> HIDE DEF written
<1>. QED BY <1>3, <1>4, <1>5, <1>6, <1>7, WriteThenRetain

LEMMA NamedStage ==
    ASSUME NEW d \in Database, NEW path \in Path, NEW id, stage_present(d, path, id)
    PROVE  /\ present(d, path)
           /\ stage_named(d, path, id) \in Stage
<1>1. present(d, path)
  BY DEF stage_present, stages_of
<1>2. stage_named(d, path, id) \in stages_of(d, path)
  BY DEF stage_present, stage_named
<1>. QED BY <1>1, <1>2, ReadTypes

LEMMA FinalizeKeeps ==
    ASSUME NEW d, NEW r, NEW s, Fit(d, r, s), NEW path \in Path, NEW id,
           finalize_accepts(d, path, id), NEW here
    PROVE  LET e == finalize_authority_transaction(d, path, id, here)
           IN  Fit(e, r, s) /\ Honest(d, e, here)
<1> DEFINE entry     == d.entries[path]
           stage     == stage_named(d, path, id)
           state     == IF stage.nextState = NoState THEN entry.state ELSE stage.nextState
           changed   == state # entry.state
           authority == advance(entry.authority, stage.kind, stage.physicalDigest)
           final     == [entry EXCEPT
                           !.revision = IF changed THEN d.nextRevision ELSE entry.revision,
                           !.state = state,
                           !.authority = authority,
                           !.stages = {x \in entry.stages : x.id # id},
                           !.copyProvenance = NoCopy]
           written   == set_entry(IF changed THEN allocate_revision(d) ELSE d, path, final)
<1>1. d \in Database /\ d.nextRevision \in Nat /\ Good(d, r, s)
  BY DEF Fit, Good, Database
<1>2. present(d, path) /\ entry \in Entry /\ stage \in Stage
  BY <1>1, NamedStage, PresentEntry DEF finalize_accepts
<1>3. state \in State
  BY <1>2, EntryFields DEF Stage
<1>4. authority \in Authority /\ at_least(authority, authority_of(d, path))
  <2>1. entry.authority \in Authority /\ stage.physicalDigest \in Digest \cup {NoDigest}
    BY <1>2, EntryFields DEF Stage
  <2>2. authority \in Authority
    BY <2>1, AdvanceType
  <2>3. dominates(authority, entry.authority)
    BY <2>1, CommitsDominate
  <2>4. at_least(authority, entry.authority)
    BY <2>3 DEF at_least, compare_authority
  <2>. QED BY <1>2, <2>2, <2>4 DEF authority_of
<1>5. /\ final \in Entry
      /\ final.revision = IF changed THEN d.nextRevision ELSE entry.revision
      /\ final.state = state /\ final.authority = authority
      /\ final.copyProvenance = NoCopy
  BY <1>1, <1>2, <1>3, <1>4 DEF Entry
<1>6. Good(written, r, s)
  <2>1. CASE changed
    BY <2>1, <1>1, <1>5, FreshWriteKeeps
  <2>2. CASE ~changed
    <3>1. final.revision = revision_of(d, path) /\ final.state = state_of(d, path)
      BY <2>2, <1>2, <1>5 DEF revision_of, state_of
    <3>. QED BY <3>1, <2>2, <1>1, <1>5, SameWriteKeeps
  <2>. QED BY <2>1, <2>2
<1>7. written.entries = [d.entries EXCEPT ![path] = final] /\ written.before = d.before
  BY <1>1, SetEntryAt
<1>8. finalize_authority_transaction(d, path, id, here)
         = run_retention(refresh_order(written, path), here, {})
  BY DEF finalize_authority_transaction
<1>9. final.state = state_of(d, path) \/ final.revision >= d.nextRevision
  BY <1>1, <1>2, <1>5 DEF state_of
<1> HIDE DEF final, written, authority
<1>. QED BY <1>4, <1>5, <1>6, <1>7, <1>8, <1>9, WriteThenRetain

LEMMA DiscardKeeps ==
    ASSUME NEW d, NEW r, NEW s, Fit(d, r, s), NEW path \in Path, NEW id,
           stage_present(d, path, id), NEW here
    PROVE  LET e == discard_authority_transaction(d, path, id, here)
           IN  Fit(e, r, s) /\ Honest(d, e, here)
<1> DEFINE entry   == [d.entries[path] EXCEPT
                         !.stages = {x \in d.entries[path].stages : x.id # id},
                         !.copyProvenance = NoCopy]
           written == [d EXCEPT !.entries[path].stages = {x \in @ : x.id # id},
                                !.entries[path].copyProvenance = NoCopy]
<1>1. d \in Database /\ Good(d, r, s)
  BY DEF Fit, Good
<1>2. present(d, path) /\ d.entries[path] \in Entry
  BY <1>1, NamedStage, PresentEntry
<1>3. /\ entry \in Entry
      /\ entry.revision = revision_of(d, path)
      /\ entry.state = state_of(d, path)
      /\ entry.authority = authority_of(d, path)
      /\ entry.copyProvenance = NoCopy
  BY <1>2 DEF Entry, revision_of, state_of, authority_of
<1>4. written = set_entry(d, path, entry)
  BY <1>1, <1>2 DEF set_entry, Database, Entry
<1>5. discard_authority_transaction(d, path, id, here) = run_retention(written, here, {})
  BY DEF discard_authority_transaction
<1> HIDE DEF entry, written
<1>6. Good(written, r, s)
  BY <1>1, <1>3, <1>4, SameWriteKeeps
<1>7. written.entries = [d.entries EXCEPT ![path] = entry] /\ written.before = d.before
  BY <1>1, <1>4, SetEntryAt
<1>8. at_least(entry.authority, authority_of(d, path))
  BY <1>3, AtLeastReflexive
<1>. QED BY <1>2, <1>3, <1>5, <1>6, <1>7, <1>8, WriteThenRetain

LEMMA RebaseType ==
    ASSUME NEW stages \in SUBSET Stage, NEW from, NEW to \in Nat
    PROVE  rebase_stages(stages, from, to) \in SUBSET Stage
<1>. SUFFICES ASSUME NEW x \in stages
              PROVE  [x EXCEPT !.expectedStateRevision =
                         IF x.expectedStateRevision = from THEN to
                         ELSE x.expectedStateRevision] \in Stage
  BY DEF rebase_stages
<1>1. x \in Stage
  OBVIOUS
<1>. QED BY <1>1 DEF Stage

\* A canonicalization that does not throw has a winner among the entries it merges.
LEMMA WinnerExists ==
    ASSUME NEW d, NEW canonical \in Path,
           needs_canonicalization(d, canonical, CanonicalKey),
           ~canonicalize_throws(d, canonical, CanonicalKey)
    PROVE  LET candidates == canonical_matches(d, canonical, CanonicalKey)
               winner     == choose_canonical_winner(d, canonical, candidates)
           IN  /\ winner \in candidates
               /\ is_winner(d, canonical, candidates, winner)
               /\ winner \in Path /\ present(d, winner)
<1> DEFINE candidates == canonical_matches(d, canonical, CanonicalKey)
<1>1. ~reduction_throws(d, canonical, candidates)
  BY DEF canonicalize_throws
<1>2. \E w \in candidates : is_winner(d, canonical, candidates, w)
  BY <1>1 DEF reduction_throws
<1>3. choose_canonical_winner(d, canonical, candidates) \in
         {w \in candidates : is_winner(d, canonical, candidates, w)}
  BY <1>2 DEF choose_canonical_winner
<1>. QED BY <1>3 DEF canonical_matches, present_paths

LEMMA RebaseKeepsIds ==
    ASSUME NEW stages \in SUBSET Stage, NEW from, NEW to
    PROVE  {x.id : x \in rebase_stages(stages, from, to)} = {x.id : x \in stages}
<1> DEFINE f(x) == [x EXCEPT !.expectedStateRevision =
                       IF x.expectedStateRevision = from THEN to ELSE x.expectedStateRevision]
<1>1. \A x \in stages : f(x).id = x.id
  BY DEF Stage
<1>2. rebase_stages(stages, from, to) = {f(x) : x \in stages}
  BY DEF rebase_stages
<1> HIDE DEF f
<1>. QED BY <1>1, <1>2

\* The entry that canonicalization writes.
LEMMA CanonicalEntry ==
    ASSUME NEW d \in Database, NEW canonical \in Path, NEW winner \in Path, present(d, winner)
    PROVE  LET moved == ~present(d, canonical)
               fresh == moved /\ ~PreserveRevision
               entry == canonical_entry(d, canonical, winner)
           IN  /\ entry \in Entry
               /\ entry.revision = IF fresh THEN d.nextRevision ELSE revision_of(d, winner)
               /\ entry.state = state_of(d, winner)
               /\ entry.authority = authority_of(d, winner)
               /\ entry.copyProvenance = IF winner = canonical \/ (moved /\ PreserveRevision)
                                         THEN d.entries[winner].copyProvenance ELSE NoCopy
               /\ {x.id : x \in entry.stages} = ids(d, winner)
<1> DEFINE moved    == ~present(d, canonical)
           fresh    == moved /\ ~PreserveRevision
           entry    == canonical_entry(d, canonical, winner)
           old      == d.entries[winner]
           revision == IF fresh THEN d.nextRevision ELSE old.revision
           stages   == rebase_stages(old.stages, old.revision, revision)
           copy     == IF winner = canonical \/ (moved /\ PreserveRevision)
                       THEN old.copyProvenance ELSE NoCopy
<1>1. old \in Entry /\ d.nextRevision \in Nat
  BY PresentEntry DEF Database
<1>2. revision \in Nat /\ stages \in SUBSET Stage
      /\ copy \in [id : CopyId, sourcePath : Path] \cup {NoCopy}
  BY <1>1, EntryFields, RebaseType
<1>3. {x.id : x \in stages} = {x.id : x \in old.stages}
  BY <1>1, EntryFields, RebaseKeepsIds
<1>4. entry = [old EXCEPT !.revision = revision, !.stages = stages, !.copyProvenance = copy]
  BY DEF canonical_entry
<1>5. /\ old.revision = revision_of(d, winner) /\ old.state = state_of(d, winner)
      /\ old.authority = authority_of(d, winner)
      /\ {x.id : x \in old.stages} = ids(d, winner)
  BY DEF revision_of, state_of, authority_of, ids, stages_of
<1> HIDE DEF entry, stages, copy
<1>6. /\ entry \in Entry /\ entry.revision = revision
      /\ entry.state = old.state /\ entry.authority = old.authority
      /\ entry.copyProvenance = copy /\ entry.stages = stages
  BY <1>1, <1>2, <1>4 DEF Entry
<1>. QED BY <1>3, <1>5, <1>6 DEF copy, entry

LEMMA CanonicalizeFit ==
    ASSUME NEW d, NEW r, NEW s, Fit(d, r, s), NEW canonical \in Path,
           ~canonicalize_throws(d, canonical, CanonicalKey)
    PROVE  Fit(canonicalize_in_transaction(d, canonical, CanonicalKey), r, s)
<1> DEFINE candidates == canonical_matches(d, canonical, CanonicalKey)
           moved      == ~present(d, canonical)
           winner     == choose_canonical_winner(d, canonical, candidates)
           fresh      == moved /\ ~PreserveRevision
           entry      == canonical_entry(d, canonical, winner)
           written    == set_entry(IF fresh THEN allocate_revision(d) ELSE d, canonical, entry)
           counted    == IF moved THEN refresh_order(written, canonical) ELSE written
<1>1. d \in Database /\ d.nextRevision \in Nat /\ Good(d, r, s) /\ Ordered(d)
  BY DEF Fit, Good, Database
<1>2. SUFFICES ASSUME needs_canonicalization(d, canonical, CanonicalKey)
               PROVE  Fit(canonicalize_in_transaction(d, canonical, CanonicalKey), r, s)
  BY DEF canonicalize_in_transaction
<1>3. winner \in Path /\ present(d, winner)
  BY <1>2, WinnerExists
<1>4. /\ entry \in Entry
      /\ entry.revision = IF fresh THEN d.nextRevision ELSE revision_of(d, winner)
      /\ entry.state = state_of(d, winner)
  BY <1>1, <1>3, CanonicalEntry
<1>5. canonicalize_in_transaction(d, canonical, CanonicalKey) =
         remove_entries(counted, candidates \ {canonical})
  BY <1>2 DEF canonicalize_in_transaction
<1> HIDE DEF entry
<1>6. Good(written, r, s)
  <2>1. CASE fresh
    BY <2>1, <1>1, <1>4, FreshWriteKeeps
  <2>2. CASE ~fresh
    BY <2>2, <1>1, <1>3, <1>4, SameWriteKeeps
  <2>. QED BY <2>1, <2>2
<1>7. written.entries = [d.entries EXCEPT ![canonical] = entry] /\ written.before = d.before
  BY <1>1, SetEntryAt
<1> HIDE DEF written
<1>8. Good(counted, r, s) /\ written \in Database /\ counted \in Database
  BY <1>6, RefreshKeeps DEF Good
<1>9. Ordered(counted)
  BY <1>1, <1>4, <1>7, <1>8, OrderedWrite
<1> HIDE DEF counted
<1>. QED BY <1>5, <1>8, <1>9, OrderedRemove, RemoveKeeps DEF Fit

\* What canonicalization does to each entry.  An alias is gone; nothing else is.
Merges(d, c, canonical) ==
    \A q \in Path :
       /\ Forward(d, c, q)
       /\ CopyKept(d, c, q)
       /\ Carried(d, c, q)
       /\ present(d, q) /\ ~present(c, q) =>
             /\ q # canonical
             /\ needs_canonicalization(d, canonical, CanonicalKey)
             /\ q \in canonical_matches(d, canonical, CanonicalKey)

LEMMA CanonicalizeMerges ==
    ASSUME NEW d, NEW r, NEW s, Good(d, r, s), NEW canonical \in Path,
           CanonicalKey[canonical] = canonical,
           ~canonicalize_throws(d, canonical, CanonicalKey)
    PROVE  Merges(d, canonicalize_in_transaction(d, canonical, CanonicalKey), canonical)
<1> DEFINE candidates == canonical_matches(d, canonical, CanonicalKey)
           moved      == ~present(d, canonical)
           winner     == choose_canonical_winner(d, canonical, candidates)
           fresh      == moved /\ ~PreserveRevision
           entry      == canonical_entry(d, canonical, winner)
           written    == set_entry(IF fresh THEN allocate_revision(d) ELSE d, canonical, entry)
           counted    == IF moved THEN refresh_order(written, canonical) ELSE written
           c          == canonicalize_in_transaction(d, canonical, CanonicalKey)
<1>1. d \in Database /\ d.nextRevision \in Nat
  BY DEF Good, Database
<1>2. CASE ~needs_canonicalization(d, canonical, CanonicalKey)
  <2>1. c = d
    BY <1>2 DEF canonicalize_in_transaction
  <2>. QED BY <2>1, AtLeastReflexive DEF Merges, Forward, CopyKept, Carried
<1>3. CASE needs_canonicalization(d, canonical, CanonicalKey)
  <2>1. /\ winner \in candidates /\ winner \in Path /\ present(d, winner)
        /\ is_winner(d, canonical, candidates, winner)
    BY <1>3, WinnerExists
  <2>3. pending_safe(d, candidates, winner)
    BY <1>3 DEF canonicalize_throws
  <2>4. /\ entry \in Entry
        /\ entry.revision = IF fresh THEN d.nextRevision ELSE revision_of(d, winner)
        /\ entry.state = state_of(d, winner)
        /\ entry.authority = authority_of(d, winner)
        /\ entry.copyProvenance = IF winner = canonical \/ (moved /\ PreserveRevision)
                                  THEN d.entries[winner].copyProvenance ELSE NoCopy
        /\ {x.id : x \in entry.stages} = ids(d, winner)
    BY <1>1, <2>1, CanonicalEntry
  <2>5. /\ written.entries = [d.entries EXCEPT ![canonical] = entry]
        /\ written.nextRevision \in Nat
    BY <1>1, SetEntryAt DEF set_entry, allocate_revision, Database
  <2>6. Good(written, r, s)
    <3> HIDE DEF entry
    <3>1. CASE fresh
      BY <3>1, <2>4, FreshWriteKeeps
    <3>2. CASE ~fresh
      BY <3>2, <2>1, <2>4, SameWriteKeeps
    <3>. QED BY <3>1, <3>2
  <2>7. counted.entries = written.entries /\ counted \in Database
    <3> HIDE DEF written
    <3>. QED BY <2>6, RefreshKeeps, RefreshLast DEF Good
  <2>8. c = remove_entries(counted, candidates \ {canonical})
    BY <1>3 DEF canonicalize_in_transaction, counted, written, entry
  <2> HIDE DEF counted, written, entry, c
  <2>9. c.entries = [p \in Path |-> IF p \in candidates \ {canonical} THEN NoEntry
                                    ELSE counted.entries[p]]
    BY <2>7, <2>8 DEF remove_entries, allocate_revision, delete_entries, Database
  <2>10. /\ c.entries[canonical] = entry
         /\ \A q \in Path : q # canonical =>
               c.entries[q] = IF q \in candidates THEN NoEntry ELSE d.entries[q]
    BY <1>1, <2>5, <2>7, <2>9 DEF Database
  <2>11. /\ present(c, canonical)
         /\ revision_of(c, canonical) = entry.revision
         /\ state_of(c, canonical) = state_of(d, winner)
         /\ authority_of(c, canonical) = authority_of(d, winner)
         /\ ids(c, canonical) = ids(d, winner)
    BY <2>4, <2>10, NoEntryAssumption
       DEF present, revision_of, state_of, authority_of, ids, stages_of
  <2>12. \A q \in Path : q # canonical /\ present(c, q) =>
            q \notin candidates /\ c.entries[q] = d.entries[q]
    BY <2>10 DEF present
  <2>13. \A q \in Path : q # canonical /\ q \notin candidates => c.entries[q] = d.entries[q]
    BY <2>10
  <2>14. \A q \in candidates : q = canonical \/ CanonicalKey[q] = canonical
    BY DEF canonical_matches
  <2>15. ASSUME NEW q \in Path, q # canonical
         PROVE  /\ Forward(d, c, q) /\ CopyKept(d, c, q) /\ Carried(d, c, q)
                /\ present(d, q) /\ ~present(c, q) => q \in candidates
    <3>1. CASE q \in candidates
      <4>1. ~present(c, q)
        BY <2>12, <2>15, <3>1
      <4>2. state_of(d, q) \in PendingStates => state_of(c, canonical) = state_of(d, q)
        BY <2>3, <2>11, <3>1 DEF pending_safe
      <4>3. CanonicalKey[q] = canonical
        BY <2>14, <2>15, <3>1
      <4>4. Carried(d, c, q)
        BY <4>2, <4>3 DEF Carried
      <4>. QED BY <3>1, <4>1, <4>4 DEF Forward, CopyKept
    <3>2. CASE q \notin candidates
      <4>1. c.entries[q] = d.entries[q]
        BY <2>13, <2>15, <3>2
      <4>2. /\ present(c, q) <=> present(d, q)
            /\ revision_of(d, q) = revision_of(c, q) \/ ~present(d, q)
            /\ state_of(d, q) = state_of(c, q)
            /\ authority_of(d, q) = authority_of(c, q)
            /\ ids(d, q) = ids(c, q)
        BY <4>1 DEF present, revision_of, state_of, authority_of, ids, stages_of
      <4>3. Forward(d, c, q) /\ Carried(d, c, q)
        BY <4>2, AtLeastReflexive DEF Forward, Carried
      <4>4. CopyKept(d, c, q)
        BY <4>2 DEF CopyKept
      <4>. QED BY <4>2, <4>3, <4>4
    <3>. QED BY <3>1, <3>2
  <2>16. Forward(d, c, canonical) /\ CopyKept(d, c, canonical) /\ Carried(d, c, canonical)
    <3>1. present(d, canonical) => canonical \in candidates
      BY DEF canonical_matches, present_paths
    <3>2. Forward(d, c, canonical)
      <4>1. CASE winner = canonical
        BY <4>1, <2>11, AtLeastReflexive DEF Forward
      <4>2. CASE winner # canonical
        <5>1. present(d, canonical) => preferred(d, canonical, winner, canonical)
          BY <2>1, <3>1, <4>2 DEF is_winner
        <5>. QED BY <5>1, <2>11 DEF Forward, preferred, at_least
      <4>. QED BY <4>1, <4>2
    <3>3. CopyKept(d, c, canonical)
      <4>1. CASE winner = canonical
        <5>1. present(d, canonical) => revision_of(c, canonical) = revision_of(d, canonical)
          BY <2>4, <2>11, <4>1
        <5>. QED BY <5>1, <2>11, <4>1 DEF CopyKept
      <4>2. CASE winner # canonical
        <5>1. present(d, canonical) => c.entries[canonical].copyProvenance = NoCopy
          BY <2>4, <2>10, <4>2
        <5>. QED BY <5>1 DEF CopyKept
      <4>. QED BY <4>1, <4>2
    <3>4. Carried(d, c, canonical)
      <4>1. state_of(d, canonical) \in PendingStates => present(d, canonical)
        BY StoreAssumption DEF state_of
      <4>2. state_of(d, canonical) \in PendingStates =>
               state_of(c, canonical) = state_of(d, canonical)
        BY <4>1, <3>1, <2>3, <2>11 DEF pending_safe
      <4>. QED BY <4>2 DEF Carried
    <3>. QED BY <3>2, <3>3, <3>4
  <2>. QED BY <1>3, <2>11, <2>15, <2>16 DEF Merges, c
<1>. QED BY <1>2, <1>3

\* The entry that a copy makes.
LEMMA CopiedEntry ==
    ASSUME NEW d \in Database, NEW source \in Path, present(d, source), NEW id \in CopyId
    PROVE  /\ copied_entry(d, source, id) \in Entry
           /\ copied_entry(d, source, id).revision = d.nextRevision
<1> DEFINE old    == d.entries[source]
           stages == rebase_stages(old.stages, old.revision, d.nextRevision)
           copy   == [id |-> id, sourcePath |-> source]
<1>1. old \in Entry /\ d.nextRevision \in Nat
  BY PresentEntry DEF Database
<1>2. stages \in SUBSET Stage
  BY <1>1, EntryFields, RebaseType
<1>3. copied_entry(d, source, id) =
         [old EXCEPT !.revision = d.nextRevision, !.stages = stages, !.copyProvenance = copy]
  BY DEF copied_entry
<1>4. copy \in [id : CopyId, sourcePath : Path] \cup {NoCopy}
  OBVIOUS
<1> HIDE DEF stages, old, copy
<1>. QED BY <1>1, <1>2, <1>3, <1>4 DEF Entry

\* copy_in_transaction makes an entry where there was none, and evicts.
LEMMA CopyKeeps ==
    ASSUME NEW d, NEW r, NEW s, Fit(d, r, s), NEW source \in Path, NEW destination \in Path,
           NEW id \in CopyId, NEW recovery, NEW here
    PROVE  LET e == copy_in_transaction(d, source, destination, id, recovery, here)
           IN  /\ Fit(e, r, s)
               /\ Spares(d, e, here, {source, destination}, {destination})
<1> DEFINE cleaned == cleanup_stale_stages(d)
           entry   == copied_entry(cleaned, source, id)
           copied  == set_entry(allocate_revision(cleaned), destination, entry)
           fresh   == refresh_order(copied, destination)
           sides   == {source, destination}
           kept(e) == Fit(e, r, s) /\ Spares(d, e, here, sides, {destination})
<1>1. /\ d \in Database /\ Fit(cleaned, r, s)
      /\ Good(cleaned, r, s) /\ cleaned \in Database /\ Ordered(cleaned)
  BY CleanupFit DEF Fit, Good
<1>2. kept(d)
  BY DEF Spares, Untouched
<1>3. kept(run_retention(d, here, sides))
  <2>1. Spares(d, run_retention(d, here, sides), here, sides, {})
    BY <1>1, RetentionSpares
  <2>. QED BY <2>1, RetentionFit DEF Spares
<1>4. ASSUME present(d, source), ~present(d, destination)
      PROVE  kept(evict_entries(fresh, here, sides))
  <2>1. /\ Spares(d, cleaned, here, sides, {})
        /\ \A q \in Path : present(cleaned, q) <=> present(d, q)
    BY <1>1, CleanupSpares
  <2> HIDE DEF cleaned
  <2>2. entry \in Entry /\ entry.revision = cleaned.nextRevision
    BY <1>1, <1>4, <2>1, CopiedEntry
  <2> HIDE DEF entry
  <2>3. Good(copied, r, s)
    BY <1>1, <2>2, FreshWriteKeeps
  <2>4. copied.entries = [cleaned.entries EXCEPT ![destination] = entry]
        /\ copied.before = cleaned.before
    BY <1>1, SetEntryAt
  <2> HIDE DEF copied
  <2>5. Good(fresh, r, s) /\ copied \in Database /\ fresh \in Database
    BY <2>3, RefreshKeeps DEF Good
  <2>6. fresh.entries = copied.entries
    BY <2>5, RefreshLast
  <2>7. Ordered(fresh)
    BY <1>1, <2>2, <2>4, <2>5, OrderedWrite
  <2>8. \A q \in Path : fresh.entries[q] = IF q = destination THEN entry ELSE cleaned.entries[q]
    BY <1>1, <2>4, <2>6 DEF Database
  <2> DEFINE x == evict_entries(fresh, here, sides)
  <2> HIDE DEF fresh
  <2>9. Spares(fresh, x, here, sides, {}) /\ Fit(x, r, s)
    BY <2>5, <2>7, EvictSpares, EvictFit DEF Fit
  <2> HIDE DEF x
  <2>10. ASSUME NEW q \in Path
         PROVE  /\ present(x, q) => \/ present(d, q) /\ Untouched(d, x, q)
                                    \/ q = destination /\ ~present(d, q)
                /\ present(d, q) /\ ~present(x, q) =>
                       /\ q \notin sides /\ q \notin here
                       /\ state_of(d, q) \notin PendingStates
    <3>1. /\ present(x, q) => present(fresh, q) /\ Untouched(fresh, x, q)
          /\ present(fresh, q) /\ ~present(x, q) =>
                 /\ q \notin sides /\ q \notin here
                 /\ state_of(fresh, q) \notin PendingStates
      BY <2>9 DEF Spares
    <3>2. CASE q = destination
      BY <3>2, <1>4
    <3>3. CASE q # destination
      <4>1. fresh.entries[q] = cleaned.entries[q]
        BY <2>8, <3>3
      <4>2. present(fresh, q) <=> present(d, q)
        BY <4>1, <2>1 DEF present
      <4>3. present(d, q) => Untouched(d, fresh, q)
        BY <4>1, <4>2, <2>1 DEF Spares, Untouched, present, revision_of, state_of, authority_of,
                                ids, stages_of
      <4>4. present(d, q) /\ present(x, q) => Untouched(d, x, q)
        BY <4>3, <3>1 DEF Untouched
      <4>5. present(d, q) => state_of(fresh, q) = state_of(d, q)
        BY <4>3 DEF Untouched
      <4>. QED BY <3>1, <3>3, <4>2, <4>4, <4>5
    <3>. QED BY <3>2, <3>3
  <2>. QED BY <2>9, <2>10 DEF Spares, x
<1>. QED BY <1>2, <1>3, <1>4 DEF copy_in_transaction

\* A canonicalization, followed by retention or by a copy to the canonical path.
LEMMA MergeThenSpare ==
    ASSUME NEW d, NEW c, NEW e, NEW canonical \in Path, NEW here, NEW after, NEW sides,
           Merges(d, c, canonical), Spares(c, e, here, sides, {canonical}), canonical \in sides,
           \A q \in after : q = canonical \/ q \in here,
           needs_canonicalization(d, canonical, CanonicalKey) =>
              \A q \in after :
                 q = canonical \/ q \notin canonical_matches(d, canonical, CanonicalKey)
    PROVE  Honest(d, e, after)
<1>1. ASSUME NEW q \in Path
      PROVE  /\ Forward(d, e, q) /\ CopyKept(d, e, q) /\ NotLost(d, e, q)
             /\ (q \in after /\ present(d, q) => present(e, q))
  <2>1. /\ Forward(d, c, q) /\ CopyKept(d, c, q) /\ Carried(d, c, q)
        /\ present(d, q) /\ ~present(c, q) =>
              /\ q # canonical
              /\ needs_canonicalization(d, canonical, CanonicalKey)
              /\ q \in canonical_matches(d, canonical, CanonicalKey)
    BY DEF Merges
  <2>2. /\ present(e, q) => \/ present(c, q) /\ Untouched(c, e, q)
                            \/ q = canonical /\ ~present(c, q)
        /\ present(c, q) /\ ~present(e, q) => q \notin sides /\ q \notin here
    BY DEF Spares
  <2>3. present(d, q) /\ present(e, q) => present(c, q) /\ Untouched(c, e, q)
    BY <2>1, <2>2
  <2>4. Forward(d, e, q)
    BY <2>1, <2>3 DEF Forward, Untouched
  <2>5. CopyKept(d, e, q)
    BY <2>1, <2>3 DEF CopyKept, Untouched
  <2>6. NotLost(d, e, q)
    <3>1. ASSUME NEW p \in Path, state_of(c, p) \in PendingStates
          PROVE  state_of(e, p) = state_of(c, p)
      <4>1. present(c, p)
        BY <3>1, StoreAssumption DEF state_of
      <4>2. present(e, p)
        BY <3>1, <4>1 DEF Spares
      <4>. QED BY <4>1, <4>2 DEF Spares, Untouched
    <3>. QED BY <2>1, <3>1 DEF Carried, NotLost
  <2>. QED BY <2>1, <2>2, <2>4, <2>5, <2>6
<1>. QED BY <1>1 DEF Honest

\* No lease is left at an alias that was merged away.
LEMMA MovedLeases ==
    ASSUME NEW d, NEW canonical \in Path, NEW session,
           leases \in [Lease -> Path \cup {NoPath}],
           NEW q \in leased_here(move_leases(leases, d, canonical, CanonicalKey), session),
           needs_canonicalization(d, canonical, CanonicalKey)
    PROVE  q = canonical \/ q \notin canonical_matches(d, canonical, CanonicalKey)
<1>1. PICK l \in Lease : q = move_leases(leases, d, canonical, CanonicalKey)[l]
  BY DEF leased_here
<1>. QED BY <1>1 DEF move_leases


\* trim: only confirmed edits are lost.
LEMMA TrimHonest ==
    ASSUME NEW d \in Database, NEW requested, NEW confirmed, NEW here, NEW q \in Path
    PROVE  LET e == remove_entries(d, trim_targets(d, requested, confirmed, here))
           IN  /\ Forward(d, e, q) /\ CopyKept(d, e, q)
               /\ q \in confirmed \/ NotLost(d, e, q)
               /\ (q \in here /\ present(d, q) => present(e, q))
<1> DEFINE targets == trim_targets(d, requested, confirmed, here)
           e == remove_entries(d, targets)
<1>1. e.entries = [p \in Path |-> IF p \in targets THEN NoEntry ELSE d.entries[p]]
  BY DEF remove_entries, allocate_revision, delete_entries, Database
<1>2. q \in targets => /\ q \notin here
                       /\ state_of(d, q) \in PendingStates => q \in confirmed
  BY DEF trim_targets
<1> HIDE DEF e, targets
<1>3. CASE q \in targets
  <2>1. ~present(e, q)
    BY <1>1, <1>3 DEF present
  <2>. QED BY <2>1, <1>2, <1>3 DEF Forward, CopyKept, NotLost, Carried, e, targets
<1>4. CASE q \notin targets
  <2>1. e.entries[q] = d.entries[q]
    BY <1>1, <1>4
  <2>2. /\ present(e, q) <=> present(d, q)
        /\ revision_of(d, q) = revision_of(e, q) \/ ~present(d, q)
        /\ state_of(d, q) = state_of(e, q)
        /\ authority_of(d, q) = authority_of(e, q)
        /\ ids(d, q) = ids(e, q)
    BY <2>1 DEF present, revision_of, state_of, authority_of, ids, stages_of
  <2>3. Forward(d, e, q) /\ NotLost(d, e, q)
    BY <2>2, AtLeastReflexive DEF Forward, NotLost, Carried
  <2>4. CopyKept(d, e, q)
    BY <2>2 DEF CopyKept
  <2>. QED BY <2>2, <2>3, <2>4 DEF e, targets
<1>. QED BY <1>3, <1>4


\* Canonicalization leaves leases where leases are: at paths.
LEMMA MoveLeasesType ==
    ASSUME NEW held \in [Lease -> Path \cup {NoPath}], NEW d, NEW canonical \in Path
    PROVE  move_leases(held, d, canonical, CanonicalKey) \in [Lease -> Path \cup {NoPath}]
BY DEF move_leases

\* StagesAge touches nothing but stages.
\* StagesAge touches nothing but how old stages are.
LEMMA AgeKeeps ==
    ASSUME NEW r, NEW s, Fit(db, r, s), StagesAge
    PROVE  Fit(db', r, s) /\ Honest(db, db', {})
<1>1. db \in Database
  BY DEF Fit, Good
<1>2. /\ db'.nextRevision = db.nextRevision
      /\ db'.absenceRevision = db.absenceRevision
      /\ db'.before = db.before
      /\ db'.entries = [p \in Path |-> IF present(db, p) THEN aged(db.entries[p])
                                       ELSE db.entries[p]]
      /\ db' \in [entries : {db'.entries}, absenceRevision : {db.absenceRevision},
                  nextRevision : {db.nextRevision}, before : {db.before}]
  BY <1>1 DEF StagesAge, Database
<1>3. ASSUME NEW q \in Path, present(db, q)
      PROVE  /\ db'.entries[q] \in Entry
             /\ db'.entries[q].revision = db.entries[q].revision
             /\ db'.entries[q].state = db.entries[q].state
             /\ db'.entries[q].authority = db.entries[q].authority
             /\ {x.id : x \in db'.entries[q].stages} = ids(db, q)
  <2> DEFINE old == db.entries[q]
             older(x) == [x EXCEPT !.stale = TRUE]
             stages == {older(x) : x \in old.stages}
  <2>1. old \in Entry
    BY <1>1, <1>3, PresentEntry
  <2>2. stages \in SUBSET Stage /\ {x.id : x \in stages} = {x.id : x \in old.stages}
    <3>1. \A x \in Stage : older(x) \in Stage /\ older(x).id = x.id
      BY DEF Stage
    <3>2. old.stages \subseteq Stage
      BY <2>1, EntryFields
    <3> HIDE DEF older
    <3>. QED BY <3>1, <3>2
  <2>3. db'.entries[q] = [old EXCEPT !.stages = stages]
    BY <1>2, <1>3 DEF aged
  <2> HIDE DEF stages
  <2>4. /\ db'.entries[q] \in Entry
        /\ db'.entries[q].revision = old.revision /\ db'.entries[q].state = old.state
        /\ db'.entries[q].authority = old.authority /\ db'.entries[q].stages = stages
    BY <2>1, <2>2, <2>3 DEF Entry
  <2>. QED BY <1>3, <2>2, <2>4 DEF ids, stages_of
<1>4. \A q \in Path : ~present(db, q) => db'.entries[q] = db.entries[q]
  BY <1>2
<1>5. \A q \in Path : present(db', q) <=> present(db, q)
  BY <1>3, <1>4, NoEntryAssumption DEF present
<1>6. db' \in Database
  <2>1. db'.entries \in [Path -> Entry \cup {NoEntry}]
    BY <1>1, <1>2, <1>3, <1>4 DEF Database
  <2>. QED BY <1>1, <1>2, <2>1 DEF Database
<1>7. Fit(db', r, s)
  BY <1>2, <1>3, <1>5, <1>6, SameVersions, OrderedSame DEF Fit
<1>8. ASSUME NEW q \in Path, present(db, q)
      PROVE  /\ revision_of(db', q) = revision_of(db, q)
             /\ state_of(db', q) = state_of(db, q)
             /\ authority_of(db', q) = authority_of(db, q)
             /\ ids(db', q) = ids(db, q)
  BY <1>3, <1>5, <1>8 DEF revision_of, state_of, authority_of, ids, stages_of
<1>9. \A q \in Path : state_of(db, q) \in PendingStates => present(db, q)
  BY StoreAssumption DEF state_of
<1>10. \A q \in Path : Forward(db, db', q)
  BY <1>8, AtLeastReflexive DEF Forward
<1>11. \A q \in Path : CopyKept(db, db', q)
  BY <1>8 DEF CopyKept
<1>12. \A q \in Path : NotLost(db, db', q)
  BY <1>8, <1>9 DEF NotLost, Carried
<1>. QED BY <1>7, <1>10, <1>11, <1>12 DEF Honest

-----------------------------------------------------------------------------
(* The steps *)

LEMMA InitIInv == Init => IInv
<1>. SUFFICES ASSUME Init PROVE IInv
  OBVIOUS
<1>1. db \in Database /\ \A p \in Path : ~present(db, p)
  BY DEF Init, Database, present
<1>2. Sound(db)
  BY <1>1 DEF Init, Sound
<1>3. Ordered(db)
  BY <1>1 DEF Init, Ordered, present_paths
<1>4. PICK path \in Path : reader = version_of(db, path)
  BY DEF Init
<1>5. reader \in Version
  BY <1>1, <1>4, ReadTypes DEF version_of, Version
<1>6. Names(db, reader.revision, reader.state)
  BY <1>1, <1>2, <1>4, ReadNames DEF version_of
<1>7. leases \in [Lease -> Path \cup {NoPath}]
  BY DEF Init
<1>. QED BY <1>1, <1>2, <1>3, <1>5, <1>6, <1>7 DEF IInv, TypeOK, Fit, Good

\* A step that leaves the reader alone only has to keep its version good.
LEMMA WriteStep ==
    ASSUME IInv, Fit(db', reader.revision, reader.state),
           leases' \in [Lease -> Path \cup {NoPath}], UNCHANGED reader
    PROVE  IInv'
<1>1. reader' = reader /\ reader' \in Version
  BY DEF IInv, TypeOK
<1>2. Fit(db', reader'.revision, reader'.state)
  BY <1>1
<1>. QED BY <1>1, <1>2 DEF IInv, TypeOK, Fit, Good

\* A transaction that leaves the leases alone.
LEMMA CommitStep ==
    ASSUME IInv, NEW session, NEW next, Commit(next),
           Fit(next, reader.revision, reader.state),
           Honest(db, next, leased_here(leases, session))
    PROVE  IInv' /\ Honest(db, db', held_through(session))
<1>1. /\ db' = next /\ leases' = leases /\ UNCHANGED reader
      /\ leases \in [Lease -> Path \cup {NoPath}]
  BY DEF Commit, IInv, TypeOK
<1>2. IInv'
  BY <1>1, WriteStep
<1>3. held_through(session) = leased_here(leases, session)
  BY <1>1 DEF held_through
<1>. QED BY <1>1, <1>2, <1>3

\* A read takes note of a version that the database shows.
LEMMA ReadStep ==
    ASSUME IInv, NEW path \in Path, Read(path)
    PROVE  IInv'
<1>1. /\ db \in Database /\ Sound(db) /\ db' = db /\ leases' = leases
      /\ leases \in [Lease -> Path \cup {NoPath}] /\ Ordered(db)
  BY DEF IInv, TypeOK, Fit, Good, Read
<1>2. reader' = version_of(db, path)
  BY DEF Read
<1>3. reader' \in Version
  BY <1>1, <1>2, ReadTypes DEF version_of, Version
<1>4. Fit(db', reader'.revision, reader'.state)
  BY <1>1, <1>2, ReadNames DEF version_of, Fit, Good
<1>. QED BY <1>1, <1>3, <1>4 DEF IInv, TypeOK

\* A transaction keeps the invariant and is honest, or it is a trim.
LEMMA TransactionStep ==
    ASSUME IInv, NEW session \in Session, Transaction(session)
    PROVE  /\ IInv'
           /\ \/ Honest(db, db', held_through(session))
              \/ \E requested \in SUBSET present_paths(db) :
                 \E confirmed \in SUBSET unsaved(requested) :
                    Trim(session, requested, confirmed)
<1> DEFINE here == leased_here(leases, session)
           F(d) == Fit(d, reader.revision, reader.state)
           Goal == IInv' /\ Honest(db, db', held_through(session))
<1>1. F(db) /\ db \in Database /\ leases \in [Lease -> Path \cup {NoPath}]
  BY DEF IInv, TypeOK
<1>2. ASSUME NEW next, Commit(next), F(next), Honest(db, next, here) PROVE Goal
  BY <1>2, CommitStep
<1>3. ASSUME NEW path \in Path, CompareAndSet(session, path) PROVE Goal
  <2>1. PICK state \in State : Commit(write_state(db, path, state, here))
    BY <1>3 DEF CompareAndSet
  <2>. QED BY <1>1, <1>2, <2>1, WriteKeeps
<1>4. ASSUME NEW path \in Path, StageAuthority(session, path) PROVE Goal
  <2>1. PICK expectedStateRevision \in revisions,
             expectedCommitSequence \in 0 .. Sentinel - 1, input \in StageInputs :
          Commit(stage_authority_transaction(db, path,
              [ id |-> input.id, kind |-> input.kind,
                expectedStateRevision |-> expectedStateRevision,
                expectedCommitSequence |-> expectedCommitSequence,
                nextState |-> input.nextState,
                physicalDigest |-> input.physicalDigest, stale |-> FALSE ], here))
    BY <1>4 DEF StageAuthority
  <2> DEFINE stage == [ id |-> input.id, kind |-> input.kind,
                        expectedStateRevision |-> expectedStateRevision,
                        expectedCommitSequence |-> expectedCommitSequence,
                        nextState |-> input.nextState,
                        physicalDigest |-> input.physicalDigest, stale |-> FALSE ]
  <2>2. stage \in Stage
    BY <1>1, AuthorityStoreAssumption, StoreAssumption DEF Stage, revisions, Database
  <2>3. Commit(stage_authority_transaction(db, path, stage, here))
    BY <2>1
  <2> HIDE DEF stage
  <2>. QED BY <1>1, <1>2, <2>2, <2>3, StageKeeps
<1>5. ASSUME NEW path \in Path, FinalizeAuthority(session, path) PROVE Goal
  <2>1. PICK id \in StageId :
          /\ finalize_accepts(db, path, id)
          /\ Commit(finalize_authority_transaction(db, path, id, here))
    BY <1>5 DEF FinalizeAuthority
  <2>. QED BY <1>1, <1>2, <2>1, FinalizeKeeps
<1>6. ASSUME NEW path \in Path, DiscardAuthority(session, path) PROVE Goal
  <2>1. PICK id \in StageId :
          /\ stage_present(db, path, id)
          /\ Commit(discard_authority_transaction(db, path, id, here))
    BY <1>6 DEF DiscardAuthority
  <2>. QED BY <1>1, <1>2, <2>1, DiscardKeeps
<1>7. ASSUME NEW path \in Path, Touch(session, path) PROVE Goal
  BY <1>1, <1>2, <1>7, TouchKeeps DEF Touch
<1>8. ASSUME NEW path \in Path, CanonicalizePath(session, path) PROVE Goal
  <2> DEFINE moved == move_leases(leases, db, path, CanonicalKey)
             c     == canonicalize_in_transaction(db, path, CanonicalKey)
             kept  == leased_here(moved, session)
             next  == run_retention(c, kept, {path})
  <2>1. /\ CanonicalKey[path] = path /\ ~canonicalize_throws(db, path, CanonicalKey)
        /\ db' = next /\ leases' = moved /\ UNCHANGED reader
    BY <1>8 DEF CanonicalizePath
  <2>2. Merges(db, c, path) /\ F(c) /\ c \in Database
    BY <1>1, <2>1, CanonicalizeMerges, CanonicalizeFit DEF Fit, Good
  <2>3. held_through(session) \subseteq kept
    BY <2>1 DEF held_through
  <2>4. needs_canonicalization(db, path, CanonicalKey) =>
           \A q \in kept : q = path \/ q \notin canonical_matches(db, path, CanonicalKey)
    BY <1>1, MovedLeases
  <2>5. moved \in [Lease -> Path \cup {NoPath}]
    BY <1>1, MoveLeasesType
  <2> HIDE DEF c, kept, moved
  <2>6. Spares(c, next, kept, {path}, {}) /\ F(next)
    BY <2>2, RetentionSpares, RetentionFit
  <2>7. Spares(c, next, kept, {path}, {path})
    BY <2>6 DEF Spares
  <2> HIDE DEF next
  <2>8. Honest(db, next, held_through(session))
    BY <2>2, <2>3, <2>4, <2>7, MergeThenSpare
  <2>. QED BY <2>1, <2>5, <2>6, <2>8, WriteStep
<1>9. ASSUME NEW source \in Path, NEW destination \in Path,
             CopyEntry(session, source, destination)
      PROVE  Goal
  <2>1. PICK id \in CopyId, recovery \in BOOLEAN :
          Commit(copy_in_transaction(db, source, destination, id, recovery, here))
    BY <1>9 DEF CopyEntry
  <2> DEFINE e == copy_in_transaction(db, source, destination, id, recovery, here)
  <2>2. F(e) /\ Spares(db, e, here, {source, destination}, {destination})
    BY <1>1, CopyKeeps
  <2>3. Honest(db, e, here)
    <3> HIDE DEF e, here
    <3>1. \A q \in Path : q = destination /\ ~present(db, q) =>
             Forward(db, e, q) /\ CopyKept(db, e, q) /\ NotLost(db, e, q)
      BY StoreAssumption DEF Forward, CopyKept, NotLost, Carried, state_of
    <3>2. ASSUME NEW q \in Path, ~(q = destination /\ ~present(db, q))
          PROVE  /\ Forward(db, e, q) /\ CopyKept(db, e, q) /\ NotLost(db, e, q)
                 /\ (q \in here /\ present(db, q) => present(e, q))
      <4>1. /\ present(e, q) => present(db, q) /\ Untouched(db, e, q)
            /\ present(db, q) /\ ~present(e, q) =>
                   q \notin here /\ state_of(db, q) \notin PendingStates
        BY <2>2, <3>2 DEF Spares
      <4>2. Forward(db, e, q)
        BY <4>1, AtLeastReflexive DEF Forward, Untouched
      <4>3. CopyKept(db, e, q)
        BY <4>1 DEF CopyKept, Untouched
      <4>4. state_of(db, q) \in PendingStates => present(db, q)
        BY StoreAssumption DEF state_of
      <4>5. NotLost(db, e, q)
        BY <4>1, <4>4 DEF NotLost, Carried, Untouched
      <4>. QED BY <4>1, <4>2, <4>3, <4>5
    <3>. QED BY <3>1, <3>2 DEF Honest
  <2>. QED BY <1>2, <2>1, <2>2, <2>3
<1>10. ASSUME CleanupAuthority(session) PROVE Goal
  <2>1. Commit(run_retention(db, here, {}))
    BY <1>10 DEF CleanupAuthority
  <2>2. Honest(db, run_retention(db, here, {}), here) /\ F(run_retention(db, here, {}))
    BY <1>1, RetentionHonest, RetentionFit
  <2>. QED BY <1>2, <2>1, <2>2
<1>11. ASSUME NEW requested \in SUBSET present_paths(db),
              NEW confirmed \in SUBSET unsaved(requested), Trim(session, requested, confirmed)
       PROVE  IInv'
  <2> DEFINE e == remove_entries(db, trim_targets(db, requested, confirmed, here))
  <2>1. Commit(e)
    BY <1>11 DEF Trim
  <2>2. F(e)
    BY <1>1, RemoveKeeps, OrderedRemove DEF Fit
  <2> HIDE DEF e
  <2>3. /\ db' = e /\ UNCHANGED reader
        /\ leases' \in [Lease -> Path \cup {NoPath}]
    BY <1>1, <2>1 DEF Commit
  <2>. QED BY <2>2, <2>3, WriteStep
<1>12. ASSUME NEW lease \in Lease, NEW path \in Path, SessionOf[lease] = session,
              LeaseEntry(lease, path)
       PROVE  Goal
  <2> DEFINE moved == move_leases(leases, db, path, CanonicalKey)
             kept  == leased_here(moved, SessionOf[lease])
             c     == canonicalize_in_transaction(db, path, CanonicalKey)
             next(copyId, source) ==
                 IF copyId = NoCopy THEN run_retention(c, kept, {path})
                 ELSE copy_in_transaction(c, source, path, copyId, FALSE, kept)
  <2>1. PICK copyId \in CopyId \cup {NoCopy}, source \in Path \ {path} :
          /\ CanonicalKey[path] = path /\ ~canonicalize_throws(db, path, CanonicalKey)
          /\ db' = next(copyId, source)
          /\ leases' = [moved EXCEPT ![lease] = path]
          /\ UNCHANGED reader
    BY <1>12 DEF LeaseEntry
  <2>2. Merges(db, c, path) /\ F(c) /\ c \in Database
    BY <1>1, <2>1, CanonicalizeMerges, CanonicalizeFit DEF Fit, Good
  <2>3. moved \in [Lease -> Path \cup {NoPath}]
    BY <1>1, MoveLeasesType
  <2>4. needs_canonicalization(db, path, CanonicalKey) =>
           \A q \in kept : q = path \/ q \notin canonical_matches(db, path, CanonicalKey)
    BY <1>1, MovedLeases
  <2>5. /\ leases' \in [Lease -> Path \cup {NoPath}]
        /\ \A q \in held_through(session) : q = path \/ q \in kept
    <3> HIDE DEF moved
    <3>1. \A l \in Lease : leases'[l] = path \/ leases'[l] = moved[l]
      BY <2>1, <2>3
    <3>2. leases' \in [Lease -> Path \cup {NoPath}]
      BY <2>1, <2>3
    <3>. QED BY <3>1, <3>2, <1>12 DEF held_through, leased_here
  <2> HIDE DEF c, kept, moved
  <2>6. /\ F(next(copyId, source))
        /\ \E sides : Spares(c, next(copyId, source), kept, sides, {path}) /\ path \in sides
    <3>1. CASE copyId = NoCopy
      <4>1. /\ Spares(c, run_retention(c, kept, {path}), kept, {path}, {})
            /\ F(run_retention(c, kept, {path}))
        BY <2>2, RetentionSpares, RetentionFit
      <4>2. Spares(c, run_retention(c, kept, {path}), kept, {path}, {path})
        BY <4>1 DEF Spares
      <4>. QED BY <3>1, <4>1, <4>2
    <3>2. CASE copyId # NoCopy
      <4> DEFINE e == copy_in_transaction(c, source, path, copyId, FALSE, kept)
      <4>1. Spares(c, e, kept, {source, path}, {path}) /\ F(e)
        BY <2>2, <3>2, CopyKeeps
      <4>. QED BY <3>2, <4>1
    <3>. QED BY <3>1, <3>2
  <2> HIDE DEF next
  <2>7. needs_canonicalization(db, path, CanonicalKey) =>
           \A q \in held_through(session) :
              q = path \/ q \notin canonical_matches(db, path, CanonicalKey)
    BY <2>4, <2>5
  <2>8. Honest(db, next(copyId, source), held_through(session))
    BY <2>2, <2>5, <2>6, <2>7, MergeThenSpare
  <2>. QED BY <2>1, <2>5, <2>6, <2>8, WriteStep
<1>13. ASSUME NEW lease \in Lease, SessionOf[lease] = session, ReleaseLease(lease)
       PROVE  Goal
  <2> DEFINE released == [leases EXCEPT ![lease] = NoPath]
             kept     == leased_here(released, session)
             next     == run_retention(db, kept, {})
  <2>1. db' = next /\ leases' = released /\ UNCHANGED reader
    BY <1>13 DEF ReleaseLease
  <2>2. Honest(db, next, kept) /\ F(next)
    BY <1>1, RetentionHonest, RetentionFit
  <2>3. held_through(session) \subseteq kept
    BY <2>1 DEF held_through
  <2>4. released \in [Lease -> Path \cup {NoPath}]
    BY <1>1
  <2> HIDE DEF released, kept, next
  <2>5. Honest(db, next, held_through(session))
    BY <2>2, <2>3 DEF Honest
  <2>. QED BY <2>1, <2>2, <2>4, <2>5, WriteStep
<1>. QED BY <1>3, <1>4, <1>5, <1>6, <1>7, <1>8, <1>9, <1>10, <1>11, <1>12, <1>13
         DEF Transaction

LEMMA NextIInv == IInv /\ [Next]_vars => IInv'
<1>. SUFFICES ASSUME IInv, [Next]_vars PROVE IInv'
  OBVIOUS
<1>1. CASE StagesAge
  BY <1>1, AgeKeeps, WriteStep DEF StagesAge, IInv, TypeOK
<1>2. ASSUME NEW path \in Path, Read(path) PROVE IInv'
  BY <1>2, ReadStep
<1>3. ASSUME NEW session \in Session, Transaction(session) PROVE IInv'
  BY <1>3, TransactionStep
<1>4. CASE UNCHANGED vars
  <2>1. Fit(db', reader.revision, reader.state) /\ leases' \in [Lease -> Path \cup {NoPath}]
    BY <1>4 DEF vars, IInv, TypeOK
  <2>. QED BY <1>4, <2>1, WriteStep DEF vars
<1>. QED BY <1>1, <1>2, <1>3, <1>4 DEF Next

\* Every step is honest about every path, but for what a trim was confirmed to lose.
LEMMA StepHonest ==
    ASSUME IInv, [Next]_vars, NEW q \in Path
    PROVE  /\ Forward(db, db', q)
           /\ CopyKept(db, db', q)
           /\ \/ NotLost(db, db', q)
              \/ \E session \in Session, requested \in SUBSET present_paths(db) :
                    \E confirmed \in SUBSET unsaved(requested) :
                       q \in confirmed /\ Trim(session, requested, confirmed)
<1>1. CASE StagesAge
  BY <1>1, AgeKeeps DEF Honest, IInv
<1>2. CASE UNCHANGED db
  <2>1. Forward(db, db', q)
    BY <1>2, AtLeastReflexive DEF Forward
  <2>. QED BY <1>2, <2>1 DEF CopyKept, NotLost, Carried
<1>3. ASSUME NEW session \in Session, Honest(db, db', held_through(session))
      PROVE  Forward(db, db', q) /\ CopyKept(db, db', q) /\ NotLost(db, db', q)
  BY <1>3 DEF Honest
<1>4. ASSUME NEW session \in Session, NEW requested \in SUBSET present_paths(db),
             NEW confirmed \in SUBSET unsaved(requested), Trim(session, requested, confirmed)
      PROVE  /\ Forward(db, db', q) /\ CopyKept(db, db', q)
             /\ q \in confirmed \/ NotLost(db, db', q)
  <2>1. db' = remove_entries(db, trim_targets(db, requested, confirmed,
                                              leased_here(leases, session)))
    BY <1>4 DEF Trim, Commit
  <2>. QED BY <2>1, TrimHonest DEF IInv, TypeOK
<1>. QED BY <1>1, <1>2, <1>3, <1>4, TransactionStep DEF Next, Read, vars

-----------------------------------------------------------------------------
(* The theorems *)

\* Whatever sessions do, the database, the leases and what a reader holds keep
\* their shape.
THEOREM TypeCorrect == Spec => []TypeOK
<1>1. IInv => TypeOK
  BY DEF IInv
<1>. QED BY <1>1, InitIInv, NextIInv, PTL DEF Spec

\* A compare-and-set whose expected revision matches never overwrites a state its
\* caller has not seen.
THEOREM RevisionsIdentifyStates == Spec => []RevisionIdentifiesState
<1>1. IInv => RevisionIdentifiesState
  <2>. SUFFICES ASSUME IInv, revision_of(db, reader.path) = reader.revision
                PROVE  state_of(db, reader.path) = reader.state
    BY DEF RevisionIdentifiesState
  <2>1. reader.path \in Path
    BY DEF IInv, TypeOK, Version
  <2>. QED BY <2>1 DEF IInv, Fit, Good, Names, revision_of, state_of
<1>. QED BY <1>1, InitIInv, NextIInv, PTL DEF Spec

\* The recency order stays a strict total order of the entries that are there, through
\* evictions, merges and copies, so that the least recently used one is well defined
\* (allocate_recency_order, delete_entry).
THEOREM RecencyIsTotal == Spec => []RecencyOrdersEntries
<1>1. IInv => RecencyOrdersEntries
  BY DEF IInv, Fit, Ordered, RecencyOrdersEntries
<1>. QED BY <1>1, InitIInv, NextIInv, PTL DEF Spec

\* While an entry stays under its path its authority only moves forward, whatever is
\* staged, finalized, merged, copied or evicted around it (finalize_authority_transaction,
\* choose_canonical_winner).
THEOREM AuthoritiesMoveForward == Spec => AuthorityNeverRegresses
<1>1. IInv /\ [Next]_vars =>
         [\A path \in Path : present(db, path) /\ present(db', path) =>
             at_least(authority_of(db', path), authority_of(db, path))]_vars
  BY StepHonest DEF Forward
<1>. QED BY <1>1, InitIInv, NextIInv, PTL DEF Spec, AuthorityNeverRegresses

\* Unsaved edits leave the store only by a write under a new revision, or by a trim that
\* its user has confirmed: evictions, canonicalizations, copies, leases and cleanups keep
\* them, at their path or at the canonical one (assert_pending_canonicalization_safe,
\* evict_entries, trim).
THEOREM EditsSurvive == Spec => PendingEditsSurvive
<1>1. IInv /\ [Next]_vars =>
         [\A path \in Path :
             state_of(db, path) \in PendingStates =>
             \/ \E p \in {path, CanonicalKey[path]} :
                   state_of(db', p) = state_of(db, path)
             \/ present(db', path) /\ revision_of(db', path) >= db.nextRevision
             \/ \E session \in Session, requested \in SUBSET present_paths(db) :
                   \E confirmed \in SUBSET unsaved(requested) :
                      path \in confirmed /\ Trim(session, requested, confirmed)]_vars
  BY StepHonest DEF NotLost, Carried
<1>. QED BY <1>1, InitIInv, NextIInv, PTL DEF Spec, PendingEditsSurvive

\* As long as an entry names the copy it came from, it is the entry that was copied: every
\* write, stage, commit and merge with another entry takes the provenance away.
THEOREM ProvenanceIsExact == Spec => ProvenanceNamesUntouchedCopy
<1>1. IInv /\ [Next]_vars =>
         [\A path \in Path :
             /\ present(db, path) /\ present(db', path)
             /\ db.entries[path].copyProvenance # NoCopy
             /\ db'.entries[path].copyProvenance = db.entries[path].copyProvenance
             => /\ version_of(db', path) = version_of(db, path)
                /\ authority_of(db', path) = authority_of(db, path)
                /\ {s.id : s \in stages_of(db', path)} = {s.id : s \in stages_of(db, path)}]_vars
  BY StepHonest DEF CopyKept, version_of, ids
<1>. QED BY <1>1, InitIInv, NextIInv, PTL DEF Spec, ProvenanceNamesUntouchedCopy

\* No transaction of a session removes an entry that the session leases before and after
\* it, be it an eviction, a trim or the merge of an alias, whose leases move along.
THEOREM LeasesProtect == Spec => LeaseProtects
<1>1. ASSUME IInv, NEW session \in Session, Transaction(session),
             NEW path \in held_through(session), present(db, path)
      PROVE  present(db', path)
  <2>1. path \in Path
    <3>1. leases \in [Lease -> Path \cup {NoPath}]
      BY <1>1 DEF IInv, TypeOK
    <3>2. path \in leased_here(leases, session)
      BY <1>1 DEF held_through
    <3>. QED BY <3>1, <3>2 DEF leased_here
  <2>2. CASE Honest(db, db', held_through(session))
    BY <1>1, <2>1, <2>2 DEF Honest
  <2>3. ASSUME NEW requested \in SUBSET present_paths(db),
               NEW confirmed \in SUBSET unsaved(requested), Trim(session, requested, confirmed)
        PROVE  present(db', path)
    <3>1. db' = remove_entries(db, trim_targets(db, requested, confirmed,
                                                leased_here(leases, session)))
      BY <2>3 DEF Trim, Commit
    <3>2. path \in leased_here(leases, session)
      BY DEF held_through
    <3>. QED BY <1>1, <2>1, <3>1, <3>2, TrimHonest DEF IInv, TypeOK
  <2>. QED BY <1>1, <2>2, <2>3, TransactionStep
<1>2. IInv /\ [Next]_vars =>
         [\A session \in Session :
             (\E path \in leased_here(leases, session) \cap leased_here(leases', session) :
                 present(db, path) /\ ~present(db', path))
             => ~Transaction(session)]_vars
  BY <1>1 DEF held_through
<1>. QED BY <1>2, InitIInv, NextIInv, PTL DEF Spec, LeaseProtects
=============================================================================

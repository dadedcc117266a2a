------------------------ MODULE FileCoordinatorProofs ------------------------
(***************************************************************************)
(* What holds of the commit protocol for any number of processes and       *)
(* operations.  With evictions and crashes: types, and every count, turn   *)
(* and place in line is given back.  While nobody evicts an entry: nobody  *)
(* believes in an authority the store has not reached, a receipt is one    *)
(* commit, header settings of a process are committed in the order they    *)
(* began, and the protocol implements CommitLog.                           *)
(***************************************************************************)
EXTENDS FileCoordinator, AuthorityOrderProofs, Integers, FiniteSetTheorems, NaturalsInduction,
        SequenceTheorems, WellFoundedInduction

\* An entry before its count is known to be a natural number.
Shape ==
    [ authority : Authority, status : [Op -> {"none", "valid", "invalid"}],
      ordinal : [Op -> Nat], nextOrdinal : Nat, requested : SUBSET Op, requests : SUBSET Op,
      turn : [Op -> {"none", "granted", "rejected"}], activeTurn : Op \cup {NoOp},
      phase : {"granted", "finalizing"}, operations : Int ]

\* Where an operation stands in an entry: it is not in it, it plans, it waits for
\* the commit turn or has just got an answer, or its finalization is under way.
Away(e, o) ==
    e.status[o] = "none" /\ o \notin e.requested \cup e.requests \cup {e.activeTurn}

Planning(e, o) ==
    e.status[o] # "none" /\ o \notin e.requested \cup e.requests \cup {e.activeTurn}

Waiting(e, o) ==
    \/ e.turn[o] = "none" /\ o \in e.requests /\ o # e.activeTurn /\ e.status[o] = "valid"
    \/ /\ e.turn[o] = "granted" /\ o \notin e.requests /\ o = e.activeTurn
       /\ e.phase = "granted" /\ e.status[o] # "none"
    \/ e.turn[o] = "rejected" /\ o \notin e.requests /\ o # e.activeTurn /\ e.status[o] = "invalid"

Finalizing(e, o) ==
    e.status[o] # "none" /\ o \notin e.requests /\ o = e.activeTurn /\ e.phase = "finalizing"

\* What a step of one operation may do to another: invalidate it and give it the turn.
Keeps(e, f, n) ==
    /\ f.ordinal[n] = e.ordinal[n]
    /\ f.status[n] = e.status[n] \/ (e.status[n] = "valid" /\ f.status[n] = "invalid")
    /\ Away(e, n) => Away(f, n)
    /\ Planning(e, n) => Planning(f, n)
    /\ Waiting(e, n) => Waiting(f, n)
    /\ Finalizing(e, n) => Finalizing(f, n)

Moves(e, f, ops) ==
    /\ f \in Shape
    /\ \A n \in Op \ ops : Keeps(e, f, n)

LEMMA MovesTransitive ==
    ASSUME NEW e, NEW f, NEW g, NEW ops, Moves(e, f, ops), Moves(f, g, ops)
    PROVE  Moves(e, g, ops)
<1>1. ASSUME NEW n \in Op \ ops PROVE Keeps(e, g, n)
  <2>1. Keeps(e, f, n) /\ Keeps(f, g, n)
    BY DEF Moves
  <2>. QED BY <2>1 DEF Keeps
<1>. QED BY <1>1 DEF Moves

LEMMA MovesReflexive ==
    ASSUME NEW e \in Shape, NEW ops
    PROVE  Moves(e, e, ops)
BY DEF Moves, Keeps

LEMMA MovesFewer ==
    ASSUME NEW e, NEW f, NEW ops, NEW more, ops \subseteq more, Moves(e, f, ops)
    PROVE  Moves(e, f, more)
BY DEF Moves

-----------------------------------------------------------------------------

\* Of operations there is one that began first.
LEMMA FirstExists ==
    ASSUME NEW ordinal \in [Op -> Nat], NEW ops \in SUBSET Op, ops # {}
    PROVE  \E o \in ops : \A other \in ops : ordinal[o] <= ordinal[other]
<1>. DEFINE R == {ss \in Nat \X Nat : ss[1] < ss[2]}
            I == {ordinal[o] : o \in ops}
<1>1. IsWellFoundedOn(R, Nat)
  BY NatLessThanWellFounded DEF OpToRel
<1>2. I \in SUBSET Nat /\ I # {}
  OBVIOUS
<1>3. PICK x \in I : \A y \in I : <<y, x>> \notin R
  <2>. HIDE DEF R, I
  <2>. QED BY <1>1, <1>2, WFMin
<1>4. ASSUME NEW y \in I PROVE x <= y
  <2>1. <<y, x>> \notin R
    BY <1>3
  <2>2. ~ y < x
    BY <2>1, <1>2
  <2>. QED BY <2>2, <1>2
<1>5. PICK o \in ops : x = ordinal[o]
  BY <1>3
<1>. QED BY <1>4, <1>5

\* What activate_turn does to an entry, field by field.
Granted(e, f) ==
    \E first \in e.requests :
        /\ e.activeTurn = NoOp /\ e.status[first] = "valid"
        /\ \A other \in e.requests :
              e.status[other] = "valid" => e.ordinal[first] <= e.ordinal[other]
        /\ f.requests = e.requests \ {first}
        /\ f.turn = [e.turn EXCEPT ![first] = "granted"]
        /\ f.activeTurn = first
        /\ f.phase = "granted"

LEMMA ActivateFields ==
    ASSUME NEW e \in Shape
    PROVE  /\ activate_turn(e) \in Shape
           /\ activate_turn(e).authority = e.authority
           /\ activate_turn(e).status = e.status
           /\ activate_turn(e).ordinal = e.ordinal
           /\ activate_turn(e).nextOrdinal = e.nextOrdinal
           /\ activate_turn(e).requested = e.requested
           /\ activate_turn(e).operations = e.operations
           /\ activate_turn(e) = e \/ Granted(e, activate_turn(e))
<1>. DEFINE waiting == e.requests \cap valid_operations(e)
            first   == CHOOSE o \in waiting :
                          \A other \in waiting : e.ordinal[o] <= e.ordinal[other]
            g       == [e EXCEPT !.requests = @ \ {first}, !.turn[first] = "granted",
                                 !.activeTurn = first, !.phase = "granted"]
<1>1. CASE e.activeTurn # NoOp \/ waiting = {}
  <2>1. activate_turn(e) = e
    BY <1>1 DEF activate_turn
  <2>. QED BY <2>1
<1>2. CASE e.activeTurn = NoOp /\ waiting # {}
  <2>1. activate_turn(e) = g
    BY <1>2 DEF activate_turn
  <2>2. e.ordinal \in [Op -> Nat] /\ waiting \in SUBSET Op
    BY DEF Shape
  <2>3. \E o \in waiting : \A other \in waiting : e.ordinal[o] <= e.ordinal[other]
    <3>. HIDE DEF waiting
    <3>. QED BY <1>2, <2>2, FirstExists
  <2>4. /\ first \in waiting
        /\ \A other \in waiting : e.ordinal[first] <= e.ordinal[other]
    <3>. HIDE DEF waiting
    <3>. QED BY <2>3
  <2>5. /\ first \in Op /\ first \in e.requests /\ e.status[first] = "valid"
        /\ \A other \in e.requests :
              e.status[other] = "valid" => e.ordinal[first] <= e.ordinal[other]
    BY <2>4 DEF valid_operations, Shape
  <2>. HIDE DEF first
  <2>6. /\ g \in Shape
        /\ g.authority = e.authority /\ g.status = e.status /\ g.ordinal = e.ordinal
        /\ g.nextOrdinal = e.nextOrdinal /\ g.requested = e.requested
        /\ g.operations = e.operations
        /\ g.requests = e.requests \ {first}
        /\ g.turn = [e.turn EXCEPT ![first] = "granted"]
        /\ g.activeTurn = first /\ g.phase = "granted"
    BY <2>5 DEF Shape
  <2>. HIDE DEF g
  <2>7. Granted(e, g)
    BY <2>5, <2>6, <1>2 DEF Granted
  <2>. QED BY <2>1, <2>6, <2>7
<1>. QED BY <1>1, <1>2

LEMMA ActivateMoves ==
    ASSUME NEW e \in Shape
    PROVE  Moves(e, activate_turn(e), {})
<1>. DEFINE f == activate_turn(e)
<1>. HIDE DEF f
<1>1. /\ f \in Shape /\ f.status = e.status /\ f.ordinal = e.ordinal
      /\ f.requested = e.requested
      /\ f = e \/ Granted(e, f)
  BY ActivateFields DEF f
<1>2. CASE f = e
  BY <1>1, <1>2, MovesReflexive DEF f
<1>3. CASE Granted(e, f)
  <2>1. PICK first \in e.requests :
            /\ e.activeTurn = NoOp /\ e.status[first] = "valid"
            /\ f.requests = e.requests \ {first}
            /\ f.turn = [e.turn EXCEPT ![first] = "granted"]
            /\ f.activeTurn = first /\ f.phase = "granted"
    BY <1>3 DEF Granted
  <2>2. first \in Op /\ NoOp \notin Op /\ e.turn \in [Op -> {"none", "granted", "rejected"}]
    BY EntryAssumption DEF Shape
  <2>3. ASSUME NEW n \in Op PROVE Keeps(e, f, n)
    BY <1>1, <2>1, <2>2 DEF Keeps, Away, Planning, Waiting, Finalizing
  <2>. QED BY <1>1, <2>3 DEF Moves, f
<1>. QED BY <1>1, <1>2, <1>3

-----------------------------------------------------------------------------
LEMMA RejectFields ==
    ASSUME NEW e \in Shape, NEW ops \in SUBSET Op
    PROVE  /\ reject_requests(e, ops) \in Shape
           /\ reject_requests(e, ops).authority = e.authority
           /\ reject_requests(e, ops).status = e.status
           /\ reject_requests(e, ops).ordinal = e.ordinal
           /\ reject_requests(e, ops).nextOrdinal = e.nextOrdinal
           /\ reject_requests(e, ops).requested = e.requested
           /\ reject_requests(e, ops).activeTurn = e.activeTurn
           /\ reject_requests(e, ops).phase = e.phase
           /\ reject_requests(e, ops).operations = e.operations
           /\ reject_requests(e, ops).requests = e.requests \ ops
           /\ \A n \in Op : reject_requests(e, ops).turn[n] =
                 IF n \in ops \cap e.requests THEN "rejected" ELSE e.turn[n]
BY DEF reject_requests, Shape

LEMMA RejectOperationsFields ==
    ASSUME NEW e \in Shape, NEW ops \in SUBSET Op
    PROVE  /\ reject_operations(e, ops) \in Shape
           /\ reject_operations(e, ops).authority = e.authority
           /\ reject_operations(e, ops).ordinal = e.ordinal
           /\ reject_operations(e, ops).nextOrdinal = e.nextOrdinal
           /\ reject_operations(e, ops).requested = e.requested
           /\ reject_operations(e, ops).activeTurn = e.activeTurn
           /\ reject_operations(e, ops).phase = e.phase
           /\ reject_operations(e, ops).operations = e.operations
           /\ reject_operations(e, ops).requests = e.requests \ ops
           /\ \A n \in Op : /\ reject_operations(e, ops).turn[n] =
                                 IF n \in ops \cap e.requests THEN "rejected" ELSE e.turn[n]
                            /\ reject_operations(e, ops).status[n] =
                                 IF n \in ops THEN "invalid" ELSE e.status[n]
<1>. DEFINE r == reject_requests(e, ops)
<1>. HIDE DEF r
<1>1. /\ r \in Shape
      /\ r.authority = e.authority /\ r.status = e.status
      /\ r.ordinal = e.ordinal /\ r.nextOrdinal = e.nextOrdinal /\ r.requested = e.requested
      /\ r.activeTurn = e.activeTurn /\ r.phase = e.phase /\ r.operations = e.operations
      /\ r.requests = e.requests \ ops
      /\ \A n \in Op : r.turn[n] = IF n \in ops \cap e.requests THEN "rejected" ELSE e.turn[n]
  BY RejectFields DEF r
<1>2. reject_operations(e, ops) =
          [r EXCEPT !.status = [o \in Op |-> IF o \in ops THEN "invalid" ELSE r.status[o]]]
  BY DEF reject_operations, r
<1>. QED BY <1>1, <1>2 DEF Shape

LEMMA RejectOperationsMoves ==
    ASSUME NEW e \in Shape, NEW ops \in SUBSET valid_operations(e)
    PROVE  Moves(e, reject_operations(e, ops), {})
<1>. DEFINE f == reject_operations(e, ops)
<1>. HIDE DEF f
<1>1. ops \in SUBSET Op /\ \A n \in ops : e.status[n] = "valid"
  BY DEF valid_operations
<1>2. /\ f \in Shape
      /\ f.ordinal = e.ordinal /\ f.requested = e.requested
      /\ f.activeTurn = e.activeTurn /\ f.phase = e.phase
      /\ f.requests = e.requests \ ops
      /\ \A n \in Op : /\ f.turn[n] = IF n \in ops \cap e.requests THEN "rejected" ELSE e.turn[n]
                       /\ f.status[n] = IF n \in ops THEN "invalid" ELSE e.status[n]
  BY <1>1, RejectOperationsFields DEF f
<1>3. ASSUME NEW n \in Op PROVE Keeps(e, f, n)
  BY <1>1, <1>2 DEF Keeps, Away, Planning, Waiting, Finalizing
<1>. QED BY <1>2, <1>3 DEF Moves, f

-----------------------------------------------------------------------------
LEMMA InvalidateMoves ==
    ASSUME NEW e \in Shape, NEW physicalChange, NEW digest
    PROVE  /\ Moves(e, invalidate(e, physicalChange, digest), {})
           /\ invalidate(e, physicalChange, digest).authority = e.authority
           /\ invalidate(e, physicalChange, digest).operations = e.operations
           /\ invalidate(e, physicalChange, digest).nextOrdinal = e.nextOrdinal
<1>. DEFINE ops == {o \in valid_operations(e) \ {e.activeTurn} :
                       \/ KindOf[o] = "physical" /\ DigestOf[o] # digest
                       \/ KindOf[o] = "projection" /\ physicalChange}
            r   == reject_operations(e, ops)
<1>1. invalidate(e, physicalChange, digest) = activate_turn(r)
  BY DEF invalidate
<1>2. ops \in SUBSET valid_operations(e) /\ ops \in SUBSET Op
  BY DEF valid_operations
<1>. HIDE DEF ops
<1>3. /\ Moves(e, r, {}) /\ r \in Shape /\ r.authority = e.authority
      /\ r.operations = e.operations /\ r.nextOrdinal = e.nextOrdinal
  BY <1>2, RejectOperationsMoves, RejectOperationsFields
<1>. HIDE DEF r
<1>4. /\ Moves(r, activate_turn(r), {}) /\ activate_turn(r).authority = r.authority
      /\ activate_turn(r).operations = r.operations
      /\ activate_turn(r).nextOrdinal = r.nextOrdinal
  BY <1>3, ActivateMoves, ActivateFields
<1>. QED BY <1>1, <1>3, <1>4, MovesTransitive

\* The entry after an operation has begun in it.
begun(e, o) == [begin_operation(e, o) EXCEPT !.operations = @ + 1]

LEMMA BeginFields ==
    ASSUME NEW e \in Shape, NEW o \in Op
    PROVE  /\ begun(e, o) \in Shape
           /\ begun(e, o).authority = e.authority
           /\ begun(e, o).status = [e.status EXCEPT ![o] = "valid"]
           /\ begun(e, o).ordinal = [e.ordinal EXCEPT ![o] = e.nextOrdinal]
           /\ begun(e, o).nextOrdinal = e.nextOrdinal + 1
           /\ begun(e, o).requested = e.requested /\ begun(e, o).requests = e.requests
           /\ begun(e, o).turn = [e.turn EXCEPT ![o] = "none"]
           /\ begun(e, o).activeTurn = e.activeTurn /\ begun(e, o).phase = e.phase
           /\ begun(e, o).operations = e.operations + 1
<1>. DEFINE N == e.nextOrdinal + 1
            b == begin_operation(e, o)
            C == b.operations + 1
<1>1. N \in Nat
  BY DEF Shape
<1>2. b = [e EXCEPT !.status[o] = "valid", !.ordinal[o] = e.nextOrdinal,
                    !.nextOrdinal = N, !.turn[o] = "none"]
  BY DEF begin_operation
<1>. HIDE DEF N, b
<1>3. /\ b \in Shape
      /\ b.authority = e.authority
      /\ b.status = [e.status EXCEPT ![o] = "valid"]
      /\ b.ordinal = [e.ordinal EXCEPT ![o] = e.nextOrdinal]
      /\ b.nextOrdinal = N
      /\ b.requested = e.requested /\ b.requests = e.requests
      /\ b.turn = [e.turn EXCEPT ![o] = "none"]
      /\ b.activeTurn = e.activeTurn /\ b.phase = e.phase
      /\ b.operations = e.operations
  BY <1>1, <1>2 DEF Shape
<1>4. C \in Int
  BY <1>3 DEF Shape
<1>5. begun(e, o) = [b EXCEPT !.operations = C]
  BY DEF begun, b
<1>. HIDE DEF C
<1>6. /\ begun(e, o) \in Shape
      /\ begun(e, o).authority = b.authority
      /\ begun(e, o).status = b.status
      /\ begun(e, o).ordinal = b.ordinal
      /\ begun(e, o).nextOrdinal = b.nextOrdinal
      /\ begun(e, o).requested = b.requested /\ begun(e, o).requests = b.requests
      /\ begun(e, o).turn = b.turn
      /\ begun(e, o).activeTurn = b.activeTurn /\ begun(e, o).phase = b.phase
      /\ begun(e, o).operations = C
  BY <1>3, <1>4, <1>5 DEF Shape
<1>. QED BY <1>3, <1>6 DEF N, C

LEMMA BeginMoves ==
    ASSUME NEW e \in Shape, NEW o \in Op, Away(e, o)
    PROVE  Moves(e, begun(e, o), {o}) /\ Planning(begun(e, o), o)
<1>. DEFINE f == begun(e, o)
<1>1. /\ f \in Shape
      /\ f.status = [e.status EXCEPT ![o] = "valid"]
      /\ f.ordinal = [e.ordinal EXCEPT ![o] = e.nextOrdinal]
      /\ f.requested = e.requested /\ f.requests = e.requests
      /\ f.turn = [e.turn EXCEPT ![o] = "none"]
      /\ f.activeTurn = e.activeTurn /\ f.phase = e.phase
  BY BeginFields
<1>. HIDE DEF f
<1>2. /\ e.status \in [Op -> {"none", "valid", "invalid"}] /\ e.ordinal \in [Op -> Nat]
      /\ e.turn \in [Op -> {"none", "granted", "rejected"}]
  BY DEF Shape
<1>3. ASSUME NEW n \in Op \ {o} PROVE Keeps(e, f, n)
  BY <1>1, <1>2 DEF Keeps, Away, Planning, Waiting, Finalizing
<1>4. Planning(f, o)
  BY <1>1, <1>2 DEF Away, Planning
<1>5. Moves(e, f, {o}) /\ Planning(f, o)
  BY <1>1, <1>3, <1>4 DEF Moves
<1>. QED BY <1>5 DEF f

LEMMA BeginPhysicalMoves ==
    ASSUME NEW e \in Shape, NEW o \in Op, Away(e, o)
    PROVE  /\ Moves(e, begin_physical(e, o), {o}) /\ Planning(begin_physical(e, o), o)
           /\ begin_physical(e, o).authority = e.authority
           /\ begin_physical(e, o).operations = e.operations + 1
<1>. DEFINE i == invalidate(e, e.authority.physicalDigest # DigestOf[o], DigestOf[o])
<1>1. begin_physical(e, o) = begun(i, o)
  BY DEF begin_physical, begun
<1>2. /\ Moves(e, i, {}) /\ i.authority = e.authority /\ i.operations = e.operations
  BY InvalidateMoves
<1>. HIDE DEF i
<1>3. i \in Shape /\ Away(i, o) /\ Moves(e, i, {o})
  BY <1>2 DEF Moves, Keeps
<1>4. /\ Moves(i, begun(i, o), {o}) /\ Planning(begun(i, o), o)
      /\ begun(i, o).authority = i.authority
      /\ begun(i, o).operations = i.operations + 1
  BY <1>3, BeginMoves, BeginFields
<1>. QED BY <1>1, <1>2, <1>3, <1>4, MovesTransitive

LEMMA BeginProjectionMoves ==
    ASSUME NEW e \in Shape, NEW o \in Op, Away(e, o)
    PROVE  /\ Moves(e, begin_projection(e, o), {o}) /\ Planning(begin_projection(e, o), o)
           /\ begin_projection(e, o).authority = e.authority
           /\ begin_projection(e, o).operations = e.operations + 1
<1>. DEFINE older == {x \in valid_operations(e) \ ({e.activeTurn} \cup e.requested) :
                         KindOf[x] = "projection"}
            i == reject_operations(e, older)
<1>1. begin_projection(e, o) = begun(i, o)
  BY DEF begin_projection, begun
<1>2. older \in SUBSET valid_operations(e) /\ older \in SUBSET Op
  BY DEF valid_operations
<1>. HIDE DEF older
<1>3. /\ Moves(e, i, {}) /\ i.authority = e.authority /\ i.operations = e.operations
  BY <1>2, RejectOperationsMoves, RejectOperationsFields
<1>. HIDE DEF i
<1>4. i \in Shape /\ Away(i, o) /\ Moves(e, i, {o})
  BY <1>3 DEF Moves, Keeps
<1>5. /\ Moves(i, begun(i, o), {o}) /\ Planning(begun(i, o), o)
      /\ begun(i, o).authority = i.authority
      /\ begun(i, o).operations = i.operations + 1
  BY <1>4, BeginMoves, BeginFields
<1>. QED BY <1>1, <1>3, <1>4, <1>5, MovesTransitive

-----------------------------------------------------------------------------
LEMMA InstallMoves ==
    ASSUME NEW e \in Shape, NEW candidate \in Authority, NEW finishing
    PROVE  /\ Moves(e, install_authority(e, candidate, finishing), {})
           /\ install_authority(e, candidate, finishing).authority =
                IF install_type(e, candidate) = "installed" THEN candidate ELSE e.authority
           /\ install_authority(e, candidate, finishing).operations = e.operations
           /\ install_authority(e, candidate, finishing).nextOrdinal = e.nextOrdinal
           /\ e.activeTurn # NoOp =>
                 install_authority(e, candidate, finishing).activeTurn = e.activeTurn
<1>. DEFINE f == install_authority(e, candidate, finishing)
            a == [e EXCEPT !.authority = candidate]
            token == IF finishing # NoOp THEN finishing
                     ELSE exact_finalizing_projection_token(e, candidate)
            physicalChange   == \/ e.authority.physicalRevision # a.authority.physicalRevision
                                \/ e.authority.physicalDigest # a.authority.physicalDigest
            projectionChange == e.authority.projectionRevision # a.authority.projectionRevision
            superseded(o)    ==
               \/ /\ physicalChange
                  /\ KindOf[o] = "projection" \/ DigestOf[o] # a.authority.physicalDigest
               \/ /\ projectionChange
                  /\ KindOf[o] = "projection"
                  /\ token = NoOp \/ a.ordinal[o] < a.ordinal[token]
            ops == {o \in valid_operations(a) \ {token} : superseded(o)}
            r == reject_operations(a, ops)
<1>1. CASE install_type(e, candidate) # "installed"
  <2>1. f = e
    BY <1>1 DEF install_authority
  <2>. QED BY <2>1, <1>1, MovesReflexive
<1>2. CASE install_type(e, candidate) = "installed"
  <2>1. f = activate_turn(r)
    BY <1>2 DEF install_authority, invalidate_after_authority_install
  <2>2. /\ a \in Shape /\ a.authority = candidate
        /\ a.status = e.status /\ a.ordinal = e.ordinal /\ a.nextOrdinal = e.nextOrdinal
        /\ a.requested = e.requested /\ a.requests = e.requests /\ a.turn = e.turn
        /\ a.activeTurn = e.activeTurn /\ a.phase = e.phase /\ a.operations = e.operations
    BY DEF Shape
  <2>3. ops \in SUBSET valid_operations(a) /\ ops \in SUBSET Op
    BY DEF valid_operations
  <2>. HIDE DEF ops, a, f
  <2>4. Moves(e, a, {})
    BY <2>2 DEF Moves, Keeps, Away, Planning, Waiting, Finalizing
  <2>5. /\ Moves(a, r, {}) /\ r \in Shape /\ r.authority = a.authority
        /\ r.operations = a.operations /\ r.nextOrdinal = a.nextOrdinal
        /\ r.activeTurn = a.activeTurn
    BY <2>2, <2>3, RejectOperationsMoves, RejectOperationsFields
  <2>. HIDE DEF r
  <2>6. /\ Moves(r, f, {}) /\ f.authority = r.authority
        /\ f.operations = r.operations /\ f.nextOrdinal = r.nextOrdinal
    BY <2>1, <2>5, ActivateMoves, ActivateFields
  <2>7. r.activeTurn # NoOp => f.activeTurn = r.activeTurn
    BY <2>1, <2>5, ActivateFields DEF Granted
  <2>8. Moves(e, f, {})
    BY <2>4, <2>5, <2>6, MovesTransitive
  <2>. QED BY <1>2, <2>2, <2>5, <2>6, <2>7, <2>8 DEF f
<1>. QED BY <1>1, <1>2

LEMMA RequestMoves ==
    ASSUME NEW e \in Shape, NEW o \in Op, Planning(e, o)
    PROVE  /\ Moves(e, request_commit_turn(e, o), {o}) /\ Waiting(request_commit_turn(e, o), o)
           /\ request_commit_turn(e, o).authority = e.authority
           /\ request_commit_turn(e, o).operations = e.operations
           /\ request_commit_turn(e, o).ordinal[o] = e.ordinal[o]
<1>. DEFINE f == request_commit_turn(e, o)
<1>0. /\ e.status \in [Op -> {"none", "valid", "invalid"}] /\ e.ordinal \in [Op -> Nat]
      /\ e.turn \in [Op -> {"none", "granted", "rejected"}]
      /\ o \notin e.requested
  BY DEF Shape, Planning
<1>1. CASE e.status[o] # "valid"
  <2>1. f = [e EXCEPT !.turn[o] = "rejected"]
    BY <1>1 DEF request_commit_turn
  <2>2. /\ f \in Shape
        /\ f.authority = e.authority
        /\ f.status = e.status /\ f.ordinal = e.ordinal
        /\ f.requested = e.requested /\ f.requests = e.requests
        /\ f.turn = [e.turn EXCEPT ![o] = "rejected"]
        /\ f.activeTurn = e.activeTurn /\ f.phase = e.phase /\ f.operations = e.operations
    BY <2>1 DEF Shape
  <2>. HIDE DEF f
  <2>3. ASSUME NEW n \in Op \ {o} PROVE Keeps(e, f, n)
    BY <2>2, <1>0 DEF Keeps, Away, Planning, Waiting, Finalizing
  <2>4. Waiting(f, o)
    BY <2>2, <1>0, <1>1 DEF Planning, Waiting
  <2>. QED BY <2>2, <2>3, <2>4 DEF Moves, f
<1>2. CASE e.status[o] = "valid"
  <2>. DEFINE q == [e EXCEPT !.requested = @ \cup {o}, !.requests = @ \cup {o}, !.turn[o] = "none"]
  <2>1. f = activate_turn(q)
    BY <1>0, <1>2 DEF request_commit_turn
  <2>2. /\ q \in Shape
        /\ q.authority = e.authority
        /\ q.status = e.status /\ q.ordinal = e.ordinal
        /\ q.requested = e.requested \cup {o} /\ q.requests = e.requests \cup {o}
        /\ q.turn = [e.turn EXCEPT ![o] = "none"]
        /\ q.activeTurn = e.activeTurn /\ q.phase = e.phase /\ q.operations = e.operations
    BY DEF Shape
  <2>. HIDE DEF q, f
  <2>3. ASSUME NEW n \in Op \ {o} PROVE Keeps(e, q, n)
    BY <2>2, <1>0 DEF Keeps, Away, Planning, Waiting, Finalizing
  <2>4. Waiting(q, o)
    BY <2>2, <1>0, <1>2 DEF Planning, Waiting
  <2>5. Moves(e, q, {o})
    BY <2>2, <2>3 DEF Moves
  <2>6. /\ Moves(q, f, {}) /\ f.authority = q.authority /\ f.operations = q.operations
        /\ f.ordinal = q.ordinal
    BY <2>1, <2>2, ActivateMoves, ActivateFields
  <2>7. Waiting(f, o) /\ Moves(q, f, {o})
    BY <2>4, <2>6 DEF Moves, Keeps
  <2>. QED BY <2>2, <2>5, <2>6, <2>7, MovesTransitive DEF f
<1>. QED BY <1>0, <1>1, <1>2

LEMMA FinalizationMoves ==
    ASSUME NEW e \in Shape, NEW o \in Op, Waiting(e, o), e.turn[o] = "granted"
    PROVE  /\ Moves(e, start_finalization(e), {o}) /\ Finalizing(start_finalization(e), o)
           /\ start_finalization(e).authority = e.authority
           /\ start_finalization(e).operations = e.operations
           /\ start_finalization(e).ordinal = e.ordinal
           /\ start_finalization(e).status = e.status
<1>. DEFINE f == start_finalization(e)
<1>1. /\ f \in Shape
      /\ f.authority = e.authority
      /\ f.status = e.status /\ f.ordinal = e.ordinal
      /\ f.requested = e.requested /\ f.requests = e.requests /\ f.turn = e.turn
      /\ f.activeTurn = e.activeTurn /\ f.phase = "finalizing" /\ f.operations = e.operations
  BY DEF start_finalization, Shape
<1>2. /\ e.activeTurn = o /\ o \notin e.requests /\ e.status[o] # "none"
  BY DEF Waiting
<1>. HIDE DEF f
<1>3. ASSUME NEW n \in Op \ {o} PROVE Keeps(e, f, n)
  BY <1>1, <1>2 DEF Keeps, Away, Planning, Waiting, Finalizing
<1>4. Finalizing(f, o)
  BY <1>1, <1>2 DEF Finalizing
<1>. QED BY <1>1, <1>3, <1>4 DEF Moves, f

\* The operation that has the turn gives it up.
LEMMA ReleaseMoves ==
    ASSUME NEW e \in Shape, NEW o \in Op, Waiting(e, o) \/ Finalizing(e, o)
    PROVE  /\ Moves(e, release_commit_turn(e, o), {o})
           /\ release_commit_turn(e, o).activeTurn # o
           /\ release_commit_turn(e, o).status = e.status
           /\ release_commit_turn(e, o).ordinal = e.ordinal
           /\ release_commit_turn(e, o).authority = e.authority
           /\ release_commit_turn(e, o).operations = e.operations
           /\ e.activeTurn = o => Planning(release_commit_turn(e, o), o)
<1>. DEFINE f == release_commit_turn(e, o)
<1>1. CASE e.activeTurn # o
  <2>1. f = e
    BY <1>1 DEF release_commit_turn
  <2>. QED BY <2>1, <1>1, MovesReflexive
<1>2. CASE e.activeTurn = o
  <2>. DEFINE q == [e EXCEPT !.requested = @ \ {o}, !.activeTurn = NoOp]
  <2>1. f = activate_turn(q)
    BY <1>2 DEF release_commit_turn
  <2>2. /\ q \in Shape
        /\ q.authority = e.authority
        /\ q.status = e.status /\ q.ordinal = e.ordinal
        /\ q.requested = e.requested \ {o} /\ q.requests = e.requests /\ q.turn = e.turn
        /\ q.activeTurn = NoOp /\ q.phase = e.phase /\ q.operations = e.operations
    BY DEF Shape
  <2>3. o # NoOp /\ NoOp \notin Op
    BY EntryAssumption
  <2>. HIDE DEF q, f
  <2>4. ASSUME NEW n \in Op \ {o} PROVE Keeps(e, q, n)
    BY <2>2, <2>3, <1>2 DEF Keeps, Away, Planning, Waiting, Finalizing
  <2>5. Planning(q, o)
    BY <2>2, <2>3, <1>2 DEF Planning, Waiting, Finalizing
  <2>6. Moves(e, q, {o})
    BY <2>2, <2>4 DEF Moves
  <2>7. /\ Moves(q, f, {}) /\ f.authority = q.authority /\ f.operations = q.operations
        /\ f.status = q.status /\ f.ordinal = q.ordinal
    BY <2>1, <2>2, ActivateMoves, ActivateFields
  <2>8. Planning(f, o) /\ Moves(q, f, {o})
    BY <2>5, <2>7 DEF Moves, Keeps
  <2>9. f.activeTurn # o
    BY <2>8 DEF Planning
  <2>. QED BY <2>2, <2>6, <2>7, <2>8, <2>9, MovesTransitive DEF f
<1>. QED BY <1>1, <1>2

\* An operation that does not have the turn ends.
LEMMA FinishMoves ==
    ASSUME NEW e \in Shape, NEW o \in Op, e.activeTurn # o, e.status[o] # "none"
    PROVE  /\ Moves(e, finish(e, o), {o}) /\ Away(finish(e, o), o)
           /\ finish(e, o).authority = e.authority
           /\ finish(e, o).operations = e.operations - 1
           /\ finish(e, o).ordinal[o] = e.ordinal[o]
<1>. DEFINE f == finish(e, o)
            r == reject_requests(e, {o})
            q == [r EXCEPT !.status[o] = "none", !.requested = @ \ {o}, !.operations = @ - 1]
<1>1. f = activate_turn(q)
  BY DEF finish
<1>2. /\ r \in Shape
      /\ r.authority = e.authority /\ r.status = e.status
      /\ r.ordinal = e.ordinal /\ r.nextOrdinal = e.nextOrdinal /\ r.requested = e.requested
      /\ r.activeTurn = e.activeTurn /\ r.phase = e.phase /\ r.operations = e.operations
      /\ r.requests = e.requests \ {o}
      /\ \A n \in Op : r.turn[n] = IF n \in {o} \cap e.requests THEN "rejected" ELSE e.turn[n]
  BY RejectFields
<1>. HIDE DEF r
<1>3. e.operations \in Int /\ e.operations - 1 \in Int
  BY DEF Shape
<1>4. ASSUME NEW c \in Int
      PROVE  LET s == [r EXCEPT !.status[o] = "none", !.requested = @ \ {o}, !.operations = c] IN
             /\ s \in Shape
             /\ s.authority = r.authority /\ s.ordinal = r.ordinal
             /\ s.status = [r.status EXCEPT ![o] = "none"]
             /\ s.requested = r.requested \ {o} /\ s.requests = r.requests /\ s.turn = r.turn
             /\ s.activeTurn = r.activeTurn /\ s.phase = r.phase /\ s.operations = c
  BY <1>2 DEF Shape
<1>5. q = [r EXCEPT !.status[o] = "none", !.requested = @ \ {o}, !.operations = e.operations - 1]
  BY <1>2
<1>6. /\ q \in Shape
      /\ q.authority = r.authority /\ q.ordinal = r.ordinal
      /\ q.status = [r.status EXCEPT ![o] = "none"]
      /\ q.requested = r.requested \ {o} /\ q.requests = r.requests /\ q.turn = r.turn
      /\ q.activeTurn = r.activeTurn /\ q.phase = r.phase /\ q.operations = e.operations - 1
  BY <1>3, <1>4, <1>5
<1>. HIDE DEF q, f
<1>7. e.status \in [Op -> {"none", "valid", "invalid"}]
  BY DEF Shape
<1>8. ASSUME NEW n \in Op \ {o} PROVE Keeps(e, q, n)
  BY <1>2, <1>6, <1>7 DEF Keeps, Away, Planning, Waiting, Finalizing
<1>9. Away(q, o)
  BY <1>2, <1>6, <1>7 DEF Away
<1>10. Moves(e, q, {o})
  BY <1>6, <1>8 DEF Moves
<1>11. /\ Moves(q, f, {}) /\ f.authority = q.authority /\ f.operations = q.operations
       /\ f.ordinal = q.ordinal
  BY <1>1, <1>6, ActivateMoves, ActivateFields
<1>12. Away(f, o) /\ Moves(q, f, {o})
  BY <1>9, <1>11 DEF Moves, Keeps
<1>. QED BY <1>2, <1>6, <1>10, <1>11, <1>12, MovesTransitive DEF f

\* new is an entry that operation o may end with: o has given the turn up, or is
\* gone and counted out already.
Ending(e, new, o) ==
    /\ Moves(e, new, {o})
    /\ new.activeTurn # o
    /\ new.ordinal[o] = e.ordinal[o]
    /\ \/ new.status[o] # "none" /\ new.operations = e.operations
       \/ Away(new, o) /\ new.operations = e.operations - 1

Ended(e, f, o) ==
    /\ Moves(e, f, {o})
    /\ Away(f, o)
    /\ f.ordinal[o] = e.ordinal[o]
    /\ f.operations = e.operations - 1

LEMMA EndingPlanning ==
    ASSUME NEW e \in Shape, NEW o \in Op,
           Planning(e, o) \/ (Waiting(e, o) /\ e.turn[o] = "rejected")
    PROVE  Ending(e, e, o)
BY MovesReflexive DEF Ending, Planning, Waiting

LEMMA EndingReleased ==
    ASSUME NEW e \in Shape, NEW o \in Op, Waiting(e, o) \/ Finalizing(e, o)
    PROVE  /\ Ending(e, release_commit_turn(e, o), o)
           /\ release_commit_turn(e, o).authority = e.authority
<1>1. e.status[o] # "none"
  BY DEF Waiting, Finalizing
<1>. QED BY <1>1, ReleaseMoves DEF Ending

LEMMA EndingConcluded ==
    ASSUME NEW e \in Shape, NEW o \in Op, NEW authority \in Authority,
           Waiting(e, o) \/ Finalizing(e, o), e.activeTurn = o
    PROVE  /\ Ending(e, conclude(e, o, authority), o)
           /\ conclude(e, o, authority).authority =
                IF install_type(e, authority) = "installed" THEN authority ELSE e.authority
<1>. DEFINE i == install_authority(e, authority, o)
            q == [i EXCEPT !.activeTurn = NoOp]
            f == conclude(e, o, authority)
<1>1. o # NoOp /\ NoOp \notin Op
  BY EntryAssumption
<1>2. /\ Moves(e, i, {})
      /\ i.authority = IF install_type(e, authority) = "installed" THEN authority ELSE e.authority
      /\ i.operations = e.operations
      /\ i.activeTurn = o
  BY <1>1, InstallMoves
<1>3. i \in Shape /\ Moves(e, i, {o}) /\ i.ordinal[o] = e.ordinal[o] /\ i.status[o] # "none"
  BY <1>2 DEF Moves, Keeps, Waiting, Finalizing
<1>4. f = finish(q, o)
  BY DEF conclude
<1>. HIDE DEF i, f
<1>5. /\ q \in Shape
      /\ q.authority = i.authority /\ q.status = i.status /\ q.ordinal = i.ordinal
      /\ q.requested = i.requested /\ q.requests = i.requests /\ q.turn = i.turn
      /\ q.activeTurn = NoOp /\ q.phase = i.phase /\ q.operations = i.operations
  BY <1>3 DEF Shape
<1>. HIDE DEF q
<1>6. ASSUME NEW n \in Op \ {o} PROVE Keeps(i, q, n)
  BY <1>1, <1>2, <1>5 DEF Keeps, Away, Planning, Waiting, Finalizing
<1>7. Moves(i, q, {o})
  BY <1>5, <1>6 DEF Moves
<1>8. /\ Moves(q, f, {o}) /\ Away(f, o)
      /\ f.authority = q.authority
      /\ f.operations = q.operations - 1
      /\ f.ordinal[o] = q.ordinal[o]
  BY <1>1, <1>3, <1>4, <1>5, FinishMoves
<1>9. Moves(e, f, {o})
  BY <1>3, <1>7, <1>8, MovesTransitive
<1>10. f.activeTurn # o
  BY <1>8 DEF Away
<1>. QED BY <1>2, <1>3, <1>5, <1>8, <1>9, <1>10 DEF Ending, f

LEMMA EndMoves ==
    ASSUME NEW e \in Shape, NEW new, NEW o \in Op, Ending(e, new, o)
    PROVE  LET f == IF KindOf[o] = "physical" THEN cancel(new, o) ELSE finish(new, o) IN
           Ended(e, f, o) /\ f.authority = new.authority
<1>. DEFINE f == IF KindOf[o] = "physical" THEN cancel(new, o) ELSE finish(new, o)
<1>1. f = finish(new, o) /\ new \in Shape
  BY DEF Ending, cancel, Moves
<1>. HIDE DEF f
<1>2. CASE new.status[o] # "none"
  <2>1. new.operations = e.operations /\ new.activeTurn # o
    BY <1>2 DEF Ending, Away
  <2>2. /\ Moves(new, f, {o}) /\ Away(f, o) /\ f.authority = new.authority
        /\ f.operations = new.operations - 1 /\ f.ordinal[o] = new.ordinal[o]
    BY <1>1, <1>2, <2>1, FinishMoves
  <2>. QED BY <2>1, <2>2, MovesTransitive DEF Ending, Ended, f
<1>3. CASE new.status[o] = "none"
  <2>1. f = new
    BY <1>1, <1>3 DEF finish
  <2>. QED BY <2>1, <1>3 DEF Ending, Ended, f
<1>. QED BY <1>2, <1>3

-----------------------------------------------------------------------------
Database ==
    [ entries : [Path -> StoredEntry \cup {NoEntry}], absenceRevision : Nat,
      nextRevision : Nat, before : SUBSET (Path \X Path) ]

\* A database that holds the entry of this file at most.
Store == {d \in Database : \A path \in Path \ {File} : d.entries[path] = NoEntry}

\* What the transactions of the file read of a database.
LEMMA SnapshotTypes ==
    ASSUME NEW d \in Store
    PROVE  /\ revision_of(d, File) \in Nat
           /\ state_of(d, File) \in SUBSET Op
           /\ authority_of(d, File) \in Authority
           /\ stages_of(d, File) \in SUBSET Stage
<1>1. /\ File \in Path /\ EmptyState = {}
      /\ d.entries \in [Path -> StoredEntry \cup {NoEntry}] /\ d.absenceRevision \in Nat
  BY FileCoordinatorAssumption DEF Store, Database
<1>2. present(d, File) => d.entries[File] \in StoredEntry
  BY <1>1 DEF present
<1>3. empty_authority \in Authority
  BY DEF empty_authority, Authority
<1>. QED
  BY <1>1, <1>2, <1>3 DEF revision_of, state_of, authority_of, stages_of, StoredEntry

\* The process that runs a transaction has a lease of the file and no stage is
\* stale, so retention leaves the database as it is.
LEMMA RetentionKeeps ==
    ASSUME NEW d \in Store
    PROVE  run_retention(d, {File}, {}) = d
<1>1. /\ d.entries \in [Path -> StoredEntry \cup {NoEntry}]
      /\ d = [entries |-> d.entries, absenceRevision |-> d.absenceRevision,
              nextRevision |-> d.nextRevision, before |-> d.before]
  BY DEF Store, Database
<1>2. ASSUME NEW p \in Path PROVE ~ \E s \in stages_of(d, p) : s.stale
  <2>1. present(d, p) => d.entries[p] \in StoredEntry
    BY <1>1 DEF present
  <2>2. stages_of(d, p) \in SUBSET Stage
    BY <2>1 DEF stages_of, StoredEntry
  <2>. QED BY <2>2 DEF Stage
<1>3. [p \in Path |-> IF \E s \in stages_of(d, p) : s.stale
                      THEN without_stale_stages(d.entries[p]) ELSE d.entries[p]] = d.entries
  BY <1>1, <1>2
<1>4. cleanup_stale_stages(d) = [d EXCEPT !.entries = d.entries]
  BY <1>3 DEF cleanup_stale_stages
<1>5. cleanup_stale_stages(d) = d
  BY <1>1, <1>4
<1>6. ordinary(d, {File}, {}) = {}
  BY DEF ordinary, present_paths, present, Store
<1>7. victims_of(d, {File}, {}) = {}
  BY <1>6 DEF victims_of
<1>. QED BY <1>5, <1>7 DEF run_retention, evict_entries

\* The database d after the entry of the file was written, whatever the recency.
LEMMA EntryWritten ==
    ASSUME NEW d \in Store, NEW new \in StoredEntry, NEW n \in Nat, NEW f \in Database,
           f.entries = [d.entries EXCEPT ![File] = new],
           f.nextRevision = n, f.absenceRevision = d.absenceRevision
    PROVE  /\ f \in Store
           /\ revision_of(f, File) = new.revision
           /\ state_of(f, File) = new.state
           /\ authority_of(f, File) = new.authority
           /\ stages_of(f, File) = new.stages
           /\ present(f, File)
<1>1. /\ File \in Path /\ new # NoEntry
      /\ d.entries \in [Path -> StoredEntry \cup {NoEntry}]
  BY FileCoordinatorAssumption, MarkerAssumption DEF Store, Database
<1>2. f.entries[File] = new /\ \A path \in Path \ {File} : f.entries[path] = NoEntry
  BY <1>1 DEF Store
<1>. QED
  BY <1>1, <1>2 DEF Store, present, revision_of, state_of, authority_of, stages_of

LEMMA RefreshFields ==
    ASSUME NEW d \in Database
    PROVE  /\ refresh_order(d, File) \in Database
           /\ refresh_order(d, File).entries = d.entries
           /\ refresh_order(d, File).nextRevision = d.nextRevision
           /\ refresh_order(d, File).absenceRevision = d.absenceRevision
<1>. DEFINE b == forget(d.before, {File}) \cup {<<p, File>> : p \in present_paths(d) \ {File}}
<1>1. b \in SUBSET (Path \X Path)
  BY FileCoordinatorAssumption DEF forget, present_paths, Database
<1>2. refresh_order(d, File) = [d EXCEPT !.before = b]
  BY DEF refresh_order
<1>. HIDE DEF b
<1>. QED BY <1>1, <1>2 DEF Database

LEMMA SetEntryFields ==
    ASSUME NEW d \in Database, NEW new \in StoredEntry
    PROVE  /\ set_entry(d, File, new) \in Database
           /\ set_entry(d, File, new).entries = [d.entries EXCEPT ![File] = new]
           /\ set_entry(d, File, new).nextRevision = d.nextRevision
           /\ set_entry(d, File, new).absenceRevision = d.absenceRevision
BY FileCoordinatorAssumption DEF set_entry, Database

LEMMA AllocateFields ==
    ASSUME NEW d \in Database
    PROVE  /\ allocate_revision(d) \in Database
           /\ allocate_revision(d).entries = d.entries
           /\ allocate_revision(d).nextRevision = d.nextRevision + 1
           /\ allocate_revision(d).absenceRevision = d.absenceRevision
<1>. DEFINE n == d.nextRevision + 1
<1>1. n \in Nat
  BY DEF Database
<1>2. allocate_revision(d) = [d EXCEPT !.nextRevision = n]
  BY DEF allocate_revision
<1>. HIDE DEF n
<1>3. /\ allocate_revision(d) \in Database
      /\ allocate_revision(d).entries = d.entries
      /\ allocate_revision(d).nextRevision = n
      /\ allocate_revision(d).absenceRevision = d.absenceRevision
  BY <1>1, <1>2 DEF Database
<1>. QED BY <1>3 DEF n

-----------------------------------------------------------------------------
LEMMA WriteEffect ==
    ASSUME NEW d \in Store, NEW state \in SUBSET Op
    PROVE  LET f == write_state(d, File, state, {File}) IN
           /\ f \in Store
           /\ revision_of(f, File) = d.nextRevision
           /\ f.nextRevision = d.nextRevision + 1
           /\ state_of(f, File) = state
           /\ authority_of(f, File) = authority_of(d, File)
           /\ stages_of(f, File) = stages_of(d, File)
<1>. DEFINE new == [ revision |-> d.nextRevision, state |-> state,
                     authority |-> authority_of(d, File),
                     stages |-> stages_of(d, File), copyProvenance |-> NoCopy ]
            a == allocate_revision(d)
            w == set_entry(a, File, new)
            r == refresh_order(w, File)
<1>1. d \in Database /\ d.nextRevision \in Nat /\ d.nextRevision + 1 \in Nat
  BY DEF Store, Database
<1>2. new \in StoredEntry
  BY <1>1, SnapshotTypes DEF StoredEntry
<1>3. write_state(d, File, state, {File}) = run_retention(r, {File}, {})
  BY DEF write_state
<1>4. /\ new.revision = d.nextRevision /\ new.state = state
      /\ new.authority = authority_of(d, File) /\ new.stages = stages_of(d, File)
  OBVIOUS
<1>. HIDE DEF new
<1>5. /\ a \in Database /\ a.entries = d.entries /\ a.nextRevision = d.nextRevision + 1
      /\ a.absenceRevision = d.absenceRevision
  BY <1>1, AllocateFields
<1>. HIDE DEF a
<1>6. /\ w \in Database /\ w.entries = [d.entries EXCEPT ![File] = new]
      /\ w.nextRevision = d.nextRevision + 1 /\ w.absenceRevision = d.absenceRevision
  BY <1>2, <1>5, SetEntryFields
<1>. HIDE DEF w
<1>7. /\ r \in Database /\ r.entries = [d.entries EXCEPT ![File] = new]
      /\ r.nextRevision = d.nextRevision + 1 /\ r.absenceRevision = d.absenceRevision
  BY <1>6, RefreshFields
<1>. HIDE DEF r
<1>8. /\ r \in Store
      /\ revision_of(r, File) = new.revision
      /\ state_of(r, File) = new.state
      /\ authority_of(r, File) = new.authority
      /\ stages_of(r, File) = new.stages
  BY <1>1, <1>2, <1>7, EntryWritten
<1>9. write_state(d, File, state, {File}) = r
  BY <1>3, <1>8, RetentionKeeps
<1>. QED BY <1>4, <1>7, <1>8, <1>9

LEMMA StageEffect ==
    ASSUME NEW d \in Store, NEW stage \in Stage
    PROVE  LET f == stage_authority_transaction(d, File, stage, {File}) IN
           /\ f \in Store
           /\ revision_of(f, File) = revision_of(d, File)
           /\ f.nextRevision = d.nextRevision
           /\ state_of(f, File) = state_of(d, File)
           /\ authority_of(f, File) = authority_of(d, File)
           /\ stages_of(f, File) = {s \in stages_of(d, File) : s.id # stage.id} \cup {stage}
<1>. DEFINE old == IF present(d, File) THEN d.entries[File] ELSE empty_entry(d.absenceRevision)
            kept == {s \in old.stages : s.id # stage.id} \cup {stage}
            new == [old EXCEPT !.stages = kept, !.copyProvenance = NoCopy]
            w == set_entry(d, File, new)
            r == IF present(d, File) THEN w ELSE refresh_order(w, File)
<1>1. /\ d \in Database /\ d.nextRevision \in Nat /\ File \in Path /\ EmptyState = {}
      /\ d.absenceRevision \in Nat /\ d.entries \in [Path -> StoredEntry \cup {NoEntry}]
  BY FileCoordinatorAssumption DEF Store, Database
<1>2. empty_authority \in Authority
  BY DEF empty_authority, Authority
<1>3. /\ old \in StoredEntry
      /\ old.revision = revision_of(d, File) /\ old.state = state_of(d, File)
      /\ old.authority = authority_of(d, File) /\ old.stages = stages_of(d, File)
  <2>1. CASE present(d, File)
    <3>1. d.entries[File] \in StoredEntry
      BY <1>1, <2>1 DEF present
    <3>. QED BY <2>1, <3>1 DEF revision_of, state_of, authority_of, stages_of
  <2>2. CASE ~present(d, File)
    <3>1. old = empty_entry(d.absenceRevision)
      BY <2>2
    <3>2. /\ old \in StoredEntry /\ old.revision = d.absenceRevision /\ old.state = EmptyState
          /\ old.authority = empty_authority /\ old.stages = {}
      BY <3>1, <1>1, <1>2 DEF empty_entry, StoredEntry
    <3>. QED BY <2>2, <3>2 DEF revision_of, state_of, authority_of, stages_of
  <2>. QED BY <2>1, <2>2
<1>4. stage_authority_transaction(d, File, stage, {File}) = run_retention(r, {File}, {})
  BY DEF stage_authority_transaction
<1>. HIDE DEF old
<1>5. kept \in SUBSET Stage
  BY <1>3 DEF StoredEntry
<1>6. kept = {s \in stages_of(d, File) : s.id # stage.id} \cup {stage}
  BY <1>3
<1>. HIDE DEF kept
<1>7. /\ new \in StoredEntry
      /\ new.revision = old.revision /\ new.state = old.state
      /\ new.authority = old.authority /\ new.stages = kept
  BY <1>3, <1>5 DEF StoredEntry
<1>. HIDE DEF new
<1>8. /\ w \in Database /\ w.entries = [d.entries EXCEPT ![File] = new]
      /\ w.nextRevision = d.nextRevision /\ w.absenceRevision = d.absenceRevision
  BY <1>1, <1>7, SetEntryFields
<1>. HIDE DEF w
<1>9. /\ r \in Database /\ r.entries = [d.entries EXCEPT ![File] = new]
      /\ r.nextRevision = d.nextRevision /\ r.absenceRevision = d.absenceRevision
  BY <1>8, RefreshFields
<1>. HIDE DEF r
<1>10. /\ r \in Store
       /\ revision_of(r, File) = new.revision
       /\ state_of(r, File) = new.state
       /\ authority_of(r, File) = new.authority
       /\ stages_of(r, File) = new.stages
  BY <1>1, <1>7, <1>9, EntryWritten
<1>11. stage_authority_transaction(d, File, stage, {File}) = r
  BY <1>4, <1>10, RetentionKeeps
<1>. QED BY <1>3, <1>6, <1>7, <1>9, <1>10, <1>11

LEMMA NamedStage ==
    ASSUME NEW d \in Store, NEW o, stage_present(d, File, o)
    PROVE  /\ stage_named(d, File, o) \in stages_of(d, File)
           /\ stage_named(d, File, o) \in Stage
           /\ stage_named(d, File, o).id = o
           /\ present(d, File)
<1>1. stages_of(d, File) \in SUBSET Stage
  BY SnapshotTypes
<1>2. stage_named(d, File, o) \in stages_of(d, File) /\ stage_named(d, File, o).id = o
  BY DEF stage_present, stage_named
<1>3. present(d, File)
  BY <1>2 DEF stages_of
<1>. QED BY <1>1, <1>2, <1>3

LEMMA FinalizeEffect ==
    ASSUME NEW d \in Store, NEW o, stage_present(d, File, o)
    PROVE  LET f     == finalize_authority_transaction(d, File, o, {File})
               stage == stage_named(d, File, o)
               state == IF stage.nextState = NoState THEN state_of(d, File) ELSE stage.nextState
           IN  /\ f \in Store
               /\ IF state = state_of(d, File)
                  THEN /\ revision_of(f, File) = revision_of(d, File)
                       /\ f.nextRevision = d.nextRevision
                  ELSE /\ revision_of(f, File) = d.nextRevision
                       /\ f.nextRevision = d.nextRevision + 1
               /\ state_of(f, File) = state
               /\ authority_of(f, File) =
                     advance(authority_of(d, File), stage.kind, stage.physicalDigest)
               /\ stages_of(f, File) = {s \in stages_of(d, File) : s.id # o}
<1>. DEFINE old == d.entries[File]
            stage == stage_named(d, File, o)
            state == IF stage.nextState = NoState THEN old.state ELSE stage.nextState
            changed == state # old.state
            revision == IF changed THEN d.nextRevision ELSE old.revision
            authority == advance(old.authority, stage.kind, stage.physicalDigest)
            kept == {s \in old.stages : s.id # o}
            new == [old EXCEPT !.revision = revision, !.state = state,
                               !.authority = authority, !.stages = kept,
                               !.copyProvenance = NoCopy]
            a == IF changed THEN allocate_revision(d) ELSE d
            w == set_entry(a, File, new)
            r == refresh_order(w, File)
<1>1. /\ d \in Database /\ d.nextRevision \in Nat /\ d.nextRevision + 1 \in Nat /\ File \in Path
      /\ d.entries \in [Path -> StoredEntry \cup {NoEntry}] /\ d.absenceRevision \in Nat
  BY FileCoordinatorAssumption DEF Store, Database
<1>2. stage \in Stage /\ present(d, File)
  BY NamedStage
<1>3. /\ old \in StoredEntry
      /\ old.revision = revision_of(d, File) /\ old.state = state_of(d, File)
      /\ old.authority = authority_of(d, File) /\ old.stages = stages_of(d, File)
  BY <1>1, <1>2 DEF present, revision_of, state_of, authority_of, stages_of
<1>4. finalize_authority_transaction(d, File, o, {File}) = run_retention(r, {File}, {})
  BY DEF finalize_authority_transaction
<1>. HIDE DEF old, stage
<1>5. state \in SUBSET Op /\ revision \in Nat /\ kept \in SUBSET Stage
  BY <1>1, <1>2, <1>3 DEF StoredEntry, Stage
<1>6. authority \in Authority
  BY <1>2, <1>3, AdvanceType DEF StoredEntry, Stage
<1>7. /\ a \in Database /\ a.entries = d.entries
      /\ a.nextRevision = (IF changed THEN d.nextRevision + 1 ELSE d.nextRevision)
      /\ a.nextRevision \in Nat
      /\ a.absenceRevision = d.absenceRevision
  BY <1>1, AllocateFields
<1>8. /\ revision = (IF changed THEN d.nextRevision ELSE revision_of(d, File))
      /\ kept = {s \in stages_of(d, File) : s.id # o}
  BY <1>3
<1>. HIDE DEF state, revision, kept, authority, changed, a
<1>9. /\ new \in StoredEntry
      /\ new.revision = revision /\ new.state = state
      /\ new.authority = authority /\ new.stages = kept
  BY <1>3, <1>5, <1>6 DEF StoredEntry
<1>. HIDE DEF new
<1>10. /\ w \in Database /\ w.entries = [d.entries EXCEPT ![File] = new]
       /\ w.nextRevision = a.nextRevision /\ w.absenceRevision = d.absenceRevision
  BY <1>7, <1>9, SetEntryFields
<1>. HIDE DEF w
<1>11. /\ r \in Database /\ r.entries = [d.entries EXCEPT ![File] = new]
       /\ r.nextRevision = a.nextRevision /\ r.absenceRevision = d.absenceRevision
  BY <1>10, RefreshFields
<1>. HIDE DEF r
<1>12. /\ r \in Store
       /\ revision_of(r, File) = new.revision
       /\ state_of(r, File) = new.state
       /\ authority_of(r, File) = new.authority
       /\ stages_of(r, File) = new.stages
  BY <1>7, <1>9, <1>11, EntryWritten
<1>13. finalize_authority_transaction(d, File, o, {File}) = r
  BY <1>4, <1>12, RetentionKeeps
<1>14. /\ authority = advance(authority_of(d, File), stage.kind, stage.physicalDigest)
       /\ state = IF stage.nextState = NoState THEN state_of(d, File) ELSE stage.nextState
       /\ changed <=> state # state_of(d, File)
  BY <1>3 DEF authority, state, changed
<1>15. /\ r \in Store
       /\ revision_of(r, File) = (IF changed THEN d.nextRevision ELSE revision_of(d, File))
       /\ r.nextRevision = (IF changed THEN d.nextRevision + 1 ELSE d.nextRevision)
       /\ state_of(r, File) = state
       /\ authority_of(r, File) = authority
       /\ stages_of(r, File) = {s \in stages_of(d, File) : s.id # o}
  BY <1>7, <1>8, <1>9, <1>11, <1>12
<1>. QED BY <1>13, <1>14, <1>15 DEF stage

LEMMA DiscardEffect ==
    ASSUME NEW d \in Store, NEW o
    PROVE  LET f == discard_authority_transaction(d, File, o, {File}) IN
           /\ f \in Store
           /\ revision_of(f, File) = revision_of(d, File)
           /\ f.nextRevision = d.nextRevision
           /\ state_of(f, File) = state_of(d, File)
           /\ authority_of(f, File) = authority_of(d, File)
           /\ stages_of(f, File) = {s \in stages_of(d, File) : s.id # o}
<1>1. CASE ~stage_present(d, File, o)
  <2>1. discard_authority_transaction(d, File, o, {File}) = d
    BY <1>1 DEF discard_authority_transaction
  <2>2. stages_of(d, File) = {s \in stages_of(d, File) : s.id # o}
    BY <1>1 DEF stage_present
  <2>. QED BY <2>1, <2>2
<1>2. CASE stage_present(d, File, o)
  <2>. DEFINE old == d.entries[File]
              kept == {s \in old.stages : s.id # o}
              new == [old EXCEPT !.stages = kept, !.copyProvenance = NoCopy]
              r == [d EXCEPT !.entries = [d.entries EXCEPT ![File] = new]]
  <2>1. /\ d \in Database /\ d.nextRevision \in Nat /\ File \in Path
        /\ d.entries \in [Path -> StoredEntry \cup {NoEntry}]
    BY FileCoordinatorAssumption DEF Store, Database
  <2>2. present(d, File)
    BY <1>2, NamedStage
  <2>3. /\ old \in StoredEntry
        /\ old.revision = revision_of(d, File) /\ old.state = state_of(d, File)
        /\ old.authority = authority_of(d, File) /\ old.stages = stages_of(d, File)
    BY <2>1, <2>2 DEF present, revision_of, state_of, authority_of, stages_of
  <2>4. discard_authority_transaction(d, File, o, {File}) = run_retention(r, {File}, {})
    <3>. DEFINE half == [d EXCEPT !.entries[File].stages = kept]
    <3>1. half.entries[File] = [old EXCEPT !.stages = kept]
      BY <2>1 DEF Database
    <3>. QED BY <1>2, <3>1, <2>1 DEF discard_authority_transaction, Database
  <2>. HIDE DEF old
  <2>5. kept \in SUBSET Stage /\ kept = {s \in stages_of(d, File) : s.id # o}
    BY <2>3 DEF StoredEntry
  <2>. HIDE DEF kept
  <2>6. /\ new \in StoredEntry
        /\ new.revision = old.revision /\ new.state = old.state
        /\ new.authority = old.authority /\ new.stages = kept
    BY <2>3, <2>5 DEF StoredEntry
  <2>. HIDE DEF new
  <2>7. /\ r \in Database /\ r.entries = [d.entries EXCEPT ![File] = new]
        /\ r.nextRevision = d.nextRevision /\ r.absenceRevision = d.absenceRevision
    BY <2>1, <2>6 DEF Database
  <2>. HIDE DEF r
  <2>8. /\ r \in Store
        /\ revision_of(r, File) = new.revision
        /\ state_of(r, File) = new.state
        /\ authority_of(r, File) = new.authority
        /\ stages_of(r, File) = new.stages
    BY <2>1, <2>6, <2>7, EntryWritten
  <2>9. discard_authority_transaction(d, File, o, {File}) = r
    BY <2>4, <2>8, RetentionKeeps
  <2>. QED BY <2>3, <2>5, <2>6, <2>7, <2>8, <2>9
<1>. QED BY <1>1, <1>2

LEMMA EvictEffect ==
    ASSUME NEW d \in Store
    PROVE  /\ remove_entries(d, {File}) \in Store
<1>. DEFINE e == [p \in Path |-> IF p \in {File} THEN NoEntry ELSE d.entries[p]]
            b == forget(d.before, {File})
            n == d.nextRevision + 1
            x == delete_entries(d, {File})
            a == allocate_revision(x)
<1>1. /\ e \in [Path -> StoredEntry \cup {NoEntry}]
      /\ \A path \in Path \ {File} : e[path] = NoEntry
      /\ b \in SUBSET (Path \X Path) /\ d.nextRevision \in Nat /\ d \in Database
  BY DEF Store, Database, forget
<1>2. x = [d EXCEPT !.entries = e, !.before = b]
  BY DEF delete_entries
<1>. HIDE DEF e, b
<1>3. x \in Database /\ x.entries = e
  BY <1>1, <1>2 DEF Database
<1>. HIDE DEF x
<1>4. a \in Database /\ a.entries = e
  BY <1>3, AllocateFields
<1>5. remove_entries(d, {File}) = [a EXCEPT !.absenceRevision = d.nextRevision]
  BY DEF remove_entries, a, x
<1>. HIDE DEF a
<1>. QED BY <1>1, <1>4, <1>5 DEF Store, Database

-----------------------------------------------------------------------------
Reply ==
    [ type : {"none", "ok", "conflict", "error"}, authority : Authority, revision : Nat,
      state : SUBSET Op, stagePresent : BOOLEAN ]

Locals ==
    [ expected : Authority, current : Authority, basis : Authority, finalized : Authority,
      revision : Nat, state : SUBSET Op, sequence : Nat, conflicts : Nat, reply : Reply ]

Receipts == [previous : Authority, resulting : Authority]

Results == {"committed", "rejected", "indeterminate", "advanced", "stale", "failed"}

Awaits == StoreCalls \cup {"idle", "requested", "loaded", "queued", "turn", "observe", "done"}

\* An operation that has not begun, or has ended, is in no entry.
Resting == {"idle", "loaded", "requested", "done"}

\* What an operation of a kind may await.
MayAwait(o, await) ==
    IF KindOf[o] = "highlight"
    THEN await \in {"idle", "requested", "queued", "read", "cas", "done"}
    ELSE await \in Awaits \ {"queued", "cas"}

Types ==
    /\ db \in Store
    /\ entry \in [Proc -> Shape]
    /\ queue \in [Proc -> Seq(Op \X (StoreCalls \cup {"discard"}))]
    /\ tail \in [Proc -> Seq(Op)]
    /\ pc \in [Op -> Awaits]
    /\ \A o \in Op : MayAwait(o, pc[o])
    /\ loc \in [Op -> Locals]
    /\ answer \in [Op -> Results \cup {"none"}]
    /\ receipt \in [Op -> Receipts]
    /\ applied \in [Op -> Nat]

\* Where operation o stands in the entry of its process.
Stands(e, o, await) ==
    IF KindOf[o] = "highlight" \/ await \in Resting THEN Away(e, o)
    ELSE IF await \in {"read", "stage"} THEN Planning(e, o)
    ELSE IF await \in {"turn", "observe"} THEN Waiting(e, o)
    ELSE Finalizing(e, o)

Stances ==
    \A p \in Proc, o \in Op :
        IF ProcOf[o] = p THEN Stands(entry[p], o, pc[o]) ELSE Away(entry[p], o)

Running(p) == {o \in Op : ProcOf[o] = p /\ pc[o] \notin Resting}

Balanced == \A p \in Proc : entry[p].operations = Cardinality(Running(p))

Lined == {"queued", "read", "cas"}

Line(p) == {o \in Op : ProcOf[o] = p /\ KindOf[o] = "highlight" /\ pc[o] \in Lined}

\* The highlight commands of a process wait in line and only the first one runs.
Lines ==
    \A p \in Proc :
       /\ \A i \in 1..Len(tail[p]) : tail[p][i] \in Line(p)
       /\ \A o \in Line(p) : \E i \in 1..Len(tail[p]) : tail[p][i] = o
       /\ \A i, j \in 1..Len(tail[p]) : tail[p][i] = tail[p][j] => i = j
       /\ \A o \in Line(p) : pc[o] # "queued" => o = tail[p][1]

\* A call in a queue is the one its operation awaits the answer of, or a discard
\* that nobody awaits.
Calls ==
    \A p \in Proc : \A i \in 1..Len(queue[p]) :
       LET o    == queue[p][i][1]
           call == queue[p][i][2]
       IN  /\ ProcOf[o] = p
           /\ call = "discard" => pc[o] = "done"
           /\ call # "discard" => /\ pc[o] = call /\ loc[o].reply.type = "none"
                                  /\ \A j \in 1..Len(queue[p]) : queue[p][j][1] = o => j = i

LocalInv == Types /\ Stances /\ Balanced /\ Lines /\ Calls

-----------------------------------------------------------------------------
LEMMA Appended ==
    ASSUME NEW S, NEW s \in Seq(S), NEW e \in S
    PROVE  /\ Append(s, e) \in Seq(S)
           /\ Len(s) \in Nat /\ Len(Append(s, e)) = Len(s) + 1
           /\ DOMAIN s = 1..Len(s) /\ DOMAIN Append(s, e) = 1..(Len(s) + 1)
           /\ \A i \in 1..Len(s) : Append(s, e)[i] = s[i]
           /\ Append(s, e)[Len(s) + 1] = e
<1>1. /\ Append(s, e) \in Seq(S)
      /\ Len(Append(s, e)) = Len(s) + 1
      /\ \A i \in 1..Len(s) : Append(s, e)[i] = s[i]
      /\ Append(s, e)[Len(s) + 1] = e
  BY AppendProperties
<1>. QED BY <1>1, LenProperties

LEMMA Taken ==
    ASSUME NEW S, NEW s \in Seq(S), s # <<>>
    PROVE  /\ Tail(s) \in Seq(S) /\ Head(s) \in S /\ Head(s) = s[1]
           /\ Len(s) \in Nat \ {0} /\ Len(Tail(s)) = Len(s) - 1
           /\ DOMAIN s = 1..Len(s) /\ DOMAIN Tail(s) = 1..(Len(s) - 1)
           /\ \A i \in 1..(Len(s) - 1) : Tail(s)[i] = s[i + 1]
<1>1. /\ Tail(s) \in Seq(S) /\ Head(s) \in S
      /\ Len(Tail(s)) = Len(s) - 1
      /\ \A i \in 1..Len(Tail(s)) : Tail(s)[i] = s[i + 1]
  BY HeadTailProperties
<1>2. Len(s) \in Nat \ {0}
  BY EmptySeq, LenProperties
<1>. QED BY <1>1, <1>2, LenProperties

LEMMA Membership ==
    ASSUME Types
    PROVE  /\ \A p \in Proc : /\ entry[p] \in Shape
                              /\ queue[p] \in Seq(Op \X (StoreCalls \cup {"discard"}))
                              /\ tail[p] \in Seq(Op) /\ Len(tail[p]) \in Nat
                              /\ Len(queue[p]) \in Nat
           /\ \A o \in Op : /\ ProcOf[o] \in Proc
                            /\ KindOf[o] \in {"physical", "projection", "highlight"}
                            /\ pc[o] \in Awaits /\ loc[o] \in Locals /\ loc[o].reply \in Reply
                            /\ entry[ProcOf[o]] \in Shape
<1>1. \A p \in Proc : /\ entry[p] \in Shape
                      /\ queue[p] \in Seq(Op \X (StoreCalls \cup {"discard"}))
                      /\ tail[p] \in Seq(Op)
  <2>. DEFINE S == Op \X (StoreCalls \cup {"discard"})
  <2>1. /\ entry \in [Proc -> Shape] /\ queue \in [Proc -> Seq(S)] /\ tail \in [Proc -> Seq(Op)]
    BY DEF Types
  <2>. HIDE DEF S
  <2>2. \A p \in Proc : entry[p] \in Shape /\ queue[p] \in Seq(S) /\ tail[p] \in Seq(Op)
    BY <2>1
  <2>. QED BY <2>2 DEF S
<1>2. \A o \in Op : /\ ProcOf[o] \in Proc
                    /\ KindOf[o] \in {"physical", "projection", "highlight"}
                    /\ pc[o] \in Awaits /\ loc[o] \in Locals
  BY FileCoordinatorAssumption, EntryAssumption DEF Types
<1>3. \A o \in Op : loc[o].reply \in Reply
  BY <1>2 DEF Locals
<1>. QED BY <1>1, <1>2, <1>3, LenProperties

\* Only the entry of one process changes, and where one operation stands in it.
Turned(o, new, await) ==
    /\ entry' = [entry EXCEPT ![ProcOf[o]] = new]
    /\ pc' = [pc EXCEPT ![o] = await]
    /\ Moves(entry[ProcOf[o]], new, {o})
    /\ Stands(new, o, await)
    /\ new.operations = entry[ProcOf[o]].operations
                        + (IF await \in Resting THEN 0 ELSE 1)
                        - (IF pc[o] \in Resting THEN 0 ELSE 1)

LEMMA TurnedStances ==
    ASSUME Types, Stances, NEW o \in Op, NEW new, NEW await \in Awaits, Turned(o, new, await)
    PROVE  entry' \in [Proc -> Shape] /\ pc' \in [Op -> Awaits] /\ Stances'
<1>1. /\ entry \in [Proc -> Shape] /\ ProcOf[o] \in Proc /\ pc \in [Op -> Awaits]
      /\ new \in Shape
      /\ entry' = [entry EXCEPT ![ProcOf[o]] = new] /\ pc' = [pc EXCEPT ![o] = await]
      /\ Stands(new, o, await)
  BY Membership DEF Types, Turned, Moves
<1>2. entry' \in [Proc -> Shape] /\ pc' \in [Op -> Awaits]
  BY <1>1
<1>3. ASSUME NEW p \in Proc, NEW n \in Op
      PROVE  IF ProcOf[n] = p THEN Stands(entry'[p], n, pc'[n]) ELSE Away(entry'[p], n)
  <2>1. IF ProcOf[n] = p THEN Stands(entry[p], n, pc[n]) ELSE Away(entry[p], n)
    BY DEF Stances
  <2>2. CASE p # ProcOf[o]
    <3>1. entry'[p] = entry[p] /\ (ProcOf[n] = p => pc'[n] = pc[n])
      BY <1>1, <2>2
    <3>. QED BY <2>1, <3>1
  <2>3. CASE p = ProcOf[o] /\ n # o
    <3>1. entry'[p] = new /\ pc'[n] = pc[n]
      BY <1>1, <2>3
    <3>2. Keeps(entry[p], new, n)
      BY <2>3 DEF Turned, Moves
    <3>. QED BY <2>1, <3>1, <3>2 DEF Keeps, Stands
  <2>4. CASE p = ProcOf[o] /\ n = o
    BY <1>1, <2>4
  <2>. QED BY <2>2, <2>3, <2>4
<1>. QED BY <1>2, <1>3 DEF Stances

LEMMA TurnedBalanced ==
    ASSUME Types, Balanced, NEW o \in Op, NEW new, NEW await \in Awaits, Turned(o, new, await)
    PROVE  Balanced'
<1>1. /\ entry \in [Proc -> Shape] /\ ProcOf[o] \in Proc /\ pc \in [Op -> Awaits]
      /\ entry' = [entry EXCEPT ![ProcOf[o]] = new] /\ pc' = [pc EXCEPT ![o] = await]
  BY Membership DEF Types, Turned
<1>2. ASSUME NEW p \in Proc PROVE IsFiniteSet(Running(p)) /\ Cardinality(Running(p)) \in Nat
  <2>1. Running(p) \subseteq Op
    BY DEF Running
  <2>. QED BY <2>1, FileCoordinatorAssumption, FS_Subset, FS_CardinalityType
<1>3. ASSUME NEW p \in Proc PROVE entry'[p].operations = Cardinality(Running(p)')
  <2>1. entry[p].operations = Cardinality(Running(p))
    BY DEF Balanced
  <2>2. CASE p # ProcOf[o]
    <3>1. Running(p)' = Running(p)
      BY <1>1, <2>2 DEF Running
    <3>. QED BY <1>1, <2>1, <2>2, <3>1
  <2>3. CASE p = ProcOf[o]
    <3>1. entry'[p] = new
      BY <1>1, <2>3
    <3>2. CASE await \in Resting /\ pc[o] \in Resting
      <4>1. Running(p)' = Running(p)
        BY <1>1, <2>3, <3>2 DEF Running
      <4>2. new.operations = entry[p].operations + 0 - 0
        BY <2>3, <3>2 DEF Turned
      <4>. QED BY <1>2, <2>1, <3>1, <4>1, <4>2
    <3>3. CASE await \notin Resting /\ pc[o] \notin Resting
      <4>1. Running(p)' = Running(p)
        BY <1>1, <2>3, <3>3 DEF Running
      <4>2. new.operations = entry[p].operations + 1 - 1
        BY <2>3, <3>3 DEF Turned
      <4>. QED BY <1>2, <2>1, <3>1, <4>1, <4>2
    <3>4. CASE await \notin Resting /\ pc[o] \in Resting
      <4>1. Running(p)' = Running(p) \cup {o} /\ o \notin Running(p)
        BY <1>1, <2>3, <3>4 DEF Running
      <4>2. new.operations = entry[p].operations + 1 - 0
        BY <2>3, <3>4 DEF Turned
      <4>3. Cardinality(Running(p) \cup {o}) = Cardinality(Running(p)) + 1
        BY <1>2, <4>1, FS_AddElement
      <4>. QED BY <1>2, <2>1, <3>1, <4>1, <4>2, <4>3
    <3>5. CASE await \in Resting /\ pc[o] \notin Resting
      <4>1. Running(p)' = Running(p) \ {o} /\ o \in Running(p)
        BY <1>1, <2>3, <3>5 DEF Running
      <4>2. new.operations = entry[p].operations + 0 - 1
        BY <2>3, <3>5 DEF Turned
      <4>3. Cardinality(Running(p) \ {o}) = Cardinality(Running(p)) - 1
        BY <1>2, <4>1, FS_RemoveElement
      <4>. QED BY <1>2, <2>1, <3>1, <4>1, <4>2, <4>3
    <3>. QED BY <3>2, <3>3, <3>4, <3>5
  <2>. QED BY <2>2, <2>3
<1>. QED BY <1>3 DEF Balanced

\* The lines stay as they are when no highlight command comes or goes.
LEMMA SameLines ==
    ASSUME Types, Lines, NEW o \in Op, NEW await, pc' = [pc EXCEPT ![o] = await],
           UNCHANGED tail,
           \/ KindOf[o] # "highlight"
           \/ pc[o] \notin Lined /\ await \notin Lined
           \/ pc[o] \in Lined /\ await \in Lined /\ o = tail[ProcOf[o]][1]
    PROVE  Lines'
<1>1. pc \in [Op -> Awaits]
  BY DEF Types
<1>2. ASSUME NEW p \in Proc PROVE Line(p)' = Line(p)
  BY <1>1 DEF Line
<1>3. ASSUME NEW p \in Proc, NEW n \in Line(p), pc'[n] # "queued" PROVE n = tail[p][1]
  BY <1>1, <1>3 DEF Lines, Line, Lined
<1>. QED BY <1>2, <1>3 DEF Lines

\* An operation that does not wait for a store call has none in a queue.
Free(o) == pc[o] # "done" /\ (pc[o] \notin StoreCalls \/ loc[o].reply.type # "none")

LEMMA FreeNotQueued ==
    ASSUME Types, Calls, NEW o \in Op, Free(o), NEW p \in Proc, NEW i \in 1..Len(queue[p])
    PROVE  queue[p][i][1] # o
<1>. DEFINE S == StoreCalls \cup {"discard"}
<1>1. queue[p] \in Seq(Op \X S)
  BY Membership
<1>. HIDE DEF S
<1>2. queue[p][i] \in Op \X S
  <2>. DEFINE D == Op \X S
  <2>. HIDE DEF D
  <2>1. queue[p] \in Seq(D)
    BY <1>1 DEF D
  <2>2. queue[p][i] \in D
    BY <2>1, ElementOfSeq
  <2>. QED BY <2>2 DEF D
<1>3. queue[p][i][2] \in StoreCalls \cup {"discard"}
  BY <1>2 DEF S
<1>. QED BY <1>3 DEF Calls, Free

LEMMA SameCalls ==
    ASSUME Types, Calls, NEW o \in Op, Free(o), UNCHANGED queue,
           \A n \in Op \ {o} : pc'[n] = pc[n] /\ loc'[n] = loc[n]
    PROVE  Calls'
<1>1. ASSUME NEW p \in Proc, NEW i \in 1..Len(queue[p])
      PROVE  queue[p][i][1] \in Op \ {o}
  <2>. DEFINE S == Op \X (StoreCalls \cup {"discard"})
  <2>1. queue[p] \in Seq(S)
    BY Membership
  <2>. HIDE DEF S
  <2>2. queue[p][i] \in S
    BY <2>1, ElementOfSeq
  <2>3. queue[p][i][1] \in Op
    BY <2>2 DEF S
  <2>. QED BY <2>3, FreeNotQueued
<1>. QED BY <1>1 DEF Calls

LEMMA MoreCalls ==
    ASSUME Types, Calls, NEW o \in Op, Free(o), NEW call \in StoreCalls \cup {"discard"},
           queue' = [queue EXCEPT ![ProcOf[o]] = Append(@, <<o, call>>)],
           \A n \in Op \ {o} : pc'[n] = pc[n] /\ loc'[n] = loc[n],
           IF call = "discard" THEN pc'[o] = "done"
           ELSE pc'[o] = call /\ loc'[o].reply.type = "none"
    PROVE  Calls' /\ queue' \in [Proc -> Seq(Op \X (StoreCalls \cup {"discard"}))]
<1>. DEFINE S == Op \X (StoreCalls \cup {"discard"})
            q == Append(queue[ProcOf[o]], <<o, call>>)
<1>1. /\ ProcOf[o] \in Proc /\ queue \in [Proc -> Seq(S)] /\ <<o, call>> \in S
      /\ \A p \in Proc : queue[p] \in Seq(S) /\ Len(queue[p]) \in Nat
  BY Membership DEF Types
<1>2. \A p \in Proc : \A i \in 1..Len(queue[p]) : queue[p][i][1] \in Op \ {o}
  <2>. SUFFICES ASSUME NEW p \in Proc, NEW i \in 1..Len(queue[p])
                PROVE  queue[p][i][1] \in Op \ {o}
    OBVIOUS
  <2>0. queue[p] \in Seq(S)
    BY <1>1
  <2>. HIDE DEF S
  <2>1. queue[p][i] \in S
    BY <2>0, ElementOfSeq
  <2>2. queue[p][i][1] \in Op
    BY <2>1 DEF S
  <2>. QED BY <2>2, FreeNotQueued
<1>. HIDE DEF S
<1>3. /\ q \in Seq(S) /\ Len(q) = Len(queue[ProcOf[o]]) + 1
      /\ \A i \in 1..Len(queue[ProcOf[o]]) : q[i] = queue[ProcOf[o]][i]
      /\ q[Len(queue[ProcOf[o]]) + 1] = <<o, call>>
  BY <1>1, Appended
<1>. HIDE DEF q
<1>4. queue' = [queue EXCEPT ![ProcOf[o]] = q]
  BY DEF q
<1>5. queue' \in [Proc -> Seq(S)]
  BY <1>1, <1>3, <1>4
<1>6. ASSUME NEW p \in Proc, NEW i \in 1..Len(queue'[p])
      PROVE  /\ ProcOf[queue'[p][i][1]] = p
             /\ queue'[p][i][2] = "discard" => pc'[queue'[p][i][1]] = "done"
             /\ queue'[p][i][2] # "discard" =>
                   /\ pc'[queue'[p][i][1]] = queue'[p][i][2]
                   /\ loc'[queue'[p][i][1]].reply.type = "none"
                   /\ \A j \in 1..Len(queue'[p]) : queue'[p][j][1] = queue'[p][i][1] => j = i
  <2>1. CASE p # ProcOf[o]
    <3>1. queue'[p] = queue[p]
      BY <1>1, <1>4, <2>1
    <3>2. i \in 1..Len(queue[p]) /\ queue[p][i][1] \in Op \ {o}
      BY <1>2, <3>1
    <3>. QED BY <3>1, <3>2 DEF Calls
  <2>2. CASE p = ProcOf[o]
    <3>1. queue'[p] = q /\ Len(q) = Len(queue[p]) + 1 /\ Len(queue[p]) \in Nat
      BY <1>1, <1>3, <1>4, <2>2
    <3>2. CASE i \in 1..Len(queue[p])
      <4>1. q[i] = queue[p][i] /\ queue[p][i][1] \in Op \ {o}
        BY <1>2, <1>3, <2>2, <3>2
      <4>2. \A j \in 1..Len(q) : q[j][1] = q[i][1] => j \in 1..Len(queue[p]) /\ q[j] = queue[p][j]
        BY <1>3, <2>2, <3>1, <4>1
      <4>. QED BY <3>1, <3>2, <4>1, <4>2 DEF Calls
    <3>3. CASE i = Len(queue[p]) + 1
      <4>1. q[i] = <<o, call>>
        BY <1>3, <2>2, <3>3
      <4>2. \A j \in 1..Len(q) : q[j][1] = o => j = i
        BY <1>2, <1>3, <2>2, <3>1, <3>3
      <4>. QED BY <2>2, <3>1, <4>1, <4>2
    <3>4. i \in 1..Len(queue[p]) \/ i = Len(queue[p]) + 1
      BY <3>1
    <3>. QED BY <3>2, <3>3, <3>4
  <2>. QED BY <2>1, <2>2
<1>. QED BY <1>5, <1>6 DEF Calls, S

-----------------------------------------------------------------------------
\* The authorities and the revised states that operation o knows.
Known(o) ==
    {empty_authority, installed(o), loc[o].expected, loc[o].current, loc[o].basis,
     loc[o].finalized, loc[o].reply.authority}

Snapshots(o) ==
    {<<0, {}>>, <<loc[o].revision, loc[o].state>>, <<loc[o].reply.revision, loc[o].reply.state>>}

Draws(o, l) ==
    /\ l \in Locals
    /\ l.expected \in Known(o) /\ l.current \in Known(o) /\ l.basis \in Known(o)
    /\ l.finalized \in Known(o) /\ l.reply.authority \in Known(o)
    /\ <<l.revision, l.state>> \in Snapshots(o)
    /\ <<l.reply.revision, l.reply.state>> \in Snapshots(o)

\* new is what a step of o may make of the entry of its process.
Suits(o, new, await) ==
    /\ Moves(entry[ProcOf[o]], new, {o})
    /\ Stands(new, o, await)
    /\ new.operations = entry[ProcOf[o]].operations
                        + (IF await \in Resting THEN 0 ELSE 1)
                        - (IF pc[o] \in Resting THEN 0 ELSE 1)
    /\ new.authority \in Known(o) /\ at_least(new.authority, installed(o))

\* A step of an operation: it works with what it knows and leaves the store alone.
Flow(o) ==
    /\ UNCHANGED <<db, applied, evictions>>
    /\ pc[o] # "done"
    /\ entry' = [entry EXCEPT ![ProcOf[o]] = entry'[ProcOf[o]]]
    /\ Moves(entry[ProcOf[o]], entry'[ProcOf[o]], {o})
    /\ entry'[ProcOf[o]].authority \in Known(o)
    /\ at_least(entry'[ProcOf[o]].authority, installed(o))
    /\ \A n \in Op \ {o} : /\ loc'[n] = loc[n] /\ pc'[n] = pc[n]
                           /\ answer'[n] = answer[n] /\ receipt'[n] = receipt[n]
    /\ Draws(o, loc'[o])

LEMMA NewLocalsDraw ==
    ASSUME NEW o \in Op
    PROVE  NewLocals \in Locals /\ Draws(o, NewLocals)
<1>1. empty_authority \in Authority
  BY DEF empty_authority, Authority
<1>2. NoReply \in Reply
  BY <1>1 DEF NoReply, Reply
<1>3. NewLocals \in Locals
  BY <1>1, <1>2 DEF NewLocals, Locals
<1>4. /\ NewLocals.expected = empty_authority /\ NewLocals.current = empty_authority
      /\ NewLocals.basis = empty_authority /\ NewLocals.finalized = empty_authority
      /\ NewLocals.revision = 0 /\ NewLocals.state = {} /\ NewLocals.reply = NoReply
      /\ NoReply.authority = empty_authority /\ NoReply.revision = 0 /\ NoReply.state = {}
  BY DEF NewLocals, NoReply
<1>. QED BY <1>3, <1>4 DEF Draws, Known, Snapshots

\* The locals of a call are those the operation prepared, without an answer.
LEMMA CallDraws ==
    ASSUME NEW o \in Op, NEW l \in Locals, Draws(o, l)
    PROVE  /\ Draws(o, [l EXCEPT !.reply = NoReply])
           /\ [l EXCEPT !.reply = NoReply].reply.type = "none"
<1>. DEFINE m == [l EXCEPT !.reply = NoReply]
<1>1. empty_authority \in Authority
  BY DEF empty_authority, Authority
<1>2. NoReply \in Reply
  BY <1>1 DEF NoReply, Reply
<1>3. /\ m \in Locals
      /\ m.expected = l.expected /\ m.current = l.current /\ m.basis = l.basis
      /\ m.finalized = l.finalized /\ m.revision = l.revision /\ m.state = l.state
      /\ m.reply = NoReply
  BY <1>2 DEF Locals
<1>4. /\ NoReply.authority = empty_authority /\ NoReply.revision = 0 /\ NoReply.state = {}
      /\ NoReply.type = "none"
  BY DEF NoReply
<1>. HIDE DEF m
<1>5. Draws(o, m) /\ m.reply.type = "none"
  BY <1>3, <1>4 DEF Draws, Known, Snapshots
<1>. QED BY <1>5 DEF m

LEMMA OwnDraws ==
    ASSUME NEW o \in Op, loc[o] \in Locals
    PROVE  Draws(o, loc[o])
BY DEF Draws, Known, Snapshots

LEMMA EntryUnchanged ==
    ASSUME Types, NEW o \in Op, UNCHANGED entry
    PROVE  entry' = [entry EXCEPT ![ProcOf[o]] = entry[ProcOf[o]]]
BY DEF Types

\* Everything but the stances and the calls, for a step of one operation.
LEMMA SuitedStep ==
    ASSUME LocalInv, NEW o \in Op, NEW new, NEW await \in Awaits, MayAwait(o, await),
           entry' = [entry EXCEPT ![ProcOf[o]] = new], pc' = [pc EXCEPT ![o] = await],
           Suits(o, new, await)
    PROVE  /\ entry' \in [Proc -> Shape] /\ pc' \in [Op -> Awaits]
           /\ \A n \in Op : MayAwait(n, pc'[n])
           /\ Stances' /\ Balanced'
           /\ entry' = [entry EXCEPT ![ProcOf[o]] = entry'[ProcOf[o]]]
           /\ Moves(entry[ProcOf[o]], entry'[ProcOf[o]], {o})
           /\ entry'[ProcOf[o]].authority \in Known(o)
           /\ at_least(entry'[ProcOf[o]].authority, installed(o))
<1>1. Turned(o, new, await)
  BY DEF Turned, Suits
<1>2. Types /\ Stances /\ Balanced
  BY DEF LocalInv
<1>3. entry' \in [Proc -> Shape] /\ pc' \in [Op -> Awaits] /\ Stances' /\ Balanced'
  BY <1>1, <1>2, TurnedStances, TurnedBalanced
<1>4. entry'[ProcOf[o]] = new /\ entry \in [Proc -> Shape] /\ pc \in [Op -> Awaits]
  BY <1>2, Membership DEF Types
<1>5. \A n \in Op : MayAwait(n, pc'[n])
  BY <1>2, <1>4 DEF Types
<1>. QED BY <1>3, <1>4, <1>5 DEF Suits

-----------------------------------------------------------------------------
LEMMA AskStep ==
    ASSUME LocalInv, NEW o \in Op, NEW new, NEW l, NEW call \in StoreCalls, MayAwait(o, call),
           entry' = [entry EXCEPT ![ProcOf[o]] = new], Suits(o, new, call),
           Call(o, call, l), Draws(o, l), Free(o),
           KindOf[o] # "highlight" \/ (pc[o] \in Lined /\ o = tail[ProcOf[o]][1])
    PROVE  LocalInv' /\ Flow(o)
<1>1. /\ pc' = [pc EXCEPT ![o] = call]
      /\ loc' = [loc EXCEPT ![o] = [l EXCEPT !.reply = NoReply]]
      /\ queue' = [queue EXCEPT ![ProcOf[o]] = Append(@, <<o, call>>)]
      /\ UNCHANGED <<db, tail, answer, receipt, applied, evictions>>
  BY DEF Call
<1>2. call \in Awaits
  BY DEF Awaits
<1>3. /\ entry' \in [Proc -> Shape] /\ pc' \in [Op -> Awaits]
      /\ \A n \in Op : MayAwait(n, pc'[n])
      /\ Stances' /\ Balanced'
      /\ entry' = [entry EXCEPT ![ProcOf[o]] = entry'[ProcOf[o]]]
      /\ Moves(entry[ProcOf[o]], entry'[ProcOf[o]], {o})
      /\ entry'[ProcOf[o]].authority \in Known(o)
      /\ at_least(entry'[ProcOf[o]].authority, installed(o))
  BY <1>1, <1>2, SuitedStep
<1>4. Types /\ Lines /\ Calls /\ loc \in [Op -> Locals] /\ pc \in [Op -> Awaits] /\ l \in Locals
  BY DEF LocalInv, Types, Draws
<1>5. /\ Draws(o, [l EXCEPT !.reply = NoReply]) /\ [l EXCEPT !.reply = NoReply].reply.type = "none"
      /\ [l EXCEPT !.reply = NoReply] \in Locals
  <2>1. Draws(o, [l EXCEPT !.reply = NoReply]) /\ [l EXCEPT !.reply = NoReply].reply.type = "none"
    BY <1>4, CallDraws
  <2>. QED BY <2>1 DEF Draws
<1>. DEFINE m == [l EXCEPT !.reply = NoReply]
<1>. HIDE DEF m
<1>6. Draws(o, m) /\ m.reply.type = "none" /\ m \in Locals /\ loc' = [loc EXCEPT ![o] = m]
  BY <1>1, <1>5 DEF m
<1>7. /\ loc' \in [Op -> Locals] /\ loc'[o] = m /\ pc'[o] = call
      /\ \A n \in Op \ {o} : pc'[n] = pc[n] /\ loc'[n] = loc[n]
  BY <1>1, <1>4, <1>6
<1>8. call # "discard"
  BY DEF StoreCalls
<1>9. Calls' /\ queue' \in [Proc -> Seq(Op \X (StoreCalls \cup {"discard"}))]
  BY <1>1, <1>4, <1>6, <1>7, <1>8, MoreCalls
<1>10. KindOf[o] = "highlight" => call \in Lined
  BY DEF MayAwait, Lined, StoreCalls
<1>11. Lines'
  BY <1>1, <1>4, <1>10, SameLines
<1>12. Types'
  BY <1>1, <1>3, <1>4, <1>7, <1>9 DEF Types
<1>13. pc[o] # "done"
  BY DEF Free
<1>. QED BY <1>1, <1>3, <1>6, <1>7, <1>9, <1>11, <1>12, <1>13 DEF LocalInv, Flow

LEMMA AwaitStep ==
    ASSUME LocalInv, NEW o \in Op, NEW l, NEW await \in {"turn", "observe"},
           KindOf[o] # "highlight", pc[o] = "stage", Free(o),
           AwaitTurn(o, entry[ProcOf[o]], await, l), Draws(o, l)
    PROVE  LocalInv' /\ Flow(o)
<1>. DEFINE this == entry[ProcOf[o]]
            new == request_commit_turn(this, o)
<1>1. /\ entry' = [entry EXCEPT ![ProcOf[o]] = new]
      /\ pc' = [pc EXCEPT ![o] = await] /\ loc' = [loc EXCEPT ![o] = l]
      /\ UNCHANGED <<db, queue, tail, answer, receipt, applied, evictions>>
  BY DEF AwaitTurn, SetEntry
<1>2. Types /\ Stances /\ Lines /\ Calls /\ loc \in [Op -> Locals] /\ pc \in [Op -> Awaits] /\ l \in Locals
  BY DEF LocalInv, Types, Draws
<1>3. this \in Shape /\ ProcOf[o] \in Proc
  BY <1>2, Membership
<1>4. Planning(this, o)
  BY <1>2, <1>3 DEF Stances, Stands, Resting
<1>5. /\ Moves(this, new, {o}) /\ Waiting(new, o)
      /\ new.authority = this.authority /\ new.operations = this.operations
  BY <1>3, <1>4, RequestMoves
<1>6. Suits(o, new, await)
  <2>1. this.operations \in Int
    BY <1>3 DEF Shape
  <2>2. Stands(new, o, await)
    BY <1>5 DEF Stands, Resting
  <2>3. new.authority \in Known(o) /\ at_least(new.authority, installed(o))
    BY <1>5, AtLeastReflexive DEF Known, installed
  <2>4. await \notin Resting /\ pc[o] \notin Resting
    BY DEF Resting
  <2>5. new.operations = this.operations + 1 - 1
    BY <1>5, <2>1
  <2>. QED BY <1>5, <2>2, <2>3, <2>4, <2>5 DEF Suits
<1>7. await \in Awaits /\ MayAwait(o, await)
  BY DEF Awaits, MayAwait
<1>. HIDE DEF new, this
<1>8. /\ entry' \in [Proc -> Shape] /\ pc' \in [Op -> Awaits]
      /\ \A n \in Op : MayAwait(n, pc'[n])
      /\ Stances' /\ Balanced'
      /\ entry' = [entry EXCEPT ![ProcOf[o]] = entry'[ProcOf[o]]]
      /\ Moves(entry[ProcOf[o]], entry'[ProcOf[o]], {o})
      /\ entry'[ProcOf[o]].authority \in Known(o)
      /\ at_least(entry'[ProcOf[o]].authority, installed(o))
  BY <1>1, <1>6, <1>7, SuitedStep
<1>9. /\ loc' \in [Op -> Locals] /\ loc'[o] = l
      /\ \A n \in Op \ {o} : pc'[n] = pc[n] /\ loc'[n] = loc[n]
  BY <1>1, <1>2
<1>10. Calls'
  BY <1>1, <1>2, <1>9, SameCalls
<1>11. Lines'
  BY <1>1, <1>2, SameLines
<1>12. Types'
  BY <1>1, <1>2, <1>8, <1>9 DEF Types
<1>. QED BY <1>1, <1>8, <1>9, <1>10, <1>11, <1>12 DEF LocalInv, Flow

LEMMA EndStep ==
    ASSUME LocalInv, NEW o \in Op, NEW new, NEW result \in Results, NEW published \in Receipts,
           KindOf[o] # "highlight", pc[o] \notin Resting, Free(o),
           EndWith(o, new, result, published), Ending(entry[ProcOf[o]], new, o),
           new.authority \in Known(o), at_least(new.authority, installed(o))
    PROVE  LocalInv' /\ Flow(o)
<1>. DEFINE this == entry[ProcOf[o]]
            f == IF KindOf[o] = "physical" THEN cancel(new, o) ELSE finish(new, o)
<1>1. /\ entry' = [entry EXCEPT ![ProcOf[o]] = f]
      /\ pc' = [pc EXCEPT ![o] = "done"] /\ loc' = [loc EXCEPT ![o] = NewLocals]
      /\ answer' = [answer EXCEPT ![o] = result] /\ receipt' = [receipt EXCEPT ![o] = published]
      /\ queue' = [queue EXCEPT ![ProcOf[o]] = Append(@, <<o, "discard">>)]
      /\ UNCHANGED <<db, tail, applied, evictions>>
  BY DEF EndWith, SetEntry
<1>2. /\ Types /\ Stances /\ Lines /\ Calls /\ loc \in [Op -> Locals] /\ pc \in [Op -> Awaits]
      /\ answer \in [Op -> Results \cup {"none"}] /\ receipt \in [Op -> Receipts]
  BY DEF LocalInv, Types
<1>3. this \in Shape /\ ProcOf[o] \in Proc
  BY <1>2, Membership
<1>4. Ended(this, f, o) /\ f.authority = new.authority
  BY <1>3, EndMoves
<1>5. Suits(o, f, "done")
  <2>1. this.operations \in Int
    BY <1>3 DEF Shape
  <2>2. Stands(f, o, "done")
    BY <1>4 DEF Ended, Stands, Resting
  <2>3. f.operations = this.operations + 0 - 1
    BY <1>4, <2>1 DEF Ended
  <2>4. "done" \in Resting
    BY DEF Resting
  <2>. HIDE DEF f
  <2>. QED BY <1>4, <2>2, <2>3, <2>4 DEF Suits, Ended
<1>6. "done" \in Awaits /\ MayAwait(o, "done")
  BY DEF Awaits, MayAwait
<1>. HIDE DEF f, this
<1>7. /\ entry' \in [Proc -> Shape] /\ pc' \in [Op -> Awaits]
      /\ \A n \in Op : MayAwait(n, pc'[n])
      /\ Stances' /\ Balanced'
      /\ entry' = [entry EXCEPT ![ProcOf[o]] = entry'[ProcOf[o]]]
      /\ Moves(entry[ProcOf[o]], entry'[ProcOf[o]], {o})
      /\ entry'[ProcOf[o]].authority \in Known(o)
      /\ at_least(entry'[ProcOf[o]].authority, installed(o))
  BY <1>1, <1>5, <1>6, SuitedStep
<1>8. NewLocals \in Locals /\ Draws(o, NewLocals)
  BY NewLocalsDraw
<1>9. /\ loc' \in [Op -> Locals] /\ loc'[o] = NewLocals /\ pc'[o] = "done"
      /\ \A n \in Op \ {o} : pc'[n] = pc[n] /\ loc'[n] = loc[n]
  BY <1>1, <1>2, <1>8
<1>10. Calls' /\ queue' \in [Proc -> Seq(Op \X (StoreCalls \cup {"discard"}))]
  BY <1>1, <1>2, <1>9, MoreCalls
<1>11. Lines'
  BY <1>1, <1>2, SameLines
<1>12. /\ answer' \in [Op -> Results \cup {"none"}] /\ receipt' \in [Op -> Receipts]
       /\ \A n \in Op \ {o} : answer'[n] = answer[n] /\ receipt'[n] = receipt[n]
  BY <1>1, <1>2
<1>13. Types'
  BY <1>1, <1>2, <1>7, <1>9, <1>10, <1>12 DEF Types
<1>14. pc[o] # "done"
  BY DEF Free
<1>. QED BY <1>1, <1>7, <1>8, <1>9, <1>10, <1>11, <1>12, <1>13, <1>14 DEF LocalInv, Flow

\* A step of an operation that is in no entry.
LEMMA RestingStep ==
    ASSUME LocalInv, NEW o \in Op, NEW l, NEW await \in Resting, NEW result \in Results \cup {"none"},
           pc[o] \in Resting, Free(o), MayAwait(o, await), Draws(o, l),
           pc' = [pc EXCEPT ![o] = await], loc' = [loc EXCEPT ![o] = l],
           answer' = [answer EXCEPT ![o] = result],
           UNCHANGED <<db, entry, queue, tail, receipt, applied, evictions>>
    PROVE  LocalInv' /\ Flow(o)
<1>. DEFINE this == entry[ProcOf[o]]
<1>2. /\ Types /\ Stances /\ Lines /\ Calls /\ loc \in [Op -> Locals] /\ pc \in [Op -> Awaits]
      /\ answer \in [Op -> Results \cup {"none"}] /\ l \in Locals
  BY DEF LocalInv, Types, Draws
<1>3. this \in Shape /\ ProcOf[o] \in Proc /\ entry' = [entry EXCEPT ![ProcOf[o]] = this]
  BY <1>2, Membership, EntryUnchanged
<1>4. Away(this, o)
  BY <1>2, <1>3 DEF Stances, Stands
<1>5. Suits(o, this, await)
  <2>1. this.operations = this.operations + 0 - 0
    BY <1>3 DEF Shape
  <2>2. Moves(this, this, {o})
    BY <1>3, MovesReflexive
  <2>3. Stands(this, o, await)
    BY <1>4 DEF Stands
  <2>4. this.authority \in Known(o) /\ at_least(this.authority, installed(o))
    BY AtLeastReflexive DEF Known, installed
  <2>. HIDE DEF this
  <2>. QED BY <2>1, <2>2, <2>3, <2>4 DEF Suits, this
<1>6. await \in Awaits
  BY DEF Awaits, Resting
<1>. HIDE DEF this
<1>7. /\ entry' \in [Proc -> Shape] /\ pc' \in [Op -> Awaits]
      /\ \A n \in Op : MayAwait(n, pc'[n])
      /\ Stances' /\ Balanced'
      /\ entry' = [entry EXCEPT ![ProcOf[o]] = entry'[ProcOf[o]]]
      /\ Moves(entry[ProcOf[o]], entry'[ProcOf[o]], {o})
      /\ entry'[ProcOf[o]].authority \in Known(o)
      /\ at_least(entry'[ProcOf[o]].authority, installed(o))
  BY <1>3, <1>5, <1>6, SuitedStep
<1>8. /\ loc' \in [Op -> Locals] /\ loc'[o] = l
      /\ \A n \in Op \ {o} : pc'[n] = pc[n] /\ loc'[n] = loc[n]
      /\ answer' \in [Op -> Results \cup {"none"}]
      /\ \A n \in Op \ {o} : answer'[n] = answer[n]
  BY <1>2
<1>9. Calls'
  BY <1>2, <1>8, SameCalls
<1>10. Lines'
  BY <1>2, SameLines DEF Resting, Lined
<1>11. Types'
  BY <1>2, <1>7, <1>8 DEF Types
<1>12. pc[o] # "done"
  BY DEF Free
<1>. QED BY <1>7, <1>8, <1>9, <1>10, <1>11, <1>12 DEF LocalInv, Flow

-----------------------------------------------------------------------------
LEMMA KnownTypes ==
    ASSUME Types, NEW o \in Op
    PROVE  Known(o) \subseteq Authority
<1>1. empty_authority \in Authority
  BY DEF empty_authority, Authority
<1>2. entry[ProcOf[o]] \in Shape /\ loc[o] \in Locals /\ loc[o].reply \in Reply
  BY Membership
<1>. QED BY <1>1, <1>2 DEF Known, installed, Shape, Locals, Reply

\* An operation stands where what it awaits says.
LEMMA StandsThere ==
    ASSUME LocalInv, NEW o \in Op
    PROVE  /\ entry[ProcOf[o]] \in Shape /\ loc[o] \in Locals /\ loc[o].reply \in Reply
           /\ ProcOf[o] \in Proc /\ pc[o] \in Awaits
           /\ Types
           /\ Stands(entry[ProcOf[o]], o, pc[o])
           /\ entry[ProcOf[o]].operations \in Int
           /\ MayAwait(o, pc[o])
<1>1. Types /\ Stances
  BY DEF LocalInv
<1>2. entry[ProcOf[o]] \in Shape /\ loc[o] \in Locals /\ loc[o].reply \in Reply /\ ProcOf[o] \in Proc
  BY <1>1, Membership
<1>. QED BY <1>1, <1>2, Membership DEF Stances, Shape, Types

LEMMA StaysSuited ==
    ASSUME LocalInv, NEW o \in Op, NEW await, pc[o] \notin Resting, await \notin Resting,
           Stands(entry[ProcOf[o]], o, await)
    PROVE  Suits(o, entry[ProcOf[o]], await)
<1>. DEFINE this == entry[ProcOf[o]]
<1>1. this \in Shape /\ this.operations \in Int
  BY StandsThere
<1>2. Moves(this, this, {o}) /\ this.operations = this.operations + 1 - 1
  BY <1>1, MovesReflexive
<1>3. this.authority \in Known(o) /\ at_least(this.authority, installed(o))
  BY AtLeastReflexive DEF Known, installed
<1>. HIDE DEF this
<1>. QED BY <1>2, <1>3 DEF Suits, this

\* A call that leaves the entry as it is.
LEMMA AskHere ==
    ASSUME LocalInv, NEW o \in Op, NEW l, NEW call \in StoreCalls, MayAwait(o, call),
           UNCHANGED entry, Call(o, call, l), Draws(o, l), Free(o), pc[o] \notin Resting,
           Stands(entry[ProcOf[o]], o, call),
           KindOf[o] # "highlight" \/ (pc[o] \in Lined /\ o = tail[ProcOf[o]][1])
    PROVE  LocalInv' /\ Flow(o)
<1>1. entry' = [entry EXCEPT ![ProcOf[o]] = entry[ProcOf[o]]]
  BY StandsThere, EntryUnchanged
<1>2. Suits(o, entry[ProcOf[o]], call)
  <2>1. call \notin Resting
    BY DEF StoreCalls, Resting
  <2>. QED BY <2>1, StaysSuited
<1>. QED BY <1>1, <1>2, AskStep

LEMMA NoReceiptType == NoReceipt \in Receipts
<1>1. empty_authority \in Authority
  BY DEF empty_authority, Authority
<1>. QED BY <1>1 DEF NoReceipt, Receipts

LEMMA EndHere ==
    ASSUME LocalInv, NEW o \in Op, NEW result \in Results,
           KindOf[o] # "highlight", pc[o] \notin Resting, Free(o),
           End(o, entry[ProcOf[o]], result),
           \/ Planning(entry[ProcOf[o]], o)
           \/ Waiting(entry[ProcOf[o]], o) /\ entry[ProcOf[o]].turn[o] = "rejected"
    PROVE  LocalInv' /\ Flow(o)
<1>1. Ending(entry[ProcOf[o]], entry[ProcOf[o]], o)
  BY StandsThere, EndingPlanning
<1>2. EndWith(o, entry[ProcOf[o]], result, NoReceipt)
  BY DEF End
<1>3. /\ entry[ProcOf[o]].authority \in Known(o)
      /\ at_least(entry[ProcOf[o]].authority, installed(o))
  BY AtLeastReflexive DEF Known, installed
<1>. QED BY <1>1, <1>2, <1>3, EndStep, NoReceiptType

LEMMA EndReleased ==
    ASSUME LocalInv, NEW o \in Op, NEW result \in Results,
           KindOf[o] # "highlight", pc[o] \notin Resting, Free(o),
           End(o, release_commit_turn(entry[ProcOf[o]], o), result),
           Waiting(entry[ProcOf[o]], o) \/ Finalizing(entry[ProcOf[o]], o)
    PROVE  LocalInv' /\ Flow(o)
<1>. DEFINE new == release_commit_turn(entry[ProcOf[o]], o)
<1>1. Ending(entry[ProcOf[o]], new, o) /\ new.authority = entry[ProcOf[o]].authority
  BY StandsThere, EndingReleased
<1>2. EndWith(o, new, result, NoReceipt)
  BY DEF End
<1>3. new.authority \in Known(o) /\ at_least(new.authority, installed(o))
  BY <1>1, AtLeastReflexive DEF Known, installed
<1>. HIDE DEF new
<1>. QED BY <1>1, <1>2, <1>3, EndStep, NoReceiptType

LEMMA ConcludedAuthority ==
    ASSUME LocalInv, NEW o \in Op, NEW authority \in Known(o),
           \/ Waiting(entry[ProcOf[o]], o) /\ entry[ProcOf[o]].turn[o] = "granted"
           \/ Finalizing(entry[ProcOf[o]], o)
    PROVE  LET new == conclude(entry[ProcOf[o]], o, authority) IN
           /\ Ending(entry[ProcOf[o]], new, o)
           /\ new.authority \in Known(o)
           /\ at_least(new.authority, installed(o))
           /\ authority \in Authority
<1>. DEFINE this == entry[ProcOf[o]]
            new == conclude(this, o, authority)
<1>1. this.activeTurn = o
  BY DEF Waiting, Finalizing
<1>2. this \in Shape /\ authority \in Authority
  BY StandsThere, KnownTypes
<1>3. /\ Ending(this, new, o)
      /\ new.authority = IF install_type(this, authority) = "installed"
                         THEN authority ELSE this.authority
  BY <1>1, <1>2, EndingConcluded
<1>4. install_type(this, authority) = "installed" => at_least(authority, this.authority)
  BY DEF install_type, at_least, compare_authority
<1>5. this.authority \in Known(o) /\ at_least(this.authority, installed(o)) /\ installed(o) = this.authority
  BY AtLeastReflexive DEF Known, installed
<1>. HIDE DEF new, this
<1>6. new.authority \in Known(o) /\ at_least(new.authority, installed(o))
  BY <1>3, <1>4, <1>5
<1>. QED BY <1>2, <1>3, <1>6 DEF new, this

LEMMA EndObservedStep ==
    ASSUME LocalInv, NEW o \in Op, NEW result \in Results, NEW authority \in Known(o),
           KindOf[o] # "highlight", pc[o] \notin Resting, Free(o),
           EndObserved(o, authority, result),
           \/ Waiting(entry[ProcOf[o]], o) /\ entry[ProcOf[o]].turn[o] = "granted"
           \/ Finalizing(entry[ProcOf[o]], o)
    PROVE  LocalInv' /\ Flow(o)
<1>. DEFINE new == conclude(entry[ProcOf[o]], o, authority)
<1>1. /\ Ending(entry[ProcOf[o]], new, o)
      /\ new.authority \in Known(o) /\ at_least(new.authority, installed(o))
  BY ConcludedAuthority
<1>2. PICK answered \in Results : EndWith(o, new, answered, NoReceipt)
  <2>1. "failed" \in Results
    BY DEF Results
  <2>. QED BY <2>1 DEF EndObserved, End
<1>. HIDE DEF new
<1>. QED BY <1>1, <1>2, EndStep, NoReceiptType

LEMMA EndCommittedStep ==
    ASSUME LocalInv, NEW o \in Op, NEW authority \in Known(o),
           KindOf[o] # "highlight", pc[o] \notin Resting, Free(o),
           EndCommitted(o, authority), Finalizing(entry[ProcOf[o]], o)
    PROVE  LocalInv' /\ Flow(o)
<1>. DEFINE this == entry[ProcOf[o]]
            new == conclude(this, o, authority)
            published == [ previous  |-> IF install_type(this, authority) = "installed"
                                         THEN this.authority ELSE loc[o].basis,
                           resulting |-> authority ]
<1>1. /\ Ending(this, new, o) /\ authority \in Authority
      /\ new.authority \in Known(o) /\ at_least(new.authority, installed(o))
  BY ConcludedAuthority
<1>2. this.authority \in Authority /\ loc[o].basis \in Authority
  BY StandsThere DEF Shape, Locals
<1>3. published \in Receipts
  BY <1>1, <1>2 DEF Receipts
<1>4. "failed" \in Results /\ "committed" \in Results
  BY DEF Results
<1>5. \/ EndWith(o, new, "committed", published)
      \/ EndWith(o, new, "failed", NoReceipt)
  BY DEF EndCommitted, End
<1>. HIDE DEF new, published
<1>6. CASE EndWith(o, new, "committed", published)
  BY <1>1, <1>3, <1>4, <1>6, EndStep
<1>7. CASE EndWith(o, new, "failed", NoReceipt)
  BY <1>1, <1>4, <1>7, EndStep, NoReceiptType
<1>. QED BY <1>5, <1>6, <1>7

\* A conflict that left the authority as it was: the operation gives the turn up,
\* if it has it, and reads again.
LEMMA ReadAgainStep ==
    ASSUME LocalInv, NEW o \in Op, NEW new, NEW l,
           KindOf[o] # "highlight", pc[o] \notin Resting, Free(o),
           SetEntry(o, new), Call(o, "read", l), Draws(o, l),
           \/ new = entry[ProcOf[o]] /\ Planning(entry[ProcOf[o]], o)
           \/ /\ new = release_commit_turn(entry[ProcOf[o]], o)
              /\ Finalizing(entry[ProcOf[o]], o)
    PROVE  LocalInv' /\ Flow(o)
<1>. DEFINE this == entry[ProcOf[o]]
<1>1. this \in Shape /\ this.operations \in Int
  BY StandsThere
<1>2. /\ Moves(this, new, {o}) /\ Planning(new, o)
      /\ new.authority = this.authority /\ new.operations = this.operations
  <2>1. CASE new = this /\ Planning(this, o)
    BY <1>1, <2>1, MovesReflexive
  <2>2. CASE new = release_commit_turn(this, o) /\ Finalizing(this, o)
    <3>1. this.activeTurn = o
      BY <2>2 DEF Finalizing
    <3>. QED BY <1>1, <2>2, <3>1, ReleaseMoves
  <2>. QED BY <2>1, <2>2
<1>3. Suits(o, new, "read")
  <2>1. new.operations = this.operations + 1 - 1
    BY <1>1, <1>2
  <2>2. Stands(new, o, "read") /\ "read" \notin Resting
    BY <1>2 DEF Stands, Resting
  <2>3. new.authority \in Known(o) /\ at_least(new.authority, installed(o))
    BY <1>2, AtLeastReflexive DEF Known, installed
  <2>. QED BY <1>2, <2>1, <2>2, <2>3 DEF Suits
<1>4. "read" \in StoreCalls /\ MayAwait(o, "read")
  BY DEF StoreCalls, MayAwait, Awaits
<1>5. entry' = [entry EXCEPT ![ProcOf[o]] = new]
  BY DEF SetEntry
<1>. QED BY <1>3, <1>4, <1>5, AskStep

-----------------------------------------------------------------------------
\* What the steps make of the locals of an operation.
LEMMA LocalsDraw ==
    ASSUME LocalInv, NEW o \in Op
    PROVE  /\ Draws(o, loc[o])
           /\ Draws(o, [loc[o] EXCEPT !.expected = installed(o)])
           /\ Draws(o, [loc[o] EXCEPT !.current = entry[ProcOf[o]].authority])
           /\ Draws(o, [loc[o] EXCEPT !.basis = entry[ProcOf[o]].authority])
           /\ Draws(o, [loc[o] EXCEPT !.finalized = loc[o].reply.authority])
           /\ Draws(o, [loc[o] EXCEPT !.conflicts = @ + 1])
           /\ Draws(o, [loc[o] EXCEPT !.revision = loc[o].reply.revision,
                                      !.state = loc[o].reply.state])
           /\ Draws(o, [loc[o] EXCEPT !.revision = loc[o].reply.revision,
                                      !.state = loc[o].reply.state,
                                      !.conflicts = @ + 1])
           /\ Draws(o, [loc[o] EXCEPT !.revision = loc[o].reply.revision,
                                      !.state = loc[o].reply.state,
                                      !.sequence = installed(o).commitSequence])
<1>. DEFINE L == loc[o]
            R == loc[o].reply
            a == installed(o)
            n == L.conflicts + 1
            s == installed(o).commitSequence
<1>1. /\ L \in Locals /\ R \in Reply /\ R.authority \in Authority /\ R.revision \in Nat
      /\ R.state \in SUBSET Op
  BY StandsThere DEF Reply
<1>2. a \in Authority /\ a \in Known(o) /\ s \in Nat /\ a = entry[ProcOf[o]].authority
  BY StandsThere DEF Known, installed, Shape, Authority
<1>3. n \in Nat
  BY <1>1 DEF Locals
<1>4. /\ L.expected \in Known(o) /\ L.current \in Known(o) /\ L.basis \in Known(o)
      /\ L.finalized \in Known(o) /\ R.authority \in Known(o)
      /\ L.reply = R
      /\ <<L.revision, L.state>> \in Snapshots(o) /\ <<R.revision, R.state>> \in Snapshots(o)
  BY DEF Known, Snapshots
<1>. HIDE DEF L, R, a, n, s
<1>5. /\ Draws(o, L)
      /\ Draws(o, [L EXCEPT !.expected = a])
      /\ Draws(o, [L EXCEPT !.current = a])
      /\ Draws(o, [L EXCEPT !.basis = a])
      /\ Draws(o, [L EXCEPT !.finalized = R.authority])
  BY <1>1, <1>2, <1>4 DEF Draws, Locals
<1>6. Draws(o, [L EXCEPT !.conflicts = n])
  BY <1>1, <1>3, <1>4 DEF Draws, Locals
<1>7. Draws(o, [L EXCEPT !.revision = R.revision, !.state = R.state])
  BY <1>1, <1>4 DEF Draws, Locals
<1>8. Draws(o, [L EXCEPT !.revision = R.revision, !.state = R.state, !.conflicts = n])
  BY <1>1, <1>3, <1>4 DEF Draws, Locals
<1>9. Draws(o, [L EXCEPT !.revision = R.revision, !.state = R.state, !.sequence = s])
  BY <1>1, <1>2, <1>4 DEF Draws, Locals
<1>. QED BY <1>2, <1>5, <1>6, <1>7, <1>8, <1>9 DEF L, R, a, n, s

\* An operation whose call was answered has no call in a queue.
LEMMA AnsweredFree ==
    ASSUME NEW o \in Op, NEW call \in StoreCalls, Answered(o, call)
    PROVE  Free(o) /\ pc[o] = call /\ pc[o] \notin Resting
BY DEF Answered, Free, StoreCalls, Resting

LEMMA ResultsMembers ==
    /\ "committed" \in Results /\ "rejected" \in Results /\ "indeterminate" \in Results
    /\ "advanced" \in Results /\ "stale" \in Results /\ "failed" \in Results
BY DEF Results

LEMMA CallsMembers ==
    /\ "read" \in StoreCalls /\ "stage" \in StoreCalls /\ "finalize" \in StoreCalls
    /\ "reconcile" \in StoreCalls /\ "inspect" \in StoreCalls /\ "cas" \in StoreCalls
BY DEF StoreCalls

LEMMA CommitsMayAwait ==
    ASSUME NEW o \in Op, KindOf[o] # "highlight"
    PROVE  \A call \in StoreCalls \ {"cas"} : MayAwait(o, call)
BY DEF MayAwait, Awaits, StoreCalls

\* What an operation that commits awaits says where it stands.
LEMMA CommitStands ==
    ASSUME LocalInv, NEW o \in Op, KindOf[o] # "highlight"
    PROVE  LET this == entry[ProcOf[o]] IN
           /\ pc[o] \in {"read", "stage"} => Planning(this, o)
           /\ pc[o] \in {"turn", "observe"} => Waiting(this, o)
           /\ pc[o] \in {"finalize", "reconcile", "inspect"} => Finalizing(this, o)
           /\ Planning(this, o) => Stands(this, o, "read") /\ Stands(this, o, "stage")
           /\ Finalizing(this, o) =>
                 Stands(this, o, "finalize") /\ Stands(this, o, "reconcile") /\ Stands(this, o, "inspect")
<1>1. Stands(entry[ProcOf[o]], o, pc[o])
  BY StandsThere
<1>. QED BY <1>1 DEF Stands, Resting

-----------------------------------------------------------------------------
(* Each action of a physical commit keeps the local invariant. *)

LEMMA LoadCandidateLocal ==
    ASSUME LocalInv, NEW o \in Op, LoadCandidate(o)
    PROVE  LocalInv' /\ Flow(o)
<1>. DEFINE l == [loc[o] EXCEPT !.expected = installed(o)]
<1>1. Draws(o, l)
  BY LocalsDraw
<1>2. /\ loc \in [Op -> Locals] /\ answer \in [Op -> Results \cup {"none"}]
  BY StandsThere DEF Types
<1>3. /\ KindOf[o] = "physical" /\ pc[o] = "idle"
      /\ pc' = [pc EXCEPT ![o] = "loaded"]
      /\ loc' = [loc EXCEPT ![o].expected = installed(o)]
      /\ UNCHANGED <<db, entry, queue, tail, answer, receipt, applied, evictions>>
  BY DEF LoadCandidate
<1>4. loc' = [loc EXCEPT ![o] = l]
  BY <1>3
<1>. HIDE DEF l
<1>5. answer' = [answer EXCEPT ![o] = answer[o]] /\ answer[o] \in Results \cup {"none"}
  BY <1>2, <1>3
<1>6. pc[o] \in Resting /\ Free(o) /\ "loaded" \in Resting /\ MayAwait(o, "loaded")
  BY <1>3 DEF Resting, Free, StoreCalls, MayAwait, Awaits
<1>. QED BY <1>1, <1>3, <1>4, <1>5, <1>6, RestingStep

LEMMA RequestLocal ==
    ASSUME LocalInv, NEW o \in Op, Request(o)
    PROVE  LocalInv' /\ Flow(o)
<1>. DEFINE l == [loc[o] EXCEPT !.expected = installed(o)]
<1>1. Draws(o, l)
  BY LocalsDraw
<1>2. /\ loc \in [Op -> Locals] /\ answer \in [Op -> Results \cup {"none"}]
  BY StandsThere DEF Types
<1>3. /\ pc[o] = "idle"
      /\ pc' = [pc EXCEPT ![o] = "requested"]
      /\ loc' = [loc EXCEPT ![o].expected = installed(o)]
      /\ UNCHANGED <<db, entry, queue, tail, answer, receipt, applied, evictions>>
  BY DEF Request
<1>4. loc' = [loc EXCEPT ![o] = l]
  BY <1>3
<1>. HIDE DEF l
<1>5. answer' = [answer EXCEPT ![o] = answer[o]] /\ answer[o] \in Results \cup {"none"}
  BY <1>2, <1>3
<1>6. pc[o] \in Resting /\ Free(o) /\ "requested" \in Resting /\ MayAwait(o, "requested")
  BY <1>3 DEF Resting, Free, StoreCalls, MayAwait, Awaits
<1>. QED BY <1>1, <1>3, <1>4, <1>5, <1>6, RestingStep

\* An operation that is rejected before it begins.
LEMMA GivenUp ==
    ASSUME LocalInv, NEW o \in Op, pc[o] \in {"loaded", "requested"},
           pc' = [pc EXCEPT ![o] = "done"],
           answer' = [answer EXCEPT ![o] = "rejected"],
           loc' = [loc EXCEPT ![o] = NewLocals],
           UNCHANGED <<db, entry, queue, tail, receipt, applied, evictions>>
    PROVE  LocalInv' /\ Flow(o)
<1>1. pc[o] \in Resting /\ Free(o) /\ "done" \in Resting /\ MayAwait(o, "done")
  BY DEF Resting, Free, StoreCalls, MayAwait, Awaits
<1>2. "rejected" \in Results \cup {"none"}
  BY ResultsMembers
<1>. QED BY <1>1, <1>2, NewLocalsDraw, RestingStep

\* An operation that begins is counted and reads.
LEMMA BeginStep ==
    ASSUME LocalInv, NEW o \in Op, NEW new, KindOf[o] # "highlight",
           pc[o] \in {"loaded", "requested"},
           SetEntry(o, new), Call(o, "read", loc[o]),
           Moves(entry[ProcOf[o]], new, {o}), Planning(new, o),
           new.authority = entry[ProcOf[o]].authority,
           new.operations = entry[ProcOf[o]].operations + 1
    PROVE  LocalInv' /\ Flow(o)
<1>1. pc[o] \in Resting /\ "read" \notin Resting /\ Free(o)
  BY DEF Resting, Free, StoreCalls
<1>2. new.operations = entry[ProcOf[o]].operations + 1 - 0
  BY StandsThere
<1>3. new.authority \in Known(o) /\ at_least(new.authority, installed(o))
  BY AtLeastReflexive DEF Known, installed
<1>4. Stands(new, o, "read")
  BY <1>1 DEF Stands
<1>5. Suits(o, new, "read")
  BY <1>1, <1>2, <1>3, <1>4 DEF Suits
<1>6. MayAwait(o, "read") /\ "read" \in StoreCalls
  BY CommitsMayAwait, CallsMembers
<1>7. entry' = [entry EXCEPT ![ProcOf[o]] = new]
  BY DEF SetEntry
<1>. QED BY <1>1, <1>5, <1>6, <1>7, LocalsDraw, AskStep

LEMMA BeginPhysicalLocal ==
    ASSUME LocalInv, NEW o \in Op, KindOf[o] # "highlight", BeginPhysical(o)
    PROVE  LocalInv' /\ Flow(o)
<1>. DEFINE this == entry[ProcOf[o]]
            new == begin_physical(this, o)
<1>1. pc[o] = "loaded"
  BY DEF BeginPhysical
<1>2. Away(this, o) /\ this \in Shape
  BY <1>1, StandsThere DEF Stands, Resting
<1>3. /\ Moves(this, new, {o}) /\ Planning(new, o)
      /\ new.authority = this.authority /\ new.operations = this.operations + 1
  BY <1>2, BeginPhysicalMoves
<1>4. CASE begin_physical_accepts(this, loc[o].expected.authorityRevision, DigestOf[o])
  <2>1. SetEntry(o, new) /\ Call(o, "read", loc[o])
    BY <1>4 DEF BeginPhysical
  <2>. HIDE DEF new
  <2>. QED BY <1>1, <1>3, <2>1, BeginStep
<1>5. CASE ~begin_physical_accepts(this, loc[o].expected.authorityRevision, DigestOf[o])
  <2>1. /\ pc' = [pc EXCEPT ![o] = "done"]
        /\ answer' = [answer EXCEPT ![o] = "rejected"]
        /\ loc' = [loc EXCEPT ![o] = NewLocals]
        /\ UNCHANGED <<db, entry, queue, tail, receipt, applied, evictions>>
    BY <1>5 DEF BeginPhysical
  <2>. QED BY <1>1, <2>1, GivenUp
<1>. QED BY <1>4, <1>5

LEMMA PhysicalReadLocal ==
    ASSUME LocalInv, NEW o \in Op, PhysicalRead(o)
    PROVE  LocalInv' /\ Flow(o)
<1>. DEFINE l == [loc[o] EXCEPT !.revision = loc[o].reply.revision,
                                !.state = loc[o].reply.state,
                                !.sequence = installed(o).commitSequence]
<1>1. /\ KindOf[o] = "physical" /\ Answered(o, "read") /\ UNCHANGED entry /\ Call(o, "stage", l)
  BY DEF PhysicalRead, Replied
<1>2. Free(o) /\ pc[o] = "read" /\ pc[o] \notin Resting
  BY <1>1, CallsMembers, AnsweredFree
<1>3. Stands(entry[ProcOf[o]], o, "stage")
  BY <1>1, <1>2, CommitStands
<1>4. Draws(o, l)
  BY LocalsDraw
<1>5. MayAwait(o, "stage") /\ "stage" \in StoreCalls
  BY <1>1, CommitsMayAwait, CallsMembers
<1>. HIDE DEF l
<1>. QED BY <1>1, <1>2, <1>3, <1>4, <1>5, AskHere

LEMMA PhysicalAttemptLocal ==
    ASSUME LocalInv, NEW o \in Op, NEW new, KindOf[o] = "physical", pc[o] \notin Resting, Free(o),
           PhysicalAttempt(o, new),
           \/ new = entry[ProcOf[o]] /\ Planning(entry[ProcOf[o]], o)
           \/ /\ new = release_commit_turn(entry[ProcOf[o]], o)
              /\ Finalizing(entry[ProcOf[o]], o)
    PROVE  LocalInv' /\ Flow(o)
<1>1. \/ SetEntry(o, new) /\ Call(o, "read", loc[o])
      \/ End(o, new, "stale")
  BY DEF PhysicalAttempt
<1>2. CASE SetEntry(o, new) /\ Call(o, "read", loc[o])
  BY <1>2, LocalsDraw, ReadAgainStep
<1>3. CASE End(o, new, "stale")
  <2>1. CASE new = entry[ProcOf[o]] /\ Planning(entry[ProcOf[o]], o)
    BY <1>3, <2>1, ResultsMembers, EndHere
  <2>2. CASE new = release_commit_turn(entry[ProcOf[o]], o) /\ Finalizing(entry[ProcOf[o]], o)
    BY <1>3, <2>2, ResultsMembers, EndReleased
  <2>. QED BY <2>1, <2>2
<1>. QED BY <1>1, <1>2, <1>3

LEMMA PhysicalStagedLocal ==
    ASSUME LocalInv, NEW o \in Op, PhysicalStaged(o)
    PROVE  LocalInv' /\ Flow(o)
<1>. DEFINE this == entry[ProcOf[o]]
            current == [loc[o] EXCEPT !.current = this.authority]
<1>1. KindOf[o] = "physical" /\ Answered(o, "stage")
  BY DEF PhysicalStaged, Replied
<1>2. Free(o) /\ pc[o] = "stage" /\ pc[o] \notin Resting
  BY <1>1, CallsMembers, AnsweredFree
<1>3. Planning(this, o)
  BY <1>1, <1>2, CommitStands
<1>4. \/ AwaitTurn(o, this, "turn", loc[o])
      \/ AwaitTurn(o, this, "observe", current)
      \/ PhysicalAttempt(o, this)
      \/ End(o, this, "rejected")
  BY DEF PhysicalStaged
<1>5. CASE AwaitTurn(o, this, "turn", loc[o])
  BY <1>1, <1>2, <1>5, LocalsDraw, AwaitStep
<1>6. CASE AwaitTurn(o, this, "observe", current)
  <2>1. Draws(o, current)
    BY LocalsDraw
  <2>. HIDE DEF current
  <2>. QED BY <1>1, <1>2, <1>6, <2>1, AwaitStep
<1>7. CASE PhysicalAttempt(o, this)
  BY <1>1, <1>2, <1>3, <1>7, PhysicalAttemptLocal
<1>8. CASE End(o, this, "rejected")
  BY <1>1, <1>2, <1>3, <1>8, ResultsMembers, EndHere
<1>. QED BY <1>4, <1>5, <1>6, <1>7, <1>8

\* An operation that was granted the turn finalizes.
LEMMA FinalizeStep ==
    ASSUME LocalInv, NEW o \in Op, KindOf[o] # "highlight", pc[o] = "turn",
           entry[ProcOf[o]].turn[o] = "granted",
           SetEntry(o, start_finalization(entry[ProcOf[o]])),
           Call(o, "finalize", [loc[o] EXCEPT !.basis = entry[ProcOf[o]].authority])
    PROVE  LocalInv' /\ Flow(o)
<1>. DEFINE this == entry[ProcOf[o]]
            new == start_finalization(this)
            l == [loc[o] EXCEPT !.basis = this.authority]
<1>1. Waiting(this, o) /\ this \in Shape /\ this.operations \in Int
  BY CommitStands, StandsThere
<1>2. /\ Moves(this, new, {o}) /\ Finalizing(new, o)
      /\ new.authority = this.authority /\ new.operations = this.operations
  BY <1>1, FinalizationMoves
<1>3. Draws(o, l)
  BY LocalsDraw
<1>4. entry' = [entry EXCEPT ![ProcOf[o]] = new] /\ Call(o, "finalize", l)
  BY DEF SetEntry
<1>. HIDE DEF l, new
<1>5. Suits(o, new, "finalize")
  <2>1. new.operations = this.operations + 1 - 1
    BY <1>1, <1>2
  <2>2. Stands(new, o, "finalize") /\ "finalize" \notin Resting /\ pc[o] \notin Resting
    BY <1>2 DEF Stands, Resting
  <2>3. new.authority \in Known(o) /\ at_least(new.authority, installed(o))
    BY <1>2, AtLeastReflexive DEF Known, installed
  <2>. QED BY <1>2, <2>1, <2>2, <2>3 DEF Suits
<1>6. MayAwait(o, "finalize") /\ "finalize" \in StoreCalls /\ Free(o)
  BY CommitsMayAwait, CallsMembers DEF Free, StoreCalls
<1>. QED BY <1>3, <1>4, <1>5, <1>6, AskStep

LEMMA PhysicalTurnLocal ==
    ASSUME LocalInv, NEW o \in Op, PhysicalTurn(o)
    PROVE  LocalInv' /\ Flow(o)
<1>. DEFINE this == entry[ProcOf[o]]
<1>1. KindOf[o] = "physical" /\ pc[o] = "turn"
  BY DEF PhysicalTurn
<1>2. Waiting(this, o) /\ Free(o) /\ pc[o] \notin Resting
  BY <1>1, CommitStands DEF Free, StoreCalls, Resting
<1>3. CASE this.turn[o] = "rejected" /\ End(o, this, "rejected")
  BY <1>1, <1>2, <1>3, ResultsMembers, EndHere
<1>4. CASE /\ this.turn[o] = "granted"
           /\ SetEntry(o, start_finalization(this))
           /\ Call(o, "finalize", [loc[o] EXCEPT !.basis = this.authority])
  BY <1>1, <1>4, FinalizeStep
<1>. QED BY <1>3, <1>4 DEF PhysicalTurn

\* A finalizing operation makes its next store call.
LEMMA NextCallStep ==
    ASSUME LocalInv, NEW o \in Op, KindOf[o] # "highlight", Finalizing(entry[ProcOf[o]], o),
           Free(o), pc[o] \notin Resting, UNCHANGED entry,
           \/ Call(o, "reconcile", loc[o])
           \/ Call(o, "inspect", [loc[o] EXCEPT !.finalized = loc[o].reply.authority])
    PROVE  LocalInv' /\ Flow(o)
<1>. DEFINE l == [loc[o] EXCEPT !.finalized = loc[o].reply.authority]
<1>1. Draws(o, l) /\ Draws(o, loc[o])
  BY LocalsDraw
<1>2. /\ MayAwait(o, "inspect") /\ MayAwait(o, "reconcile")
      /\ "inspect" \in StoreCalls /\ "reconcile" \in StoreCalls
      /\ Stands(entry[ProcOf[o]], o, "inspect") /\ Stands(entry[ProcOf[o]], o, "reconcile")
  BY CommitsMayAwait, CallsMembers, CommitStands
<1>3. Call(o, "reconcile", loc[o]) \/ Call(o, "inspect", l)
  OBVIOUS
<1>. HIDE DEF l
<1>4. CASE Call(o, "reconcile", loc[o])
  BY <1>1, <1>2, <1>4, AskHere
<1>5. CASE Call(o, "inspect", l)
  BY <1>1, <1>2, <1>5, AskHere
<1>. QED BY <1>3, <1>4, <1>5

LEMMA PhysicalFinalizedLocal ==
    ASSUME LocalInv, NEW o \in Op, PhysicalFinalized(o)
    PROVE  LocalInv' /\ Flow(o)
<1>. DEFINE this == entry[ProcOf[o]]
            released == release_commit_turn(this, o)
<1>1. KindOf[o] = "physical" /\ Answered(o, "finalize")
  BY DEF PhysicalFinalized
<1>2. Free(o) /\ pc[o] = "finalize" /\ pc[o] \notin Resting
  BY <1>1, CallsMembers, AnsweredFree
<1>3. Finalizing(this, o) /\ loc[o].reply.authority \in Known(o)
  BY <1>1, <1>2, CommitStands DEF Known
<1>4. \/ UNCHANGED entry /\ Call(o, "reconcile", loc[o])
      \/ EndObserved(o, loc[o].reply.authority, "advanced")
      \/ PhysicalAttempt(o, released)
      \/ End(o, released, "rejected")
      \/ /\ UNCHANGED entry
         /\ Call(o, "inspect", [loc[o] EXCEPT !.finalized = loc[o].reply.authority])
  BY DEF PhysicalFinalized
<1>5. CASE \/ UNCHANGED entry /\ Call(o, "reconcile", loc[o])
           \/ /\ UNCHANGED entry
              /\ Call(o, "inspect", [loc[o] EXCEPT !.finalized = loc[o].reply.authority])
  BY <1>1, <1>2, <1>3, <1>5, NextCallStep
<1>6. CASE EndObserved(o, loc[o].reply.authority, "advanced")
  BY <1>1, <1>2, <1>3, <1>6, ResultsMembers, EndObservedStep
<1>7. CASE PhysicalAttempt(o, released)
  BY <1>1, <1>2, <1>3, <1>7, PhysicalAttemptLocal
<1>8. CASE End(o, released, "rejected")
  BY <1>1, <1>2, <1>3, <1>8, ResultsMembers, EndReleased
<1>. QED BY <1>4, <1>5, <1>6, <1>7, <1>8

LEMMA PhysicalReconciledLocal ==
    ASSUME LocalInv, NEW o \in Op, PhysicalReconciled(o)
    PROVE  LocalInv' /\ Flow(o)
<1>. DEFINE this == entry[ProcOf[o]]
            released == release_commit_turn(this, o)
            observed == loc[o].reply.authority
<1>1. KindOf[o] = "physical" /\ Answered(o, "reconcile")
  BY DEF PhysicalReconciled, Replied
<1>2. Free(o) /\ pc[o] = "reconcile" /\ pc[o] \notin Resting
  BY <1>1, CallsMembers, AnsweredFree
<1>3. Finalizing(this, o) /\ observed \in Known(o)
  BY <1>1, <1>2, CommitStands DEF Known
<1>4. reconciliation(o) \in {"committed", "notCommitted", "advanced"}
  BY DEF reconciliation
<1>5. \/ End(o, released, "failed") \/ End(o, released, "rejected")
      \/ EndCommitted(o, observed)
      \/ EndObserved(o, observed, "advanced")
  BY <1>4 DEF PhysicalReconciled
<1>6. CASE End(o, released, "failed") \/ End(o, released, "rejected")
  BY <1>1, <1>2, <1>3, <1>6, ResultsMembers, EndReleased
<1>7. CASE EndCommitted(o, observed)
  BY <1>1, <1>2, <1>3, <1>7, EndCommittedStep
<1>8. CASE EndObserved(o, observed, "advanced")
  BY <1>1, <1>2, <1>3, <1>8, ResultsMembers, EndObservedStep
<1>. QED BY <1>5, <1>6, <1>7, <1>8

LEMMA PhysicalInspectedLocal ==
    ASSUME LocalInv, NEW o \in Op, PhysicalInspected(o)
    PROVE  LocalInv' /\ Flow(o)
<1>1. KindOf[o] = "physical" /\ Answered(o, "inspect")
  BY DEF PhysicalInspected, Replied
<1>2. Free(o) /\ pc[o] = "inspect" /\ pc[o] \notin Resting
  BY <1>1, CallsMembers, AnsweredFree
<1>3. /\ Finalizing(entry[ProcOf[o]], o)
      /\ loc[o].reply.authority \in Known(o) /\ loc[o].finalized \in Known(o)
  BY <1>1, <1>2, CommitStands DEF Known
<1>4. \/ EndCommitted(o, loc[o].finalized)
      \/ EndObserved(o, loc[o].finalized, "advanced")
      \/ EndObserved(o, loc[o].reply.authority, "advanced")
  BY DEF PhysicalInspected
<1>5. CASE EndCommitted(o, loc[o].finalized)
  BY <1>1, <1>2, <1>3, <1>5, EndCommittedStep
<1>6. CASE EndObserved(o, loc[o].finalized, "advanced")
  BY <1>1, <1>2, <1>3, <1>6, ResultsMembers, EndObservedStep
<1>7. CASE EndObserved(o, loc[o].reply.authority, "advanced")
  BY <1>1, <1>2, <1>3, <1>7, ResultsMembers, EndObservedStep
<1>. QED BY <1>4, <1>5, <1>6, <1>7

LEMMA ObserveTurnLocal ==
    ASSUME LocalInv, NEW o \in Op, ObserveTurn(o)
    PROVE  LocalInv' /\ Flow(o)
<1>. DEFINE this == entry[ProcOf[o]]
            result == IF KindOf[o] = "physical" THEN "advanced" ELSE "rejected"
<1>1. pc[o] = "observe"
  BY DEF ObserveTurn
<1>2. KindOf[o] # "highlight"
  BY <1>1, StandsThere DEF MayAwait
<1>3. /\ Waiting(this, o) /\ Free(o) /\ pc[o] \notin Resting
      /\ loc[o].reply.authority \in Known(o)
  BY <1>1, <1>2, CommitStands DEF Free, StoreCalls, Resting, Known
<1>4. result \in Results
  BY ResultsMembers
<1>5. \/ this.turn[o] = "rejected" /\ End(o, this, result)
      \/ this.turn[o] = "granted" /\ EndObserved(o, loc[o].reply.authority, result)
      \/ this.turn[o] = "granted" /\ End(o, release_commit_turn(this, o), result)
  BY DEF ObserveTurn
<1>. HIDE DEF result
<1>6. CASE this.turn[o] = "rejected" /\ End(o, this, result)
  BY <1>2, <1>3, <1>4, <1>6, EndHere
<1>7. CASE this.turn[o] = "granted" /\ EndObserved(o, loc[o].reply.authority, result)
  BY <1>2, <1>3, <1>4, <1>7, EndObservedStep
<1>8. CASE this.turn[o] = "granted" /\ End(o, release_commit_turn(this, o), result)
  BY <1>2, <1>3, <1>4, <1>8, EndReleased
<1>. QED BY <1>5, <1>6, <1>7, <1>8

LEMMA CallThrewLocal ==
    ASSUME LocalInv, NEW o \in Op, CallThrew(o)
    PROVE  LocalInv' /\ Flow(o)
<1>1. PICK call \in {"read", "stage"} : Answered(o, call)
  BY DEF CallThrew, Replied
<1>2. KindOf[o] # "highlight" /\ End(o, entry[ProcOf[o]], "failed")
  BY DEF CallThrew
<1>3. Free(o) /\ pc[o] = call /\ pc[o] \notin Resting
  BY <1>1, CallsMembers, AnsweredFree
<1>4. Planning(entry[ProcOf[o]], o)
  BY <1>1, <1>2, <1>3, CommitStands
<1>. QED BY <1>2, <1>3, <1>4, ResultsMembers, EndHere

-----------------------------------------------------------------------------
(* Each action of a header setting keeps the local invariant. *)

LEMMA StartHeaderLocal ==
    ASSUME LocalInv, NEW o \in Op, StartHeader(o)
    PROVE  LocalInv' /\ Flow(o)
<1>. DEFINE this == entry[ProcOf[o]]
            new == begin_projection(this, o)
<1>1. pc[o] = "requested" /\ KindOf[o] # "highlight"
  BY DEF StartHeader
<1>2. Away(this, o) /\ this \in Shape
  BY <1>1, StandsThere DEF Stands, Resting
<1>3. /\ Moves(this, new, {o}) /\ Planning(new, o)
      /\ new.authority = this.authority /\ new.operations = this.operations + 1
  BY <1>2, BeginProjectionMoves
<1>4. CASE physical_basis_is_current(o)
  <2>1. SetEntry(o, new) /\ Call(o, "read", loc[o])
    BY <1>4 DEF StartHeader
  <2>. HIDE DEF new
  <2>. QED BY <1>1, <1>3, <2>1, BeginStep
<1>5. CASE ~physical_basis_is_current(o)
  <2>1. /\ pc' = [pc EXCEPT ![o] = "done"]
        /\ answer' = [answer EXCEPT ![o] = "rejected"]
        /\ loc' = [loc EXCEPT ![o] = NewLocals]
        /\ UNCHANGED <<db, entry, queue, tail, receipt, applied, evictions>>
    BY <1>5 DEF StartHeader
  <2>. QED BY <1>1, <2>1, GivenUp
<1>. QED BY <1>4, <1>5

LEMMA HeaderRetryLocal ==
    ASSUME LocalInv, NEW o \in Op, NEW new, KindOf[o] = "projection", pc[o] \notin Resting, Free(o),
           HeaderRetry(o, new),
           \/ new = entry[ProcOf[o]] /\ Planning(entry[ProcOf[o]], o)
           \/ /\ new = release_commit_turn(entry[ProcOf[o]], o)
              /\ Finalizing(entry[ProcOf[o]], o)
    PROVE  LocalInv' /\ Flow(o)
<1>. DEFINE l == [loc[o] EXCEPT !.conflicts = @ + 1]
<1>1. \/ SetEntry(o, new) /\ Call(o, "read", l)
      \/ End(o, new, "rejected")
  BY DEF HeaderRetry
<1>2. CASE SetEntry(o, new) /\ Call(o, "read", l)
  <2>1. Draws(o, l)
    BY LocalsDraw
  <2>. HIDE DEF l
  <2>. QED BY <1>2, <2>1, ReadAgainStep
<1>3. CASE End(o, new, "rejected")
  <2>1. CASE new = entry[ProcOf[o]] /\ Planning(entry[ProcOf[o]], o)
    BY <1>3, <2>1, ResultsMembers, EndHere
  <2>2. CASE new = release_commit_turn(entry[ProcOf[o]], o) /\ Finalizing(entry[ProcOf[o]], o)
    BY <1>3, <2>2, ResultsMembers, EndReleased
  <2>. QED BY <2>1, <2>2
<1>. HIDE DEF l
<1>. QED BY <1>1, <1>2, <1>3

LEMMA HeaderReadLocal ==
    ASSUME LocalInv, NEW o \in Op, HeaderRead(o)
    PROVE  LocalInv' /\ Flow(o)
<1>. DEFINE l == [loc[o] EXCEPT !.revision = loc[o].reply.revision,
                                !.state = loc[o].reply.state,
                                !.sequence = installed(o).commitSequence]
<1>1. /\ KindOf[o] = "projection" /\ Answered(o, "read")
      /\ \/ UNCHANGED entry /\ Call(o, "stage", l)
         \/ End(o, entry[ProcOf[o]], "rejected")
  BY DEF HeaderRead, Replied
<1>2. Free(o) /\ pc[o] = "read" /\ pc[o] \notin Resting
  BY <1>1, CallsMembers, AnsweredFree
<1>3. Planning(entry[ProcOf[o]], o) /\ Stands(entry[ProcOf[o]], o, "stage")
  BY <1>1, <1>2, CommitStands
<1>4. Draws(o, l)
  BY LocalsDraw
<1>5. MayAwait(o, "stage") /\ "stage" \in StoreCalls
  BY <1>1, CommitsMayAwait, CallsMembers
<1>. HIDE DEF l
<1>6. CASE UNCHANGED entry /\ Call(o, "stage", l)
  BY <1>1, <1>2, <1>3, <1>4, <1>5, <1>6, AskHere
<1>7. CASE End(o, entry[ProcOf[o]], "rejected")
  BY <1>1, <1>2, <1>3, <1>7, ResultsMembers, EndHere
<1>. QED BY <1>1, <1>6, <1>7

LEMMA HeaderStagedLocal ==
    ASSUME LocalInv, NEW o \in Op, HeaderStaged(o)
    PROVE  LocalInv' /\ Flow(o)
<1>. DEFINE this == entry[ProcOf[o]]
            current == [loc[o] EXCEPT !.current = this.authority]
<1>1. KindOf[o] = "projection" /\ Answered(o, "stage")
  BY DEF HeaderStaged
<1>2. Free(o) /\ pc[o] = "stage" /\ pc[o] \notin Resting
  BY <1>1, CallsMembers, AnsweredFree
<1>3. Planning(this, o)
  BY <1>1, <1>2, CommitStands
<1>4. \/ AwaitTurn(o, this, "turn", loc[o])
      \/ AwaitTurn(o, this, "observe", current)
      \/ HeaderRetry(o, this)
      \/ End(o, this, "rejected")
  BY DEF HeaderStaged
<1>5. CASE AwaitTurn(o, this, "turn", loc[o])
  BY <1>1, <1>2, <1>5, LocalsDraw, AwaitStep
<1>6. CASE AwaitTurn(o, this, "observe", current)
  <2>1. Draws(o, current)
    BY LocalsDraw
  <2>. HIDE DEF current
  <2>. QED BY <1>1, <1>2, <1>6, <2>1, AwaitStep
<1>7. CASE HeaderRetry(o, this)
  BY <1>1, <1>2, <1>3, <1>7, HeaderRetryLocal
<1>8. CASE End(o, this, "rejected")
  BY <1>1, <1>2, <1>3, <1>8, ResultsMembers, EndHere
<1>. QED BY <1>4, <1>5, <1>6, <1>7, <1>8

LEMMA HeaderTurnLocal ==
    ASSUME LocalInv, NEW o \in Op, HeaderTurn(o)
    PROVE  LocalInv' /\ Flow(o)
<1>. DEFINE this == entry[ProcOf[o]]
<1>1. KindOf[o] = "projection" /\ pc[o] = "turn"
  BY DEF HeaderTurn
<1>2. Waiting(this, o) /\ Free(o) /\ pc[o] \notin Resting
  BY <1>1, CommitStands DEF Free, StoreCalls, Resting
<1>3. CASE End(o, release_commit_turn(this, o), "rejected")
  BY <1>1, <1>2, <1>3, ResultsMembers, EndReleased
<1>4. CASE /\ this.turn[o] = "granted"
           /\ SetEntry(o, start_finalization(this))
           /\ Call(o, "finalize", [loc[o] EXCEPT !.basis = this.authority])
  BY <1>1, <1>4, FinalizeStep
<1>. QED BY <1>3, <1>4 DEF HeaderTurn

LEMMA HeaderFinalizedLocal ==
    ASSUME LocalInv, NEW o \in Op, HeaderFinalized(o)
    PROVE  LocalInv' /\ Flow(o)
<1>. DEFINE this == entry[ProcOf[o]]
            released == release_commit_turn(this, o)
<1>1. KindOf[o] = "projection" /\ Answered(o, "finalize")
  BY DEF HeaderFinalized
<1>2. Free(o) /\ pc[o] = "finalize" /\ pc[o] \notin Resting
  BY <1>1, CallsMembers, AnsweredFree
<1>3. Finalizing(this, o) /\ loc[o].reply.authority \in Known(o)
  BY <1>1, <1>2, CommitStands DEF Known
<1>4. \/ UNCHANGED entry /\ Call(o, "reconcile", loc[o])
      \/ EndObserved(o, loc[o].reply.authority, "rejected")
      \/ HeaderRetry(o, released)
      \/ End(o, released, "rejected")
      \/ /\ UNCHANGED entry
         /\ Call(o, "inspect", [loc[o] EXCEPT !.finalized = loc[o].reply.authority])
  BY DEF HeaderFinalized
<1>5. CASE \/ UNCHANGED entry /\ Call(o, "reconcile", loc[o])
           \/ /\ UNCHANGED entry
              /\ Call(o, "inspect", [loc[o] EXCEPT !.finalized = loc[o].reply.authority])
  BY <1>1, <1>2, <1>3, <1>5, NextCallStep
<1>6. CASE EndObserved(o, loc[o].reply.authority, "rejected")
  BY <1>1, <1>2, <1>3, <1>6, ResultsMembers, EndObservedStep
<1>7. CASE HeaderRetry(o, released)
  BY <1>1, <1>2, <1>3, <1>7, HeaderRetryLocal
<1>8. CASE End(o, released, "rejected")
  BY <1>1, <1>2, <1>3, <1>8, ResultsMembers, EndReleased
<1>. QED BY <1>4, <1>5, <1>6, <1>7, <1>8

LEMMA HeaderReconciledLocal ==
    ASSUME LocalInv, NEW o \in Op, HeaderReconciled(o)
    PROVE  LocalInv' /\ Flow(o)
<1>. DEFINE this == entry[ProcOf[o]]
            released == release_commit_turn(this, o)
            observed == loc[o].reply.authority
<1>1. KindOf[o] = "projection" /\ Answered(o, "reconcile")
  BY DEF HeaderReconciled, Replied
<1>2. Free(o) /\ pc[o] = "reconcile" /\ pc[o] \notin Resting
  BY <1>1, CallsMembers, AnsweredFree
<1>3. Finalizing(this, o) /\ observed \in Known(o)
  BY <1>1, <1>2, CommitStands DEF Known
<1>4. reconciliation(o) \in {"committed", "notCommitted", "advanced"}
  BY DEF reconciliation
<1>5. \/ End(o, released, "failed") \/ End(o, released, "indeterminate")
      \/ UNCHANGED entry /\ Call(o, "inspect", [loc[o] EXCEPT !.finalized = observed])
      \/ EndObserved(o, observed, "indeterminate")
  BY <1>4 DEF HeaderReconciled
<1>6. CASE End(o, released, "failed") \/ End(o, released, "indeterminate")
  BY <1>1, <1>2, <1>3, <1>6, ResultsMembers, EndReleased
<1>7. CASE UNCHANGED entry /\ Call(o, "inspect", [loc[o] EXCEPT !.finalized = observed])
  BY <1>1, <1>2, <1>3, <1>7, NextCallStep
<1>8. CASE EndObserved(o, observed, "indeterminate")
  BY <1>1, <1>2, <1>3, <1>8, ResultsMembers, EndObservedStep
<1>. QED BY <1>5, <1>6, <1>7, <1>8

LEMMA HeaderInspectedLocal ==
    ASSUME LocalInv, NEW o \in Op, HeaderInspected(o)
    PROVE  LocalInv' /\ Flow(o)
<1>1. KindOf[o] = "projection" /\ Answered(o, "inspect")
  BY DEF HeaderInspected
<1>2. Free(o) /\ pc[o] = "inspect" /\ pc[o] \notin Resting
  BY <1>1, CallsMembers, AnsweredFree
<1>3. /\ Finalizing(entry[ProcOf[o]], o)
      /\ entry[ProcOf[o]].authority \in Known(o) /\ loc[o].finalized \in Known(o)
  BY <1>1, <1>2, CommitStands DEF Known, installed
<1>4. \/ EndCommitted(o, loc[o].finalized)
      \/ EndObserved(o, loc[o].finalized, "indeterminate")
      \/ EndObserved(o, entry[ProcOf[o]].authority, "indeterminate")
  BY DEF HeaderInspected
<1>5. CASE EndCommitted(o, loc[o].finalized)
  BY <1>1, <1>2, <1>3, <1>5, EndCommittedStep
<1>6. CASE EndObserved(o, loc[o].finalized, "indeterminate")
  BY <1>1, <1>2, <1>3, <1>6, ResultsMembers, EndObservedStep
<1>7. CASE EndObserved(o, entry[ProcOf[o]].authority, "indeterminate")
  BY <1>1, <1>2, <1>3, <1>7, ResultsMembers, EndObservedStep
<1>. QED BY <1>4, <1>5, <1>6, <1>7

-----------------------------------------------------------------------------
(* Each action of a highlight command keeps the local invariant. *)

LEMMA CountMoves ==
    ASSUME NEW e, NEW f, NEW ops, NEW n \in Int, Moves(e, f, ops)
    PROVE  /\ Moves(e, [f EXCEPT !.operations = n], ops)
           /\ [f EXCEPT !.operations = n].operations = n
           /\ [f EXCEPT !.operations = n].authority = f.authority
           /\ \A o \in Op : Away(f, o) => Away([f EXCEPT !.operations = n], o)
<1>. DEFINE g == [f EXCEPT !.operations = n]
<1>1. f \in Shape
  BY DEF Moves
<1>2. /\ g \in Shape /\ g.operations = n
      /\ g.authority = f.authority /\ g.status = f.status /\ g.ordinal = f.ordinal
      /\ g.requested = f.requested /\ g.requests = f.requests /\ g.turn = f.turn
      /\ g.activeTurn = f.activeTurn /\ g.phase = f.phase
  BY <1>1 DEF Shape
<1>. HIDE DEF g
<1>3. \A o \in Op : Away(f, o) => Away(g, o)
  BY <1>2 DEF Away
<1>4. ASSUME NEW o \in Op \ ops PROVE Keeps(e, g, o)
  <2>1. Keeps(e, f, o)
    BY DEF Moves
  <2>2. /\ (Away(f, o) => Away(g, o)) /\ (Planning(f, o) => Planning(g, o))
        /\ (Waiting(f, o) => Waiting(g, o)) /\ (Finalizing(f, o) => Finalizing(g, o))
    BY <1>2 DEF Away, Planning, Waiting, Finalizing
  <2>. QED BY <1>2, <2>1, <2>2 DEF Keeps
<1>5. Moves(e, g, ops)
  BY <1>2, <1>4 DEF Moves
<1>. QED BY <1>2, <1>3, <1>5 DEF g

LEMMA HighlightAway ==
    ASSUME LocalInv, NEW o \in Op, KindOf[o] = "highlight"
    PROVE  Away(entry[ProcOf[o]], o)
BY StandsThere DEF Stands

\* The first command of a line is the one that runs.
LEMMA FirstInLine ==
    ASSUME LocalInv, NEW o \in Op, KindOf[o] = "highlight", pc[o] \in Lined,
           pc[o] # "queued" \/ Head(tail[ProcOf[o]]) = o
    PROVE  /\ tail[ProcOf[o]] \in Seq(Op) /\ tail[ProcOf[o]] # <<>>
           /\ o = tail[ProcOf[o]][1]
<1>. DEFINE t == tail[ProcOf[o]]
<1>1. Types /\ Lines /\ ProcOf[o] \in Proc /\ t \in Seq(Op)
  BY Membership DEF LocalInv
<1>2. o \in Line(ProcOf[o])
  BY DEF Line
<1>3. PICK i \in 1..Len(t) : t[i] = o
  BY <1>1, <1>2 DEF Lines
<1>4. t # <<>>
  BY <1>1, <1>3, EmptySeq
<1>5. pc[o] # "queued" => o = t[1]
  BY <1>1, <1>2 DEF Lines
<1>. HIDE DEF t
<1>6. Head(t) = t[1]
  BY <1>1, <1>4, Taken
<1>. QED BY <1>1, <1>4, <1>5, <1>6 DEF t

Orderly(t, members, await) ==
    /\ \A i \in 1..Len(t) : t[i] \in members
    /\ \A o \in members : \E i \in 1..Len(t) : t[i] = o
    /\ \A i, j \in 1..Len(t) : t[i] = t[j] => i = j
    /\ \A o \in members : await[o] # "queued" => o = t[1]

LEMMA LeavesLine ==
    ASSUME Types, Lines, NEW o \in Op, KindOf[o] = "highlight", pc[o] \in Lined,
           tail[ProcOf[o]] # <<>>, o = tail[ProcOf[o]][1],
           pc' = [pc EXCEPT ![o] = "done"],
           tail' = [tail EXCEPT ![ProcOf[o]] = Tail(@)]
    PROVE  Lines' /\ tail' \in [Proc -> Seq(Op)]
<1>. DEFINE P == ProcOf[o]
            t == tail[ProcOf[o]]
            u == Tail(t)
<1>1. /\ P \in Proc /\ t \in Seq(Op) /\ pc \in [Op -> Awaits] /\ tail \in [Proc -> Seq(Op)]
      /\ Len(t) \in Nat
  BY Membership DEF Types
<1>2. t # <<>> /\ o = t[1]
  OBVIOUS
<1>3. tail' = [tail EXCEPT ![P] = u]
  OBVIOUS
<1>. HIDE DEF u, t
<1>4. /\ u \in Seq(Op) /\ Len(t) \in Nat \ {0} /\ Len(u) = Len(t) - 1
      /\ \A i \in 1..(Len(t) - 1) : u[i] = t[i + 1]
  BY <1>1, <1>2, Taken DEF u
<1>. HIDE DEF P
<1>5. /\ \A i \in 1..Len(t) : t[i] \in Line(P)
      /\ \A n \in Line(P) : \E i \in 1..Len(t) : t[i] = n
      /\ \A i, j \in 1..Len(t) : t[i] = t[j] => i = j
      /\ \A n \in Line(P) : pc[n] # "queued" => n = t[1]
  BY <1>1 DEF Lines, t, P
<1>6. Line(P)' = Line(P) \ {o}
  BY <1>1 DEF Line, Lined
<1>7. ASSUME NEW p \in Proc
      PROVE  Orderly(tail'[p], Line(p)', pc')
  <2>1. CASE p # P
    <3>1. tail'[p] = tail[p] /\ Line(p)' = Line(p)
      BY <1>1, <1>3, <2>1 DEF Line, P
    <3>2. \A n \in Line(p) : pc'[n] = pc[n]
      BY <1>1, <2>1 DEF Line, P
    <3>3. Orderly(tail[p], Line(p), pc)
      BY DEF Lines, Orderly
    <3>4. Orderly(tail[p], Line(p), pc')
      BY <3>2, <3>3 DEF Orderly
    <3>. QED BY <3>1, <3>4
  <2>2. CASE p = P
    <3>1. tail'[p] = u
      BY <1>1, <1>3, <2>2
    <3>2. \A i \in 1..Len(u) : u[i] = t[i + 1] /\ i + 1 \in 1..Len(t) /\ i + 1 # 1
      BY <1>4
    <3>3. \A i \in 1..Len(u) : u[i] \in Line(P) \ {o}
      BY <1>2, <1>4, <1>5, <3>2
    <3>4. ASSUME NEW n \in Line(P) \ {o} PROVE \E i \in 1..Len(u) : u[i] = n
      <4>1. PICK k \in 1..Len(t) : t[k] = n
        BY <1>5
      <4>2. k # 1
        BY <1>2, <4>1
      <4>3. k - 1 \in 1..Len(u) /\ u[k - 1] = t[k]
        BY <1>4, <4>2
      <4>. QED BY <4>1, <4>3
    <3>5. ASSUME NEW i \in 1..Len(u), NEW j \in 1..Len(u), u[i] = u[j] PROVE i = j
      <4>1. i + 1 = j + 1
        BY <1>5, <3>2, <3>5
      <4>. QED BY <4>1
    <3>6. \A n \in Line(P) \ {o} : pc[n] = "queued" /\ pc'[n] = pc[n]
      BY <1>1, <1>2, <1>5 DEF Line
    <3>7. Orderly(u, Line(P) \ {o}, pc')
      BY <3>3, <3>4, <3>5, <3>6 DEF Orderly
    <3>. QED BY <1>6, <2>2, <3>1, <3>7
  <2>. QED BY <2>1, <2>2
<1>8. tail' \in [Proc -> Seq(Op)]
  BY <1>1, <1>3, <1>4
<1>. QED BY <1>7, <1>8 DEF Lines, Orderly

LEMMA JoinsLine ==
    ASSUME Types, Lines, NEW o \in Op, KindOf[o] = "highlight", pc[o] \notin Lined,
           pc' = [pc EXCEPT ![o] = "queued"],
           tail' = [tail EXCEPT ![ProcOf[o]] = Append(@, o)]
    PROVE  Lines' /\ tail' \in [Proc -> Seq(Op)]
<1>. DEFINE P == ProcOf[o]
            t == tail[ProcOf[o]]
            u == Append(t, o)
<1>1. /\ P \in Proc /\ t \in Seq(Op) /\ pc \in [Op -> Awaits] /\ tail \in [Proc -> Seq(Op)]
      /\ Len(t) \in Nat
  BY Membership DEF Types
<1>3. tail' = [tail EXCEPT ![P] = u]
  OBVIOUS
<1>. HIDE DEF u, t
<1>4. /\ u \in Seq(Op) /\ Len(u) = Len(t) + 1
      /\ \A i \in 1..Len(t) : u[i] = t[i]
      /\ u[Len(t) + 1] = o
  BY <1>1, Appended DEF u
<1>. HIDE DEF P
<1>5. /\ \A i \in 1..Len(t) : t[i] \in Line(P)
      /\ \A n \in Line(P) : \E i \in 1..Len(t) : t[i] = n
      /\ \A i, j \in 1..Len(t) : t[i] = t[j] => i = j
      /\ \A n \in Line(P) : pc[n] # "queued" => n = t[1]
  BY <1>1 DEF Lines, t, P
<1>6. Line(P)' = Line(P) \cup {o} /\ o \notin Line(P)
  BY <1>1 DEF Line, Lined, P
<1>7. ASSUME NEW p \in Proc
      PROVE  Orderly(tail'[p], Line(p)', pc')
  <2>1. CASE p # P
    <3>1. tail'[p] = tail[p] /\ Line(p)' = Line(p)
      BY <1>1, <1>3, <2>1 DEF Line, P
    <3>2. \A n \in Line(p) : pc'[n] = pc[n]
      BY <1>1, <2>1 DEF Line, P
    <3>3. Orderly(tail[p], Line(p), pc)
      BY DEF Lines, Orderly
    <3>4. Orderly(tail[p], Line(p), pc')
      BY <3>2, <3>3 DEF Orderly
    <3>. QED BY <3>1, <3>4
  <2>2. CASE p = P
    <3>1. tail'[p] = u
      BY <1>1, <1>3, <2>2
    <3>2. \A i \in 1..Len(u) : i \in 1..Len(t) \/ i = Len(t) + 1
      BY <1>1, <1>4
    <3>3. \A i \in 1..Len(u) : u[i] \in Line(P) \cup {o}
      BY <1>4, <1>5, <3>2
    <3>4. ASSUME NEW n \in Line(P) \cup {o} PROVE \E i \in 1..Len(u) : u[i] = n
      <4>1. CASE n = o
        BY <1>1, <1>4, <4>1
      <4>2. CASE n \in Line(P)
        <5>1. PICK k \in 1..Len(t) : t[k] = n
          BY <1>5, <4>2
        <5>. QED BY <1>1, <1>4, <5>1
      <4>. QED BY <4>1, <4>2
    <3>5. ASSUME NEW i \in 1..Len(u), NEW j \in 1..Len(u), u[i] = u[j] PROVE i = j
      <4>1. \A k \in 1..Len(t) : u[k] # o
        BY <1>4, <1>5, <1>6
      <4>. QED BY <1>4, <1>5, <3>2, <3>5, <4>1
    <3>6. \A n \in Line(P) : pc'[n] = pc[n]
      BY <1>1, <1>6
    <3>7. ASSUME NEW n \in Line(P) \cup {o}, pc'[n] # "queued" PROVE n = u[1]
      <4>1. n \in Line(P)
        BY <1>1, <3>7
      <4>2. n = t[1]
        BY <1>5, <3>6, <3>7, <4>1
      <4>3. PICK i \in 1..Len(t) : t[i] = n
        BY <1>5, <4>1
      <4>4. 1 \in 1..Len(t)
        BY <1>1, <4>3
      <4>. QED BY <1>4, <4>2, <4>4
    <3>8. Orderly(u, Line(P) \cup {o}, pc')
      BY <3>3, <3>4, <3>5, <3>7 DEF Orderly
    <3>. QED BY <1>6, <2>2, <3>1, <3>8
  <2>. QED BY <2>1, <2>2
<1>8. tail' \in [Proc -> Seq(Op)]
  BY <1>1, <1>3, <1>4
<1>. QED BY <1>7, <1>8 DEF Lines, Orderly

\* A highlight command ends and the next one is the first of the line.
LEMMA EndHighlightStep ==
    ASSUME LocalInv, NEW o \in Op, NEW new, NEW result \in Results,
           KindOf[o] = "highlight", pc[o] \in Lined, Free(o),
           pc[o] # "queued" \/ Head(tail[ProcOf[o]]) = o,
           EndHighlight(o, new, result), Moves(entry[ProcOf[o]], new, {o}),
           Away(new, o), new.operations = entry[ProcOf[o]].operations,
           new.authority \in Known(o), at_least(new.authority, installed(o))
    PROVE  LocalInv' /\ Flow(o)
<1>. DEFINE this == entry[ProcOf[o]]
            n == this.operations - 1
            f == [new EXCEPT !.operations = n]
<1>1. /\ entry' = [entry EXCEPT ![ProcOf[o]] = f]
      /\ pc' = [pc EXCEPT ![o] = "done"] /\ loc' = [loc EXCEPT ![o] = NewLocals]
      /\ answer' = [answer EXCEPT ![o] = result]
      /\ tail' = [tail EXCEPT ![ProcOf[o]] = Tail(@)]
      /\ UNCHANGED <<db, queue, receipt, applied, evictions>>
  <2>1. [new EXCEPT !.operations = @ - 1] = f
    OBVIOUS
  <2>. QED BY <2>1 DEF EndHighlight, SetEntry
<1>2. /\ Types /\ Stances /\ Lines /\ Calls /\ loc \in [Op -> Locals] /\ pc \in [Op -> Awaits]
      /\ answer \in [Op -> Results \cup {"none"}] /\ receipt \in [Op -> Receipts]
  BY DEF LocalInv, Types
<1>3. this \in Shape /\ ProcOf[o] \in Proc /\ this.operations \in Int /\ n \in Int
  BY StandsThere
<1>. HIDE DEF n
<1>4. /\ Moves(this, f, {o}) /\ f.operations = n /\ f.authority = new.authority /\ Away(f, o)
  BY <1>3, CountMoves
<1>. HIDE DEF f
<1>5. Suits(o, f, "done")
  <2>1. n = this.operations + 0 - 1
    BY <1>3 DEF n
  <2>2. Stands(f, o, "done")
    BY <1>4 DEF Stands
  <2>3. "done" \in Resting /\ pc[o] \notin Resting
    BY DEF Resting, Lined
  <2>. QED BY <1>4, <2>1, <2>2, <2>3 DEF Suits
<1>6. "done" \in Awaits /\ MayAwait(o, "done")
  BY DEF Awaits, MayAwait
<1>. HIDE DEF this
<1>7. /\ entry' \in [Proc -> Shape] /\ pc' \in [Op -> Awaits]
      /\ \A x \in Op : MayAwait(x, pc'[x])
      /\ Stances' /\ Balanced'
      /\ entry' = [entry EXCEPT ![ProcOf[o]] = entry'[ProcOf[o]]]
      /\ Moves(entry[ProcOf[o]], entry'[ProcOf[o]], {o})
      /\ entry'[ProcOf[o]].authority \in Known(o)
      /\ at_least(entry'[ProcOf[o]].authority, installed(o))
  BY <1>1, <1>5, <1>6, SuitedStep
<1>8. NewLocals \in Locals /\ Draws(o, NewLocals)
  BY NewLocalsDraw
<1>9. /\ loc' \in [Op -> Locals] /\ loc'[o] = NewLocals /\ pc'[o] = "done"
      /\ \A x \in Op \ {o} : pc'[x] = pc[x] /\ loc'[x] = loc[x]
  BY <1>1, <1>2, <1>8
<1>10. Calls'
  BY <1>1, <1>2, <1>9, SameCalls
<1>11. Lines' /\ tail' \in [Proc -> Seq(Op)]
  BY <1>1, <1>2, FirstInLine, LeavesLine
<1>12. /\ answer' \in [Op -> Results \cup {"none"}]
       /\ \A x \in Op \ {o} : answer'[x] = answer[x] /\ receipt'[x] = receipt[x]
  BY <1>1, <1>2
<1>13. Types'
  BY <1>1, <1>2, <1>7, <1>9, <1>11, <1>12 DEF Types
<1>14. pc[o] # "done"
  BY DEF Free
<1>. QED BY <1>1, <1>7, <1>8, <1>9, <1>10, <1>11, <1>12, <1>13, <1>14 DEF LocalInv, Flow

LEMMA EndHighlightHere ==
    ASSUME LocalInv, NEW o \in Op, NEW result \in Results,
           KindOf[o] = "highlight", pc[o] \in Lined, Free(o),
           pc[o] # "queued" \/ Head(tail[ProcOf[o]]) = o,
           EndHighlight(o, entry[ProcOf[o]], result)
    PROVE  LocalInv' /\ Flow(o)
<1>1. Moves(entry[ProcOf[o]], entry[ProcOf[o]], {o})
  BY StandsThere, MovesReflexive
<1>2. entry[ProcOf[o]].authority \in Known(o) /\ at_least(entry[ProcOf[o]].authority, installed(o))
  BY AtLeastReflexive DEF Known, installed
<1>. QED BY <1>1, <1>2, HighlightAway, EndHighlightStep

LEMMA StartHighlightLocal ==
    ASSUME LocalInv, NEW o \in Op, StartHighlight(o)
    PROVE  LocalInv' /\ Flow(o)
<1>. DEFINE this == entry[ProcOf[o]]
            n == this.operations + 1
            f == [this EXCEPT !.operations = n]
<1>0. entry \in [Proc -> Shape] /\ ProcOf[o] \in Proc
  BY StandsThere DEF Types
<1>1. /\ KindOf[o] = "highlight" /\ pc[o] = "requested"
      /\ entry' = [entry EXCEPT ![ProcOf[o]] = f]
      /\ pc' = [pc EXCEPT ![o] = "queued"]
      /\ tail' = [tail EXCEPT ![ProcOf[o]] = Append(@, o)]
      /\ UNCHANGED <<db, queue, loc, answer, receipt, applied, evictions>>
  BY <1>0 DEF StartHighlight
<1>2. /\ Types /\ Stances /\ Lines /\ Calls /\ loc \in [Op -> Locals] /\ pc \in [Op -> Awaits]
  BY DEF LocalInv, Types
<1>3. this \in Shape /\ this.operations \in Int /\ n \in Int
  BY StandsThere
<1>3a. Moves(this, this, {o}) /\ Away(this, o)
  BY <1>1, <1>3, MovesReflexive, HighlightAway
<1>. HIDE DEF n
<1>4. /\ Moves(this, f, {o}) /\ f.operations = n /\ f.authority = this.authority /\ Away(f, o)
  <2>. HIDE DEF this
  <2>. QED BY <1>3, <1>3a, CountMoves
<1>. HIDE DEF f
<1>5. Suits(o, f, "queued")
  <2>1. n = this.operations + 1 - 0
    BY <1>3 DEF n
  <2>2. Stands(f, o, "queued")
    BY <1>1, <1>4 DEF Stands
  <2>3. "queued" \notin Resting /\ pc[o] \in Resting
    BY <1>1 DEF Resting
  <2>4. f.authority \in Known(o) /\ at_least(f.authority, installed(o))
    BY <1>4, AtLeastReflexive DEF Known, installed
  <2>. QED BY <1>4, <2>1, <2>2, <2>3, <2>4 DEF Suits
<1>6. "queued" \in Awaits /\ MayAwait(o, "queued")
  BY <1>1 DEF Awaits, MayAwait
<1>. HIDE DEF this
<1>7. /\ entry' \in [Proc -> Shape] /\ pc' \in [Op -> Awaits]
      /\ \A x \in Op : MayAwait(x, pc'[x])
      /\ Stances' /\ Balanced'
      /\ entry' = [entry EXCEPT ![ProcOf[o]] = entry'[ProcOf[o]]]
      /\ Moves(entry[ProcOf[o]], entry'[ProcOf[o]], {o})
      /\ entry'[ProcOf[o]].authority \in Known(o)
      /\ at_least(entry'[ProcOf[o]].authority, installed(o))
  BY <1>1, <1>5, <1>6, SuitedStep
<1>8. Draws(o, loc'[o])
  <2>1. Draws(o, loc[o])
    BY LocalsDraw
  <2>. QED BY <1>1, <2>1 DEF Draws
<1>9. Free(o) /\ pc[o] \notin Lined
  BY <1>1 DEF Free, StoreCalls, Lined
<1>10. \A x \in Op \ {o} : /\ pc'[x] = pc[x] /\ loc'[x] = loc[x]
                           /\ answer'[x] = answer[x] /\ receipt'[x] = receipt[x]
  BY <1>1, <1>2
<1>11. Calls'
  BY <1>1, <1>2, <1>9, <1>10, SameCalls
<1>12. Lines' /\ tail' \in [Proc -> Seq(Op)]
  BY <1>1, <1>2, <1>9, JoinsLine
<1>13. Types'
  BY <1>1, <1>2, <1>7, <1>12 DEF Types
<1>. QED BY <1>1, <1>7, <1>8, <1>10, <1>11, <1>12, <1>13 DEF LocalInv, Flow

LEMMA HighlightMayAwait ==
    ASSUME NEW o \in Op, KindOf[o] = "highlight"
    PROVE  MayAwait(o, "read") /\ MayAwait(o, "cas")
BY DEF MayAwait

\* A command that runs and makes a store call.
LEMMA HighlightAsks ==
    ASSUME LocalInv, NEW o \in Op, NEW l, NEW call \in {"read", "cas"},
           KindOf[o] = "highlight", pc[o] \in Lined, Free(o),
           pc[o] # "queued" \/ Head(tail[ProcOf[o]]) = o,
           UNCHANGED entry, Call(o, call, l), Draws(o, l)
    PROVE  LocalInv' /\ Flow(o)
<1>1. Away(entry[ProcOf[o]], o) /\ o = tail[ProcOf[o]][1]
  BY HighlightAway, FirstInLine
<1>2. Stands(entry[ProcOf[o]], o, call)
  BY <1>1 DEF Stands
<1>3. call \in StoreCalls /\ MayAwait(o, call)
  BY HighlightMayAwait, CallsMembers
<1>4. pc[o] \notin Resting
  BY DEF Lined, Resting
<1>. QED BY <1>1, <1>2, <1>3, <1>4, AskHere

LEMMA RunHighlightLocal ==
    ASSUME LocalInv, NEW o \in Op, RunHighlight(o)
    PROVE  LocalInv' /\ Flow(o)
<1>1. pc[o] = "queued" /\ Head(tail[ProcOf[o]]) = o
  BY DEF RunHighlight
<1>2. KindOf[o] = "highlight"
  BY <1>1, StandsThere DEF MayAwait
<1>3. pc[o] \in Lined /\ Free(o)
  BY <1>1 DEF Lined, Free, StoreCalls
<1>4. CASE UNCHANGED entry /\ Call(o, "read", loc[o])
  BY <1>1, <1>2, <1>3, <1>4, LocalsDraw, HighlightAsks
<1>5. CASE EndHighlight(o, entry[ProcOf[o]], "rejected")
  BY <1>1, <1>2, <1>3, <1>5, ResultsMembers, EndHighlightHere
<1>. QED BY <1>4, <1>5 DEF RunHighlight

LEMMA HighlightReadLocal ==
    ASSUME LocalInv, NEW o \in Op, HighlightRead(o)
    PROVE  LocalInv' /\ Flow(o)
<1>. DEFINE l == [loc[o] EXCEPT !.revision = loc[o].reply.revision,
                                !.state = loc[o].reply.state]
<1>1. /\ KindOf[o] = "highlight" /\ Answered(o, "read")
      /\ \/ UNCHANGED entry /\ Call(o, "cas", l)
         \/ EndHighlight(o, entry[ProcOf[o]], "rejected")
  BY DEF HighlightRead, HighlightAttempt, Replied
<1>2. Free(o) /\ pc[o] = "read"
  BY <1>1, CallsMembers, AnsweredFree
<1>3. pc[o] \in Lined /\ pc[o] # "queued"
  BY <1>2 DEF Lined
<1>4. Draws(o, l)
  BY LocalsDraw
<1>. HIDE DEF l
<1>5. CASE UNCHANGED entry /\ Call(o, "cas", l)
  BY <1>1, <1>2, <1>3, <1>4, <1>5, HighlightAsks
<1>6. CASE EndHighlight(o, entry[ProcOf[o]], "rejected")
  BY <1>1, <1>2, <1>3, <1>6, ResultsMembers, EndHighlightHere
<1>. QED BY <1>1, <1>5, <1>6

LEMMA HighlightConflictLocal ==
    ASSUME LocalInv, NEW o \in Op, HighlightConflict(o)
    PROVE  LocalInv' /\ Flow(o)
<1>. DEFINE this == entry[ProcOf[o]]
            observed == loc[o].reply.authority
            new == install_authority(this, observed, NoOp)
            l == [loc[o] EXCEPT !.revision = loc[o].reply.revision,
                                !.state = loc[o].reply.state,
                                !.conflicts = @ + 1]
<1>1. /\ Answered(o, "cas")
      /\ \/ EndHighlight(o, new, "rejected")
         \/ SetEntry(o, new) /\ Call(o, "cas", l)
  BY DEF HighlightConflict, Replied
<1>2. Free(o) /\ pc[o] = "cas" /\ pc[o] \notin Resting
  BY <1>1, CallsMembers, AnsweredFree
<1>3. KindOf[o] = "highlight" /\ pc[o] \in Lined /\ pc[o] # "queued"
  BY <1>2, StandsThere DEF MayAwait, Lined
<1>4. observed \in Known(o) /\ observed \in Authority /\ this \in Shape
  BY StandsThere, KnownTypes DEF Known
<1>5. /\ Moves(this, new, {})
      /\ new.authority = IF install_type(this, observed) = "installed" THEN observed ELSE this.authority
      /\ new.operations = this.operations
  BY <1>4, InstallMoves
<1>6. Draws(o, l)
  BY LocalsDraw
<1>7. Away(this, o)
  BY <1>3, HighlightAway
<1>8. install_type(this, observed) = "installed" => at_least(observed, this.authority)
  BY DEF install_type, at_least, compare_authority
<1>9. /\ this.authority \in Known(o) /\ at_least(this.authority, installed(o))
      /\ installed(o) = this.authority
  BY AtLeastReflexive DEF Known, installed
<1>. HIDE DEF new, l, observed
<1>10. Moves(this, new, {o}) /\ Away(new, o)
  <2>1. Keeps(this, new, o)
    BY <1>5 DEF Moves
  <2>. QED BY <1>5, <1>7, <2>1, MovesFewer DEF Keeps
<1>11. new.authority \in Known(o) /\ at_least(new.authority, installed(o))
  BY <1>4, <1>5, <1>8, <1>9
<1>12. CASE EndHighlight(o, new, "rejected")
  BY <1>2, <1>3, <1>5, <1>10, <1>11, <1>12, ResultsMembers, EndHighlightStep
<1>13. CASE SetEntry(o, new) /\ Call(o, "cas", l)
  <2>1. this.operations \in Int /\ entry' = [entry EXCEPT ![ProcOf[o]] = new]
    BY <1>13, StandsThere DEF SetEntry
  <2>2. new.operations = this.operations + 1 - 1
    BY <1>5, <2>1
  <2>3. Stands(new, o, "cas") /\ "cas" \notin Resting
    BY <1>3, <1>10 DEF Stands, Resting
  <2>4. Suits(o, new, "cas")
    BY <1>2, <1>10, <1>11, <2>2, <2>3 DEF Suits
  <2>5. o = tail[ProcOf[o]][1] /\ MayAwait(o, "cas") /\ "cas" \in StoreCalls
    BY <1>3, FirstInLine, HighlightMayAwait, CallsMembers
  <2>. QED BY <1>2, <1>3, <1>6, <1>13, <2>1, <2>4, <2>5, AskStep
<1>. QED BY <1>1, <1>12, <1>13

LEMMA HighlightWrittenLocal ==
    ASSUME LocalInv, NEW o \in Op, HighlightWritten(o)
    PROVE  LocalInv' /\ Flow(o)
<1>1. Answered(o, "cas")
  BY DEF HighlightWritten, Replied
<1>2. Free(o) /\ pc[o] = "cas"
  BY <1>1, CallsMembers, AnsweredFree
<1>3. KindOf[o] = "highlight" /\ pc[o] \in Lined /\ pc[o] # "queued"
  BY <1>2, StandsThere DEF MayAwait, Lined
<1>4. PICK result \in Results : EndHighlight(o, entry[ProcOf[o]], result)
  BY ResultsMembers DEF HighlightWritten
<1>. QED BY <1>2, <1>3, <1>4, EndHighlightHere

LEMMA HighlightThrewLocal ==
    ASSUME LocalInv, NEW o \in Op, HighlightThrew(o)
    PROVE  LocalInv' /\ Flow(o)
<1>1. PICK call \in {"read", "cas"} : Answered(o, call)
  BY DEF HighlightThrew, Replied
<1>2. KindOf[o] = "highlight" /\ EndHighlight(o, entry[ProcOf[o]], "rejected")
  BY DEF HighlightThrew
<1>3. Free(o) /\ pc[o] = call
  BY <1>1, CallsMembers, AnsweredFree
<1>4. pc[o] \in Lined /\ pc[o] # "queued"
  BY <1>3 DEF Lined
<1>. QED BY <1>2, <1>3, <1>4, ResultsMembers, EndHighlightHere

\* Every step of an operation.
LEMMA ResumeLocal ==
    ASSUME LocalInv, NEW o \in Op, LoadCandidate(o) \/ Request(o) \/ Resume(o)
    PROVE  LocalInv' /\ Flow(o)
<1>1. pc[o] = "loaded" => KindOf[o] # "highlight"
  BY StandsThere DEF MayAwait
<1>2. CASE BeginPhysical(o)
  BY <1>1, <1>2, BeginPhysicalLocal DEF BeginPhysical
<1>3. CASE \/ PhysicalRead(o) \/ PhysicalStaged(o) \/ PhysicalTurn(o)
           \/ PhysicalFinalized(o) \/ PhysicalReconciled(o) \/ PhysicalInspected(o)
           \/ ObserveTurn(o) \/ CallThrew(o) \/ LoadCandidate(o)
  BY <1>3, PhysicalReadLocal, PhysicalStagedLocal, PhysicalTurnLocal, PhysicalFinalizedLocal,
     PhysicalReconciledLocal, PhysicalInspectedLocal, ObserveTurnLocal, CallThrewLocal,
     LoadCandidateLocal
<1>4. CASE \/ StartHeader(o) \/ HeaderRead(o) \/ HeaderStaged(o) \/ HeaderTurn(o)
           \/ HeaderFinalized(o) \/ HeaderReconciled(o) \/ HeaderInspected(o) \/ Request(o)
  BY <1>4, StartHeaderLocal, HeaderReadLocal, HeaderStagedLocal, HeaderTurnLocal,
     HeaderFinalizedLocal, HeaderReconciledLocal, HeaderInspectedLocal, RequestLocal
<1>5. CASE \/ StartHighlight(o) \/ RunHighlight(o) \/ HighlightRead(o)
           \/ HighlightConflict(o) \/ HighlightWritten(o) \/ HighlightThrew(o)
  BY <1>5, StartHighlightLocal, RunHighlightLocal, HighlightReadLocal, HighlightConflictLocal,
     HighlightWrittenLocal, HighlightThrewLocal
<1>. QED BY <1>2, <1>3, <1>4, <1>5 DEF Resume

-----------------------------------------------------------------------------
(* The store's steps, a crash and an eviction keep the local invariant. *)

Calling == Op \X (StoreCalls \cup {"discard"})

\* The call at the head of a queue is the one its operation awaits.
LEMMA HeadCall ==
    ASSUME LocalInv, NEW p \in Proc, queue[p] # <<>>,
           NEW o, NEW call, o = Head(queue[p])[1], call = Head(queue[p])[2]
    PROVE  /\ o \in Op /\ call \in StoreCalls \cup {"discard"} /\ ProcOf[o] = p
           /\ call = "discard" => pc[o] = "done"
           /\ call # "discard" => pc[o] = call /\ loc[o].reply.type = "none"
           /\ queue \in [Proc -> Seq(Calling)]
           /\ queue[p] \in Seq(Calling)
           /\ \A i \in 1..(Len(queue[p]) - 1) : call # "discard" => queue[p][i + 1][1] # o
<1>. DEFINE q == queue[p]
<1>1. Types /\ Calls /\ queue \in [Proc -> Seq(Calling)]
  BY DEF LocalInv, Types, Calling
<1>2. q \in Seq(Calling) /\ q # <<>>
  BY Membership, <1>1 DEF Calling
<1>. HIDE DEF q
<1>3. Head(q) \in Calling /\ Head(q) = q[1] /\ Len(q) \in Nat \ {0}
  BY <1>2, Taken
<1>4. o \in Op /\ call \in StoreCalls \cup {"discard"}
  BY <1>3 DEF Calling, q
<1>5. 1 \in 1..Len(q) /\ q[1][1] = o /\ q[1][2] = call
  BY <1>3 DEF q
<1>6. \A i \in 1..Len(q) :
          /\ ProcOf[q[i][1]] = p
          /\ q[i][2] = "discard" => pc[q[i][1]] = "done"
          /\ q[i][2] # "discard" => /\ pc[q[i][1]] = q[i][2] /\ loc[q[i][1]].reply.type = "none"
                                    /\ \A j \in 1..Len(q) : q[j][1] = q[i][1] => j = i
  BY <1>1 DEF Calls, q
<1>7. \A i \in 1..(Len(q) - 1) : i + 1 \in 1..Len(q) /\ i + 1 # 1
  BY <1>3
<1>. QED BY <1>1, <1>2, <1>4, <1>5, <1>6, <1>7 DEF q

Proper(q, p, await, locals) ==
    \A i \in 1..Len(q) :
       /\ ProcOf[q[i][1]] = p
       /\ q[i][2] = "discard" => await[q[i][1]] = "done"
       /\ q[i][2] # "discard" => /\ await[q[i][1]] = q[i][2] /\ locals[q[i][1]].reply.type = "none"
                                 /\ \A j \in 1..Len(q) : q[j][1] = q[i][1] => j = i

\* The calls behind it are as they were.
LEMMA Dequeued ==
    ASSUME LocalInv, NEW p \in Proc, queue[p] # <<>>,
           UNCHANGED pc,
           \A n \in Op : n # Head(queue[p])[1] \/ Head(queue[p])[2] = "discard" => loc'[n] = loc[n],
           queue' = [queue EXCEPT ![p] = Tail(@)]
    PROVE  Calls' /\ queue' \in [Proc -> Seq(Calling)]
<1>. DEFINE q == queue[p]
            t == Tail(q)
            o == Head(queue[p])[1]
            call == Head(queue[p])[2]
<1>0. \A n \in Op : n # o \/ call = "discard" => loc'[n] = loc[n]
  OBVIOUS
<1>1. /\ o \in Op /\ ProcOf[o] = p /\ queue \in [Proc -> Seq(Calling)] /\ q \in Seq(Calling)
      /\ \A i \in 1..(Len(q) - 1) : call # "discard" => q[i + 1][1] # o
  BY HeadCall
<1>2. q # <<>> /\ queue' = [queue EXCEPT ![p] = t]
  OBVIOUS
<1>. HIDE DEF q, t, o, call
<1>3. /\ t \in Seq(Calling) /\ Len(t) = Len(q) - 1 /\ Len(q) \in Nat \ {0}
      /\ \A i \in 1..(Len(q) - 1) : t[i] = q[i + 1]
  BY <1>1, <1>2, Taken DEF t
<1>4. ASSUME NEW r \in Proc, NEW i \in 1..Len(queue[r])
      PROVE  queue[r][i][1] \in Op
  <2>1. queue[r] \in Seq(Calling)
    BY <1>1
  <2>2. queue[r][i] \in Calling
    BY <2>1, ElementOfSeq
  <2>. QED BY <2>2 DEF Calling
<1>5. ASSUME NEW r \in Proc PROVE Proper(queue'[r], r, pc', loc')
  <2>0. Proper(queue[r], r, pc, loc)
    BY DEF Calls, LocalInv, Proper
  <2>1. CASE r # p
    <3>1. queue'[r] = queue[r]
      BY <1>1, <1>2, <2>1
    <3>2. \A i \in 1..Len(queue[r]) : ProcOf[queue[r][i][1]] = r /\ queue[r][i][1] \in Op
      BY <1>4, <2>0 DEF Proper
    <3>3. \A i \in 1..Len(queue[r]) : loc'[queue[r][i][1]] = loc[queue[r][i][1]]
      BY <1>0, <1>1, <2>1, <3>2
    <3>4. Proper(queue[r], r, pc, loc')
      BY <2>0, <3>3 DEF Proper
    <3>. QED BY <3>1, <3>4
  <2>2. CASE r = p
    <3>1. queue'[r] = t
      BY <1>1, <1>2, <2>2
    <3>2. ASSUME NEW i \in 1..Len(t)
          PROVE  /\ ProcOf[t[i][1]] = p
                 /\ t[i][2] = "discard" => pc[t[i][1]] = "done"
                 /\ t[i][2] # "discard" => /\ pc[t[i][1]] = t[i][2] /\ loc'[t[i][1]].reply.type = "none"
                                           /\ \A j \in 1..Len(t) : t[j][1] = t[i][1] => j = i
      <4>1. i + 1 \in 1..Len(q) /\ t[i] = q[i + 1] /\ i \in 1..(Len(q) - 1)
        BY <1>3
      <4>2. q[i + 1][1] \in Op /\ (call # "discard" => q[i + 1][1] # o)
        BY <1>1, <1>4, <4>1 DEF q
      <4>3. loc'[q[i + 1][1]] = loc[q[i + 1][1]]
        BY <1>0, <4>2
      <4>4. /\ ProcOf[q[i + 1][1]] = p
            /\ q[i + 1][2] = "discard" => pc[q[i + 1][1]] = "done"
            /\ q[i + 1][2] # "discard" =>
                  /\ pc[q[i + 1][1]] = q[i + 1][2] /\ loc[q[i + 1][1]].reply.type = "none"
                  /\ \A j \in 1..Len(q) : q[j][1] = q[i + 1][1] => j = i + 1
        BY <2>0, <2>2, <4>1 DEF Proper, q
      <4>5. \A j \in 1..Len(t) : t[j] = q[j + 1] /\ j + 1 \in 1..Len(q) /\ (j + 1 = i + 1 => j = i)
        BY <1>3, <4>1
      <4>6. q[i + 1][2] # "discard" => \A j \in 1..Len(t) : t[j][1] = t[i][1] => j = i
        BY <4>1, <4>4, <4>5
      <4>. QED BY <4>1, <4>3, <4>4, <4>6
    <3>3. Proper(t, p, pc, loc')
      BY <3>2 DEF Proper
    <3>. QED BY <2>2, <3>1, <3>3
  <2>. QED BY <2>1, <2>2
<1>6. queue' \in [Proc -> Seq(Calling)]
  BY <1>1, <1>2, <1>3
<1>. QED BY <1>5, <1>6 DEF Calls, Proper

\* What an operation awaits and stages is typed.
LEMMA StageTyped ==
    ASSUME LocalInv, NEW o \in Op
    PROVE  /\ pc[o] = "stage" => stage_of(o) \in Stage
           /\ KindOf[o] # "physical" => planned_state(o) \in SUBSET Op
           /\ planned_state(o) \in (SUBSET Op) \cup {NoState}
<1>1. /\ loc[o] \in Locals /\ KindOf[o] \in {"physical", "projection", "highlight"}
      /\ DigestOf[o] \in Digest /\ (pc[o] = "stage" => KindOf[o] # "highlight")
  BY StandsThere, EntryAssumption DEF MayAwait
<1>2. loc[o].state \in SUBSET Op /\ loc[o].revision \in Nat /\ loc[o].sequence \in Nat
  BY <1>1 DEF Locals
<1>3. /\ KindOf[o] # "physical" => planned_state(o) \in SUBSET Op
      /\ planned_state(o) \in (SUBSET Op) \cup {NoState}
  BY <1>2 DEF planned_state
<1>4. ASSUME KindOf[o] # "highlight" PROVE stage_of(o) \in Stage
  BY <1>1, <1>2, <1>3, <1>4 DEF stage_of, Stage
<1>. QED BY <1>1, <1>3, <1>4

\* A transaction never takes the durable authority back.
LEMMA EffectAdvances ==
    ASSUME LocalInv, NEW o \in Op, NEW call \in StoreCalls \cup {"discard"},
           call # "discard" => pc[o] = call, accepted(o, call)
    PROVE  /\ effect(o, call) \in Store
           /\ at_least(authority_of(effect(o, call), File), durable)
<1>1. db \in Store /\ durable = authority_of(db, File)
  BY DEF LocalInv, Types, durable
<1>2. CASE call = "stage"
  <2>1. stage_of(o) \in Stage
    BY <1>2, StageTyped
  <2>2. effect(o, call) = stage_authority_transaction(db, File, stage_of(o), {File})
    BY <1>2 DEF effect
  <2>3. effect(o, call) \in Store /\ authority_of(effect(o, call), File) = durable
    BY <1>1, <2>1, <2>2, StageEffect
  <2>. QED BY <2>3, AtLeastReflexive
<1>3. CASE call = "finalize"
  <2>1. stage_present(db, File, o)
    BY <1>3 DEF accepted, finalize_accepts
  <2>2. effect(o, call) = finalize_authority_transaction(db, File, o, {File})
    BY <1>3 DEF effect
  <2>. DEFINE s == stage_named(db, File, o)
  <2>3. s \in Stage
    BY <1>1, <2>1, NamedStage
  <2>4. s.physicalDigest \in Digest \cup {NoDigest}
    BY <2>3 DEF Stage
  <2>5. /\ effect(o, call) \in Store
        /\ authority_of(effect(o, call), File) = advance(durable, s.kind, s.physicalDigest)
    BY <1>1, <2>1, <2>2, FinalizeEffect
  <2>. HIDE DEF s
  <2>6. durable \in Authority
    BY <1>1, SnapshotTypes
  <2>7. dominates(advance(durable, s.kind, s.physicalDigest), durable)
    BY <2>4, <2>6, CommitsDominate
  <2>8. advance(durable, s.kind, s.physicalDigest) \in Authority
    BY <2>4, <2>6, AdvanceType
  <2>9. compare_authority(advance(durable, s.kind, s.physicalDigest), durable) = "dominates"
    BY <2>6, <2>7, <2>8, ComparisonAgrees
  <2>. QED BY <2>5, <2>9 DEF at_least
<1>4. CASE call = "cas"
  <2>1. KindOf[o] = "highlight"
    BY <1>4, StandsThere DEF MayAwait
  <2>2. planned_state(o) \in SUBSET Op
    BY <2>1, StageTyped
  <2>3. effect(o, call) = write_state(db, File, planned_state(o), {File})
    BY <1>4 DEF effect
  <2>4. effect(o, call) \in Store /\ authority_of(effect(o, call), File) = durable
    BY <1>1, <2>2, <2>3, WriteEffect
  <2>. QED BY <2>4, AtLeastReflexive
<1>5. CASE call = "discard"
  <2>1. effect(o, call) = discard_authority_transaction(db, File, o, {File})
    BY <1>5 DEF effect
  <2>2. effect(o, call) \in Store /\ authority_of(effect(o, call), File) = durable
    BY <1>1, <2>1, DiscardEffect
  <2>. QED BY <2>2, AtLeastReflexive
<1>6. CASE call \notin {"stage", "finalize", "cas", "discard"}
  <2>1. effect(o, call) = db
    BY <1>6 DEF effect
  <2>. QED BY <1>1, <2>1, AtLeastReflexive
<1>. QED BY <1>2, <1>3, <1>4, <1>5, <1>6

LEMMA ReplyTyped ==
    ASSUME NEW next \in Store, NEW o \in Op, NEW type \in {"ok", "conflict"}
    PROVE  reply_of(next, o, type) \in Reply /\ [NoReply EXCEPT !.type = "error"] \in Reply
<1>1. /\ revision_of(next, File) \in Nat /\ state_of(next, File) \in SUBSET Op
      /\ authority_of(next, File) \in Authority
  BY SnapshotTypes
<1>2. stage_present(next, File, o) \in BOOLEAN
  BY DEF stage_present
<1>3. empty_authority \in Authority
  BY DEF empty_authority, Authority
<1>. QED BY <1>1, <1>2, <1>3 DEF reply_of, Reply, NoReply

\* What the execution of a call changes: the store, and the answer to the operation.
Transacts(o, call, next, type) ==
    /\ db' = next
    /\ call # "discard" => loc[o].reply.type = "none" /\ pc[o] = call
    /\ IF call = "discard" THEN loc' = loc
       ELSE loc' = [loc EXCEPT ![o].reply = loc'[o].reply]
            /\ loc'[o].reply = IF type = "error" THEN [NoReply EXCEPT !.type = "error"]
                               ELSE reply_of(next, o, type)
    /\ applied' = IF call = "finalize" /\ authority_of(next, File) # durable
                  THEN [applied EXCEPT ![o] = authority_of(next, File).commitSequence]
                  ELSE applied
    /\ UNCHANGED <<entry, tail, pc, answer, receipt, evictions>>

LEMMA ExecuteLocal ==
    ASSUME LocalInv, NEW p \in Proc, queue[p] # <<>>, NEW o, NEW call,
           o = Head(queue[p])[1], call = Head(queue[p])[2],
           NEW next \in Store, NEW type \in {"ok", "conflict", "error"},
           ExecuteAs(o, call, next, type)
    PROVE  LocalInv' /\ Transacts(o, call, next, type)
<1>1. /\ o \in Op /\ call \in StoreCalls \cup {"discard"} /\ ProcOf[o] = p
      /\ call # "discard" => pc[o] = call /\ loc[o].reply.type = "none"
  BY HeadCall
<1>2. /\ Types /\ Stances /\ Balanced /\ Lines /\ Calls /\ loc \in [Op -> Locals]
      /\ loc[o] \in Locals
  BY <1>1, StandsThere DEF LocalInv, Types
<1>. DEFINE r == IF type = "error" THEN [NoReply EXCEPT !.type = "error"]
                 ELSE reply_of(next, o, type)
            l == [loc[o] EXCEPT !.reply = r]
<1>3. /\ db' = next
      /\ loc' = IF call = "discard" THEN loc ELSE [loc EXCEPT ![o].reply = r]
      /\ applied' = IF call = "finalize" /\ authority_of(next, File) # durable
                    THEN [applied EXCEPT ![o] = authority_of(next, File).commitSequence]
                    ELSE applied
      /\ queue' = [queue EXCEPT ![p] = Tail(@)]
      /\ UNCHANGED <<entry, tail, pc, answer, receipt, evictions>>
  BY <1>1 DEF ExecuteAs
<1>4. r \in Reply
  BY <1>1, ReplyTyped
<1>5. [loc EXCEPT ![o].reply = r] = [loc EXCEPT ![o] = l]
  OBVIOUS
<1>6. l \in Locals /\ l.reply = r
  <2>. HIDE DEF r
  <2>. QED BY <1>2, <1>4 DEF Locals
<1>. HIDE DEF l, r
<1>7. /\ loc' \in [Op -> Locals]
      /\ \A n \in Op : n # o \/ call = "discard" => loc'[n] = loc[n]
      /\ call # "discard" => loc'[o].reply = r /\ loc' = [loc EXCEPT ![o].reply = r]
  BY <1>1, <1>2, <1>3, <1>5, <1>6
<1>8. Calls' /\ queue' \in [Proc -> Seq(Op \X (StoreCalls \cup {"discard"}))]
  <2>1. UNCHANGED pc /\ queue' = [queue EXCEPT ![p] = Tail(@)]
    BY <1>3
  <2>2. \A n \in Op : n # Head(queue[p])[1] \/ Head(queue[p])[2] = "discard" => loc'[n] = loc[n]
    BY <1>7
  <2>3. Calls' /\ queue' \in [Proc -> Seq(Calling)]
    BY <2>1, <2>2, Dequeued
  <2>. QED BY <2>3 DEF Calling
<1>9. applied' \in [Op -> Nat]
  <2>1. authority_of(next, File).commitSequence \in Nat
    BY SnapshotTypes DEF Authority
  <2>. QED BY <1>2, <1>3, <2>1 DEF Types
<1>10. Types'
  BY <1>2, <1>3, <1>7, <1>8, <1>9 DEF Types
<1>11. Stances'
  BY <1>2, <1>3 DEF Stances
<1>12. Balanced' /\ Lines'
  <2>1. \A n \in Proc : Running(n)' = Running(n) /\ Line(n)' = Line(n)
    BY <1>3 DEF Running, Line
  <2>. QED BY <1>2, <1>3, <2>1 DEF Balanced, Lines
<1>13. Transacts(o, call, next, type)
  BY <1>1, <1>3, <1>7 DEF Transacts, r
<1>. QED BY <1>8, <1>10, <1>11, <1>12, <1>13 DEF LocalInv

\* A step of a store queue: a call that changes nothing, or an accepted one.
Executed(p, o, call, next, type) ==
    /\ queue[p] # <<>> /\ o = Head(queue[p])[1] /\ call = Head(queue[p])[2]
    /\ type \in {"ok", "conflict", "error"}
    /\ ExecuteAs(o, call, next, type)
    /\ \/ next = db /\ type \in {"conflict", "error"}
       \/ next = effect(o, call) /\ type \in {"ok", "error"} /\ accepted(o, call)
    /\ type = "conflict" => ~accepted(o, call)

LEMMA Executions ==
    ASSUME NEW p \in Proc, Execute(p) \/ ExecuteThrows(p)
    PROVE  \E o, call, next, type : Executed(p, o, call, next, type)
<1>. DEFINE o == Head(queue[p])[1]
            call == Head(queue[p])[2]
<1>1. queue[p] # <<>>
  BY DEF Execute, ExecuteThrows
<1>2. CASE Execute(p) /\ accepted(o, call)
  <2>1. ExecuteAs(o, call, effect(o, call), "ok")
    BY <1>2 DEF Execute
  <2>2. Executed(p, o, call, effect(o, call), "ok")
    BY <1>1, <1>2, <2>1 DEF Executed
  <2>. QED BY <2>2
<1>3. CASE Execute(p) /\ ~accepted(o, call)
  <2>1. ExecuteAs(o, call, db, "conflict")
    BY <1>3 DEF Execute
  <2>2. Executed(p, o, call, db, "conflict")
    BY <1>1, <1>3, <2>1 DEF Executed
  <2>. QED BY <2>2
<1>4. CASE ExecuteThrows(p) /\ ExecuteAs(o, call, db, "error")
  <2>2. Executed(p, o, call, db, "error")
    BY <1>1, <1>4 DEF Executed
  <2>. QED BY <2>2
<1>5. CASE ExecuteThrows(p) /\ accepted(o, call) /\ ExecuteAs(o, call, effect(o, call), "error")
  <2>2. Executed(p, o, call, effect(o, call), "error")
    BY <1>1, <1>5 DEF Executed
  <2>. QED BY <2>2
<1>6. ExecuteThrows(p) => \/ ExecuteAs(o, call, db, "error")
                          \/ accepted(o, call) /\ ExecuteAs(o, call, effect(o, call), "error")
  BY DEF ExecuteThrows
<1>. QED BY <1>2, <1>3, <1>4, <1>5, <1>6

LEMMA ExecutedLocal ==
    ASSUME LocalInv, NEW p \in Proc, NEW o, NEW call, NEW next, NEW type,
           Executed(p, o, call, next, type)
    PROVE  /\ LocalInv' /\ Transacts(o, call, next, type)
           /\ o \in Op /\ call \in StoreCalls \cup {"discard"} /\ ProcOf[o] = p
           /\ next \in Store /\ at_least(authority_of(next, File), durable)
<1>1. /\ queue[p] # <<>> /\ o = Head(queue[p])[1] /\ call = Head(queue[p])[2]
      /\ type \in {"ok", "conflict", "error"} /\ ExecuteAs(o, call, next, type)
      /\ next = db \/ (next = effect(o, call) /\ accepted(o, call))
  BY DEF Executed
<1>2. /\ o \in Op /\ call \in StoreCalls \cup {"discard"} /\ ProcOf[o] = p
      /\ call # "discard" => pc[o] = call
  BY <1>1, HeadCall
<1>3. next \in Store /\ at_least(authority_of(next, File), durable)
  <2>1. CASE next = db
    BY <2>1, AtLeastReflexive DEF LocalInv, Types, durable
  <2>2. CASE next = effect(o, call) /\ accepted(o, call)
    BY <1>2, <2>2, EffectAdvances
  <2>. QED BY <1>1, <2>1, <2>2
<1>. QED BY <1>1, <1>2, <1>3, ExecuteLocal

-----------------------------------------------------------------------------
LEMMA CrashLocal ==
    ASSUME LocalInv, NEW p \in Proc, Crash(p)
    PROVE  LocalInv'
<1>. DEFINE lost == {o \in Op : ProcOf[o] = p /\ pc[o] \notin {"idle", "done"}}
            fresh == new_entry(durable)
<1>1. /\ entry' = [entry EXCEPT ![p] = fresh]
      /\ queue' = [queue EXCEPT ![p] = <<>>]
      /\ tail' = [tail EXCEPT ![p] = <<>>]
      /\ pc' = [o \in Op |-> IF o \in lost THEN "done" ELSE pc[o]]
      /\ loc' = [o \in Op |-> IF o \in lost THEN NewLocals ELSE loc[o]]
      /\ UNCHANGED <<db, answer, receipt, applied>>
  BY DEF Crash
<1>2. /\ Types /\ Stances /\ Balanced /\ Lines /\ Calls
      /\ entry \in [Proc -> Shape] /\ tail \in [Proc -> Seq(Op)]
      /\ queue \in [Proc -> Seq(Calling)]
      /\ pc \in [Op -> Awaits] /\ loc \in [Op -> Locals]
  BY DEF LocalInv, Types, Calling
<1>3. durable \in Authority
  BY <1>2, SnapshotTypes DEF Types, durable
<1>4. /\ fresh \in Shape /\ fresh.operations = 0
      /\ \A o \in Op : Away(fresh, o)
  BY <1>3, EntryAssumption DEF new_entry, Shape, Away
<1>5. NewLocals \in Locals
  BY NewLocalsDraw, EntryAssumption DEF NewLocals, NoReply, Locals, Reply, empty_authority, Authority
<1>. HIDE DEF fresh
<1>6. /\ entry' \in [Proc -> Shape] /\ loc' \in [Op -> Locals]
      /\ entry'[p] = fresh /\ tail'[p] = <<>> /\ queue'[p] = <<>>
      /\ \A r \in Proc \ {p} : entry'[r] = entry[r] /\ tail'[r] = tail[r] /\ queue'[r] = queue[r]
  BY <1>1, <1>2, <1>4, <1>5
<1>7. pc' \in [Op -> Awaits] /\ \A o \in Op : MayAwait(o, pc'[o])
  BY <1>1, <1>2 DEF Types, Awaits, MayAwait
<1>8. /\ \A o \in Op : ProcOf[o] # p => pc'[o] = pc[o] /\ loc'[o] = loc[o]
      /\ \A o \in Op : ProcOf[o] = p => pc'[o] \in {"idle", "done"}
      /\ \A o \in Op : pc[o] = "done" => pc'[o] = "done"
  BY <1>1
<1>9. Types'
  <2>1. tail' \in [Proc -> Seq(Op)] /\ queue' \in [Proc -> Seq(Calling)]
    <3>. DEFINE S == Seq(Op)
                Q == Seq(Calling)
    <3>1. <<>> \in S /\ <<>> \in Q
      BY EmptySeq
    <3>. HIDE DEF S, Q
    <3>2. tail' \in [Proc -> S] /\ queue' \in [Proc -> Q]
      BY <1>1, <1>2, <3>1 DEF S, Q
    <3>. QED BY <3>2 DEF S, Q
  <2>. QED BY <1>1, <1>2, <1>6, <1>7, <2>1 DEF Types, Calling
<1>10. Stances'
  <2>1. ASSUME NEW r \in Proc, NEW o \in Op
        PROVE  IF ProcOf[o] = r THEN Stands(entry'[r], o, pc'[o]) ELSE Away(entry'[r], o)
    <3>1. CASE r # p
      BY <1>2, <1>6, <1>8, <3>1 DEF Stances
    <3>2. CASE r = p
      BY <1>4, <1>6, <1>8, <3>2 DEF Stands, Resting
    <3>. QED BY <3>1, <3>2
  <2>. QED BY <2>1 DEF Stances
<1>11. Balanced'
  <2>1. Running(p)' = {}
    BY <1>8 DEF Running, Resting
  <2>2. \A r \in Proc \ {p} : Running(r)' = Running(r)
    BY <1>8 DEF Running
  <2>3. Cardinality({}) = 0
    BY FS_EmptySet
  <2>. QED BY <1>2, <1>4, <1>6, <2>1, <2>2, <2>3 DEF Balanced
<1>12. Lines'
  <2>1. ASSUME NEW r \in Proc PROVE Orderly(tail'[r], Line(r)', pc')
    <3>1. CASE r # p
      <4>1. Line(r)' = Line(r) /\ tail'[r] = tail[r]
        BY <1>6, <1>8, <3>1 DEF Line
      <4>2. \A o \in Line(r) : pc'[o] = pc[o]
        BY <1>8, <3>1 DEF Line
      <4>3. Orderly(tail[r], Line(r), pc)
        BY <1>2 DEF Lines, Orderly
      <4>4. Orderly(tail[r], Line(r), pc')
        BY <4>2, <4>3 DEF Orderly
      <4>. QED BY <4>1, <4>4
    <3>2. CASE r = p
      <4>1. Line(r)' = {} /\ tail'[r] = <<>> /\ Len(<<>>) = 0
        BY <1>6, <1>8, <3>2 DEF Line, Lined
      <4>2. Orderly(<<>>, {}, pc')
        BY <4>1 DEF Orderly
      <4>. QED BY <4>1, <4>2
    <3>. QED BY <3>1, <3>2
  <2>. QED BY <2>1 DEF Lines, Orderly
<1>13. Calls'
  <2>1. ASSUME NEW r \in Proc, NEW i \in 1..Len(queue'[r])
        PROVE  r # p /\ queue'[r] = queue[r] /\ queue[r][i][1] \in Op
    <3>1. r # p
      <4>1. Len(<<>>) = 0
        OBVIOUS
      <4>. QED BY <1>6, <4>1
    <3>2. queue[r] \in Seq(Calling) /\ queue'[r] = queue[r]
      BY <1>2, <1>6, <3>1
    <3>3. queue[r][i] \in Calling
      BY <3>2, ElementOfSeq
    <3>. QED BY <3>1, <3>2, <3>3 DEF Calling
  <2>. QED BY <1>2, <1>8, <2>1 DEF Calls
<1>. QED BY <1>9, <1>10, <1>11, <1>12, <1>13 DEF LocalInv

LEMMA UntouchedLocal ==
    ASSUME LocalInv, UNCHANGED <<entry, queue, tail, pc, loc, answer, receipt, applied>>,
           db' \in Store
    PROVE  LocalInv'
<1>1. \A n \in Proc : Running(n)' = Running(n) /\ Line(n)' = Line(n)
  BY DEF Running, Line
<1>2. Types'
  BY DEF LocalInv, Types
<1>3. Stances' /\ Balanced' /\ Lines' /\ Calls'
  BY <1>1 DEF LocalInv, Stances, Balanced, Lines, Calls
<1>. QED BY <1>2, <1>3 DEF LocalInv

LEMMA EvictLocal ==
    ASSUME LocalInv, EvictElsewhere
    PROVE  LocalInv'
<1>1. db' \in Store
  BY EvictEffect DEF EvictElsewhere, LocalInv, Types
<1>. QED BY <1>1, UntouchedLocal DEF EvictElsewhere

LEMMA StutterLocal ==
    ASSUME LocalInv, UNCHANGED vars
    PROVE  LocalInv'
<1>1. db' \in Store
  BY DEF vars, LocalInv, Types
<1>. QED BY <1>1, UntouchedLocal DEF vars

-----------------------------------------------------------------------------
LEMMA InitStore ==
    ASSUME Init
    PROVE  /\ db \in Store
           /\ revision_of(db, File) = 0 /\ db.nextRevision = 1
           /\ state_of(db, File) = {} /\ stages_of(db, File) = {}
           /\ at_least(durable, empty_authority)
<1>1. PICK entries \in initial_entries :
          db = [entries |-> entries, absenceRevision |-> 0, nextRevision |-> 1, before |-> {}]
  BY DEF Init
<1>2. /\ db.entries = entries /\ db.absenceRevision = 0 /\ db.nextRevision = 1 /\ db.before = {}
  BY <1>1
<1>3. File \in Path /\ EmptyState = {}
  BY FileCoordinatorAssumption
<1>4. empty_authority \in Authority
  BY DEF empty_authority, Authority
<1>5. CASE entries = [p \in Path |-> NoEntry]
  <2>1. db \in Database
    BY <1>1, <1>5 DEF Database
  <2>2. db \in Store /\ ~present(db, File)
    BY <1>2, <1>3, <1>5, <2>1 DEF Store, present
  <2>3. /\ revision_of(db, File) = 0 /\ state_of(db, File) = {} /\ stages_of(db, File) = {}
        /\ authority_of(db, File) = empty_authority
    BY <1>2, <1>3, <2>2 DEF revision_of, state_of, stages_of, authority_of
  <2>. QED BY <1>2, <2>2, <2>3, AtLeastReflexive DEF durable
<1>6. ASSUME NEW digest \in Digest,
             entries = [p \in Path |->
                IF p = File
                THEN [empty_entry(0) EXCEPT !.authority = advance(empty_authority, "physical", digest)]
                ELSE NoEntry]
      PROVE  /\ db \in Store
             /\ revision_of(db, File) = 0 /\ db.nextRevision = 1
             /\ state_of(db, File) = {} /\ stages_of(db, File) = {}
             /\ at_least(durable, empty_authority)
  <2>. DEFINE a == advance(empty_authority, "physical", digest)
              e == [empty_entry(0) EXCEPT !.authority = a]
  <2>1. /\ a \in Authority /\ dominates(a, empty_authority)
        /\ compare_authority(a, empty_authority) = "dominates"
    BY <1>4, AdvanceType, CommitsDominate, ComparisonAgrees
  <2>. HIDE DEF a
  <2>2. /\ e \in StoredEntry /\ e.revision = 0 /\ e.state = {} /\ e.stages = {} /\ e.authority = a
    BY <1>3, <2>1 DEF empty_entry, StoredEntry
  <2>3. entries = [p \in Path |-> IF p = File THEN e ELSE NoEntry]
    BY <1>6 DEF a
  <2>. HIDE DEF e
  <2>4. db \in Database
    BY <1>1, <2>2, <2>3 DEF Database
  <2>5. db \in Store /\ db.entries[File] = e /\ present(db, File)
    BY <1>2, <1>3, <2>2, <2>3, <2>4, MarkerAssumption DEF Store, present
  <2>6. /\ revision_of(db, File) = 0 /\ state_of(db, File) = {} /\ stages_of(db, File) = {}
        /\ authority_of(db, File) = a
    BY <2>2, <2>5 DEF revision_of, state_of, stages_of, authority_of
  <2>. QED BY <1>2, <2>1, <2>5, <2>6 DEF durable, at_least
<1>. QED BY <1>5, <1>6 DEF initial_entries

LEMMA InitLocal ==
    ASSUME Init
    PROVE  LocalInv
<1>. DEFINE fresh == new_entry(durable)
<1>1. /\ entry = [p \in Proc |-> fresh]
      /\ queue = [p \in Proc |-> <<>>] /\ tail = [p \in Proc |-> <<>>]
      /\ pc = [o \in Op |-> "idle"] /\ loc = [o \in Op |-> NewLocals]
      /\ answer = [o \in Op |-> "none"] /\ receipt = [o \in Op |-> NoReceipt]
      /\ applied = [o \in Op |-> 0]
  BY DEF Init, durable
<1>2. db \in Store /\ durable \in Authority
  BY InitStore, SnapshotTypes DEF durable
<1>3. /\ fresh \in Shape /\ fresh.operations = 0 /\ \A o \in Op : Away(fresh, o)
  BY <1>2, EntryAssumption DEF new_entry, Shape, Away
<1>4. empty_authority \in Authority
  BY DEF empty_authority, Authority
<1>5. NewLocals \in Locals
  BY <1>4 DEF NewLocals, NoReply, Locals, Reply
<1>. HIDE DEF fresh
<1>6. /\ "idle" \in Awaits /\ \A o \in Op : MayAwait(o, "idle")
      /\ Len(<<>>) = 0
  BY DEF Awaits, MayAwait
<1>7. tail \in [Proc -> Seq(Op)] /\ queue \in [Proc -> Seq(Calling)]
  <2>. DEFINE S == Seq(Op)
              Q == Seq(Calling)
  <2>1. <<>> \in S /\ <<>> \in Q
    BY EmptySeq
  <2>. HIDE DEF S, Q
  <2>2. tail \in [Proc -> S] /\ queue \in [Proc -> Q]
    BY <1>1, <2>1
  <2>. QED BY <2>2 DEF S, Q
<1>8. Types
  BY <1>1, <1>2, <1>3, <1>5, <1>6, <1>7, NoReceiptType DEF Types, Calling
<1>9. Stances
  BY <1>1, <1>3 DEF Stances, Stands, Resting
<1>10. Balanced
  <2>1. \A p \in Proc : Running(p) = {}
    BY <1>1 DEF Running, Resting
  <2>. QED BY <1>1, <1>3, <2>1, FS_EmptySet DEF Balanced
<1>11. Lines
  <2>1. \A p \in Proc : Line(p) = {}
    BY <1>1 DEF Line, Lined
  <2>2. \A p \in Proc : tail[p] = <<>>
    BY <1>1
  <2>. QED BY <1>6, <2>1, <2>2 DEF Lines
<1>12. Calls
  <2>1. \A p \in Proc : queue[p] = <<>>
    BY <1>1
  <2>. QED BY <1>6, <2>1 DEF Calls
<1>. QED BY <1>8, <1>9, <1>10, <1>11, <1>12 DEF LocalInv

LEMMA NextLocal ==
    ASSUME LocalInv, [Next]_vars
    PROVE  LocalInv'
<1>1. ASSUME NEW o \in Op, LoadCandidate(o) \/ Request(o) \/ Resume(o) PROVE LocalInv'
  BY <1>1, ResumeLocal
<1>2. ASSUME NEW p \in Proc, Execute(p) \/ ExecuteThrows(p) PROVE LocalInv'
  <2>1. PICK o, call, next, type : Executed(p, o, call, next, type)
    BY <1>2, Executions
  <2>. QED BY <2>1, ExecutedLocal
<1>3. ASSUME NEW p \in Proc, Crash(p) PROVE LocalInv'
  BY <1>3, CrashLocal
<1>4. CASE EvictElsewhere
  BY <1>4, EvictLocal
<1>5. CASE UNCHANGED vars
  BY <1>5, StutterLocal
<1>. QED BY <1>1, <1>2, <1>3, <1>4, <1>5 DEF Next

\* The bookkeeping of every entry of fileSlotFor agrees with where its operations
\* stand, each process runs the first of its highlight line only, and a queue of
\* StateStorePort holds only calls that somebody awaits: for any processes and
\* operations, with evictions and crashes.
THEOREM Local == Spec => []LocalInv
<1>1. Init => LocalInv
  BY InitLocal
<1>2. LocalInv /\ [Next]_vars => LocalInv'
  BY NextLocal
<1>. QED BY <1>1, <1>2, PTL DEF Spec

LEMMA LocalTypeOK ==
    ASSUME LocalInv
    PROVE  TypeOK
<1>1. /\ db \in Store /\ entry \in [Proc -> Shape] /\ pc \in [Op -> Awaits]
      /\ answer \in [Op -> Results \cup {"none"}] /\ applied \in [Op -> Nat]
      /\ queue \in [Proc -> Seq(Calling)] /\ Balanced
  BY DEF LocalInv, Types, Calling
<1>2. db.entries[File] \in StoredEntry \cup {NoEntry}
  BY <1>1, FileCoordinatorAssumption DEF Store, Database
<1>3. ASSUME NEW p \in Proc PROVE entry[p] \in CoordinatorEntries
  <2>1. Running(p) \subseteq Op
    BY DEF Running
  <2>2. Cardinality(Running(p)) \in Nat
    BY <2>1, FileCoordinatorAssumption, FS_Subset, FS_CardinalityType
  <2>3. entry[p].operations \in Nat /\ entry[p] \in Shape
    BY <1>1, <2>2 DEF Balanced
  <2>. QED BY <2>3 DEF Shape, CoordinatorEntries
<1>4. entry \in [Proc -> CoordinatorEntries]
  BY <1>1, <1>3
<1>5. ASSUME NEW p \in Proc, NEW i \in DOMAIN queue[p]
      PROVE  queue[p][i] \in Op \X (StoreCalls \cup {"discard"})
  <2>1. queue[p] \in Seq(Calling)
    BY <1>1
  <2>2. queue[p][i] \in Calling
    BY <2>1, ElementOfSeq, LenProperties
  <2>. QED BY <2>2 DEF Calling
<1>. QED BY <1>1, <1>2, <1>4, <1>5 DEF TypeOK, Awaits, Results

\* The entries, the queues, the locals and the stored entry keep their types.
THEOREM CoordinatorTypes == Spec => []TypeOK
BY Local, LocalTypeOK, PTL

LEMMA LiveRuns ==
    ASSUME LocalInv, NEW p \in Proc
    PROVE  live(p) = Running(p)
<1>1. /\ Types /\ Stances /\ Lines
      /\ \A o \in Op : pc[o] \in Awaits /\ MayAwait(o, pc[o])
  BY DEF LocalInv, Types
<1>2. \A o \in Op : (\E i \in DOMAIN tail[p] : tail[p][i] = o) <=> o \in Line(p)
  <2>1. DOMAIN tail[p] = 1..Len(tail[p])
    BY <1>1, Membership, LenProperties
  <2>. QED BY <1>1, <2>1 DEF Lines
<1>3. ASSUME NEW o \in Op, ProcOf[o] = p
      PROVE  (entry[p].status[o] # "none" \/ o \in Line(p)) <=> pc[o] \notin Resting
  <2>1. Stands(entry[p], o, pc[o])
    BY <1>1, <1>3 DEF Stances
  <2>2. CASE KindOf[o] = "highlight"
    BY <1>1, <1>3, <2>1, <2>2 DEF Stands, Away, Line, Lined, Resting, MayAwait
  <2>3. CASE KindOf[o] # "highlight"
    BY <1>1, <1>3, <2>1, <2>3
       DEF Stands, Away, Planning, Waiting, Finalizing, Line, Resting
  <2>. QED BY <2>2, <2>3
<1>. QED BY <1>2, <1>3 DEF live, Running

LEMMA LocalBalance ==
    ASSUME LocalInv
    PROVE  OperationsBalance
<1>. SUFFICES ASSUME NEW p \in Proc
              PROVE  /\ entry[p].operations = Cardinality(live(p))
                     /\ \A o \in Op : pc[o] = "done" =>
                           o \notin live(p) \cup entry[p].requests \cup {entry[p].activeTurn}
  BY DEF OperationsBalance
<1>1. live(p) = Running(p)
  BY LiveRuns
<1>2. entry[p].operations = Cardinality(Running(p)) /\ Stances
  BY DEF LocalInv, Balanced
<1>3. ASSUME NEW o \in Op, pc[o] = "done"
      PROVE  o \notin Running(p) /\ Away(entry[p], o)
  BY <1>2, <1>3 DEF Running, Resting, Stances, Stands
<1>. QED BY <1>1, <1>2, <1>3 DEF Away

\* What beginOperation counts, endOperation counts out on every path, the failed
\* and the rejected ones included, so that an idle entry can be evicted.
THEOREM NothingLeaks == Spec => []OperationsBalance
BY Local, LocalBalance, PTL

-----------------------------------------------------------------------------
(* The authorities that anybody holds form a chain below the durable one. *)

Held ==
    {empty_authority, durable} \cup {entry[p].authority : p \in Proc}
        \cup UNION {Known(o) : o \in Op}

Chain ==
    /\ \A a \in Held : at_least(durable, a)
    /\ \A a, b \in Held : at_least(a, b) \/ at_least(b, a)

LEMMA HeldTypes ==
    ASSUME LocalInv
    PROVE  Held \subseteq Authority /\ durable \in Authority
<1>1. Types /\ db \in Store /\ entry \in [Proc -> Shape]
  BY DEF LocalInv, Types
<1>2. durable \in Authority
  BY <1>1, SnapshotTypes DEF durable
<1>3. \A p \in Proc : entry[p].authority \in Authority
  BY <1>1 DEF Shape
<1>4. empty_authority \in Authority
  BY DEF empty_authority, Authority
<1>5. \A o \in Op : Known(o) \subseteq Authority
  BY <1>1, KnownTypes
<1>. QED BY <1>2, <1>3, <1>4, <1>5 DEF Held

\* A step of an operation passes on what is held already.
LEMMA FlowHeld ==
    ASSUME LocalInv, NEW o \in Op, Flow(o)
    PROVE  durable' = durable /\ Held' \subseteq Held
<1>1. /\ entry \in [Proc -> Shape] /\ ProcOf[o] \in Proc
      /\ entry' = [entry EXCEPT ![ProcOf[o]] = entry'[ProcOf[o]]]
      /\ entry'[ProcOf[o]].authority \in Known(o)
      /\ \A n \in Op \ {o} : loc'[n] = loc[n]
      /\ Draws(o, loc'[o]) /\ db' = db
  BY StandsThere DEF Flow, Types
<1>2. durable' = durable
  BY <1>1 DEF durable
<1>3. \A p \in Proc : entry'[p].authority \in Held
  <2>1. \A p \in Proc \ {ProcOf[o]} : entry'[p] = entry[p]
    BY <1>1
  <2>2. \A p \in Proc : entry[p].authority \in Held
    BY DEF Held
  <2>3. Known(o) \subseteq Held
    BY DEF Held
  <2>. QED BY <1>1, <2>1, <2>2, <2>3
<1>4. ASSUME NEW n \in Op PROVE Known(n)' \subseteq Held
  <2>1. installed(n)' \in Held /\ empty_authority \in Held /\ Known(n) \subseteq Held /\ Known(o) \subseteq Held
    BY <1>3, FileCoordinatorAssumption DEF installed, Held
  <2>2. CASE n = o
    BY <1>1, <2>1, <2>2 DEF Draws, Known
  <2>3. CASE n # o
    BY <1>1, <2>1, <2>3 DEF Known
  <2>. QED BY <2>2, <2>3
<1>5. empty_authority \in Held /\ durable \in Held
  BY DEF Held
<1>. QED BY <1>2, <1>3, <1>4, <1>5 DEF Held

\* A transaction hands out the durable authority it leaves.
LEMMA TransactsHeld ==
    ASSUME LocalInv, NEW o \in Op, NEW call, NEW next \in Store, NEW type,
           Transacts(o, call, next, type)
    PROVE  durable' = authority_of(next, File) /\ Held' \subseteq Held \cup {durable'}
<1>1. loc \in [Op -> Locals]
  BY DEF LocalInv, Types
<1>2. durable' = authority_of(next, File)
  BY DEF Transacts, durable
<1>3. /\ entry' = entry
      /\ \A n \in Op \ {o} : loc'[n] = loc[n]
      /\ \/ loc'[o] = loc[o]
         \/ /\ loc' = [loc EXCEPT ![o].reply = loc'[o].reply]
            /\ loc'[o].reply.authority \in {empty_authority, durable'}
  BY <1>1, <1>2 DEF Transacts, NoReply, reply_of
<1>4. /\ loc'[o].expected = loc[o].expected /\ loc'[o].current = loc[o].current
      /\ loc'[o].basis = loc[o].basis /\ loc'[o].finalized = loc[o].finalized
      /\ loc'[o].reply.authority \in {loc[o].reply.authority, empty_authority, durable'}
  <2>. DEFINE r == loc'[o].reply
  <2>1. loc[o] \in Locals
    BY <1>1
  <2>2. CASE loc'[o] = loc[o]
    BY <2>2
  <2>3. CASE loc' = [loc EXCEPT ![o].reply = r] /\ r.authority \in {empty_authority, durable'}
    <3>. HIDE DEF r
    <3>1. loc'[o] = [loc[o] EXCEPT !.reply = r]
      BY <1>1, <2>3
    <3>2. /\ loc'[o].expected = loc[o].expected /\ loc'[o].current = loc[o].current
          /\ loc'[o].basis = loc[o].basis /\ loc'[o].finalized = loc[o].finalized
      BY <2>1, <3>1 DEF Locals
    <3>. QED BY <2>3, <3>2 DEF r
  <2>. QED BY <1>3, <2>2, <2>3
<1>5. ASSUME NEW n \in Op PROVE Known(n)' \subseteq Held \cup {durable'}
  <2>1. Known(n) \subseteq Held /\ empty_authority \in Held
    BY DEF Held
  <2>2. installed(n)' = installed(n)
    BY <1>3 DEF installed
  <2>3. CASE n = o
    BY <1>4, <2>1, <2>2, <2>3 DEF Known
  <2>4. CASE n # o
    BY <1>3, <2>1, <2>2, <2>4 DEF Known
  <2>. QED BY <2>3, <2>4
<1>6. \A p \in Proc : entry'[p].authority \in Held
  BY <1>3 DEF Held
<1>7. empty_authority \in Held
  BY DEF Held
<1>. QED BY <1>2, <1>5, <1>6, <1>7 DEF Held

LEMMA CrashHeld ==
    ASSUME LocalInv, NEW p \in Proc, Crash(p)
    PROVE  durable' = durable /\ Held' \subseteq Held
<1>. DEFINE lost == {o \in Op : ProcOf[o] = p /\ pc[o] \notin {"idle", "done"}}
<1>1. /\ entry' = [entry EXCEPT ![p] = new_entry(durable)]
      /\ loc' = [o \in Op |-> IF o \in lost THEN NewLocals ELSE loc[o]]
      /\ db' = db /\ entry \in [Proc -> Shape]
  BY DEF Crash, LocalInv, Types
<1>2. durable' = durable
  BY <1>1 DEF durable
<1>3. empty_authority \in Held /\ durable \in Held
  BY DEF Held
<1>4. \A q \in Proc : entry'[q].authority \in Held
  <2>1. \A q \in Proc : entry[q].authority \in Held
    BY DEF Held
  <2>2. new_entry(durable).authority = durable
    BY DEF new_entry
  <2>. QED BY <1>1, <1>3, <2>1, <2>2
<1>5. ASSUME NEW n \in Op PROVE Known(n)' \subseteq Held
  <2>1. Known(n) \subseteq Held /\ installed(n)' \in Held
    BY <1>4, FileCoordinatorAssumption DEF Held, installed
  <2>2. CASE n \in lost
    <3>1. loc'[n] = NewLocals
      BY <1>1, <2>2
    <3>. QED BY <1>3, <2>1, <3>1 DEF Known, NewLocals, NoReply
  <2>3. CASE n \notin lost
    <3>1. loc'[n] = loc[n]
      BY <1>1, <2>3
    <3>. QED BY <2>1, <3>1 DEF Known
  <2>. QED BY <2>2, <2>3
<1>. QED BY <1>2, <1>3, <1>4, <1>5 DEF Held

LEMMA ChainGrows ==
    ASSUME LocalInv, Chain, LocalInv', Held' \subseteq Held \cup {durable'},
           at_least(durable', durable)
    PROVE  Chain'
<1>1. Held \subseteq Authority /\ durable \in Authority
  BY HeldTypes
<1>2. durable' \in Authority
  BY SnapshotTypes DEF durable, LocalInv, Types
<1>3. ASSUME NEW a \in Held \cup {durable'} PROVE at_least(durable', a)
  <2>1. CASE a = durable'
    BY <2>1, AtLeastReflexive
  <2>2. CASE a \in Held
    BY <1>1, <1>2, <2>2, AtLeastTransitive DEF Chain
  <2>. QED BY <2>1, <2>2
<1>4. \A a, b \in Held \cup {durable'} : at_least(a, b) \/ at_least(b, a)
  BY <1>3 DEF Chain
<1>. QED BY <1>3, <1>4 DEF Chain

LEMMA InitChain ==
    ASSUME Init
    PROVE  Chain
<1>1. LocalInv /\ at_least(durable, empty_authority)
  BY InitLocal, InitStore
<1>2. /\ \A p \in Proc : entry[p].authority = durable
      /\ \A o \in Op : loc[o] = NewLocals
  BY DEF Init, durable, new_entry
<1>3. Held \subseteq {empty_authority, durable}
  BY <1>2, FileCoordinatorAssumption DEF Held, Known, installed, NewLocals, NoReply
<1>. QED BY <1>1, <1>3, AtLeastReflexive DEF Chain

\* Nobody evicts the file's entry.
Kept == evictions \in Nat /\ (MaxEvictions = 0 => evictions = 0)

LEMMA NextKept ==
    ASSUME LocalInv, Kept, [Next]_vars
    PROVE  Kept' /\ (MaxEvictions = 0 => ~EvictElsewhere)
<1>1. MaxEvictions \in Nat
  BY FileCoordinatorAssumption
<1>2. EvictElsewhere => evictions < MaxEvictions /\ evictions' = evictions + 1
  BY DEF EvictElsewhere
<1>3. ASSUME ~EvictElsewhere PROVE evictions' = evictions
  <2>1. ASSUME NEW o \in Op, LoadCandidate(o) \/ Request(o) \/ Resume(o) PROVE evictions' = evictions
    BY <2>1, ResumeLocal DEF Flow
  <2>2. ASSUME NEW p \in Proc, Execute(p) \/ ExecuteThrows(p) PROVE evictions' = evictions
    <3>1. PICK o, call, next, type : Executed(p, o, call, next, type)
      BY <2>2, Executions
    <3>. QED BY <3>1, ExecutedLocal DEF Transacts
  <2>3. ASSUME NEW p \in Proc, Crash(p) PROVE evictions' = evictions
    BY <2>3 DEF Crash
  <2>4. CASE UNCHANGED vars
    BY <2>4 DEF vars
  <2>. QED BY <1>3, <2>1, <2>2, <2>3, <2>4 DEF Next
<1>. QED BY <1>1, <1>2, <1>3 DEF Kept

LEMMA NextChain ==
    ASSUME LocalInv, Chain, [Next]_vars, ~EvictElsewhere
    PROVE  Chain'
<1>0. LocalInv'
  BY NextLocal
<1>1. ASSUME NEW o \in Op, LoadCandidate(o) \/ Request(o) \/ Resume(o) PROVE Chain'
  BY <1>0, <1>1, ResumeLocal, FlowHeld, ChainGrows, AtLeastReflexive
<1>2. ASSUME NEW p \in Proc, Execute(p) \/ ExecuteThrows(p) PROVE Chain'
  <2>1. PICK o, call, next, type : Executed(p, o, call, next, type)
    BY <1>2, Executions
  <2>2. /\ Transacts(o, call, next, type) /\ o \in Op /\ next \in Store
        /\ at_least(authority_of(next, File), durable)
    BY <2>1, ExecutedLocal
  <2>3. durable' = authority_of(next, File) /\ Held' \subseteq Held \cup {durable'}
    BY <2>2, TransactsHeld
  <2>. QED BY <1>0, <2>2, <2>3, ChainGrows
<1>3. ASSUME NEW p \in Proc, Crash(p) PROVE Chain'
  BY <1>0, <1>3, CrashHeld, ChainGrows, AtLeastReflexive
<1>4. CASE UNCHANGED vars
  <2>1. durable' = durable /\ Held' = Held
    BY <1>4 DEF vars, durable, Held, Known, installed
  <2>. QED BY <2>1 DEF Chain
<1>. QED BY <1>1, <1>2, <1>3, <1>4 DEF Next

\* No entry installs an authority that the store has not reached: whatever a reply
\* or an observation brings was durable when it was read, and the durable one only
\* grows. An evicted entry starts over at the empty authority and its commits are
\* numbered against it, hence the assumption; the runs check the eviction.
THEOREM NeverAhead ==
    ASSUME MaxEvictions = 0
    PROVE  Spec => []InstalledNeverAhead
<1>. DEFINE Inv == LocalInv /\ Kept /\ Chain
<1>1. Init => Inv
  <2>1. Init => Kept
    BY DEF Init, Kept
  <2>. QED BY <2>1, InitLocal, InitChain
<1>2. Inv /\ [Next]_vars => Inv'
  BY NextLocal, NextKept, NextChain
<1>3. Inv => InstalledNeverAhead
  BY DEF Chain, Held, InstalledNeverAhead
<1>. QED BY <1>1, <1>2, <1>3, PTL DEF Spec

-----------------------------------------------------------------------------
(* What a step of an operation does with its answer and its locals. *)

Deciding == {"finalize", "reconcile", "inspect"}

digest_of(o) == IF KindOf[o] = "physical" THEN DigestOf[o] ELSE NoDigest

\* The authority that the finalization of o makes of its basis.
result_of(o) == advance(loc[o].basis, KindOf[o], digest_of(o))

\* What operation o acts on after a step: what it read, and where it read it.
SamePlan(o) ==
    /\ loc'[o].revision = loc[o].revision /\ loc'[o].state = loc[o].state
    /\ loc'[o].sequence = loc[o].sequence

\* The store told o that it has the result of the finalization, and nothing else has.
FoundCommitted(o) ==
    /\ pc[o] = "reconcile" /\ loc[o].reply.type = "ok"
    /\ ~loc[o].reply.stagePresent /\ loc[o].reply.authority = result_of(o)

\* The store told o that it has not committed.
Refused(o) ==
    \/ pc[o] \notin Deciding \cup {"cas"}
    \/ pc[o] = "finalize" /\ loc[o].reply.type = "conflict"
    \/ pc[o] = "reconcile" /\ loc[o].reply.type = "ok" /\ loc[o].reply.stagePresent

\* The commit that o answers with, and its receipt.
Publishes(o) ==
    LET authority == IF pc[o] = "inspect" THEN loc[o].finalized ELSE loc[o].reply.authority
    IN  /\ pc[o] = "inspect" \/ FoundCommitted(o)
        /\ receipt'[o] = [ previous  |-> IF install_type(entry[ProcOf[o]], authority) = "installed"
                                         THEN installed(o) ELSE loc[o].basis,
                           resulting |-> authority ]

Answers(o) ==
    /\ answer'[o] \in Results
    /\ answer'[o] = "committed" =>
          IF KindOf[o] = "highlight" THEN pc[o] = "cas" /\ loc[o].reply.type = "ok"
          ELSE Publishes(o)
    /\ KindOf[o] = "projection" /\ answer'[o] \in {"rejected", "failed"} => Refused(o)
    /\ answer'[o] = "stale" => Refused(o)

\* How operation o comes to await what it awaits after the step.
Progress(o) ==
    /\ pc'[o] \in Deciding \cup {"turn"} => SamePlan(o)
    /\ pc'[o] \in StoreCalls => loc'[o].reply.type = "none"
    /\ pc'[o] \in {"read", "observe"} => Refused(o)
    /\ pc'[o] = "stage" => Refused(o) /\ loc'[o].sequence = installed(o).commitSequence
    /\ pc'[o] = "turn" => pc[o] = "stage" /\ loc[o].reply.type = "ok" /\ loc'[o].sequence = loc[o].sequence
    /\ pc'[o] = "finalize" => pc[o] = "turn" /\ loc'[o].basis = installed(o)
    /\ pc'[o] = "reconcile" =>
          /\ pc[o] = "finalize" /\ loc[o].reply.type = "error"
          /\ loc'[o].basis = loc[o].basis
    /\ pc'[o] = "inspect" =>
          /\ (pc[o] = "finalize" /\ loc[o].reply.type = "ok") \/ FoundCommitted(o)
          /\ loc'[o].basis = loc[o].basis /\ loc'[o].finalized = loc[o].reply.authority
    /\ pc'[o] = "cas" => pc[o] = "read" \/ (pc[o] = "cas" /\ loc[o].reply.type = "conflict")
    /\ pc'[o] \in {"loaded", "requested", "queued"} => pc[o] \in {"idle", "requested"}
    /\ pc'[o] # "idle"
    /\ IF pc'[o] = "done" THEN Answers(o) ELSE answer'[o] = answer[o] /\ receipt'[o] = receipt[o]

\* The locals of a call besides the answer it waits for.
LEMMA CallShape ==
    ASSUME LocalInv, NEW o \in Op, NEW call, NEW l \in Locals, Call(o, call, l)
    PROVE  /\ pc'[o] = call /\ loc'[o].reply.type = "none"
           /\ loc'[o].revision = l.revision /\ loc'[o].state = l.state
           /\ loc'[o].sequence = l.sequence /\ loc'[o].basis = l.basis
           /\ loc'[o].finalized = l.finalized
           /\ answer'[o] = answer[o] /\ receipt'[o] = receipt[o]
<1>1. loc \in [Op -> Locals] /\ pc \in [Op -> Awaits]
  BY DEF LocalInv, Types
<1>2. /\ pc' = [pc EXCEPT ![o] = call]
      /\ loc' = [loc EXCEPT ![o] = [l EXCEPT !.reply = NoReply]]
      /\ answer' = answer /\ receipt' = receipt
  BY DEF Call
<1>3. loc'[o] = [l EXCEPT !.reply = NoReply] /\ pc'[o] = call
  BY <1>1, <1>2
<1>. QED BY <1>2, <1>3 DEF Locals, NoReply

\* A call that is no part of a finalization, after a refusal.
LEMMA ReadProgress ==
    ASSUME LocalInv, NEW o \in Op, NEW l \in Locals, Call(o, "read", l), Refused(o)
    PROVE  Progress(o)
BY CallShape DEF Progress, Deciding, StoreCalls

LEMMA StageProgress ==
    ASSUME LocalInv, NEW o \in Op, pc[o] = "read",
           Call(o, "stage", [loc[o] EXCEPT !.revision = loc[o].reply.revision,
                                           !.state = loc[o].reply.state,
                                           !.sequence = installed(o).commitSequence])
    PROVE  Progress(o)
<1>. DEFINE l == [loc[o] EXCEPT !.revision = loc[o].reply.revision,
                                !.state = loc[o].reply.state,
                                !.sequence = installed(o).commitSequence]
<1>1. l \in Locals
  BY LocalsDraw DEF Draws
<1>2. l.sequence = installed(o).commitSequence
  BY StandsThere DEF Locals
<1>3. Call(o, "stage", l)
  OBVIOUS
<1>. HIDE DEF l
<1>4. Refused(o)
  BY DEF Refused, Deciding
<1>. QED BY <1>1, <1>2, <1>3, <1>4, CallShape DEF Progress, Deciding, StoreCalls

LEMMA CasProgress ==
    ASSUME LocalInv, NEW o \in Op, NEW l \in Locals, Call(o, "cas", l),
           pc[o] = "read" \/ (pc[o] = "cas" /\ loc[o].reply.type = "conflict")
    PROVE  Progress(o)
BY CallShape DEF Progress, Deciding, StoreCalls

LEMMA FinalizeProgress ==
    ASSUME LocalInv, NEW o \in Op, pc[o] = "turn",
           Call(o, "finalize", [loc[o] EXCEPT !.basis = entry[ProcOf[o]].authority])
    PROVE  Progress(o)
<1>. DEFINE l == [loc[o] EXCEPT !.basis = entry[ProcOf[o]].authority]
<1>1. l \in Locals
  BY LocalsDraw DEF Draws
<1>2. /\ l.basis = installed(o) /\ l.revision = loc[o].revision /\ l.state = loc[o].state
      /\ l.sequence = loc[o].sequence
  BY StandsThere DEF Locals, installed
<1>3. Call(o, "finalize", l)
  OBVIOUS
<1>. HIDE DEF l
<1>. QED BY <1>1, <1>2, <1>3, CallShape DEF Progress, Deciding, StoreCalls, SamePlan

LEMMA ReconcileProgress ==
    ASSUME LocalInv, NEW o \in Op, pc[o] = "finalize", loc[o].reply.type = "error",
           Call(o, "reconcile", loc[o])
    PROVE  Progress(o)
<1>1. loc[o] \in Locals
  BY StandsThere
<1>. QED BY <1>1, CallShape DEF Progress, Deciding, StoreCalls, SamePlan

LEMMA InspectProgress ==
    ASSUME LocalInv, NEW o \in Op,
           (pc[o] = "finalize" /\ loc[o].reply.type = "ok") \/ FoundCommitted(o),
           Call(o, "inspect", [loc[o] EXCEPT !.finalized = loc[o].reply.authority])
    PROVE  Progress(o)
<1>. DEFINE l == [loc[o] EXCEPT !.finalized = loc[o].reply.authority]
<1>1. l \in Locals
  BY LocalsDraw DEF Draws
<1>2. /\ l.basis = loc[o].basis /\ l.revision = loc[o].revision /\ l.state = loc[o].state
      /\ l.sequence = loc[o].sequence /\ l.finalized = loc[o].reply.authority
  BY StandsThere DEF Locals
<1>3. Call(o, "inspect", l)
  OBVIOUS
<1>. HIDE DEF l
<1>. QED BY <1>1, <1>2, <1>3, CallShape DEF Progress, Deciding, StoreCalls, SamePlan

LEMMA AwaitProgress ==
    ASSUME LocalInv, NEW o \in Op, pc[o] = "stage",
           \/ loc[o].reply.type = "ok" /\ AwaitTurn(o, entry[ProcOf[o]], "turn", loc[o])
           \/ AwaitTurn(o, entry[ProcOf[o]], "observe", [loc[o] EXCEPT !.current = entry[ProcOf[o]].authority])
    PROVE  Progress(o)
<1>1. loc \in [Op -> Locals] /\ pc \in [Op -> Awaits]
  BY DEF LocalInv, Types
<1>2. Refused(o)
  BY DEF Refused, Deciding
<1>3. CASE loc[o].reply.type = "ok" /\ AwaitTurn(o, entry[ProcOf[o]], "turn", loc[o])
  <2>1. pc'[o] = "turn" /\ loc'[o] = loc[o] /\ answer' = answer /\ receipt' = receipt
    BY <1>1, <1>3 DEF AwaitTurn
  <2>. QED BY <1>3, <2>1 DEF Progress, Deciding, StoreCalls, SamePlan
<1>4. CASE AwaitTurn(o, entry[ProcOf[o]], "observe", [loc[o] EXCEPT !.current = entry[ProcOf[o]].authority])
  <2>1. pc'[o] = "observe" /\ answer' = answer /\ receipt' = receipt
    BY <1>1, <1>4 DEF AwaitTurn
  <2>. QED BY <1>2, <2>1 DEF Progress, Deciding, StoreCalls
<1>. QED BY <1>3, <1>4

\* An operation that ends.
LEMMA EndProgress ==
    ASSUME LocalInv, NEW o \in Op, NEW new, NEW result \in Results \ {"committed"},
           End(o, new, result),
           KindOf[o] = "projection" /\ result \in {"rejected", "failed"} => Refused(o),
           result = "stale" => Refused(o)
    PROVE  Progress(o)
<1>1. pc'[o] = "done" /\ answer'[o] = result
  BY DEF End, EndWith, LocalInv, Types
<1>. QED BY <1>1 DEF Progress, Answers, Deciding, StoreCalls

\* What an operation knows is comparable with what is installed.
LEMMA Comparable ==
    ASSUME LocalInv, Chain, NEW o \in Op, NEW authority \in Known(o)
    PROVE  /\ install_type(entry[ProcOf[o]], authority) \in {"installed", "unchanged", "stale"}
           /\ install_type(entry[ProcOf[o]], authority) = "stale" =>
                 compare_authority(installed(o), authority) = "dominates"
           /\ install_type(entry[ProcOf[o]], authority) = "installed" =>
                 dominates(authority, installed(o))
           /\ install_type(entry[ProcOf[o]], authority) = "unchanged" =>
                 authority = installed(o)
<1>1. installed(o) \in Held /\ authority \in Held /\ entry[ProcOf[o]].authority = installed(o)
  BY DEF Held, Known, installed
<1>2. installed(o) \in Authority /\ authority \in Authority
  BY <1>1, HeldTypes
<1>3. at_least(installed(o), authority) \/ at_least(authority, installed(o))
  BY <1>1 DEF Chain
<1>4. /\ compare_authority(authority, installed(o)) = "dominates" <=> dominates(authority, installed(o))
      /\ compare_authority(authority, installed(o)) = "dominated" <=> dominates(installed(o), authority)
      /\ compare_authority(installed(o), authority) = "dominates" <=> dominates(installed(o), authority)
      /\ compare_authority(authority, installed(o)) = "equal" <=> authority = installed(o)
  BY <1>2, ComparisonAgrees DEF compare_authority
<1>5. compare_authority(authority, installed(o)) \in {"equal", "dominates", "dominated"}
  BY <1>3, <1>4 DEF at_least, compare_authority
<1>. QED BY <1>1, <1>4, <1>5 DEF install_type

LEMMA ObservedProgress ==
    ASSUME LocalInv, Chain, NEW o \in Op, NEW result \in Results \ {"committed", "stale"},
           NEW authority \in Known(o), EndObserved(o, authority, result),
           KindOf[o] = "projection" /\ result \in {"rejected", "failed"} => Refused(o)
    PROVE  Progress(o)
<1>1. End(o, conclude(entry[ProcOf[o]], o, authority), result)
  BY Comparable DEF EndObserved
<1>. QED BY <1>1, EndProgress

LEMMA CommittedProgress ==
    ASSUME LocalInv, Chain, NEW o \in Op, NEW authority,
           EndCommitted(o, authority), KindOf[o] # "highlight",
           \/ pc[o] = "inspect" /\ authority = loc[o].finalized
           \/ FoundCommitted(o) /\ authority = loc[o].reply.authority,
           KindOf[o] = "projection" => compare_authority(installed(o), authority) # "dominates"
    PROVE  Progress(o)
<1>. DEFINE this == entry[ProcOf[o]]
            type == install_type(this, authority)
<1>1. authority \in Known(o) /\ (pc[o] # "inspect" => pc[o] = "reconcile")
  BY DEF Known, FoundCommitted
<1>2. authority = IF pc[o] = "inspect" THEN loc[o].finalized ELSE loc[o].reply.authority
  BY <1>1 DEF FoundCommitted
<1>3. CASE type \in {"installed", "unchanged"}
  <2>. DEFINE published == [ previous  |-> IF type = "installed" THEN this.authority ELSE loc[o].basis,
                             resulting |-> authority ]
  <2>1. EndWith(o, conclude(this, o, authority), "committed", published)
    BY <1>3 DEF EndCommitted
  <2>2. pc'[o] = "done" /\ answer'[o] = "committed" /\ receipt'[o] = published
    BY <2>1 DEF EndWith, LocalInv, Types
  <2>3. Publishes(o)
    BY <1>2, <2>2 DEF Publishes, installed
  <2>. QED BY <2>2, <2>3 DEF Progress, Answers, Deciding, StoreCalls, Results
<1>4. CASE type \notin {"installed", "unchanged"}
  <2>1. KindOf[o] # "projection"
    BY <1>1, <1>4, Comparable
  <2>2. End(o, conclude(this, o, authority), "failed")
    BY <1>4 DEF EndCommitted
  <2>. QED BY <2>1, <2>2, ResultsMembers, EndProgress
<1>. QED BY <1>3, <1>4

-----------------------------------------------------------------------------
LEMMA ResultsBut ==
    /\ {"rejected", "indeterminate", "advanced", "failed"} \subseteq Results \ {"committed", "stale"}
    /\ {"rejected", "indeterminate", "advanced", "failed", "stale"} \subseteq Results \ {"committed"}
BY DEF Results

LEMMA AttemptProgress ==
    ASSUME LocalInv, NEW o \in Op, NEW new, KindOf[o] = "physical", PhysicalAttempt(o, new), Refused(o)
    PROVE  Progress(o)
<1>1. \/ Call(o, "read", loc[o])
      \/ End(o, new, "stale")
  BY DEF PhysicalAttempt
<1>. QED BY <1>1, StandsThere, ReadProgress, ResultsBut, EndProgress

LEMMA PhysicalProgress ==
    ASSUME LocalInv, Chain, NEW o \in Op,
           \/ LoadCandidate(o) \/ BeginPhysical(o) \/ PhysicalRead(o) \/ PhysicalStaged(o)
           \/ PhysicalTurn(o) \/ PhysicalFinalized(o) \/ PhysicalReconciled(o)
           \/ PhysicalInspected(o)
    PROVE  Progress(o)
<1>0. loc \in [Op -> Locals] /\ pc \in [Op -> Awaits] /\ loc[o] \in Locals /\ answer \in [Op -> Results \cup {"none"}]
  BY StandsThere DEF LocalInv, Types
<1>. DEFINE this == entry[ProcOf[o]]
            released == release_commit_turn(this, o)
            observed == loc[o].reply.authority
<1>00. observed \in Known(o) /\ loc[o].finalized \in Known(o)
  BY DEF Known
<1>1. CASE LoadCandidate(o)
  <2>1. pc'[o] = "loaded" /\ pc[o] = "idle" /\ answer' = answer /\ receipt' = receipt
    BY <1>0, <1>1 DEF LoadCandidate
  <2>. QED BY <2>1 DEF Progress, Deciding, StoreCalls
<1>2. CASE BeginPhysical(o)
  <2>1. pc[o] = "loaded" /\ Refused(o)
    BY <1>2 DEF BeginPhysical, Refused, Deciding
  <2>2. CASE Call(o, "read", loc[o])
    BY <1>0, <2>1, <2>2, ReadProgress
  <2>3. CASE /\ pc' = [pc EXCEPT ![o] = "done"]
             /\ answer' = [answer EXCEPT ![o] = "rejected"]
    <3>1. pc'[o] = "done" /\ answer'[o] = "rejected"
      BY <1>0, <2>3
    <3>. QED BY <2>1, <3>1, ResultsMembers DEF Progress, Answers, Deciding, StoreCalls
  <2>. QED BY <1>2, <2>2, <2>3 DEF BeginPhysical
<1>3. CASE PhysicalRead(o)
  <2>1. pc[o] = "read"
    BY <1>3 DEF PhysicalRead, Replied, Answered
  <2>. QED BY <1>3, <2>1, StageProgress DEF PhysicalRead
<1>4. CASE PhysicalStaged(o)
  <2>1. pc[o] = "stage" /\ KindOf[o] = "physical" /\ Refused(o)
    BY <1>4 DEF PhysicalStaged, Replied, Answered, Refused, Deciding
  <2>2. \/ loc[o].reply.type = "ok" /\ AwaitTurn(o, this, "turn", loc[o])
        \/ AwaitTurn(o, this, "observe", [loc[o] EXCEPT !.current = this.authority])
        \/ PhysicalAttempt(o, this)
        \/ End(o, this, "rejected")
    BY <1>4 DEF PhysicalStaged, Replied
  <2>3. CASE \/ loc[o].reply.type = "ok" /\ AwaitTurn(o, this, "turn", loc[o])
             \/ AwaitTurn(o, this, "observe", [loc[o] EXCEPT !.current = this.authority])
    BY <2>1, <2>3, AwaitProgress
  <2>4. CASE PhysicalAttempt(o, this)
    BY <2>1, <2>4, AttemptProgress
  <2>5. CASE End(o, this, "rejected")
    BY <2>1, <2>5, ResultsBut, EndProgress
  <2>. QED BY <2>2, <2>3, <2>4, <2>5
<1>5. CASE PhysicalTurn(o)
  <2>1. pc[o] = "turn" /\ KindOf[o] = "physical"
    BY <1>5 DEF PhysicalTurn
  <2>2. \/ End(o, this, "rejected")
        \/ Call(o, "finalize", [loc[o] EXCEPT !.basis = this.authority])
    BY <1>5 DEF PhysicalTurn
  <2>3. CASE End(o, this, "rejected")
    BY <2>1, <2>3, ResultsBut, EndProgress
  <2>4. CASE Call(o, "finalize", [loc[o] EXCEPT !.basis = this.authority])
    BY <2>1, <2>4, FinalizeProgress
  <2>. QED BY <2>2, <2>3, <2>4
<1>6. CASE PhysicalFinalized(o)
  <2>1. pc[o] = "finalize" /\ KindOf[o] = "physical"
    BY <1>6 DEF PhysicalFinalized, Answered
  <2>2. \/ loc[o].reply.type = "error" /\ Call(o, "reconcile", loc[o])
        \/ EndObserved(o, observed, "advanced")
        \/ loc[o].reply.type = "conflict" /\ PhysicalAttempt(o, released)
        \/ End(o, released, "rejected")
        \/ /\ loc[o].reply.type = "ok"
           /\ Call(o, "inspect", [loc[o] EXCEPT !.finalized = observed])
    BY <1>6 DEF PhysicalFinalized
  <2>3. CASE loc[o].reply.type = "error" /\ Call(o, "reconcile", loc[o])
    BY <2>1, <2>3, ReconcileProgress
  <2>4. CASE EndObserved(o, observed, "advanced")
    BY <1>00, <2>1, <2>4, ResultsBut, ObservedProgress
  <2>5. CASE loc[o].reply.type = "conflict" /\ PhysicalAttempt(o, released)
    <3>1. Refused(o)
      BY <2>1, <2>5 DEF Refused
    <3>. QED BY <2>1, <2>5, <3>1, AttemptProgress
  <2>6. CASE End(o, released, "rejected")
    BY <2>1, <2>6, ResultsBut, EndProgress
  <2>7. CASE /\ loc[o].reply.type = "ok"
             /\ Call(o, "inspect", [loc[o] EXCEPT !.finalized = observed])
    BY <2>1, <2>7, InspectProgress
  <2>. QED BY <2>2, <2>3, <2>4, <2>5, <2>6, <2>7
<1>7. CASE PhysicalReconciled(o)
  <2>1. pc[o] = "reconcile" /\ KindOf[o] = "physical"
    BY <1>7 DEF PhysicalReconciled, Replied, Answered
  <2>2. reconciliation(o) \in {"committed", "notCommitted", "advanced"}
    BY DEF reconciliation
  <2>3. \/ End(o, released, "failed") \/ End(o, released, "rejected")
        \/ /\ loc[o].reply.type = "ok" /\ reconciliation(o) = "committed"
           /\ EndCommitted(o, observed)
        \/ EndObserved(o, observed, "advanced")
    BY <1>7, <2>2 DEF PhysicalReconciled, Replied
  <2>4. CASE End(o, released, "failed") \/ End(o, released, "rejected")
    BY <2>1, <2>4, ResultsBut, EndProgress
  <2>5. CASE /\ loc[o].reply.type = "ok" /\ reconciliation(o) = "committed"
             /\ EndCommitted(o, observed)
    <3>1. FoundCommitted(o)
      BY <2>1, <2>5 DEF FoundCommitted, reconciliation, result_of, digest_of, stage_of
    <3>. QED BY <2>1, <2>5, <3>1, CommittedProgress
  <2>6. CASE EndObserved(o, observed, "advanced")
    BY <1>00, <2>1, <2>6, ResultsBut, ObservedProgress
  <2>. QED BY <2>3, <2>4, <2>5, <2>6
<1>8. CASE PhysicalInspected(o)
  <2>1. pc[o] = "inspect" /\ KindOf[o] = "physical"
    BY <1>8 DEF PhysicalInspected, Replied, Answered
  <2>2. \/ EndCommitted(o, loc[o].finalized)
        \/ EndObserved(o, loc[o].finalized, "advanced")
        \/ EndObserved(o, observed, "advanced")
    BY <1>8 DEF PhysicalInspected
  <2>3. CASE EndCommitted(o, loc[o].finalized)
    BY <2>1, <2>3, CommittedProgress
  <2>4. CASE EndObserved(o, loc[o].finalized, "advanced") \/ EndObserved(o, observed, "advanced")
    BY <1>00, <2>1, <2>4, ResultsBut, ObservedProgress
  <2>. QED BY <2>2, <2>3, <2>4
<1>. QED BY <1>1, <1>2, <1>3, <1>4, <1>5, <1>6, <1>7, <1>8

LEMMA ObserveTurnProgress ==
    ASSUME LocalInv, Chain, NEW o \in Op, ObserveTurn(o) \/ CallThrew(o)
    PROVE  Progress(o)
<1>. DEFINE this == entry[ProcOf[o]]
            result == IF KindOf[o] = "physical" THEN "advanced" ELSE "rejected"
<1>1. Refused(o) /\ loc[o].reply.authority \in Known(o)
  BY DEF ObserveTurn, CallThrew, Replied, Answered, Refused, Deciding, Known
<1>2. result \in Results \ {"committed", "stale"} /\ result \in Results \ {"committed"}
      /\ result # "stale" /\ "failed" \in Results \ {"committed"}
  BY DEF Results
<1>3. \/ \E new : End(o, new, result)
      \/ EndObserved(o, loc[o].reply.authority, result)
      \/ End(o, this, "failed")
  BY DEF ObserveTurn, CallThrew
<1>. HIDE DEF result
<1>4. ASSUME NEW new, End(o, new, result) PROVE Progress(o)
  BY <1>1, <1>2, <1>4, EndProgress
<1>5. CASE EndObserved(o, loc[o].reply.authority, result)
  BY <1>1, <1>2, <1>5, ObservedProgress
<1>6. CASE End(o, this, "failed")
  BY <1>1, <1>2, <1>6, EndProgress
<1>. QED BY <1>3, <1>4, <1>5, <1>6

LEMMA RetryProgress ==
    ASSUME LocalInv, NEW o \in Op, NEW new, KindOf[o] = "projection", HeaderRetry(o, new), Refused(o)
    PROVE  Progress(o)
<1>. DEFINE l == [loc[o] EXCEPT !.conflicts = @ + 1]
<1>1. Call(o, "read", l) \/ End(o, new, "rejected")
  BY DEF HeaderRetry
<1>2. l \in Locals
  BY LocalsDraw DEF Draws
<1>. HIDE DEF l
<1>. QED BY <1>1, <1>2, ReadProgress, ResultsBut, EndProgress

LEMMA HeaderProgress ==
    ASSUME LocalInv, Chain, NEW o \in Op,
           \/ StartHeader(o) \/ HeaderRead(o) \/ HeaderStaged(o) \/ HeaderTurn(o)
           \/ HeaderFinalized(o) \/ HeaderReconciled(o) \/ HeaderInspected(o)
    PROVE  Progress(o)
<1>0. loc \in [Op -> Locals] /\ pc \in [Op -> Awaits] /\ loc[o] \in Locals /\ answer \in [Op -> Results \cup {"none"}]
  BY StandsThere DEF LocalInv, Types
<1>. DEFINE this == entry[ProcOf[o]]
            released == release_commit_turn(this, o)
            observed == loc[o].reply.authority
<1>00. observed \in Known(o) /\ loc[o].finalized \in Known(o) /\ this.authority \in Known(o)
  BY DEF Known, installed
<1>01. ASSUME NEW new, End(o, new, "rejected"), Refused(o) PROVE Progress(o)
  BY <1>01, ResultsBut, EndProgress
<1>02. KindOf[o] = "projection"
  BY DEF StartHeader, HeaderRead, HeaderStaged, HeaderTurn, HeaderFinalized, HeaderReconciled,
         HeaderInspected
<1>1. CASE StartHeader(o)
  <2>1. pc[o] = "requested" /\ Refused(o)
    BY <1>1 DEF StartHeader, Refused, Deciding
  <2>2. CASE Call(o, "read", loc[o])
    BY <1>0, <2>1, <2>2, ReadProgress
  <2>3. CASE /\ pc' = [pc EXCEPT ![o] = "done"]
             /\ answer' = [answer EXCEPT ![o] = "rejected"]
    <3>1. pc'[o] = "done" /\ answer'[o] = "rejected"
      BY <1>0, <2>3
    <3>. QED BY <2>1, <3>1, ResultsMembers DEF Progress, Answers, Deciding, StoreCalls
  <2>. QED BY <1>1, <2>2, <2>3 DEF StartHeader
<1>2. CASE HeaderRead(o)
  <2>1. pc[o] = "read" /\ Refused(o)
    BY <1>2 DEF HeaderRead, Replied, Answered, Refused, Deciding
  <2>2. CASE End(o, this, "rejected")
    BY <1>01, <2>1, <2>2
  <2>. QED BY <1>2, <2>1, <2>2, StageProgress DEF HeaderRead
<1>3. CASE HeaderStaged(o)
  <2>1. pc[o] = "stage" /\ Refused(o)
    BY <1>3 DEF HeaderStaged, Answered, Refused, Deciding
  <2>2. \/ loc[o].reply.type = "ok" /\ AwaitTurn(o, this, "turn", loc[o])
        \/ AwaitTurn(o, this, "observe", [loc[o] EXCEPT !.current = this.authority])
        \/ HeaderRetry(o, this)
        \/ End(o, this, "rejected")
    BY <1>3 DEF HeaderStaged
  <2>3. CASE \/ loc[o].reply.type = "ok" /\ AwaitTurn(o, this, "turn", loc[o])
             \/ AwaitTurn(o, this, "observe", [loc[o] EXCEPT !.current = this.authority])
    BY <2>1, <2>3, AwaitProgress
  <2>4. CASE HeaderRetry(o, this)
    BY <1>02, <2>1, <2>4, RetryProgress
  <2>5. CASE End(o, this, "rejected")
    BY <1>01, <2>1, <2>5
  <2>. QED BY <2>2, <2>3, <2>4, <2>5
<1>4. CASE HeaderTurn(o)
  <2>1. pc[o] = "turn" /\ Refused(o)
    BY <1>4 DEF HeaderTurn, Refused, Deciding
  <2>2. \/ End(o, released, "rejected")
        \/ Call(o, "finalize", [loc[o] EXCEPT !.basis = this.authority])
    BY <1>4 DEF HeaderTurn
  <2>3. CASE End(o, released, "rejected")
    BY <1>01, <2>1, <2>3
  <2>4. CASE Call(o, "finalize", [loc[o] EXCEPT !.basis = this.authority])
    BY <2>1, <2>4, FinalizeProgress
  <2>. QED BY <2>2, <2>3, <2>4
<1>5. CASE HeaderFinalized(o)
  <2>1. pc[o] = "finalize"
    BY <1>5 DEF HeaderFinalized, Answered
  <2>2. \/ loc[o].reply.type = "error" /\ Call(o, "reconcile", loc[o])
        \/ /\ loc[o].reply.type = "conflict"
           /\ \/ EndObserved(o, observed, "rejected")
              \/ HeaderRetry(o, released)
              \/ End(o, released, "rejected")
        \/ /\ loc[o].reply.type = "ok"
           /\ Call(o, "inspect", [loc[o] EXCEPT !.finalized = observed])
    BY <1>5 DEF HeaderFinalized
  <2>3. CASE loc[o].reply.type = "error" /\ Call(o, "reconcile", loc[o])
    BY <2>1, <2>3, ReconcileProgress
  <2>4. CASE /\ loc[o].reply.type = "conflict"
             /\ \/ EndObserved(o, observed, "rejected")
                \/ HeaderRetry(o, released)
                \/ End(o, released, "rejected")
    <3>1. Refused(o)
      BY <2>1, <2>4 DEF Refused
    <3>2. CASE EndObserved(o, observed, "rejected")
      BY <1>00, <3>1, <3>2, ResultsBut, ObservedProgress
    <3>3. CASE HeaderRetry(o, released)
      BY <1>02, <3>1, <3>3, RetryProgress
    <3>4. CASE End(o, released, "rejected")
      BY <1>01, <3>1, <3>4
    <3>. QED BY <2>4, <3>2, <3>3, <3>4
  <2>5. CASE /\ loc[o].reply.type = "ok"
             /\ Call(o, "inspect", [loc[o] EXCEPT !.finalized = observed])
    BY <2>1, <2>5, InspectProgress
  <2>. QED BY <2>2, <2>3, <2>4, <2>5
<1>6. CASE HeaderReconciled(o)
  <2>1. pc[o] = "reconcile"
    BY <1>6 DEF HeaderReconciled, Replied, Answered
  <2>2. reconciliation(o) \in {"committed", "notCommitted", "advanced"}
    BY DEF reconciliation
  <2>3. \/ End(o, released, "indeterminate")
        \/ loc[o].reply.type = "ok" /\ reconciliation(o) = "notCommitted" /\ End(o, released, "failed")
        \/ /\ loc[o].reply.type = "ok" /\ reconciliation(o) = "committed"
           /\ Call(o, "inspect", [loc[o] EXCEPT !.finalized = observed])
        \/ EndObserved(o, observed, "indeterminate")
    BY <1>6, <2>2 DEF HeaderReconciled, Replied
  <2>4. CASE End(o, released, "indeterminate")
    BY <2>4, ResultsBut, EndProgress
  <2>5. CASE loc[o].reply.type = "ok" /\ reconciliation(o) = "notCommitted" /\ End(o, released, "failed")
    <3>1. Refused(o)
      BY <2>1, <2>5 DEF Refused, reconciliation
    <3>. QED BY <2>5, <3>1, ResultsBut, EndProgress
  <2>6. CASE /\ loc[o].reply.type = "ok" /\ reconciliation(o) = "committed"
             /\ Call(o, "inspect", [loc[o] EXCEPT !.finalized = observed])
    <3>1. FoundCommitted(o)
      BY <1>02, <2>1, <2>6 DEF FoundCommitted, reconciliation, result_of, digest_of, stage_of
    <3>. QED BY <2>6, <3>1, InspectProgress
  <2>7. CASE EndObserved(o, observed, "indeterminate")
    BY <1>00, <2>7, ResultsBut, ObservedProgress
  <2>. QED BY <2>3, <2>4, <2>5, <2>6, <2>7
<1>7. CASE HeaderInspected(o)
  <2>1. pc[o] = "inspect"
    BY <1>7 DEF HeaderInspected, Answered
  <2>2. \/ /\ compare_authority(installed(o), loc[o].finalized) # "dominates"
           /\ EndCommitted(o, loc[o].finalized)
        \/ EndObserved(o, loc[o].finalized, "indeterminate")
        \/ EndObserved(o, this.authority, "indeterminate")
    BY <1>7 DEF HeaderInspected, installed
  <2>3. CASE /\ compare_authority(installed(o), loc[o].finalized) # "dominates"
             /\ EndCommitted(o, loc[o].finalized)
    BY <1>02, <2>1, <2>3, CommittedProgress
  <2>4. CASE EndObserved(o, loc[o].finalized, "indeterminate")
    BY <1>00, <2>4, ResultsBut, ObservedProgress
  <2>5. CASE EndObserved(o, this.authority, "indeterminate")
    BY <1>00, <2>5, ResultsBut, ObservedProgress
  <2>. QED BY <2>2, <2>3, <2>4, <2>5
<1>. QED BY <1>1, <1>2, <1>3, <1>4, <1>5, <1>6, <1>7

LEMMA EndHighlightProgress ==
    ASSUME LocalInv, NEW o \in Op, NEW new, NEW result \in {"committed", "rejected"},
           EndHighlight(o, new, result), KindOf[o] = "highlight",
           result = "committed" => pc[o] = "cas" /\ loc[o].reply.type = "ok"
    PROVE  Progress(o)
<1>1. pc'[o] = "done" /\ answer'[o] = result
  BY DEF EndHighlight, LocalInv, Types
<1>. QED BY <1>1, ResultsMembers DEF Progress, Answers, Deciding, StoreCalls

LEMMA HighlightProgress ==
    ASSUME LocalInv, NEW o \in Op,
           \/ Request(o) \/ StartHighlight(o) \/ RunHighlight(o) \/ HighlightRead(o)
           \/ HighlightConflict(o) \/ HighlightWritten(o) \/ HighlightThrew(o)
    PROVE  Progress(o)
<1>0. /\ loc \in [Op -> Locals] /\ pc \in [Op -> Awaits] /\ loc[o] \in Locals
      /\ MayAwait(o, pc[o])
  BY StandsThere DEF LocalInv, Types
<1>1. CASE Request(o) \/ StartHighlight(o)
  <2>1. /\ pc'[o] \in {"requested", "queued"} /\ pc[o] \in {"idle", "requested"}
        /\ answer' = answer /\ receipt' = receipt
    BY <1>0, <1>1 DEF Request, StartHighlight
  <2>. QED BY <2>1 DEF Progress, Deciding, StoreCalls
<1>2. CASE RunHighlight(o)
  <2>1. pc[o] = "queued" /\ KindOf[o] = "highlight" /\ Refused(o)
    BY <1>0, <1>2 DEF RunHighlight, MayAwait, Refused, Deciding
  <2>2. Call(o, "read", loc[o]) \/ EndHighlight(o, entry[ProcOf[o]], "rejected")
    BY <1>2 DEF RunHighlight
  <2>. QED BY <1>0, <2>1, <2>2, ReadProgress, EndHighlightProgress
<1>3. CASE HighlightRead(o)
  <2>. DEFINE l == [loc[o] EXCEPT !.revision = loc[o].reply.revision,
                                  !.state = loc[o].reply.state]
  <2>1. pc[o] = "read" /\ KindOf[o] = "highlight"
    BY <1>3 DEF HighlightRead, Replied, Answered
  <2>2. Call(o, "cas", l) \/ EndHighlight(o, entry[ProcOf[o]], "rejected")
    BY <1>3 DEF HighlightRead, HighlightAttempt
  <2>3. l \in Locals
    BY LocalsDraw DEF Draws
  <2>. HIDE DEF l
  <2>. QED BY <2>1, <2>2, <2>3, CasProgress, EndHighlightProgress
<1>4. CASE HighlightConflict(o)
  <2>. DEFINE l == [loc[o] EXCEPT !.revision = loc[o].reply.revision,
                                  !.state = loc[o].reply.state,
                                  !.conflicts = @ + 1]
              new == install_authority(entry[ProcOf[o]], loc[o].reply.authority, NoOp)
  <2>1. pc[o] = "cas" /\ loc[o].reply.type = "conflict" /\ KindOf[o] = "highlight"
    BY <1>0, <1>4 DEF HighlightConflict, Replied, Answered, MayAwait
  <2>2. Call(o, "cas", l) \/ EndHighlight(o, new, "rejected")
    BY <1>4 DEF HighlightConflict
  <2>3. l \in Locals
    BY LocalsDraw DEF Draws
  <2>. HIDE DEF l, new
  <2>. QED BY <2>1, <2>2, <2>3, CasProgress, EndHighlightProgress
<1>5. CASE HighlightWritten(o)
  <2>1. pc[o] = "cas" /\ loc[o].reply.type = "ok" /\ KindOf[o] = "highlight"
    BY <1>0, <1>5 DEF HighlightWritten, Replied, Answered, MayAwait
  <2>2. PICK result \in {"committed", "rejected"} : EndHighlight(o, entry[ProcOf[o]], result)
    BY <1>5 DEF HighlightWritten
  <2>. QED BY <2>1, <2>2, EndHighlightProgress
<1>6. CASE HighlightThrew(o)
  BY <1>6, EndHighlightProgress DEF HighlightThrew
<1>. QED BY <1>1, <1>2, <1>3, <1>4, <1>5, <1>6

LEMMA ResumeProgress ==
    ASSUME LocalInv, Chain, NEW o \in Op, LoadCandidate(o) \/ Request(o) \/ Resume(o)
    PROVE  Progress(o)
BY PhysicalProgress, ObserveTurnProgress, HeaderProgress, HighlightProgress DEF Resume

-----------------------------------------------------------------------------
(* What ties the locals of an operation to the store, while nobody evicts. *)

held_revision == revision_of(db, File)
held_state == state_of(db, File)
held_stages == stages_of(db, File)

\* A revision names one state.
Names(pair) == pair[1] < db.nextRevision /\ (pair[1] = held_revision => pair[2] = held_state)

Revised == held_revision < db.nextRevision /\ \A o \in Op : \A pair \in Snapshots(o) : Names(pair)

\* An operation decides on a commit that builds on what its process has installed.
Based(o) ==
    KindOf[o] # "highlight" =>
        /\ pc[o] \in {"stage", "turn"} => loc[o].sequence <= installed(o).commitSequence
        /\ pc[o] \in Deciding => /\ loc[o].sequence <= loc[o].basis.commitSequence
                                 /\ at_least(installed(o), loc[o].basis)

\* The stage of an operation that is to be finalized is in the store, until it was.
Staged(o) == pc[o] \in Deciding \cup {"turn"} \/ (pc[o] = "stage" /\ loc[o].reply.type = "ok")

StageHeld(o) ==
    Staged(o) =>
        /\ \A s \in held_stages : s.id = o => s = stage_of(o)
        /\ (\E s \in held_stages : s.id = o) \/ applied[o] > 0

\* An operation that took effect knows or will learn that it did.
TookEffect(o) ==
    /\ KindOf[o] # "highlight"
    /\ \A s \in held_stages : s.id # o
    /\ pc[o] \in Deciding \cup {"done"}
    /\ pc[o] = "finalize" => loc[o].reply.type \in {"ok", "error"}
    /\ pc[o] # "done" => applied[o] = loc[o].basis.commitSequence + 1
    /\ applied[o] <= durable.commitSequence
    /\ pc[o] = "reconcile" /\ loc[o].reply.type = "ok" => ~loc[o].reply.stagePresent

Told(o) ==
    /\ pc[o] = "finalize" /\ loc[o].reply.type = "ok" =>
          applied[o] > 0 /\ loc[o].reply.authority = result_of(o)
    /\ pc[o] = "reconcile" /\ loc[o].reply.type = "ok" /\ ~loc[o].reply.stagePresent =>
          applied[o] > 0
    /\ pc[o] = "inspect" => applied[o] > 0 /\ loc[o].finalized = result_of(o)

Decided(o) == (applied[o] > 0 => TookEffect(o)) /\ Told(o)

\* A highlight is in the state once its write succeeded, and not before it ran.
Marked(o) ==
    KindOf[o] = "highlight" =>
        /\ o \in held_state =>
              pc[o] = "done" \/ (pc[o] = "cas" /\ loc[o].reply.type \in {"ok", "error"})
        /\ pc[o] = "cas" /\ loc[o].reply.type = "ok" => o \in held_state

Unanswered(o) == pc[o] # "done" => answer[o] = "none"

ReceiptOf(o) ==
    answer[o] = "committed" /\ KindOf[o] # "highlight" =>
        /\ receipt[o].resulting.commitSequence = applied[o]
        /\ receipt[o].resulting = advance(receipt[o].previous, KindOf[o], digest_of(o))
        /\ applied[o] > 0

Tied(o) ==
    Based(o) /\ StageHeld(o) /\ Decided(o) /\ Marked(o) /\ Unanswered(o) /\ ReceiptOf(o)

-----------------------------------------------------------------------------
(* A step of an operation. *)

LEMMA FlowSame ==
    ASSUME NEW o \in Op, Flow(o)
    PROVE  /\ held_revision' = held_revision /\ held_state' = held_state
           /\ held_stages' = held_stages /\ db' = db /\ applied' = applied /\ durable' = durable
BY DEF Flow, held_revision, held_state, held_stages, durable

LEMMA FlowRevised ==
    ASSUME NEW o \in Op, Flow(o), Revised
    PROVE  Revised'
<1>1. /\ held_revision' = held_revision /\ held_state' = held_state /\ db' = db
  BY FlowSame
<1>2. ASSUME NEW n \in Op PROVE Snapshots(n)' \subseteq Snapshots(n)
  <2>1. CASE n = o
    BY <2>1 DEF Flow, Draws, Snapshots
  <2>2. CASE n # o
    BY <2>2 DEF Flow, Snapshots
  <2>. QED BY <2>1, <2>2
<1>. QED BY <1>1, <1>2 DEF Revised, Names

\* What o does is nothing to another operation, but for what is installed.
LEMMA OthersTied ==
    ASSUME LocalInv, LocalInv', NEW o \in Op, Flow(o), NEW n \in Op \ {o}, Tied(n)
    PROVE  Tied(n)'
<1>1. /\ held_state' = held_state /\ held_stages' = held_stages /\ applied' = applied
      /\ durable' = durable
      /\ loc'[n] = loc[n] /\ pc'[n] = pc[n] /\ answer'[n] = answer[n] /\ receipt'[n] = receipt[n]
  BY FlowSame DEF Flow
<1>2. installed(n)' = installed(n) \/ at_least(installed(n)', installed(n))
  <2>1. /\ entry' = [entry EXCEPT ![ProcOf[o]] = entry'[ProcOf[o]]]
        /\ at_least(entry'[ProcOf[o]].authority, installed(o))
    BY DEF Flow
  <2>2. ProcOf[n] \in Proc /\ ProcOf[o] \in Proc /\ entry \in [Proc -> Shape]
    BY StandsThere DEF Types
  <2>3. CASE ProcOf[n] = ProcOf[o]
    BY <2>1, <2>3 DEF installed
  <2>4. CASE ProcOf[n] # ProcOf[o]
    <3>1. entry'[ProcOf[n]] = entry[ProcOf[n]]
      BY <2>1, <2>2, <2>4
    <3>. QED BY <3>1 DEF installed
  <2>. QED BY <2>3, <2>4
<1>3. /\ installed(n) \in Authority /\ installed(n)' \in Authority /\ loc[n].basis \in Authority
      /\ loc[n].sequence \in Nat
  <2>1. loc[n] \in Locals /\ installed(n) \in Authority
    BY StandsThere DEF installed, Shape
  <2>2. installed(n)' \in Authority
    BY FileCoordinatorAssumption DEF installed, LocalInv, Types, Shape
  <2>. QED BY <2>1, <2>2 DEF Locals
<1>4. /\ installed(n)'.commitSequence >= installed(n).commitSequence
      /\ at_least(installed(n), loc[n].basis) => at_least(installed(n)', loc[n].basis)
  <2>1. CASE installed(n)' = installed(n)
    BY <1>3, <2>1 DEF Authority
  <2>2. CASE at_least(installed(n)', installed(n))
    <3>1. installed(n)' = installed(n) \/ dominates(installed(n)', installed(n))
      BY <1>3, <2>2, ComparisonAgrees DEF at_least, compare_authority
    <3>. QED BY <1>3, <2>2, <3>1, AtLeastTransitive DEF dominates, Authority
  <2>. QED BY <1>2, <2>1, <2>2
<1>5. Based(n)'
  <2>1. Based(n) /\ installed(n).commitSequence \in Nat /\ installed(n)'.commitSequence \in Nat
    BY <1>3 DEF Tied, Authority
  <2>. QED BY <1>1, <1>3, <1>4, <2>1 DEF Based
<1>6. StageHeld(n)' /\ Marked(n)' /\ Unanswered(n)' /\ ReceiptOf(n)'
  BY <1>1 DEF Tied, StageHeld, Staged, stage_of, planned_state, Marked, Unanswered, ReceiptOf, digest_of
<1>7. Decided(n)'
  BY <1>1 DEF Tied, Decided, TookEffect, Told, result_of, digest_of
<1>. QED BY <1>5, <1>6, <1>7 DEF Tied

-----------------------------------------------------------------------------
\* How far an operation that took effect can be, and what an answer then knows.
LEMMA RefusedMeansNone ==
    ASSUME LocalInv, NEW o \in Op, Tied(o), pc[o] # "done", Refused(o)
    PROVE  applied[o] = 0
<1>1. applied[o] \in Nat
  BY DEF LocalInv, Types
<1>2. ASSUME applied[o] > 0 PROVE FALSE
  <2>1. TookEffect(o)
    BY <1>2 DEF Tied, Decided
  <2>. QED BY <2>1 DEF TookEffect, Refused, Deciding
<1>. QED BY <1>1, <1>2

\* An operation that found its commit knows its authority and its place.
LEMMA FoundMeansCommitted ==
    ASSUME LocalInv, NEW o \in Op, Tied(o), pc[o] = "inspect" \/ FoundCommitted(o)
    PROVE  /\ applied[o] > 0 /\ applied[o] = loc[o].basis.commitSequence + 1
           /\ (IF pc[o] = "inspect" THEN loc[o].finalized ELSE loc[o].reply.authority) = result_of(o)
<1>1. pc[o] \in {"inspect", "reconcile"}
  BY DEF FoundCommitted
<1>2. applied[o] > 0
  BY DEF Tied, Decided, Told, FoundCommitted
<1>3. TookEffect(o)
  BY <1>2 DEF Tied, Decided
<1>4. (IF pc[o] = "inspect" THEN loc[o].finalized ELSE loc[o].reply.authority) = result_of(o)
  BY DEF Tied, Decided, Told, FoundCommitted
<1>. QED BY <1>1, <1>2, <1>3, <1>4 DEF TookEffect

LEMMA OwnBased ==
    ASSUME LocalInv, NEW o \in Op, Flow(o), Progress(o), Based(o), LocalInv'
    PROVE  Based(o)'
<1>1. /\ installed(o) \in Authority /\ installed(o)' \in Authority /\ loc[o] \in Locals
  <2>1. loc[o] \in Locals /\ installed(o) \in Authority
    BY StandsThere DEF installed, Shape
  <2>2. installed(o)' \in Authority
    BY FileCoordinatorAssumption DEF installed, LocalInv, Types, Shape
  <2>. QED BY <2>1, <2>2
<1>2. at_least(installed(o)', installed(o))
  BY StandsThere DEF Flow, installed
<1>3. installed(o)'.commitSequence >= installed(o).commitSequence
  <2>1. installed(o)' = installed(o) \/ dominates(installed(o)', installed(o))
    BY <1>1, <1>2, ComparisonAgrees DEF at_least, compare_authority
  <2>. QED BY <1>1, <2>1 DEF dominates, Authority
<1>4. installed(o).commitSequence \in Nat /\ installed(o)'.commitSequence \in Nat /\ loc[o].sequence \in Nat
  BY <1>1 DEF Authority, Locals
<1>. SUFFICES ASSUME KindOf[o] # "highlight" PROVE Based(o)'
  BY DEF Based
<1>5. CASE pc'[o] = "stage"
  <2>1. loc'[o].sequence = installed(o).commitSequence
    BY <1>5 DEF Progress
  <2>. QED BY <1>3, <1>4, <1>5, <2>1 DEF Based, Deciding
<1>6. CASE pc'[o] = "turn"
  <2>1. pc[o] = "stage" /\ loc'[o].sequence = loc[o].sequence
    BY <1>6 DEF Progress
  <2>. QED BY <1>3, <1>4, <1>6, <2>1 DEF Based, Deciding
<1>7. CASE pc'[o] = "finalize"
  <2>1. pc[o] = "turn" /\ loc'[o].basis = installed(o) /\ loc'[o].sequence = loc[o].sequence
    BY <1>7 DEF Progress, SamePlan, Deciding
  <2>. QED BY <1>2, <1>3, <1>4, <1>7, <2>1 DEF Based, Deciding
<1>8. CASE pc'[o] \in {"reconcile", "inspect"}
  <2>1. pc[o] \in Deciding /\ loc'[o].basis = loc[o].basis /\ loc'[o].sequence = loc[o].sequence
    BY <1>8 DEF Progress, SamePlan, Deciding, FoundCommitted
  <2>2. loc[o].basis \in Authority
    BY <1>1 DEF Locals
  <2>3. at_least(installed(o)', loc[o].basis)
    BY <1>1, <1>2, <2>1, <2>2, AtLeastTransitive DEF Based
  <2>. QED BY <1>8, <2>1, <2>3 DEF Based, Deciding
<1>9. CASE pc'[o] \notin Deciding \cup {"stage", "turn"}
  BY <1>9 DEF Based, Deciding
<1>. QED BY <1>5, <1>6, <1>7, <1>8, <1>9 DEF Deciding

LEMMA OwnStageHeld ==
    ASSUME LocalInv, NEW o \in Op, Flow(o), Progress(o), StageHeld(o)
    PROVE  StageHeld(o)'
<1>. SUFFICES ASSUME Staged(o)' PROVE StageHeld(o)'
  BY DEF StageHeld
<1>1. pc'[o] \in Deciding \cup {"turn"}
  BY DEF Staged, Progress, StoreCalls
<1>2. SamePlan(o) /\ Staged(o)
  BY <1>1 DEF Progress, Staged, Deciding, FoundCommitted
<1>3. stage_of(o)' = stage_of(o)
  BY <1>2 DEF SamePlan, stage_of, planned_state
<1>4. held_stages' = held_stages /\ applied' = applied
  BY FlowSame
<1>. QED BY <1>2, <1>3, <1>4 DEF StageHeld

LEMMA OwnDecided ==
    ASSUME LocalInv, LocalInv', NEW o \in Op, Flow(o), Progress(o), Tied(o)
    PROVE  Decided(o)'
<1>1. /\ held_stages' = held_stages /\ applied' = applied /\ durable' = durable
      /\ pc[o] # "done" /\ applied[o] \in Nat
  BY FlowSame DEF Flow, LocalInv, Types
<1>2. pc'[o] \in StoreCalls => loc'[o].reply.type = "none"
  BY DEF Progress
<1>3. ASSUME applied[o] > 0 PROVE TookEffect(o)'
  <2>1. TookEffect(o)
    BY <1>3 DEF Tied, Decided
  <2>2. ~Refused(o)
    BY <1>1, <1>3, RefusedMeansNone
  <2>3. pc[o] \in Deciding
    BY <1>1, <2>1 DEF TookEffect
  <2>4. pc'[o] \in Awaits
    BY DEF LocalInv, Types
  <2>5. pc'[o] \in {"reconcile", "inspect", "done"}
    BY <2>2, <2>3, <2>4 DEF Progress, Deciding, Awaits, StoreCalls
  <2>6. pc'[o] # "done" => loc'[o].basis = loc[o].basis
    BY <2>5 DEF Progress
  <2>. QED BY <1>1, <1>2, <2>1, <2>5, <2>6 DEF TookEffect, Deciding, StoreCalls
<1>4. Told(o)'
  <2>1. ASSUME pc'[o] = "inspect" PROVE applied[o] > 0 /\ loc'[o].finalized = result_of(o)'
    <3>1. /\ (pc[o] = "finalize" /\ loc[o].reply.type = "ok") \/ FoundCommitted(o)
          /\ loc'[o].basis = loc[o].basis /\ loc'[o].finalized = loc[o].reply.authority
      BY <2>1 DEF Progress
    <3>2. result_of(o)' = result_of(o)
      BY <3>1 DEF result_of, digest_of
    <3>3. CASE pc[o] = "finalize" /\ loc[o].reply.type = "ok"
      BY <3>1, <3>2, <3>3 DEF Tied, Decided, Told
    <3>4. CASE FoundCommitted(o)
      BY <3>1, <3>2, <3>4, FoundMeansCommitted DEF FoundCommitted
    <3>. QED BY <3>1, <3>3, <3>4
  <2>. QED BY <1>1, <1>2, <2>1 DEF Told, StoreCalls
<1>. QED BY <1>1, <1>3, <1>4 DEF Decided

LEMMA OwnMarked ==
    ASSUME LocalInv, NEW o \in Op, Flow(o), Progress(o), Marked(o), LocalInv'
    PROVE  Marked(o)'
<1>. SUFFICES ASSUME KindOf[o] = "highlight" PROVE Marked(o)'
  BY DEF Marked
<1>1. held_state' = held_state /\ pc[o] # "done"
  BY FlowSame DEF Flow
<1>2. pc'[o] \in StoreCalls => loc'[o].reply.type = "none"
  BY DEF Progress
<1>3. MayAwait(o, pc[o]) /\ MayAwait(o, pc[o])'
  BY DEF LocalInv, Types
<1>4. ASSUME o \in held_state PROVE pc'[o] = "done"
  <2>1. pc[o] = "cas" /\ loc[o].reply.type \in {"ok", "error"}
    BY <1>1, <1>4 DEF Marked
  <2>2. ~Refused(o)
    BY <2>1 DEF Refused, Deciding
  <2>. QED BY <1>3, <2>1, <2>2 DEF Progress, MayAwait, Deciding
<1>. QED BY <1>1, <1>2, <1>4 DEF Marked, StoreCalls

\* The commit a receipt describes is the next one after what it names as previous.
LEMMA OwnReceipt ==
    ASSUME LocalInv, Chain, NEW o \in Op, Flow(o), Progress(o), Tied(o)
    PROVE  ReceiptOf(o)'
<1>1. applied' = applied /\ pc[o] # "done" /\ answer[o] = "none"
  BY FlowSame DEF Flow, Tied, Unanswered
<1>. SUFFICES ASSUME answer'[o] = "committed", KindOf[o] # "highlight" PROVE ReceiptOf(o)'
  BY DEF ReceiptOf
<1>2. Publishes(o)
  BY <1>1 DEF Progress, Answers
<1>. DEFINE authority == IF pc[o] = "inspect" THEN loc[o].finalized ELSE loc[o].reply.authority
            type == install_type(entry[ProcOf[o]], authority)
<1>3. /\ pc[o] = "inspect" \/ FoundCommitted(o)
      /\ receipt'[o] = [ previous  |-> IF type = "installed" THEN installed(o) ELSE loc[o].basis,
                         resulting |-> authority ]
  BY <1>2 DEF Publishes
<1>4. authority = result_of(o) /\ applied[o] > 0 /\ applied[o] = loc[o].basis.commitSequence + 1
  BY <1>3, FoundMeansCommitted
<1>5. authority \in Known(o)
  BY DEF Known
<1>6. /\ loc[o].basis \in Authority /\ installed(o) \in Authority /\ DigestOf[o] \in Digest
      /\ KindOf[o] \in {"physical", "projection", "highlight"}
  BY StandsThere, EntryAssumption DEF installed, Shape, Locals
<1>7. result_of(o).commitSequence = loc[o].basis.commitSequence + 1
  BY <1>6 DEF result_of, advance, Authority
<1>8. at_least(installed(o), loc[o].basis)
  BY <1>3 DEF Tied, Based, Deciding, FoundCommitted
<1>. HIDE DEF authority
<1>9. type = "installed" => installed(o) = loc[o].basis
  <2>. SUFFICES ASSUME type = "installed", installed(o) # loc[o].basis PROVE FALSE
    OBVIOUS
  <2>1. dominates(result_of(o), installed(o))
    BY <1>4, <1>5, Comparable
  <2>2. dominates(installed(o), loc[o].basis)
    BY <1>6, <1>8, ComparisonAgrees DEF at_least, compare_authority
  <2>. QED BY <1>6, <1>7, <2>1, <2>2 DEF dominates, Authority
<1>10. receipt'[o].previous = loc[o].basis /\ receipt'[o].resulting = result_of(o)
  BY <1>3, <1>4, <1>9
<1>. QED BY <1>1, <1>4, <1>7, <1>10 DEF ReceiptOf, result_of, digest_of

LEMMA OwnTied ==
    ASSUME LocalInv, LocalInv', Chain, NEW o \in Op, Flow(o), Progress(o), Tied(o)
    PROVE  Tied(o)'
<1>1. Unanswered(o)'
  BY DEF Flow, Progress, Tied, Unanswered
<1>. QED BY <1>1, OwnBased, OwnStageHeld, OwnDecided, OwnMarked, OwnReceipt DEF Tied

\* The operation's answer, if the step gave one, does not lie.
LEMMA AnswerTrue ==
    ASSUME LocalInv, LocalInv', NEW o \in Op, Flow(o), Progress(o), Tied(o)
    PROVE  \/ answer' = answer
           \/ /\ answer[o] = "none"
              /\ answer' = [answer EXCEPT ![o] = answer'[o]] /\ answer'[o] \in Results
              /\ answer'[o] = "committed" =>
                    IF KindOf[o] = "highlight" THEN o \in held_state ELSE applied[o] > 0
              /\ KindOf[o] = "projection" /\ answer'[o] \in {"rejected", "failed"} => applied[o] = 0
              /\ answer'[o] = "stale" => applied[o] = 0
<1>1. /\ answer \in [Op -> Results \cup {"none"}] /\ answer' \in [Op -> Results \cup {"none"}]
      /\ \A n \in Op \ {o} : answer'[n] = answer[n]
      /\ pc[o] # "done"
  BY DEF Flow, LocalInv, Types
<1>2. CASE pc'[o] # "done"
  <2>1. answer'[o] = answer[o]
    BY <1>2 DEF Progress
  <2>. QED BY <1>1, <2>1
<1>3. CASE pc'[o] = "done"
  <2>1. Answers(o)
    BY <1>3 DEF Progress
  <2>2. answer[o] = "none"
    BY <1>1 DEF Tied, Unanswered
  <2>3. answer' = [answer EXCEPT ![o] = answer'[o]]
    BY <1>1
  <2>4. answer'[o] = "committed" =>
            IF KindOf[o] = "highlight" THEN o \in held_state ELSE applied[o] > 0
    BY <2>1, FoundMeansCommitted DEF Answers, Publishes, Tied, Marked
  <2>5. Refused(o) => applied[o] = 0
    BY <1>1, RefusedMeansNone
  <2>. QED BY <2>1, <2>2, <2>3, <2>4, <2>5 DEF Answers
<1>. QED BY <1>2, <1>3

-----------------------------------------------------------------------------
(* What a transaction did to the store. *)

\* The parts of the store that tell one version of the file from another.
SameVersion ==
    /\ held_revision' = held_revision /\ held_state' = held_state
    /\ db.nextRevision' = db.nextRevision

NewVersion == held_revision' = db.nextRevision /\ db.nextRevision' = db.nextRevision + 1

\* A commit of the staged transaction s.
Finalizes(o, s) ==
    /\ s \in held_stages /\ s.id = o
    /\ durable.commitSequence = s.expectedCommitSequence
    /\ held_revision = s.expectedStateRevision
    /\ durable' = advance(durable, s.kind, s.physicalDigest)
    /\ held_state' = (IF s.nextState = NoState THEN held_state ELSE s.nextState)
    /\ SameVersion \/ NewVersion
    /\ held_stages' = {t \in held_stages : t.id # o}
    /\ applied' = [applied EXCEPT ![o] = durable'.commitSequence]

Leaves(o, call) ==
    /\ SameVersion /\ durable' = durable /\ held_stages' = held_stages /\ applied' = applied

Stages(o, call) ==
    /\ call = "stage" /\ SameVersion /\ durable' = durable /\ applied' = applied
    /\ held_stages' = {t \in held_stages : t.id # o} \cup {stage_of(o)}

Discards(o, call) ==
    /\ call = "discard" /\ SameVersion /\ durable' = durable /\ applied' = applied
    /\ held_stages' = {t \in held_stages : t.id # o}

Writes(o, call) ==
    /\ call = "cas" /\ NewVersion /\ durable' = durable /\ applied' = applied
    /\ held_stages' = held_stages
    /\ held_revision = loc[o].revision /\ held_state' = planned_state(o)

LEMMA Outcomes ==
    ASSUME LocalInv, NEW p \in Proc, NEW o, NEW call, NEW next, NEW type,
           Executed(p, o, call, next, type)
    PROVE  \/ Leaves(o, call) /\ (type = "ok" => call \notin {"stage", "finalize", "cas"})
           \/ Stages(o, call) \/ Discards(o, call)
           \/ call = "finalize" /\ type \in {"ok", "error"} /\ \E s : Finalizes(o, s)
           \/ Writes(o, call) /\ type \in {"ok", "error"}
<1>1. /\ Transacts(o, call, next, type) /\ o \in Op /\ call \in StoreCalls \cup {"discard"}
      /\ next \in Store /\ db \in Store /\ db' = next
      /\ \/ next = db /\ type \in {"conflict", "error"}
         \/ next = effect(o, call) /\ type \in {"ok", "error"} /\ accepted(o, call)
  <2>1. /\ Transacts(o, call, next, type) /\ o \in Op /\ call \in StoreCalls \cup {"discard"}
        /\ next \in Store
    BY ExecutedLocal
  <2>2. db' = next
    BY <2>1 DEF Transacts
  <2>3. db \in Store
    BY DEF LocalInv, Types
  <2>4. \/ next = db /\ type \in {"conflict", "error"}
        \/ next = effect(o, call) /\ type \in {"ok", "error"} /\ accepted(o, call)
    BY DEF Executed
  <2>. QED BY <2>1, <2>2, <2>3, <2>4
<1>2. /\ call # "discard" => pc[o] = call
      /\ durable' = authority_of(next, File)
      /\ applied' = IF call = "finalize" /\ durable' # durable
                    THEN [applied EXCEPT ![o] = durable'.commitSequence]
                    ELSE applied
  <2>1. authority_of(next, File) = durable'
    BY <1>1 DEF durable
  <2>. QED BY <1>1, <2>1 DEF Transacts
<1>3. CASE next = db /\ type \in {"conflict", "error"}
  <2>1. Leaves(o, call)
    BY <1>1, <1>2, <1>3
       DEF Leaves, SameVersion, held_revision, held_state, held_stages, durable
  <2>. QED BY <1>3, <2>1
<1>4. CASE next = effect(o, call) /\ type \in {"ok", "error"} /\ accepted(o, call)
  <2>1. CASE call = "stage"
    <3>1. next = stage_authority_transaction(db, File, stage_of(o), {File})
      BY <1>4, <2>1 DEF effect
    <3>2. stage_of(o) \in Stage
      BY <1>1, <1>2, <2>1, StageTyped
    <3>3. stage_of(o).id = o
      BY DEF stage_of
    <3>4. /\ revision_of(next, File) = held_revision /\ next.nextRevision = db.nextRevision
          /\ state_of(next, File) = held_state
          /\ authority_of(next, File) = durable
          /\ stages_of(next, File) = {t \in held_stages : t.id # o} \cup {stage_of(o)}
      BY <1>1, <3>1, <3>2, <3>3, StageEffect DEF held_revision, held_state, held_stages, durable
    <3>5. Stages(o, call)
      BY <1>1, <1>2, <2>1, <3>4
         DEF Stages, SameVersion, held_revision, held_state, held_stages, durable
    <3>. QED BY <3>5
  <2>2. CASE call = "finalize"
    <3>1. next = finalize_authority_transaction(db, File, o, {File})
      BY <1>4, <2>2 DEF effect
    <3>. DEFINE s == stage_named(db, File, o)
                state == IF s.nextState = NoState THEN held_state ELSE s.nextState
    <3>2. stage_present(db, File, o) /\ stage_accepts(db, File, s)
      BY <1>4, <2>2 DEF accepted, finalize_accepts
    <3>3. s \in held_stages /\ s \in Stage /\ s.id = o
      BY <1>1, <3>2, NamedStage DEF held_stages
    <3>4. /\ IF state = held_state
             THEN revision_of(next, File) = held_revision /\ next.nextRevision = db.nextRevision
             ELSE revision_of(next, File) = db.nextRevision
                  /\ next.nextRevision = db.nextRevision + 1
          /\ state_of(next, File) = state
          /\ authority_of(next, File) = advance(durable, s.kind, s.physicalDigest)
          /\ stages_of(next, File) = {t \in held_stages : t.id # o}
      BY <1>1, <3>1, <3>2, FinalizeEffect DEF held_revision, held_state, held_stages, durable
    <3>5. /\ durable.commitSequence = s.expectedCommitSequence
          /\ held_revision = s.expectedStateRevision
      BY <3>2 DEF stage_accepts, held_revision, durable
    <3>. HIDE DEF s, state
    <3>6. advance(durable, s.kind, s.physicalDigest) # durable
      <4>1. durable \in Authority
        BY <1>1, SnapshotTypes DEF durable
      <4>2. advance(durable, s.kind, s.physicalDigest).commitSequence = durable.commitSequence + 1
        BY <4>1 DEF advance, Authority
      <4>. QED BY <4>1, <4>2 DEF Authority
    <3>7. /\ held_revision' = revision_of(next, File) /\ held_state' = state_of(next, File)
          /\ held_stages' = stages_of(next, File) /\ db.nextRevision' = next.nextRevision
      BY <1>1 DEF held_revision, held_state, held_stages
    <3>8. SameVersion \/ NewVersion
      BY <3>4, <3>7 DEF SameVersion, NewVersion
    <3>9. Finalizes(o, s)
      BY <1>2, <2>2, <3>3, <3>4, <3>5, <3>6, <3>7, <3>8 DEF Finalizes, state
    <3>. QED BY <1>4, <2>2, <3>9
  <2>3. CASE call = "cas"
    <3>1. next = write_state(db, File, planned_state(o), {File})
      BY <1>4, <2>3 DEF effect
    <3>2. KindOf[o] = "highlight"
      BY <1>1, <1>2, <2>3, StandsThere DEF MayAwait
    <3>3. planned_state(o) \in SUBSET Op
      BY <1>1, <3>2, StageTyped
    <3>4. /\ revision_of(next, File) = db.nextRevision /\ next.nextRevision = db.nextRevision + 1
          /\ state_of(next, File) = planned_state(o)
          /\ authority_of(next, File) = durable /\ stages_of(next, File) = held_stages
      BY <1>1, <3>1, <3>3, WriteEffect DEF held_stages, durable
    <3>5. held_revision = loc[o].revision
      BY <1>4, <2>3 DEF accepted, cas_accepts, held_revision
    <3>6. Writes(o, call)
      BY <1>1, <1>2, <2>3, <3>4, <3>5
         DEF Writes, NewVersion, held_revision, held_state, held_stages, durable
    <3>. QED BY <1>4, <3>6
  <2>4. CASE call = "discard"
    <3>1. next = discard_authority_transaction(db, File, o, {File})
      BY <1>4, <2>4 DEF effect
    <3>2. /\ revision_of(next, File) = held_revision /\ next.nextRevision = db.nextRevision
          /\ state_of(next, File) = held_state
          /\ authority_of(next, File) = durable
          /\ stages_of(next, File) = {t \in held_stages : t.id # o}
      BY <1>1, <3>1, DiscardEffect DEF held_revision, held_state, held_stages, durable
    <3>3. Discards(o, call)
      BY <1>1, <1>2, <2>4, <3>2
         DEF Discards, SameVersion, held_revision, held_state, held_stages, durable
    <3>. QED BY <3>3
  <2>5. CASE call \notin {"stage", "finalize", "cas", "discard"}
    <3>1. next = db
      BY <1>4, <2>5 DEF effect
    <3>2. Leaves(o, call)
      BY <1>1, <1>2, <3>1
         DEF Leaves, SameVersion, held_revision, held_state, held_stages, durable
    <3>. QED BY <2>5, <3>2
  <2>. QED BY <2>1, <2>2, <2>3, <2>4, <2>5
<1>. QED BY <1>1, <1>3, <1>4

-----------------------------------------------------------------------------
LEMMA VersionTypes ==
    ASSUME LocalInv
    PROVE  held_revision \in Nat /\ db.nextRevision \in Nat /\ held_state \in SUBSET Op
           /\ held_stages \in SUBSET Stage /\ durable \in Authority
<1>1. db \in Store
  BY DEF LocalInv, Types
<1>. QED BY <1>1, SnapshotTypes DEF Store, Database, held_revision, held_state, held_stages, durable

\* What a transaction does to the locals of operations.
LEMMA TransactLocals ==
    ASSUME LocalInv, NEW o \in Op, NEW call, NEW next, NEW type, Transacts(o, call, next, type)
    PROVE  /\ \A n \in Op \ {o} : loc'[n] = loc[n]
           /\ call = "discard" => loc' = loc
           /\ call # "discard" =>
                 /\ loc[o].reply.type = "none" /\ pc[o] = call
                 /\ loc'[o].reply = IF type = "error" THEN [NoReply EXCEPT !.type = "error"]
                                    ELSE reply_of(next, o, type)
                 /\ loc'[o].revision = loc[o].revision /\ loc'[o].state = loc[o].state
                 /\ loc'[o].sequence = loc[o].sequence /\ loc'[o].basis = loc[o].basis
                 /\ loc'[o].finalized = loc[o].finalized
           /\ entry' = entry /\ pc' = pc /\ answer' = answer /\ receipt' = receipt /\ tail' = tail
           /\ db' = next
<1>1. loc \in [Op -> Locals] /\ loc[o] \in Locals
  BY DEF LocalInv, Types
<1>. DEFINE r == loc'[o].reply
<1>2. CASE call = "discard"
  BY <1>1, <1>2 DEF Transacts
<1>3. CASE call # "discard"
  <2>1. /\ loc' = [loc EXCEPT ![o].reply = r]
        /\ r = IF type = "error" THEN [NoReply EXCEPT !.type = "error"]
               ELSE reply_of(next, o, type)
        /\ loc[o].reply.type = "none" /\ pc[o] = call
    BY <1>3 DEF Transacts
  <2>. HIDE DEF r
  <2>2. loc'[o] = [loc[o] EXCEPT !.reply = r] /\ \A n \in Op \ {o} : loc'[n] = loc[n]
    BY <1>1, <2>1
  <2>3. /\ loc'[o].revision = loc[o].revision /\ loc'[o].state = loc[o].state
        /\ loc'[o].sequence = loc[o].sequence /\ loc'[o].basis = loc[o].basis
        /\ loc'[o].finalized = loc[o].finalized
    BY <1>1, <2>2 DEF Locals
  <2>. QED BY <1>3, <2>1, <2>2, <2>3 DEF Transacts, r
<1>. QED BY <1>2, <1>3

LEMMA TransactRevised ==
    ASSUME LocalInv, LocalInv', NEW o \in Op, NEW call, NEW next, NEW type,
           Transacts(o, call, next, type), Revised, SameVersion \/ NewVersion
    PROVE  Revised'
<1>1. /\ held_revision \in Nat /\ db.nextRevision \in Nat
      /\ held_revision' \in Nat /\ db.nextRevision' \in Nat
  <2>1. db' \in Store
    BY DEF LocalInv, Types
  <2>. QED BY <2>1, VersionTypes, SnapshotTypes DEF Store, Database, held_revision
<1>2. held_revision' < db.nextRevision'
  BY <1>1 DEF SameVersion, NewVersion, Revised
<1>3. ASSUME NEW n \in Op, NEW pair \in Snapshots(n) PROVE Names(pair)'
  <2>1. Names(pair) /\ pair[1] \in Nat
    <3>1. loc[n].revision \in Nat /\ loc[n].reply.revision \in Nat
      BY StandsThere DEF Locals, Reply
    <3>2. pair[1] \in {0, loc[n].revision, loc[n].reply.revision}
      BY DEF Snapshots
    <3>3. Names(pair)
      BY DEF Revised
    <3>. QED BY <3>1, <3>2, <3>3
  <2>2. CASE SameVersion
    BY <2>1, <2>2 DEF Names, SameVersion
  <2>3. CASE NewVersion
    BY <1>1, <2>1, <2>3 DEF Names, NewVersion
  <2>. QED BY <2>2, <2>3
<1>4. ASSUME NEW n \in Op, NEW pair \in Snapshots(n)' PROVE Names(pair)'
  <2>1. \/ pair \in Snapshots(n)
        \/ n = o /\ pair = <<loc'[o].reply.revision, loc'[o].reply.state>> /\ call # "discard"
    BY TransactLocals DEF Snapshots
  <2>2. CASE n = o /\ pair = <<loc'[o].reply.revision, loc'[o].reply.state>> /\ call # "discard"
    <3>1. loc'[o].reply = IF type = "error" THEN [NoReply EXCEPT !.type = "error"]
                          ELSE reply_of(db', o, type)
      BY <2>2, TransactLocals
    <3>2. CASE type = "error"
      <4>1. pair = <<0, {}>>
        BY <2>2, <3>1, <3>2 DEF NoReply
      <4>2. pair \in Snapshots(n)
        BY <4>1 DEF Snapshots
      <4>. QED BY <1>3, <4>2
    <3>3. CASE type # "error"
      <4>1. pair = <<held_revision', held_state'>>
        BY <2>2, <3>1, <3>3 DEF reply_of, held_revision, held_state
      <4>. QED BY <1>2, <4>1 DEF Names
    <3>. QED BY <3>2, <3>3
  <2>. QED BY <1>3, <2>1, <2>2
<1>. QED BY <1>2, <1>4 DEF Revised

\* The commit of an operation makes of its basis what it said it would.
LEMMA FinalizeCommits ==
    ASSUME LocalInv, Chain, Revised, NEW o \in Op, Tied(o),
           pc[o] = "finalize", loc[o].reply.type = "none", NEW s, Finalizes(o, s)
    PROVE  /\ KindOf[o] \in {"physical", "projection"}
           /\ applied[o] = 0
           /\ durable = loc[o].basis /\ durable' = result_of(o)
           /\ durable'.commitSequence = durable.commitSequence + 1
           /\ durable.commitSequence \in Nat
           /\ held_state' = IF planned_state(o) = NoState THEN held_state
                            ELSE held_state \cup {o}
           /\ held_stages' = {t \in held_stages : t.id # o}
           /\ applied' = [applied EXCEPT ![o] = durable'.commitSequence]
<1>1. KindOf[o] \in {"physical", "projection"}
  BY StandsThere, EntryAssumption DEF MayAwait
<1>2. applied[o] = 0
  <2>1. applied[o] \in Nat
    BY DEF LocalInv, Types
  <2>2. ~(applied[o] > 0)
    BY DEF Tied, Decided, TookEffect
  <2>. QED BY <2>1, <2>2
<1>3. s = stage_of(o)
  BY DEF Finalizes, Tied, StageHeld, Staged, Deciding
<1>4. /\ durable.commitSequence = loc[o].sequence /\ held_revision = loc[o].revision
      /\ durable' = advance(durable, KindOf[o], digest_of(o))
      /\ held_state' = (IF planned_state(o) = NoState THEN held_state ELSE planned_state(o))
  BY <1>3 DEF Finalizes, stage_of, digest_of
<1>5. durable \in Authority /\ loc[o].basis \in Authority /\ loc[o].sequence \in Nat
  BY VersionTypes, StandsThere DEF Locals
<1>6. durable = loc[o].basis
  <2>1. at_least(durable, loc[o].basis)
    BY DEF Chain, Held, Known
  <2>2. loc[o].sequence <= loc[o].basis.commitSequence
    BY <1>1 DEF Tied, Based, Deciding
  <2>3. durable = loc[o].basis \/ dominates(durable, loc[o].basis)
    BY <1>5, <2>1, ComparisonAgrees DEF at_least, compare_authority
  <2>. QED BY <1>4, <1>5, <2>2, <2>3 DEF dominates, Authority
<1>7. held_state = loc[o].state
  BY <1>4 DEF Revised, Names, Snapshots
<1>8. planned_state(o) # NoState => planned_state(o) = held_state \cup {o}
  BY <1>7 DEF planned_state
<1>9. durable'.commitSequence = durable.commitSequence + 1 /\ durable.commitSequence \in Nat
  <2>1. DigestOf[o] \in Digest
    BY EntryAssumption
  <2>. QED BY <1>4, <1>5 DEF advance, Authority
<1>. QED BY <1>1, <1>2, <1>4, <1>6, <1>8, <1>9 DEF result_of, Finalizes

\* A write of a highlight adds the highlight to the state it found.
LEMMA WriteMarks ==
    ASSUME LocalInv, Revised, NEW o \in Op, NEW call, call # "discard" => pc[o] = call,
           Writes(o, call)
    PROVE  /\ KindOf[o] = "highlight" /\ held_state' = held_state \cup {o}
           /\ durable' = durable /\ applied' = applied /\ held_stages' = held_stages
<1>1. KindOf[o] = "highlight"
  BY StandsThere DEF MayAwait, Writes
<1>2. held_state = loc[o].state
  BY DEF Writes, Revised, Names, Snapshots
<1>. QED BY <1>1, <1>2 DEF Writes, planned_state

-----------------------------------------------------------------------------
\* What a transaction of o may do to the store, as the other operations see it.
Tells(o) ==
    /\ \A n \in Op \ {o} : {t \in held_stages' : t.id = n} = {t \in held_stages : t.id = n}
    /\ held_state' \subseteq held_state \cup {o} /\ held_state \subseteq held_state'
    /\ durable'.commitSequence >= durable.commitSequence
    /\ \A n \in Op \ {o} : applied'[n] = applied[n]

LEMMA OutcomeTells ==
    ASSUME LocalInv, Chain, Revised, NEW p \in Proc, NEW o, NEW call, NEW next, NEW type,
           Executed(p, o, call, next, type), o \in Op => Tied(o)
    PROVE  Tells(o) /\ (SameVersion \/ NewVersion)
<1>1. /\ o \in Op /\ Tied(o) /\ call \in StoreCalls \cup {"discard"}
      /\ (call # "discard" => pc[o] = call /\ loc[o].reply.type = "none")
  BY ExecutedLocal DEF Transacts
<1>2. /\ applied \in [Op -> Nat] /\ durable.commitSequence \in Nat
  BY VersionTypes DEF LocalInv, Types, Authority
<1>3. CASE Leaves(o, call)
  BY <1>2, <1>3 DEF Leaves, Tells, SameVersion
<1>4. CASE Stages(o, call)
  <2>1. stage_of(o).id = o
    BY DEF stage_of
  <2>. QED BY <1>2, <1>4, <2>1 DEF Stages, Tells, SameVersion
<1>5. CASE Discards(o, call)
  BY <1>2, <1>5 DEF Discards, Tells, SameVersion
<1>6. ASSUME call = "finalize", NEW s, Finalizes(o, s) PROVE Tells(o) /\ (SameVersion \/ NewVersion)
  <2>1. /\ durable'.commitSequence = durable.commitSequence + 1
        /\ held_state \subseteq held_state' /\ held_state' \subseteq held_state \cup {o}
        /\ held_stages' = {t \in held_stages : t.id # o}
        /\ applied' = [applied EXCEPT ![o] = durable'.commitSequence]
    BY <1>1, <1>6, FinalizeCommits
  <2>. QED BY <1>2, <1>6, <2>1 DEF Tells, Finalizes
<1>7. CASE Writes(o, call)
  <2>1. /\ held_state' = held_state \cup {o}
        /\ durable' = durable /\ applied' = applied /\ held_stages' = held_stages
    BY <1>1, <1>7, WriteMarks
  <2>. QED BY <1>2, <1>7, <2>1 DEF Tells, Writes
<1>. QED BY <1>3, <1>4, <1>5, <1>6, <1>7, Outcomes

LEMMA TransactOthers ==
    ASSUME LocalInv, LocalInv', NEW o \in Op, NEW call, NEW next, NEW type,
           Transacts(o, call, next, type), Tells(o), NEW n \in Op \ {o}, Tied(n)
    PROVE  Tied(n)'
<1>1. /\ loc'[n] = loc[n] /\ pc' = pc /\ answer' = answer /\ receipt' = receipt /\ entry' = entry
  BY TransactLocals
<1>2. /\ {t \in held_stages' : t.id = n} = {t \in held_stages : t.id = n}
      /\ (n \in held_state' <=> n \in held_state)
      /\ durable'.commitSequence >= durable.commitSequence
      /\ applied'[n] = applied[n]
  BY DEF Tells
<1>3. durable.commitSequence \in Nat /\ durable'.commitSequence \in Nat /\ applied[n] \in Nat
  <2>1. db' \in Store
    BY DEF LocalInv, Types
  <2>2. durable' \in Authority
    BY <2>1, SnapshotTypes DEF durable
  <2>. QED BY <2>2, VersionTypes DEF Authority, LocalInv, Types
<1>4. installed(n)' = installed(n)
  BY <1>1 DEF installed
<1>5. Based(n)'
  BY <1>1, <1>4 DEF Tied, Based
<1>6. stage_of(n)' = stage_of(n)
  BY <1>1 DEF stage_of, planned_state
<1>7. StageHeld(n)'
  <2>1. Staged(n)' = Staged(n)
    BY <1>1 DEF Staged
  <2>2. \A t : t \in held_stages' /\ t.id = n <=> t \in held_stages /\ t.id = n
    BY <1>2
  <2>. QED BY <1>2, <1>6, <2>1, <2>2 DEF Tied, StageHeld
<1>8. Decided(n)'
  <2>1. Told(n)'
    BY <1>1, <1>2 DEF Tied, Decided, Told, result_of, digest_of
  <2>2. \A t : t \in held_stages' /\ t.id = n <=> t \in held_stages /\ t.id = n
    BY <1>2
  <2>3. TookEffect(n) => TookEffect(n)'
    BY <1>1, <1>2, <1>3, <2>2 DEF TookEffect
  <2>. QED BY <1>2, <2>1, <2>3 DEF Tied, Decided
<1>9. Marked(n)'
  BY <1>1, <1>2 DEF Tied, Marked
<1>10. Unanswered(n)' /\ ReceiptOf(n)'
  BY <1>1, <1>2 DEF Tied, Unanswered, ReceiptOf, digest_of
<1>. QED BY <1>5, <1>7, <1>8, <1>9, <1>10 DEF Tied

-----------------------------------------------------------------------------
\* The outcome of a transaction, for an operation that is tied to the store.
LEMMA OutcomeKinds ==
    ASSUME LocalInv, Chain, Revised, NEW p \in Proc, NEW o \in Op, NEW call, NEW next, NEW type,
           Executed(p, o, call, next, type), Tied(o)
    PROVE  \/ Leaves(o, call) /\ (type = "ok" => call \notin {"stage", "finalize", "cas"})
           \/ Stages(o, call)
           \/ Discards(o, call)
           \/ /\ call = "finalize" /\ type \in {"ok", "error"} /\ applied[o] = 0
              /\ durable' = result_of(o)
              /\ durable'.commitSequence = loc[o].basis.commitSequence + 1
              /\ loc[o].basis.commitSequence \in Nat
              /\ \A t \in held_stages' : t.id # o
              /\ applied'[o] = durable'.commitSequence
              /\ KindOf[o] # "highlight"
           \/ Writes(o, call) /\ type \in {"ok", "error"} /\ o \in held_state'
<1>1. call # "discard" => pc[o] = call /\ loc[o].reply.type = "none"
  BY ExecutedLocal DEF Transacts
<1>2. ASSUME call = "finalize", NEW s, Finalizes(o, s)
      PROVE  /\ applied[o] = 0 /\ durable' = result_of(o)
             /\ durable'.commitSequence = loc[o].basis.commitSequence + 1
             /\ loc[o].basis.commitSequence \in Nat
             /\ \A t \in held_stages' : t.id # o
             /\ applied'[o] = durable'.commitSequence
             /\ KindOf[o] # "highlight"
  <2>1. applied \in [Op -> Nat]
    BY DEF LocalInv, Types
  <2>2. pc[o] = "finalize" /\ loc[o].reply.type = "none"
    BY <1>1, <1>2
  <2>3. /\ KindOf[o] \in {"physical", "projection"} /\ applied[o] = 0
        /\ durable = loc[o].basis /\ durable' = result_of(o)
        /\ durable'.commitSequence = durable.commitSequence + 1
        /\ durable.commitSequence \in Nat
        /\ held_stages' = {t \in held_stages : t.id # o}
        /\ applied' = [applied EXCEPT ![o] = durable'.commitSequence]
    BY <1>2, <2>2, FinalizeCommits
  <2>4. applied'[o] = durable'.commitSequence
    BY <2>1, <2>3
  <2>. QED BY <2>3, <2>4
<1>3. Writes(o, call) => o \in held_state'
  BY <1>1, WriteMarks
<1>. QED BY <1>2, <1>3, Outcomes

LEMMA AnswerType ==
    ASSUME LocalInv, NEW o \in Op, NEW call, NEW next, NEW type,
           Transacts(o, call, next, type), call # "discard"
    PROVE  loc'[o].reply.type = type
<1>1. /\ loc'[o].reply = IF type = "error" THEN [NoReply EXCEPT !.type = "error"]
                         ELSE reply_of(db', o, type)
  BY TransactLocals
<1>. QED BY <1>1 DEF NoReply, reply_of

\* The answer of the transaction that an operation awaits.
LEMMA AnswerOfCall ==
    ASSUME LocalInv, NEW o \in Op, NEW call, NEW next, NEW type,
           Transacts(o, call, next, type), call # "discard"
    PROVE  type # "error" =>
              /\ loc'[o].reply.authority = durable'
              /\ loc'[o].reply.stagePresent = \E t \in held_stages' : t.id = o
<1>1. /\ loc'[o].reply = IF type = "error" THEN [NoReply EXCEPT !.type = "error"]
                         ELSE reply_of(db', o, type)
  BY TransactLocals
<1>2. CASE type = "error"
  BY <1>1, <1>2 DEF NoReply
<1>3. CASE type # "error"
  BY <1>1, <1>3 DEF reply_of, durable, held_stages, stage_present
<1>. QED BY <1>2, <1>3

LEMMA TransactOwn ==
    ASSUME LocalInv, LocalInv', Chain, Revised, NEW p \in Proc, NEW o \in Op, NEW call, NEW next,
           NEW type, Executed(p, o, call, next, type), Tied(o)
    PROVE  Tied(o)'
<1>1. /\ Transacts(o, call, next, type) /\ call \in StoreCalls \cup {"discard"}
      /\ type \in {"ok", "conflict", "error"} /\ (type = "conflict" => ~accepted(o, call))
  BY ExecutedLocal DEF Executed
<1>2. /\ pc' = pc /\ answer' = answer /\ receipt' = receipt /\ entry' = entry
      /\ loc'[o].revision = loc[o].revision /\ loc'[o].state = loc[o].state
      /\ loc'[o].sequence = loc[o].sequence /\ loc'[o].basis = loc[o].basis
      /\ loc'[o].finalized = loc[o].finalized
      /\ call = "discard" => loc'[o] = loc[o]
      /\ call # "discard" => pc[o] = call /\ loc[o].reply.type = "none"
  BY <1>1, TransactLocals
<1>3. call = "discard" => pc[o] = "done"
  <2>1. queue[p] # <<>> /\ o = Head(queue[p])[1] /\ call = Head(queue[p])[2]
    BY DEF Executed
  <2>. QED BY <2>1, HeadCall
<1>4. /\ Leaves(o, call) \/ Stages(o, call) \/ Discards(o, call) \/ Writes(o, call) => applied' = applied
      /\ Leaves(o, call) \/ Stages(o, call) \/ Discards(o, call) => held_state' = held_state
      /\ applied[o] \in Nat /\ durable.commitSequence \in Nat
      /\ loc[o].basis.commitSequence \in Nat
  <2>1. loc[o].basis \in Authority /\ durable \in Authority
    BY StandsThere, VersionTypes DEF Locals
  <2>. QED BY <2>1 DEF Leaves, Stages, Discards, Writes, SameVersion, LocalInv, Types, Authority
<1>5. CASE call = "discard"
  <2>1. Leaves(o, call) \/ Discards(o, call)
    BY <1>5, OutcomeKinds DEF Stages, Writes
  <2>2. /\ \A t \in held_stages' : t \in held_stages
        /\ durable' = durable
    BY <2>1 DEF Leaves, Discards
  <2>3. pc[o] = "done" /\ loc'[o] = loc[o] /\ applied' = applied /\ held_state' = held_state
    BY <1>2, <1>3, <1>4, <1>5, <2>1
  <2>4. Based(o)' /\ StageHeld(o)' /\ Marked(o)' /\ Unanswered(o)' /\ ReceiptOf(o)'
    BY <1>2, <2>3
       DEF Tied, Based, Deciding, StageHeld, Staged, Marked, Unanswered, ReceiptOf, digest_of
  <2>5. Decided(o)'
    BY <1>2, <2>2, <2>3 DEF Tied, Decided, Told, TookEffect
  <2>. QED BY <2>4, <2>5 DEF Tied
<1>6. CASE call # "discard"
  <2>0. call \in StoreCalls /\ pc[o] = call /\ loc[o].reply.type = "none" /\ loc'[o].reply.type = type
    <3>1. loc'[o].reply.type = type
      BY <1>1, <1>6, AnswerType
    <3>. QED BY <1>1, <1>2, <1>6, <3>1
  <2>1. Based(o)'
    <3>1. installed(o)' = installed(o)
      BY <1>2 DEF installed
    <3>. QED BY <1>2, <3>1 DEF Tied, Based
  <2>2. Unanswered(o)' /\ ReceiptOf(o)'
    <3>1. answer[o] = "none"
      BY <2>0 DEF Tied, Unanswered, StoreCalls
    <3>. QED BY <1>2, <3>1 DEF Unanswered, ReceiptOf
  <2>3. StageHeld(o)'
    <3>. SUFFICES ASSUME Staged(o)' PROVE StageHeld(o)'
      BY DEF StageHeld
    <3>1. stage_of(o)' = stage_of(o) /\ stage_of(o).id = o
      BY <1>2 DEF stage_of, planned_state
    <3>2. call \in Deciding \/ (call = "stage" /\ type = "ok")
      BY <1>2, <2>0 DEF Staged, StoreCalls
    <3>3. CASE Stages(o, call)
      BY <3>1, <3>3 DEF Stages, StageHeld
    <3>4. CASE Leaves(o, call) /\ call \in Deciding
      <4>1. Staged(o)
        BY <2>0, <3>4 DEF Staged
      <4>. QED BY <3>1, <3>4, <4>1 DEF Leaves, Tied, StageHeld
    <3>5. CASE /\ durable'.commitSequence = loc[o].basis.commitSequence + 1
               /\ \A t \in held_stages' : t.id # o
               /\ applied'[o] = durable'.commitSequence
      BY <1>4, <3>5 DEF StageHeld
    <3>. QED BY <3>2, <3>3, <3>4, <3>5, OutcomeKinds DEF Discards, Writes, Deciding
  <2>4. Marked(o)'
    <3>. SUFFICES ASSUME KindOf[o] = "highlight" PROVE Marked(o)'
      BY DEF Marked
    <3>1. call \in {"read", "cas"}
      BY <2>0, StandsThere DEF MayAwait, StoreCalls
    <3>2. o \notin held_state
      BY <2>0, <3>1 DEF Tied, Marked
    <3>3. \/ Leaves(o, call) /\ (type = "ok" => call # "cas")
          \/ Writes(o, call) /\ type \in {"ok", "error"} /\ o \in held_state'
      BY <3>1, OutcomeKinds DEF Stages, Discards
    <3>4. CASE Leaves(o, call) /\ (type = "ok" => call # "cas")
      BY <1>2, <1>4, <2>0, <3>2, <3>4 DEF Marked
    <3>5. CASE Writes(o, call) /\ type \in {"ok", "error"} /\ o \in held_state'
      BY <1>2, <2>0, <3>5 DEF Marked, Writes
    <3>. QED BY <3>3, <3>4, <3>5
  <2>5. Decided(o)'
    <3>1. result_of(o)' = result_of(o)
      BY <1>2 DEF result_of, digest_of
    <3>2. CASE /\ call = "finalize" /\ type \in {"ok", "error"} /\ applied[o] = 0
               /\ durable' = result_of(o)
               /\ durable'.commitSequence = loc[o].basis.commitSequence + 1
               /\ \A t \in held_stages' : t.id # o
               /\ applied'[o] = durable'.commitSequence
               /\ KindOf[o] # "highlight"
      <4>1. applied'[o] > 0
        BY <1>4, <3>2
      <4>2. TookEffect(o)'
        BY <1>2, <1>4, <2>0, <3>2 DEF TookEffect, Deciding
      <4>3. type = "ok" => loc'[o].reply.authority = result_of(o)
        BY <1>1, <1>6, <3>2, AnswerOfCall
      <4>4. Told(o)'
        BY <1>2, <2>0, <3>1, <3>2, <4>1, <4>3 DEF Told
      <4>. QED BY <4>2, <4>4 DEF Decided
    <3>3. ASSUME Leaves(o, call) /\ (type = "ok" => call \notin {"stage", "finalize", "cas"})
          PROVE  Decided(o)'
      <4>0. applied' = applied /\ held_stages' = held_stages /\ durable' = durable
        BY <3>3 DEF Leaves
      <4>1. ASSUME applied[o] > 0 PROVE TookEffect(o)'
        <5>1. TookEffect(o)
          BY <4>1 DEF Tied, Decided
        <5>2. call # "finalize"
          BY <2>0, <5>1 DEF TookEffect
        <5>3. call = "reconcile" /\ type = "ok" => ~loc'[o].reply.stagePresent
          <6>1. \A t \in held_stages' : t.id # o
            BY <4>0, <5>1 DEF TookEffect
          <6>2. type = "ok" => loc'[o].reply.stagePresent = \E t \in held_stages' : t.id = o
            BY <1>1, <1>6, AnswerOfCall
          <6>. QED BY <6>1, <6>2
        <5>. QED BY <1>2, <2>0, <4>0, <5>1, <5>2, <5>3 DEF TookEffect
      <4>2. call = "reconcile" /\ type = "ok" /\ ~loc'[o].reply.stagePresent => applied[o] > 0
        <5>. SUFFICES ASSUME call = "reconcile", type = "ok", ~loc'[o].reply.stagePresent
                      PROVE  applied[o] > 0
          OBVIOUS
        <5>1. loc'[o].reply.stagePresent = \E t \in held_stages' : t.id = o
          BY <1>1, <1>6, AnswerOfCall
        <5>2. Staged(o)
          BY <2>0 DEF Staged, Deciding
        <5>. QED BY <4>0, <5>1, <5>2 DEF Tied, StageHeld
      <4>3. Told(o)'
        BY <1>2, <2>0, <3>1, <3>3, <4>0, <4>2 DEF Tied, Decided, Told
      <4>. QED BY <4>0, <4>1, <4>3 DEF Decided
    <3>4. CASE Stages(o, call) \/ Writes(o, call)
      <4>1. call \in {"stage", "cas"} /\ applied' = applied
        BY <3>4 DEF Stages, Writes
      <4>2. ~(applied[o] > 0)
        BY <2>0, <4>1 DEF Tied, Decided, TookEffect, Deciding
      <4>. QED BY <1>2, <2>0, <4>1, <4>2 DEF Decided, Told
    <3>. QED BY <1>6, <3>2, <3>3, <3>4, OutcomeKinds DEF Discards
  <2>. QED BY <2>1, <2>2, <2>3, <2>4, <2>5 DEF Tied
<1>. QED BY <1>5, <1>6

-----------------------------------------------------------------------------
AllTied == Revised /\ \A o \in Op : Tied(o)

LEMMA CrashTied ==
    ASSUME LocalInv, NEW p \in Proc, Crash(p), AllTied
    PROVE  AllTied'
<1>. DEFINE lost == {o \in Op : ProcOf[o] = p /\ pc[o] \notin {"idle", "done"}}
<1>0. /\ Revised /\ \A o \in Op : Tied(o)
  BY DEF AllTied
<1>1. /\ entry' = [entry EXCEPT ![p] = new_entry(durable)]
      /\ pc' = [o \in Op |-> IF o \in lost THEN "done" ELSE pc[o]]
      /\ loc' = [o \in Op |-> IF o \in lost THEN NewLocals ELSE loc[o]]
      /\ db' = db /\ answer' = answer /\ receipt' = receipt /\ applied' = applied
      /\ entry \in [Proc -> Shape]
  BY DEF Crash, LocalInv, Types
<1>2. /\ held_revision' = held_revision /\ held_state' = held_state
      /\ held_stages' = held_stages /\ durable' = durable
  BY <1>1 DEF held_revision, held_state, held_stages, durable
<1>3. ASSUME NEW o \in Op PROVE Snapshots(o)' \subseteq Snapshots(o)
  <2>1. loc'[o] = loc[o] \/ loc'[o] = NewLocals
    BY <1>1
  <2>. QED BY <2>1 DEF Snapshots, NewLocals, NoReply
<1>4. Revised'
  BY <1>1, <1>2, <1>3 DEF AllTied, Revised, Names
<1>5. ASSUME NEW o \in Op, o \in lost PROVE Tied(o)'
  <2>1. pc'[o] = "done" /\ loc'[o] = NewLocals /\ pc[o] # "done"
    BY <1>1, <1>5
  <2>2. answer[o] = "none"
    BY <1>0, <2>1 DEF Tied, Unanswered
  <2>3. Based(o)' /\ StageHeld(o)' /\ Marked(o)' /\ Unanswered(o)' /\ ReceiptOf(o)'
    BY <1>1, <2>1, <2>2
       DEF Based, Deciding, StageHeld, Staged, Marked, Unanswered, ReceiptOf
  <2>4. applied[o] > 0 => TookEffect(o)
    BY <1>0 DEF Tied, Decided
  <2>5. Decided(o)'
    BY <1>1, <1>2, <2>1, <2>4 DEF Decided, Told, TookEffect
  <2>. QED BY <2>3, <2>5 DEF Tied
<1>6. ASSUME NEW o \in Op, o \notin lost PROVE Tied(o)'
  <2>1. pc'[o] = pc[o] /\ loc'[o] = loc[o]
    BY <1>1, <1>6
  <2>2. Based(o)'
    <3>1. CASE ProcOf[o] = p
      <4>1. pc[o] \in {"idle", "done"}
        BY <1>6, <3>1
      <4>. QED BY <2>1, <4>1 DEF Based, Deciding
    <3>2. CASE ProcOf[o] # p
      <4>1. installed(o)' = installed(o)
        BY <1>1, <3>2, FileCoordinatorAssumption DEF installed
      <4>. QED BY <1>0, <2>1, <4>1 DEF Tied, Based
    <3>. QED BY <3>1, <3>2
  <2>3. StageHeld(o)' /\ Marked(o)' /\ Unanswered(o)' /\ ReceiptOf(o)'
    BY <1>0, <1>1, <1>2, <2>1
       DEF Tied, StageHeld, Staged, stage_of, planned_state, Marked, Unanswered, ReceiptOf, digest_of
  <2>4. Decided(o)'
    BY <1>0, <1>1, <1>2, <2>1 DEF Tied, Decided, Told, TookEffect, result_of, digest_of
  <2>. QED BY <2>2, <2>3, <2>4 DEF Tied
<1>. QED BY <1>4, <1>5, <1>6 DEF AllTied

LEMMA InitTied ==
    ASSUME Init
    PROVE  AllTied
<1>1. /\ pc = [o \in Op |-> "idle"] /\ loc = [o \in Op |-> NewLocals]
      /\ answer = [o \in Op |-> "none"] /\ applied = [o \in Op |-> 0]
  BY DEF Init
<1>2. held_revision = 0 /\ db.nextRevision = 1 /\ held_state = {} /\ held_stages = {}
  BY InitStore DEF held_revision, held_state, held_stages
<1>3. ASSUME NEW o \in Op PROVE Snapshots(o) = {<<0, {}>>}
  BY <1>1 DEF Snapshots, NewLocals, NoReply
<1>4. Revised
  BY <1>2, <1>3 DEF Revised, Names
<1>5. ASSUME NEW o \in Op PROVE Tied(o)
  <2>1. pc[o] = "idle" /\ answer[o] = "none" /\ applied[o] = 0
    BY <1>1
  <2>. QED BY <1>2, <2>1
     DEF Tied, Based, Deciding, StageHeld, Staged, Decided, Told, Marked, Unanswered, ReceiptOf
<1>. QED BY <1>4, <1>5 DEF AllTied

LEMMA StutterTied ==
    ASSUME AllTied, UNCHANGED vars
    PROVE  AllTied'
<1>0. /\ Revised /\ \A o \in Op : Tied(o)
  BY DEF AllTied
<1>1. /\ held_revision' = held_revision /\ held_state' = held_state
      /\ held_stages' = held_stages /\ durable' = durable
      /\ pc' = pc /\ loc' = loc /\ answer' = answer /\ receipt' = receipt /\ applied' = applied
      /\ db' = db
      /\ \A o \in Op : installed(o)' = installed(o)
  BY DEF vars, held_revision, held_state, held_stages, durable, installed
<1>2. Revised'
  BY <1>1 DEF AllTied, Revised, Names, Snapshots
<1>3. ASSUME NEW o \in Op PROVE Tied(o)'
  <2>1. Based(o)' /\ StageHeld(o)' /\ Marked(o)' /\ Unanswered(o)' /\ ReceiptOf(o)'
    BY <1>0, <1>1 DEF Tied, Based, StageHeld, Staged, stage_of, planned_state, Marked, Unanswered,
                ReceiptOf, digest_of
  <2>2. Decided(o)'
    BY <1>0, <1>1 DEF Tied, Decided, Told, TookEffect, result_of, digest_of
  <2>. QED BY <2>1, <2>2 DEF Tied
<1>. QED BY <1>2, <1>3 DEF AllTied

\* The whole of what holds while nobody evicts the file's entry.
Coordinated == LocalInv /\ Kept /\ Chain /\ AllTied

LEMMA ExecutedTied ==
    ASSUME Coordinated, LocalInv', NEW p \in Proc, NEW o, NEW call, NEW next, NEW type,
           Executed(p, o, call, next, type)
    PROVE  AllTied'
<1>1. /\ LocalInv /\ Chain /\ Revised /\ \A n \in Op : Tied(n)
  BY DEF Coordinated, AllTied
<1>2. Transacts(o, call, next, type) /\ o \in Op
  BY <1>1, ExecutedLocal
<1>3. Tells(o) /\ (SameVersion \/ NewVersion)
  BY <1>1, OutcomeTells
<1>4. Revised'
  BY <1>1, <1>2, <1>3, TransactRevised
<1>5. Tied(o)'
  BY <1>1, <1>2, TransactOwn
<1>6. ASSUME NEW n \in Op \ {o} PROVE Tied(n)'
  BY <1>1, <1>2, <1>3, TransactOthers
<1>. QED BY <1>4, <1>5, <1>6 DEF AllTied

LEMMA NextCoordinated ==
    ASSUME MaxEvictions = 0, Coordinated, [Next]_vars
    PROVE  Coordinated' /\ ~EvictElsewhere
<1>0. /\ LocalInv /\ Kept /\ Chain /\ AllTied /\ Revised /\ \A n \in Op : Tied(n)
  BY DEF Coordinated, AllTied
<1>1. LocalInv' /\ Kept' /\ ~EvictElsewhere
  BY <1>0, NextLocal, NextKept
<1>2. Chain'
  BY <1>0, <1>1, NextChain
<1>3. ASSUME NEW o \in Op, LoadCandidate(o) \/ Request(o) \/ Resume(o)
      PROVE  AllTied'
  <2>1. Flow(o) /\ Progress(o)
    BY <1>0, <1>3, ResumeLocal, ResumeProgress
  <2>2. Revised'
    BY <1>0, <2>1, FlowRevised
  <2>3. Tied(o)'
    BY <1>0, <1>1, <2>1, OwnTied
  <2>4. ASSUME NEW n \in Op \ {o} PROVE Tied(n)'
    BY <1>0, <1>1, <2>1, OthersTied
  <2>. QED BY <2>2, <2>3, <2>4 DEF AllTied
<1>4. ASSUME NEW p \in Proc, Execute(p) \/ ExecuteThrows(p)
      PROVE  AllTied'
  <2>1. PICK o, call, next, type : Executed(p, o, call, next, type)
    BY <1>4, Executions
  <2>. QED BY <1>1, <2>1, ExecutedTied
<1>5. ASSUME NEW p \in Proc, Crash(p) PROVE AllTied'
  BY <1>0, <1>5, CrashTied
<1>6. ASSUME UNCHANGED vars PROVE AllTied'
  BY <1>0, <1>6, StutterTied
<1>7. AllTied'
  BY <1>1, <1>3, <1>4, <1>5, <1>6 DEF Next
<1>. QED BY <1>1, <1>2, <1>7 DEF Coordinated

LEMMA InitCoordinated ==
    ASSUME Init
    PROVE  Coordinated
<1>1. Kept
  BY DEF Init, Kept
<1>. QED BY <1>1, InitLocal, InitChain, InitTied DEF Coordinated

LEMMA ReceiptsFollow ==
    ASSUME Coordinated
    PROVE  ReceiptIsOneStep
BY DEF Coordinated, AllTied, Tied, ReceiptOf, ReceiptIsOneStep, digest_of

\* A receipt of a finalization names the authority before its own commit and the one
\* its commit made, whatever was lost, retried or reconciled on the way.
THEOREM ReceiptsAreSteps ==
    ASSUME MaxEvictions = 0
    PROVE  Spec => []ReceiptIsOneStep
<1>1. Init => Coordinated
  BY InitCoordinated
<1>2. Coordinated /\ [Next]_vars => Coordinated'
  BY NextCoordinated
<1>3. Coordinated => ReceiptIsOneStep
  BY ReceiptsFollow
<1>. QED BY <1>1, <1>2, <1>3, PTL DEF Spec

-----------------------------------------------------------------------------
LEMMA InitRefines ==
    ASSUME Init
    PROVE  Log!Init
<1>1. durable.commitSequence \in Nat
  BY InitLocal, VersionTypes DEF Authority
<1>2. state_of(db, File) = {}
  BY InitStore
<1>. QED BY <1>1, <1>2 DEF Init, Log!Init

\* A step of an operation is its answer in the log, or nothing.
LEMMA ResumeRefines ==
    ASSUME LocalInv, LocalInv', NEW o \in Op, Flow(o), Progress(o), Tied(o)
    PROVE  Log!Answer(o) \/ UNCHANGED Log!vars
<1>1. /\ durable'.commitSequence = durable.commitSequence /\ applied' = applied
      /\ state_of(db, File)' = state_of(db, File)
  BY DEF Flow, durable
<1>2. CASE answer' = answer
  BY <1>1, <1>2 DEF Log!vars
<1>3. CASE /\ answer[o] = "none"
           /\ answer' = [answer EXCEPT ![o] = answer'[o]] /\ answer'[o] \in Results
           /\ answer'[o] = "committed" =>
                 IF KindOf[o] = "highlight" THEN o \in held_state ELSE applied[o] > 0
           /\ KindOf[o] = "projection" /\ answer'[o] \in {"rejected", "failed"} => applied[o] = 0
           /\ answer'[o] = "stale" => applied[o] = 0
  <2>1. Log!truthful(o, answer'[o])
    BY <1>3 DEF Log!truthful, held_state
  <2>2. answer'[o] \in {"committed", "rejected", "indeterminate", "advanced", "stale", "failed"}
    BY <1>3 DEF Results
  <2>. QED BY <1>1, <1>3, <2>1, <2>2 DEF Log!Answer
<1>. QED BY <1>2, <1>3, AnswerTrue

\* A transaction is a commit, the write of a highlight, or nothing.
LEMMA ExecutedRefines ==
    ASSUME Coordinated, NEW p \in Proc, NEW o \in Op, NEW call, NEW next, NEW type,
           Executed(p, o, call, next, type)
    PROVE  Log!Commit(o) \/ Log!Write(o) \/ UNCHANGED Log!vars
<1>1. LocalInv /\ Chain /\ Revised /\ Tied(o)
  BY DEF Coordinated, AllTied
<1>2. Transacts(o, call, next, type)
  BY <1>1, ExecutedLocal
<1>3. /\ answer' = answer
      /\ call # "discard" => pc[o] = call /\ loc[o].reply.type = "none"
  BY <1>2 DEF Transacts
<1>4. CASE Leaves(o, call) \/ Stages(o, call) \/ Discards(o, call)
  BY <1>3, <1>4 DEF Leaves, Stages, Discards, SameVersion, held_state, Log!vars
<1>5. ASSUME call = "finalize", NEW s, Finalizes(o, s) PROVE Log!Commit(o)
  <2>1. /\ KindOf[o] \in {"physical", "projection"} /\ applied[o] = 0
        /\ durable'.commitSequence = durable.commitSequence + 1
        /\ held_state' = IF planned_state(o) = NoState THEN held_state ELSE held_state \cup {o}
        /\ applied' = [applied EXCEPT ![o] = durable'.commitSequence]
    BY <1>1, <1>3, <1>5, FinalizeCommits
  <2>2. answer[o] = "none"
    BY <1>1, <1>3, <1>5 DEF Tied, Unanswered
  <2>3. planned_state(o) = NoState <=> KindOf[o] = "physical" /\ o \notin ChangesState
    <3>1. loc[o].state \cup {o} \in SUBSET Op
      BY <1>1, StandsThere DEF Locals
    <3>. QED BY <3>1, MarkerAssumption DEF planned_state
  <2>. QED BY <1>3, <2>1, <2>2, <2>3 DEF Log!Commit, held_state
<1>6. CASE Writes(o, call)
  <2>1. /\ KindOf[o] = "highlight" /\ held_state' = held_state \cup {o}
        /\ durable' = durable /\ applied' = applied
    BY <1>1, <1>3, <1>6, WriteMarks
  <2>2. pc[o] = "cas" /\ loc[o].reply.type = "none"
    BY <1>3, <1>6 DEF Writes
  <2>3. answer[o] = "none" /\ o \notin held_state
    BY <1>1, <2>1, <2>2 DEF Tied, Unanswered, Marked
  <2>. QED BY <1>3, <2>1, <2>3 DEF Log!Write, held_state
<1>. QED BY <1>1, <1>4, <1>5, <1>6, Outcomes

LEMMA NextRefines ==
    ASSUME MaxEvictions = 0, Coordinated, [Next]_vars
    PROVE  [Log!Next]_(Log!vars)
<1>0. /\ LocalInv /\ Chain /\ (\A n \in Op : Tied(n)) /\ LocalInv' /\ ~EvictElsewhere
  BY NextCoordinated DEF Coordinated, AllTied
<1>1. ASSUME NEW o \in Op, LoadCandidate(o) \/ Request(o) \/ Resume(o)
      PROVE  Log!Answer(o) \/ UNCHANGED Log!vars
  <2>1. Flow(o) /\ Progress(o)
    BY <1>0, <1>1, ResumeLocal, ResumeProgress
  <2>. QED BY <1>0, <2>1, ResumeRefines
<1>2. ASSUME NEW p \in Proc, Execute(p) \/ ExecuteThrows(p)
      PROVE  \/ \E o \in Op : Log!Commit(o) \/ Log!Write(o)
             \/ UNCHANGED Log!vars
  <2>1. PICK o, call, next, type : Executed(p, o, call, next, type)
    BY <1>2, Executions
  <2>2. o \in Op
    BY <1>0, <2>1, ExecutedLocal
  <2>. QED BY <2>1, <2>2, ExecutedRefines
<1>3. ASSUME NEW p \in Proc, Crash(p) PROVE UNCHANGED Log!vars
  BY <1>3 DEF Crash, durable, Log!vars
<1>4. ASSUME UNCHANGED vars PROVE UNCHANGED Log!vars
  BY <1>4 DEF vars, durable, Log!vars
<1>. QED BY <1>0, <1>1, <1>2, <1>3, <1>4 DEF Next, Log!Next

\* The protocol implements an atomic log of commits: every step is a commit,
\* an answer or nothing to CommitLog, whatever was lost, retried or reconciled.
THEOREM RefinesCommitLog ==
    ASSUME MaxEvictions = 0
    PROVE  Spec => ImplementsCommitLog
<1>1. Init => Coordinated /\ Log!Init
  BY InitCoordinated, InitRefines
<1>2. Coordinated /\ [Next]_vars => Coordinated' /\ [Log!Next]_(Log!vars)
  BY NextCoordinated, NextRefines
<1>. QED BY <1>1, <1>2, PTL DEF Spec, ImplementsCommitLog, Log!Spec

-----------------------------------------------------------------------------
(* The header settings of a process stand in line in the order they began. *)

Header(o) == KindOf[o] = "projection"

Older(e, o, n) == Header(o) /\ Header(n) /\ e.ordinal[o] < e.ordinal[n]

\* A valid header setting that a newer valid one follows waits for the turn or has it,
\* and none is older than the one that has the turn; those in `but` aside.
InLine(e, but) ==
    /\ \A o \in Op : e.ordinal[o] < e.nextOrdinal
    /\ \A o \in Op \ but : \A n \in Op :
          Older(e, o, n) /\ e.status[o] = "valid" =>
             /\ e.status[n] = "valid" => o \in e.requests \cup {e.activeTurn}
             /\ n # e.activeTurn

\* No operation begins or becomes valid.
Narrows(e, f) ==
    /\ f \in Shape
    /\ f.ordinal = e.ordinal /\ f.nextOrdinal = e.nextOrdinal
    /\ \A n \in Op : f.status[n] = "valid" => e.status[n] = "valid"

LEMMA NarrowsTransitive ==
    ASSUME NEW e, NEW f, NEW g, Narrows(e, f), Narrows(f, g)
    PROVE  Narrows(e, g)
BY DEF Narrows

LEMMA NarrowsReflexive ==
    ASSUME NEW e \in Shape
    PROVE  Narrows(e, e)
BY DEF Narrows

LEMMA InLineNarrowed ==
    ASSUME NEW e \in Shape, NEW f, NEW but, InLine(e, but), Narrows(e, f),
           \/ f.activeTurn = e.activeTurn
           \/ f.activeTurn = NoOp /\ e.activeTurn \in but \cup {NoOp},
           \A n \in e.requests : f.status[n] = "valid" => n \in f.requests
    PROVE  InLine(f, but)
<1>1. \A o \in Op : f.ordinal[o] < f.nextOrdinal
  BY DEF InLine, Narrows
<1>2. ASSUME NEW o \in Op \ but, NEW n \in Op, Older(f, o, n), f.status[o] = "valid"
      PROVE  /\ f.status[n] = "valid" => o \in f.requests \cup {f.activeTurn}
             /\ n # f.activeTurn
  <2>1. Older(e, o, n) /\ e.status[o] = "valid"
    BY <1>2 DEF Older, Narrows
  <2>2. /\ e.status[n] = "valid" => o \in e.requests \cup {e.activeTurn}
        /\ n # e.activeTurn
    BY <2>1 DEF InLine
  <2>3. n # NoOp /\ o # NoOp
    BY EntryAssumption
  <2>4. f.status[n] = "valid" => e.status[n] = "valid"
    BY DEF Narrows
  <2>. QED BY <1>2, <2>2, <2>3, <2>4
<1>. QED BY <1>1, <1>2 DEF InLine

LEMMA InLineFewer ==
    ASSUME NEW e, NEW o \in Op, InLine(e, {o}), e.status[o] # "valid" \/ ~Header(o)
    PROVE  InLine(e, {})
BY DEF InLine, Older

LEMMA InLineMore ==
    ASSUME NEW e, NEW but, InLine(e, {})
    PROVE  InLine(e, but)
BY DEF InLine

LEMMA ActivateInLine ==
    ASSUME NEW e \in Shape, NEW but, InLine(e, but)
    PROVE  Narrows(e, activate_turn(e)) /\ InLine(activate_turn(e), but)
<1>. DEFINE f == activate_turn(e)
<1>. HIDE DEF f
<1>1. /\ f \in Shape /\ f.status = e.status /\ f.ordinal = e.ordinal
      /\ f.nextOrdinal = e.nextOrdinal
      /\ f = e \/ Granted(e, f)
  BY ActivateFields DEF f
<1>2. Narrows(e, f)
  BY <1>1 DEF Narrows
<1>3. ASSUME Granted(e, f) PROVE InLine(f, but)
  <2>1. PICK first \in e.requests :
            /\ e.activeTurn = NoOp /\ e.status[first] = "valid"
            /\ \A other \in e.requests :
                  e.status[other] = "valid" => e.ordinal[first] <= e.ordinal[other]
            /\ f.requests = e.requests \ {first}
            /\ f.activeTurn = first
    BY <1>3 DEF Granted
  <2>2. \A o \in Op : f.ordinal[o] < f.nextOrdinal
    BY <1>1 DEF InLine
  <2>3. ASSUME NEW o \in Op \ but, NEW n \in Op, Older(f, o, n), f.status[o] = "valid"
        PROVE  /\ f.status[n] = "valid" => o \in f.requests \cup {f.activeTurn}
               /\ n # f.activeTurn
    <3>1. Older(e, o, n) /\ e.status[o] = "valid" /\ o # NoOp
      BY <2>3, <1>1, EntryAssumption DEF Older
    <3>2. e.status[n] = "valid" => o \in e.requests \cup {e.activeTurn}
      BY <3>1 DEF InLine
    <3>3. e.status[n] = "valid" => o \in e.requests
      BY <3>1, <3>2, <2>1
    <3>4. ASSUME n = first PROVE FALSE
      <4>1. e.ordinal[first] <= e.ordinal[o]
        BY <3>1, <3>3, <3>4, <2>1
      <4>2. e.ordinal[o] < e.ordinal[first]
        BY <3>1, <3>4 DEF Older
      <4>3. e.ordinal[o] \in Nat /\ e.ordinal[first] \in Nat
        BY <3>4 DEF Shape
      <4>. QED BY <4>1, <4>2, <4>3
    <3>. QED BY <3>3, <3>4, <2>1, <1>1
  <2>. QED BY <2>2, <2>3 DEF InLine
<1>. QED BY <1>1, <1>2, <1>3 DEF f

LEMMA RejectInLine ==
    ASSUME NEW e \in Shape, NEW but, InLine(e, but), NEW ops \in SUBSET Op
    PROVE  Narrows(e, reject_operations(e, ops)) /\ InLine(reject_operations(e, ops), but)
<1>. DEFINE f == reject_operations(e, ops)
<1>. HIDE DEF f
<1>1. /\ f \in Shape /\ f.ordinal = e.ordinal /\ f.nextOrdinal = e.nextOrdinal
      /\ f.activeTurn = e.activeTurn /\ f.requests = e.requests \ ops
      /\ \A n \in Op : f.status[n] = IF n \in ops THEN "invalid" ELSE e.status[n]
  BY RejectOperationsFields DEF f
<1>2. Narrows(e, f)
  BY <1>1 DEF Narrows
<1>3. \A n \in e.requests : f.status[n] = "valid" => n \in f.requests
  BY <1>1 DEF Shape
<1>. QED BY <1>1, <1>2, <1>3, InLineNarrowed DEF f

LEMMA InvalidateInLine ==
    ASSUME NEW e \in Shape, NEW but, InLine(e, but), NEW physicalChange, NEW digest
    PROVE  /\ Narrows(e, invalidate(e, physicalChange, digest))
           /\ InLine(invalidate(e, physicalChange, digest), but)
<1>. DEFINE ops == {o \in valid_operations(e) \ {e.activeTurn} :
                       \/ KindOf[o] = "physical" /\ DigestOf[o] # digest
                       \/ KindOf[o] = "projection" /\ physicalChange}
            r   == reject_operations(e, ops)
<1>1. invalidate(e, physicalChange, digest) = activate_turn(r)
  BY DEF invalidate
<1>2. ops \in SUBSET Op
  BY DEF valid_operations
<1>. HIDE DEF ops
<1>3. Narrows(e, r) /\ InLine(r, but)
  BY <1>2, RejectInLine
<1>. HIDE DEF r
<1>4. Narrows(r, activate_turn(r)) /\ InLine(activate_turn(r), but)
  BY <1>3, ActivateInLine DEF Narrows
<1>. QED BY <1>1, <1>3, <1>4, NarrowsTransitive

LEMMA InstallInLine ==
    ASSUME NEW e \in Shape, NEW but, InLine(e, but), NEW candidate \in Authority, NEW finishing
    PROVE  /\ Narrows(e, install_authority(e, candidate, finishing))
           /\ InLine(install_authority(e, candidate, finishing), but)
<1>. DEFINE f == install_authority(e, candidate, finishing)
            a == [e EXCEPT !.authority = candidate]
            token == IF finishing # NoOp THEN finishing
                     ELSE exact_finalizing_projection_token(e, candidate)
            physicalChange   == \/ e.authority.physicalRevision # a.authority.physicalRevision
                                \/ e.authority.physicalDigest # a.authority.physicalDigest
            projectionChange == e.authority.projectionRevision # a.authority.projectionRevision
            superseded(o)    ==
               \/ /\ physicalChange
                  /\ KindOf[o] = "projection" \/ DigestOf[o] # a.authority.physicalDigest
               \/ /\ projectionChange
                  /\ KindOf[o] = "projection"
                  /\ token = NoOp \/ a.ordinal[o] < a.ordinal[token]
            ops == {o \in valid_operations(a) \ {token} : superseded(o)}
            r == reject_operations(a, ops)
<1>1. CASE install_type(e, candidate) # "installed"
  <2>1. f = e
    BY <1>1 DEF install_authority
  <2>. QED BY <2>1, <1>1, NarrowsReflexive
<1>2. CASE install_type(e, candidate) = "installed"
  <2>1. f = activate_turn(r)
    BY <1>2 DEF install_authority, invalidate_after_authority_install
  <2>2. /\ a \in Shape
        /\ a.status = e.status /\ a.ordinal = e.ordinal /\ a.nextOrdinal = e.nextOrdinal
        /\ a.requests = e.requests /\ a.activeTurn = e.activeTurn
    BY DEF Shape
  <2>3. ops \in SUBSET Op
    BY DEF valid_operations
  <2>. HIDE DEF ops, a, f
  <2>4. Narrows(e, a)
    BY <2>2 DEF Narrows
  <2>5. InLine(a, but)
    BY <2>2, <2>4, InLineNarrowed
  <2>6. Narrows(a, r) /\ InLine(r, but)
    BY <2>2, <2>3, <2>5, RejectInLine
  <2>. HIDE DEF r
  <2>7. Narrows(r, f) /\ InLine(f, but)
    BY <2>1, <2>6, ActivateInLine DEF Narrows
  <2>. QED BY <2>4, <2>6, <2>7, NarrowsTransitive DEF f
<1>. QED BY <1>1, <1>2

-----------------------------------------------------------------------------
LEMMA RequestInLine ==
    ASSUME NEW e \in Shape, InLine(e, {}), NEW o \in Op
    PROVE  Narrows(e, request_commit_turn(e, o)) /\ InLine(request_commit_turn(e, o), {})
<1>. DEFINE f == request_commit_turn(e, o)
            t == [e EXCEPT !.turn[o] = "rejected"]
            q == [e EXCEPT !.requested = @ \cup {o}, !.requests = @ \cup {o}, !.turn[o] = "none"]
<1>1. f = t \/ f = e \/ f = activate_turn(q)
  BY DEF request_commit_turn
<1>2. /\ t \in Shape /\ t.status = e.status /\ t.ordinal = e.ordinal
      /\ t.nextOrdinal = e.nextOrdinal /\ t.requests = e.requests
      /\ t.activeTurn = e.activeTurn
  BY DEF Shape
<1>3. /\ q \in Shape /\ q.status = e.status /\ q.ordinal = e.ordinal
      /\ q.nextOrdinal = e.nextOrdinal /\ q.requests = e.requests \cup {o}
      /\ q.activeTurn = e.activeTurn
  BY DEF Shape
<1>. HIDE DEF t, q, f
<1>4. Narrows(e, t) /\ Narrows(e, q) /\ Narrows(e, e)
  BY <1>2, <1>3 DEF Narrows
<1>5. InLine(t, {}) /\ InLine(q, {})
  BY <1>2, <1>3, <1>4, InLineNarrowed
<1>6. Narrows(q, activate_turn(q)) /\ InLine(activate_turn(q), {})
  BY <1>3, <1>5, ActivateInLine
<1>. QED BY <1>1, <1>4, <1>5, <1>6, NarrowsTransitive DEF f

\* Who gives the turn up may stand outside the line.
LEMMA ReleaseInLine ==
    ASSUME NEW e \in Shape, InLine(e, {}), NEW o \in Op
    PROVE  /\ Narrows(e, release_commit_turn(e, o))
           /\ InLine(release_commit_turn(e, o), {o})
           /\ e.activeTurn = o =>
                \A n \in Op : n = release_commit_turn(e, o).activeTurn =>
                   release_commit_turn(e, o).status[n] = "valid"
<1>. DEFINE f == release_commit_turn(e, o)
<1>1. CASE e.activeTurn # o
  <2>1. f = e
    BY <1>1 DEF release_commit_turn
  <2>. QED BY <2>1, <1>1, NarrowsReflexive, InLineMore
<1>2. CASE e.activeTurn = o
  <2>. DEFINE q == [e EXCEPT !.requested = @ \ {o}, !.activeTurn = NoOp]
  <2>1. f = activate_turn(q)
    BY <1>2 DEF release_commit_turn
  <2>2. /\ q \in Shape /\ q.status = e.status /\ q.ordinal = e.ordinal
        /\ q.nextOrdinal = e.nextOrdinal /\ q.requests = e.requests
        /\ q.activeTurn = NoOp
    BY DEF Shape
  <2>. HIDE DEF q, f
  <2>3. InLine(e, {o}) /\ Narrows(e, q)
    BY <2>2, InLineMore DEF Narrows
  <2>4. InLine(q, {o})
    BY <1>2, <2>2, <2>3, InLineNarrowed
  <2>5. Narrows(q, f) /\ InLine(f, {o})
    BY <2>1, <2>2, <2>4, ActivateInLine
  <2>6. f.status = q.status /\ (f = q \/ Granted(q, f))
    BY <2>1, <2>2, ActivateFields
  <2>7. ASSUME NEW n \in Op, n = f.activeTurn PROVE f.status[n] = "valid"
    <3>1. n # q.activeTurn
      BY <2>2, EntryAssumption
    <3>. QED BY <2>6, <2>7, <3>1 DEF Granted
  <2>. QED BY <2>3, <2>5, <2>7, NarrowsTransitive DEF f
<1>. QED BY <1>1, <1>2

LEMMA FinishInLine ==
    ASSUME NEW e \in Shape, NEW o \in Op, InLine(e, {o})
    PROVE  Narrows(e, finish(e, o)) /\ InLine(finish(e, o), {})
<1>. DEFINE f == finish(e, o)
            r == reject_requests(e, {o})
            q == [r EXCEPT !.status[o] = "none", !.requested = @ \ {o}, !.operations = @ - 1]
<1>1. CASE e.status[o] = "none"
  <2>1. f = e
    BY <1>1 DEF finish
  <2>2. InLine(e, {})
    BY <1>1, InLineFewer
  <2>. QED BY <2>1, <2>2, NarrowsReflexive
<1>2. CASE e.status[o] # "none"
  <2>1. f = activate_turn(q)
    BY <1>2 DEF finish
  <2>2. /\ r \in Shape
        /\ r.status = e.status /\ r.ordinal = e.ordinal /\ r.nextOrdinal = e.nextOrdinal
        /\ r.activeTurn = e.activeTurn /\ r.operations = e.operations
        /\ r.requests = e.requests \ {o}
    BY RejectFields
  <2>. HIDE DEF r
  <2>. DEFINE c == r.operations - 1
  <2>3. c \in Int
    BY <2>2 DEF Shape
  <2>4. q = [r EXCEPT !.status[o] = "none", !.requested = @ \ {o}, !.operations = c]
    OBVIOUS
  <2>. HIDE DEF q, c
  <2>6. /\ q \in Shape
        /\ q.ordinal = r.ordinal /\ q.nextOrdinal = r.nextOrdinal
        /\ q.status = [r.status EXCEPT ![o] = "none"]
        /\ q.requests = r.requests /\ q.activeTurn = r.activeTurn
    BY <2>2, <2>3, <2>4 DEF Shape
  <2>. HIDE DEF f
  <2>7. r.status \in [Op -> {"none", "valid", "invalid"}]
    BY <2>2 DEF Shape
  <2>8. Narrows(e, q)
    BY <2>2, <2>6, <2>7 DEF Narrows
  <2>. e.requests \in SUBSET Op
    BY DEF Shape
  <2>9. ASSUME NEW n \in e.requests, q.status[n] = "valid" PROVE n \in q.requests
    <3>1. n # o
      BY <2>6, <2>7, <2>9
    <3>. QED BY <2>2, <2>6, <3>1
  <2>10. InLine(q, {o})
    BY <2>2, <2>6, <2>8, <2>9, InLineNarrowed
  <2>11. InLine(q, {})
    BY <2>6, <2>7, <2>10, InLineFewer
  <2>12. Narrows(q, f) /\ InLine(f, {})
    BY <2>1, <2>6, <2>11, ActivateInLine
  <2>. QED BY <2>8, <2>12, NarrowsTransitive DEF f
<1>. QED BY <1>1, <1>2

LEMMA CancelInLine ==
    ASSUME NEW e \in Shape, NEW o \in Op, ~Header(o), InLine(e, {o})
    PROVE  Narrows(e, cancel(e, o)) /\ InLine(cancel(e, o), {})
<1>. DEFINE q == [e EXCEPT !.activeTurn = NoOp]
<1>1. \/ cancel(e, o) = e
      \/ cancel(e, o) = finish(e, o)
      \/ e.activeTurn = o /\ cancel(e, o) = finish(q, o)
  BY DEF cancel
<1>2. /\ q \in Shape /\ q.status = e.status /\ q.ordinal = e.ordinal
      /\ q.nextOrdinal = e.nextOrdinal /\ q.requests = e.requests
      /\ q.activeTurn = NoOp
  BY DEF Shape
<1>. HIDE DEF q
<1>3. Narrows(e, q)
  BY <1>2 DEF Narrows
<1>4. ASSUME e.activeTurn = o PROVE InLine(q, {o})
  BY <1>2, <1>3, <1>4, InLineNarrowed
<1>5. ASSUME e.activeTurn = o PROVE Narrows(q, finish(q, o)) /\ InLine(finish(q, o), {})
  BY <1>2, <1>4, <1>5, FinishInLine
<1>6. Narrows(e, finish(e, o)) /\ InLine(finish(e, o), {})
  BY FinishInLine
<1>7. Narrows(e, e) /\ InLine(e, {})
  BY NarrowsReflexive, InLineFewer
<1>. QED BY <1>1, <1>3, <1>5, <1>6, <1>7, NarrowsTransitive

LEMMA ConcludeInLine ==
    ASSUME NEW e \in Shape, NEW o \in Op, InLine(e, {}), e.activeTurn = o,
           NEW authority \in Authority
    PROVE  Narrows(e, conclude(e, o, authority)) /\ InLine(conclude(e, o, authority), {})
<1>. DEFINE i == install_authority(e, authority, o)
            q == [i EXCEPT !.activeTurn = NoOp]
<1>1. conclude(e, o, authority) = finish(q, o)
  BY DEF conclude
<1>2. Narrows(e, i) /\ InLine(i, {}) /\ i \in Shape
  BY InstallInLine DEF Narrows
<1>3. i.activeTurn = o
  BY InstallMoves, EntryAssumption
<1>. HIDE DEF i
<1>4. /\ q \in Shape /\ q.status = i.status /\ q.ordinal = i.ordinal
      /\ q.nextOrdinal = i.nextOrdinal /\ q.requests = i.requests
      /\ q.activeTurn = NoOp
  BY <1>2 DEF Shape
<1>. HIDE DEF q
<1>5. Narrows(i, q)
  BY <1>4 DEF Narrows
<1>6. InLine(i, {o})
  BY <1>2, InLineMore
<1>7. InLine(q, {o})
  BY <1>2, <1>3, <1>4, <1>5, <1>6, InLineNarrowed
<1>8. Narrows(q, finish(q, o)) /\ InLine(finish(q, o), {})
  BY <1>4, <1>7, FinishInLine
<1>. QED BY <1>1, <1>2, <1>5, <1>8, NarrowsTransitive

\* An operation begins: it is the newest, and nobody else becomes valid.
Begins(e, f, o) ==
    /\ f \in Shape
    /\ f.ordinal[o] = e.nextOrdinal
    /\ \A n \in Op \ {o} : /\ f.ordinal[n] = e.ordinal[n]
                           /\ f.status[n] = "valid" => e.status[n] = "valid"

LEMMA BegunInLine ==
    ASSUME NEW e \in Shape, NEW i, Narrows(e, i), InLine(i, {}), NEW o \in Op,
           o # i.activeTurn,
           Header(o) => \A n \in Op : Header(n) /\ i.status[n] = "valid"
                                         => n \in i.requests \cup {i.activeTurn}
    PROVE  Begins(e, begun(i, o), o) /\ InLine(begun(i, o), {})
<1>. DEFINE f == begun(i, o)
<1>0. i \in Shape
  BY DEF Narrows
<1>1. /\ f \in Shape
      /\ f.status = [i.status EXCEPT ![o] = "valid"]
      /\ f.ordinal = [i.ordinal EXCEPT ![o] = i.nextOrdinal]
      /\ f.nextOrdinal = i.nextOrdinal + 1
      /\ f.requests = i.requests /\ f.activeTurn = i.activeTurn
  BY <1>0, BeginFields
<1>. HIDE DEF f
<1>2. /\ i.status \in [Op -> {"none", "valid", "invalid"}] /\ i.ordinal \in [Op -> Nat]
      /\ i.nextOrdinal \in Nat
  BY <1>0 DEF Shape
<1>3. \A n \in Op : i.ordinal[n] < i.nextOrdinal
  BY DEF InLine
<1>4. f.ordinal[o] = i.nextOrdinal /\ \A n \in Op \ {o} : f.ordinal[n] = i.ordinal[n]
  BY <1>1, <1>2
<1>5. \A n \in Op : f.ordinal[n] < f.nextOrdinal
  BY <1>1, <1>2, <1>3, <1>4
<1>6. ASSUME NEW m \in Op, NEW n \in Op, Older(f, m, n), f.status[m] = "valid"
      PROVE  /\ f.status[n] = "valid" => m \in f.requests \cup {f.activeTurn}
             /\ n # f.activeTurn
  <2>1. m # o
    <3>1. f.ordinal[n] <= i.nextOrdinal /\ f.ordinal[n] \in Nat
      BY <1>2, <1>3, <1>4
    <3>. QED BY <1>2, <1>4, <1>6, <3>1 DEF Older
  <2>2. i.status[m] = "valid" /\ Header(m) /\ Header(n)
    BY <1>1, <1>2, <1>6, <2>1 DEF Older
  <2>3. CASE n = o
    BY <1>1, <2>2, <2>3
  <2>4. CASE n # o
    <3>1. Older(i, m, n) /\ (f.status[n] = "valid" => i.status[n] = "valid")
      BY <1>1, <1>2, <1>4, <1>6, <2>1, <2>4 DEF Older
    <3>. QED BY <1>1, <2>2, <3>1 DEF InLine
  <2>. QED BY <2>3, <2>4
<1>7. Begins(e, f, o)
  BY <1>1, <1>2, <1>4 DEF Begins, Narrows
<1>. QED BY <1>5, <1>6, <1>7 DEF InLine, f

LEMMA BeginPhysicalInLine ==
    ASSUME NEW e \in Shape, NEW o \in Op, Away(e, o), KindOf[o] = "physical", InLine(e, {})
    PROVE  Begins(e, begin_physical(e, o), o) /\ InLine(begin_physical(e, o), {})
<1>. DEFINE i == invalidate(e, e.authority.physicalDigest # DigestOf[o], DigestOf[o])
<1>1. begin_physical(e, o) = begun(i, o)
  BY DEF begin_physical, begun
<1>2. Narrows(e, i) /\ InLine(i, {}) /\ Moves(e, i, {})
  BY InvalidateInLine, InvalidateMoves
<1>. HIDE DEF i
<1>3. Away(i, o)
  BY <1>2 DEF Moves, Keeps
<1>. QED BY <1>1, <1>2, <1>3, BegunInLine DEF Away, Header

\* Whoever asked for the turn and is valid still waits for it or has it.
LEMMA BeginProjectionInLine ==
    ASSUME NEW e \in Shape, NEW o \in Op, Away(e, o), InLine(e, {}),
           \A n \in e.requested : e.status[n] = "valid" => n \in e.requests \cup {e.activeTurn}
    PROVE  Begins(e, begin_projection(e, o), o) /\ InLine(begin_projection(e, o), {})
<1>. DEFINE older == {x \in valid_operations(e) \ ({e.activeTurn} \cup e.requested) :
                         KindOf[x] = "projection"}
            i == reject_operations(e, older)
<1>1. begin_projection(e, o) = begun(i, o)
  BY DEF begin_projection, begun
<1>2. older \in SUBSET Op
  BY DEF valid_operations
<1>3. /\ i.activeTurn = e.activeTurn /\ i.requests = e.requests \ older
      /\ \A n \in Op : i.status[n] = IF n \in older THEN "invalid" ELSE e.status[n]
  BY <1>2, RejectOperationsFields
<1>4. Narrows(e, i) /\ InLine(i, {})
  BY <1>2, RejectInLine
<1>. HIDE DEF i
<1>5. ASSUME NEW n \in Op, Header(n), i.status[n] = "valid"
      PROVE  n \in i.requests \cup {i.activeTurn}
  <2>1. n \notin older /\ e.status[n] = "valid"
    BY <1>3, <1>5
  <2>2. n \in e.requested \cup {e.activeTurn}
    BY <2>1, <1>5 DEF valid_operations, Header
  <2>. QED BY <1>3, <2>1, <2>2
<1>6. o # i.activeTurn
  BY <1>3 DEF Away
<1>. QED BY <1>1, <1>4, <1>5, <1>6, BegunInLine

-----------------------------------------------------------------------------
\* What the step of an operation does to the line of its process.
Ranks(o) ==
    /\ InLine(entry'[ProcOf[o]], {})
    /\ \/ Narrows(entry[ProcOf[o]], entry'[ProcOf[o]])
       \/ /\ Begins(entry[ProcOf[o]], entry'[ProcOf[o]], o)
          /\ pc[o] \in {"loaded", "requested"}
    /\ Header(o) /\ pc'[o] \in Deciding =>
          pc[o] \in Deciding \/ entry[ProcOf[o]].status[o] = "valid"

\* o is not about to decide, unless it may.
Permitted(o) ==
    Header(o) /\ pc'[o] \in Deciding =>
       pc[o] \in Deciding \/ entry[ProcOf[o]].status[o] = "valid"

\* new is an entry that o may leave behind.
LeavesBehind(o, new) == Narrows(entry[ProcOf[o]], new) /\ InLine(new, {o})

LEMMA StayRanks ==
    ASSUME LocalInv, NEW o \in Op, NEW new, SetEntry(o, new), Permitted(o),
           Narrows(entry[ProcOf[o]], new), InLine(new, {})
    PROVE  Ranks(o)
<1>1. entry \in [Proc -> Shape] /\ ProcOf[o] \in Proc
  BY StandsThere DEF Types
<1>2. entry'[ProcOf[o]] = new
  BY <1>1 DEF SetEntry
<1>. QED BY <1>2 DEF Ranks, Permitted

LEMMA HereRanks ==
    ASSUME LocalInv, NEW o \in Op, InLine(entry[ProcOf[o]], {}), UNCHANGED entry, Permitted(o)
    PROVE  Ranks(o)
BY StandsThere, NarrowsReflexive DEF Ranks, Permitted

LEMMA LeavesHere ==
    ASSUME LocalInv, NEW o \in Op, InLine(entry[ProcOf[o]], {})
    PROVE  LeavesBehind(o, entry[ProcOf[o]])
BY StandsThere, NarrowsReflexive, InLineMore DEF LeavesBehind

LEMMA LeavesReleased ==
    ASSUME LocalInv, NEW o \in Op, InLine(entry[ProcOf[o]], {})
    PROVE  LeavesBehind(o, release_commit_turn(entry[ProcOf[o]], o))
BY StandsThere, ReleaseInLine DEF LeavesBehind

LEMMA LeavesConcluded ==
    ASSUME LocalInv, NEW o \in Op, InLine(entry[ProcOf[o]], {}),
           NEW authority \in Authority, entry[ProcOf[o]].activeTurn = o
    PROVE  LeavesBehind(o, conclude(entry[ProcOf[o]], o, authority))
BY StandsThere, ConcludeInLine, InLineMore DEF LeavesBehind

LEMMA EndRanks ==
    ASSUME LocalInv, NEW o \in Op, NEW new, NEW result, NEW published, LeavesBehind(o, new),
           EndWith(o, new, result, published)
    PROVE  Ranks(o)
<1>. DEFINE f == IF KindOf[o] = "physical" THEN cancel(new, o) ELSE finish(new, o)
<1>1. Narrows(entry[ProcOf[o]], new) /\ InLine(new, {o}) /\ new \in Shape
  BY DEF LeavesBehind, Narrows
<1>2. Narrows(new, f) /\ InLine(f, {})
  BY <1>1, CancelInLine, FinishInLine DEF Header
<1>3. SetEntry(o, f) /\ pc' = [pc EXCEPT ![o] = "done"]
  BY DEF EndWith
<1>. HIDE DEF f
<1>4. Permitted(o)
  <2>1. pc'[o] = "done"
    BY <1>3, StandsThere DEF Types
  <2>. QED BY <2>1 DEF Permitted, Deciding
<1>. QED BY <1>1, <1>2, <1>3, <1>4, NarrowsTransitive, StayRanks

LEMMA EndHereRanks ==
    ASSUME LocalInv, NEW o \in Op, NEW result, InLine(entry[ProcOf[o]], {}),
           End(o, entry[ProcOf[o]], result)
    PROVE  Ranks(o)
BY LeavesHere, EndRanks DEF End

LEMMA EndReleasedRanks ==
    ASSUME LocalInv, NEW o \in Op, NEW result, InLine(entry[ProcOf[o]], {}),
           End(o, release_commit_turn(entry[ProcOf[o]], o), result)
    PROVE  Ranks(o)
BY LeavesReleased, EndRanks DEF End

LEMMA EndObservedRanks ==
    ASSUME LocalInv, NEW o \in Op, NEW result, NEW authority \in Authority,
           InLine(entry[ProcOf[o]], {}), entry[ProcOf[o]].activeTurn = o,
           EndObserved(o, authority, result)
    PROVE  Ranks(o)
BY LeavesConcluded, EndRanks DEF EndObserved, End

LEMMA EndCommittedRanks ==
    ASSUME LocalInv, NEW o \in Op, NEW authority \in Authority,
           InLine(entry[ProcOf[o]], {}), entry[ProcOf[o]].activeTurn = o,
           EndCommitted(o, authority)
    PROVE  Ranks(o)
BY LeavesConcluded, EndRanks DEF EndCommitted, End

\* A call that leaves the entry as it is.
LEMMA AskHereRanks ==
    ASSUME LocalInv, NEW o \in Op, NEW call, NEW l, InLine(entry[ProcOf[o]], {}),
           UNCHANGED entry, Call(o, call, l),
           \/ call \notin Deciding \/ pc[o] \in Deciding \/ ~Header(o)
    PROVE  Ranks(o)
<1>1. pc'[o] = call
  BY StandsThere DEF Call, Types
<1>. QED BY <1>1, HereRanks DEF Permitted

\* A call after a change of the entry that lets nobody begin.
LEMMA AskRanks ==
    ASSUME LocalInv, NEW o \in Op, NEW call, NEW l, NEW new,
           Narrows(entry[ProcOf[o]], new), InLine(new, {}),
           SetEntry(o, new), Call(o, call, l),
           \/ call \notin Deciding \/ pc[o] \in Deciding \/ ~Header(o)
           \/ entry[ProcOf[o]].status[o] = "valid"
    PROVE  Ranks(o)
<1>1. pc'[o] = call
  BY StandsThere DEF Call, Types
<1>. QED BY <1>1, StayRanks DEF Permitted

LEMMA AwaitRanks ==
    ASSUME LocalInv, NEW o \in Op, NEW await \in {"turn", "observe"}, NEW l,
           InLine(entry[ProcOf[o]], {}), AwaitTurn(o, entry[ProcOf[o]], await, l)
    PROVE  Ranks(o)
<1>1. /\ Narrows(entry[ProcOf[o]], request_commit_turn(entry[ProcOf[o]], o))
      /\ InLine(request_commit_turn(entry[ProcOf[o]], o), {})
  BY StandsThere, RequestInLine
<1>2. pc'[o] = await /\ SetEntry(o, request_commit_turn(entry[ProcOf[o]], o))
  BY StandsThere DEF AwaitTurn, Types
<1>. QED BY <1>1, <1>2, StayRanks DEF Permitted, Deciding

\* An operation that is given up before it began.
LEMMA RestingRanks ==
    ASSUME LocalInv, NEW o \in Op, NEW await \in Resting, InLine(entry[ProcOf[o]], {}),
           UNCHANGED entry, pc' = [pc EXCEPT ![o] = await]
    PROVE  Ranks(o)
<1>1. pc'[o] = await
  BY StandsThere DEF Types
<1>. QED BY <1>1, HereRanks DEF Permitted, Deciding, Resting

LEMMA FinalizationRanks ==
    ASSUME LocalInv, NEW o \in Op, NEW l, InLine(entry[ProcOf[o]], {}),
           SetEntry(o, start_finalization(entry[ProcOf[o]])), Call(o, "finalize", l),
           ~Header(o) \/ entry[ProcOf[o]].status[o] = "valid"
    PROVE  Ranks(o)
<1>. DEFINE e == entry[ProcOf[o]]
            f == start_finalization(e)
<1>1. e \in Shape
  BY StandsThere
<1>2. /\ f \in Shape /\ f.status = e.status /\ f.ordinal = e.ordinal
      /\ f.nextOrdinal = e.nextOrdinal /\ f.requests = e.requests
      /\ f.activeTurn = e.activeTurn
  BY <1>1 DEF start_finalization, Shape
<1>. HIDE DEF e, f
<1>3. Narrows(e, f)
  BY <1>2 DEF Narrows
<1>4. InLine(f, {})
  BY <1>1, <1>2, <1>3, InLineNarrowed DEF e
<1>. QED BY <1>3, <1>4, AskRanks DEF e, f

\* Who decides, or was granted the turn, has it.
LEMMA HasTurn ==
    ASSUME LocalInv, NEW o \in Op, KindOf[o] # "highlight",
           \/ pc[o] \in Deciding
           \/ pc[o] \in {"turn", "observe"} /\ entry[ProcOf[o]].turn[o] = "granted"
    PROVE  entry[ProcOf[o]].activeTurn = o
BY StandsThere DEF Stands, Resting, Deciding, Waiting, Finalizing

LEMMA Authorities ==
    ASSUME LocalInv, NEW o \in Op
    PROVE  loc[o].reply.authority \in Authority /\ loc[o].finalized \in Authority
BY StandsThere DEF Locals, Reply

-----------------------------------------------------------------------------
(* Each action keeps the line of its process. *)

LEMMA BeginRanks ==
    ASSUME LocalInv, NEW o \in Op, NEW new, pc[o] \in {"loaded", "requested"},
           SetEntry(o, new), Call(o, "read", loc[o]),
           Begins(entry[ProcOf[o]], new, o), InLine(new, {})
    PROVE  Ranks(o)
<1>1. entry \in [Proc -> Shape] /\ ProcOf[o] \in Proc /\ pc \in [Op -> Awaits]
  BY StandsThere DEF Types
<1>2. entry'[ProcOf[o]] = new /\ pc'[o] = "read"
  BY <1>1 DEF SetEntry, Call
<1>. QED BY <1>2 DEF Ranks, Deciding

LEMMA BeginPhysicalRanks ==
    ASSUME LocalInv, NEW o \in Op, InLine(entry[ProcOf[o]], {}), BeginPhysical(o),
           pc[o] = "loaded" => KindOf[o] = "physical"
    PROVE  Ranks(o)
<1>. DEFINE this == entry[ProcOf[o]]
            new == begin_physical(this, o)
<1>1. pc[o] = "loaded"
  BY DEF BeginPhysical
<1>2. KindOf[o] = "physical"
  BY <1>1
<1>3. Away(this, o) /\ this \in Shape
  BY <1>1, StandsThere DEF Stands, Resting
<1>4. Begins(this, new, o) /\ InLine(new, {})
  BY <1>2, <1>3, BeginPhysicalInLine
<1>5. \/ SetEntry(o, new) /\ Call(o, "read", loc[o])
      \/ UNCHANGED entry /\ pc' = [pc EXCEPT ![o] = "done"]
  BY DEF BeginPhysical
<1>. HIDE DEF new
<1>6. "done" \in Resting
  BY DEF Resting
<1>. QED BY <1>1, <1>4, <1>5, <1>6, BeginRanks, RestingRanks

LEMMA StartHeaderRanks ==
    ASSUME LocalInv, NEW o \in Op, InLine(entry[ProcOf[o]], {}), StartHeader(o)
    PROVE  Ranks(o)
<1>. DEFINE this == entry[ProcOf[o]]
            new == begin_projection(this, o)
<1>1. pc[o] = "requested"
  BY DEF StartHeader
<1>2. Away(this, o) /\ this \in Shape /\ ProcOf[o] \in Proc
  BY <1>1, StandsThere DEF Stands, Resting
<1>3. ASSUME NEW n \in this.requested, this.status[n] = "valid"
      PROVE  n \in this.requests \cup {this.activeTurn}
  <2>1. n \in Op
    BY <1>2 DEF Shape
  <2>2. Away(this, n) \/ Planning(this, n) \/ Waiting(this, n) \/ Finalizing(this, n)
    BY <1>2, <2>1 DEF LocalInv, Stances, Stands
  <2>. QED BY <1>3, <2>2 DEF Away, Planning, Waiting, Finalizing
<1>4. Begins(this, new, o) /\ InLine(new, {})
  BY <1>2, <1>3, BeginProjectionInLine
<1>5. \/ SetEntry(o, new) /\ Call(o, "read", loc[o])
      \/ UNCHANGED entry /\ pc' = [pc EXCEPT ![o] = "done"]
  BY DEF StartHeader
<1>. HIDE DEF new
<1>6. "done" \in Resting
  BY DEF Resting
<1>. QED BY <1>1, <1>4, <1>5, <1>6, BeginRanks, RestingRanks

LEMMA WantsRanks ==
    ASSUME LocalInv, NEW o \in Op, InLine(entry[ProcOf[o]], {}), LoadCandidate(o) \/ Request(o)
    PROVE  Ranks(o)
<1>1. UNCHANGED entry /\ \E await \in Resting : pc' = [pc EXCEPT ![o] = await]
  BY DEF LoadCandidate, Request, Resting
<1>. QED BY <1>1, RestingRanks

LEMMA PhysicalAttemptRanks ==
    ASSUME LocalInv, NEW o \in Op, ~Header(o), NEW new, LeavesBehind(o, new), PhysicalAttempt(o, new)
    PROVE  Ranks(o)
<1>1. \/ SetEntry(o, new) /\ Call(o, "read", loc[o])
      \/ End(o, new, "stale")
  BY DEF PhysicalAttempt
<1>2. Narrows(entry[ProcOf[o]], new) /\ InLine(new, {})
  BY InLineFewer DEF LeavesBehind
<1>. QED BY <1>1, <1>2, AskRanks, EndRanks DEF End

LEMMA PhysicalRanks ==
    ASSUME LocalInv, NEW o \in Op, InLine(entry[ProcOf[o]], {}), KindOf[o] = "physical",
           \/ PhysicalRead(o) \/ PhysicalStaged(o) \/ PhysicalTurn(o)
           \/ PhysicalFinalized(o) \/ PhysicalReconciled(o) \/ PhysicalInspected(o)
    PROVE  Ranks(o)
<1>. DEFINE this == entry[ProcOf[o]]
<1>0. ~Header(o) /\ KindOf[o] # "highlight"
  BY DEF Header
<1>1. LeavesBehind(o, this) /\ LeavesBehind(o, release_commit_turn(this, o))
  BY LeavesHere, LeavesReleased
<1>2. loc[o].reply.authority \in Authority /\ loc[o].finalized \in Authority
  BY Authorities
<1>3. CASE PhysicalRead(o)
  BY <1>0, <1>3, AskHereRanks DEF PhysicalRead
<1>4. CASE PhysicalStaged(o)
  <2>1. \/ \E l : AwaitTurn(o, this, "turn", l) \/ AwaitTurn(o, this, "observe", l)
        \/ PhysicalAttempt(o, this)
        \/ End(o, this, "rejected")
    BY <1>4 DEF PhysicalStaged
  <2>. QED BY <1>0, <1>1, <2>1, AwaitRanks, PhysicalAttemptRanks, EndHereRanks
<1>5. CASE PhysicalTurn(o)
  <2>1. \/ End(o, this, "rejected")
        \/ \E l : SetEntry(o, start_finalization(this)) /\ Call(o, "finalize", l)
    BY <1>5 DEF PhysicalTurn
  <2>. QED BY <1>0, <2>1, EndHereRanks, FinalizationRanks
<1>6. CASE PhysicalFinalized(o)
  <2>1. this.activeTurn = o
    BY <1>0, <1>6, HasTurn DEF PhysicalFinalized, Answered, Deciding
  <2>2. \/ \E call, l : UNCHANGED entry /\ Call(o, call, l)
        \/ EndObserved(o, loc[o].reply.authority, "advanced")
        \/ PhysicalAttempt(o, release_commit_turn(this, o))
        \/ End(o, release_commit_turn(this, o), "rejected")
    BY <1>6 DEF PhysicalFinalized
  <2>. QED BY <1>0, <1>1, <1>2, <2>1, <2>2, AskHereRanks, EndObservedRanks, PhysicalAttemptRanks,
              EndReleasedRanks
<1>7. CASE PhysicalReconciled(o)
  <2>1. this.activeTurn = o
    BY <1>0, <1>7, HasTurn DEF PhysicalReconciled, Replied, Answered, Deciding
  <2>2. \/ End(o, release_commit_turn(this, o), "failed")
        \/ End(o, release_commit_turn(this, o), "rejected")
        \/ EndCommitted(o, loc[o].reply.authority)
        \/ EndObserved(o, loc[o].reply.authority, "advanced")
    <3>1. reconciliation(o) \in {"committed", "notCommitted", "advanced"}
      BY DEF reconciliation
    <3>. QED BY <1>7, <3>1 DEF PhysicalReconciled
  <2>. QED BY <1>2, <2>1, <2>2, EndReleasedRanks, EndCommittedRanks, EndObservedRanks
<1>8. CASE PhysicalInspected(o)
  <2>1. this.activeTurn = o
    BY <1>0, <1>8, HasTurn DEF PhysicalInspected, Replied, Answered, Deciding
  <2>2. \/ EndObserved(o, loc[o].finalized, "advanced")
        \/ EndObserved(o, loc[o].reply.authority, "advanced")
        \/ EndCommitted(o, loc[o].finalized)
    BY <1>8 DEF PhysicalInspected
  <2>. QED BY <1>2, <2>1, <2>2, EndCommittedRanks, EndObservedRanks
<1>. QED BY <1>3, <1>4, <1>5, <1>6, <1>7, <1>8

LEMMA ObserveRanks ==
    ASSUME LocalInv, NEW o \in Op, InLine(entry[ProcOf[o]], {}), ObserveTurn(o)
    PROVE  Ranks(o)
<1>. DEFINE this == entry[ProcOf[o]]
            result == IF KindOf[o] = "physical" THEN "advanced" ELSE "rejected"
<1>1. pc[o] = "observe"
  BY DEF ObserveTurn
<1>2. KindOf[o] # "highlight"
  BY <1>1, StandsThere DEF MayAwait
<1>3. \/ End(o, this, result)
      \/ this.turn[o] = "granted" /\ EndObserved(o, loc[o].reply.authority, result)
      \/ End(o, release_commit_turn(this, o), result)
  BY DEF ObserveTurn
<1>. HIDE DEF result
<1>4. this.turn[o] = "granted" => this.activeTurn = o
  BY <1>1, <1>2, HasTurn
<1>. QED BY <1>3, <1>4, Authorities, EndHereRanks, EndObservedRanks, EndReleasedRanks

LEMMA ThrewRanks ==
    ASSUME LocalInv, NEW o \in Op, InLine(entry[ProcOf[o]], {}), CallThrew(o)
    PROVE  Ranks(o)
BY EndHereRanks DEF CallThrew

\* After a conflict a header setting goes on in line, or ends.
LEMMA HeaderRetryRanks ==
    ASSUME LocalInv, NEW o \in Op, NEW new, LeavesBehind(o, new), HeaderRetry(o, new),
           new.status[o] = "valid" => InLine(new, {})
    PROVE  Ranks(o)
<1>1. \/ End(o, new, "rejected")
      \/ new.status[o] = "valid" /\ SetEntry(o, new)
         /\ \E l : Call(o, "read", l)
  BY DEF HeaderRetry
<1>2. "read" \notin Deciding
  BY DEF Deciding
<1>. QED BY <1>1, <1>2, AskRanks, EndRanks DEF End, LeavesBehind

\* Nobody newer is valid where a header setting gives the turn up to try again.
LEMMA LastInLine ==
    ASSUME LocalInv, NEW o \in Op, InLine(entry[ProcOf[o]], {}),
           entry[ProcOf[o]].activeTurn = o,
           ~newer_header(release_commit_turn(entry[ProcOf[o]], o), o)
    PROVE  InLine(release_commit_turn(entry[ProcOf[o]], o), {})
<1>. DEFINE e == entry[ProcOf[o]]
            f == release_commit_turn(e, o)
<1>1. /\ InLine(f, {o}) /\ Narrows(e, f)
      /\ \A n \in Op : n = f.activeTurn => f.status[n] = "valid"
  BY StandsThere, ReleaseInLine
<1>2. ASSUME NEW n \in Op, Older(f, o, n) PROVE f.status[n] # "valid"
  <2>1. f.ordinal[n] \in Nat /\ f.ordinal[o] \in Nat
    BY <1>1 DEF Narrows, Shape
  <2>. HIDE DEF f
  <2>2. f.ordinal[n] > f.ordinal[o]
    BY <1>2, <2>1 DEF Older
  <2>3. ~newer_header(f, o)
    BY DEF f, e
  <2>. QED BY <1>2, <2>2, <2>3 DEF newer_header, valid_operations, Older, Header
<1>. HIDE DEF f
<1>3. InLine(f, {})
  BY <1>1, <1>2 DEF InLine
<1>. QED BY <1>3 DEF f

LEMMA HeaderRanks ==
    ASSUME LocalInv, NEW o \in Op, InLine(entry[ProcOf[o]], {}),
           \/ HeaderRead(o) \/ HeaderStaged(o) \/ HeaderTurn(o)
           \/ HeaderFinalized(o) \/ HeaderReconciled(o) \/ HeaderInspected(o)
    PROVE  Ranks(o)
<1>. DEFINE this == entry[ProcOf[o]]
            released == release_commit_turn(this, o)
<1>1. LeavesBehind(o, this) /\ LeavesBehind(o, released)
  BY LeavesHere, LeavesReleased
<1>2. loc[o].reply.authority \in Authority /\ loc[o].finalized \in Authority
      /\ this.authority \in Authority
  BY Authorities, StandsThere DEF Shape
<1>3. CASE HeaderRead(o)
  <2>1. \/ UNCHANGED entry /\ \E l : Call(o, "stage", l)
        \/ End(o, this, "rejected")
    BY <1>3 DEF HeaderRead
  <2>2. "stage" \notin Deciding
    BY DEF Deciding
  <2>. QED BY <2>1, <2>2, AskHereRanks, EndHereRanks
<1>4. CASE HeaderStaged(o)
  <2>1. \/ \E l : AwaitTurn(o, this, "turn", l) \/ AwaitTurn(o, this, "observe", l)
        \/ HeaderRetry(o, this)
        \/ End(o, this, "rejected")
    BY <1>4 DEF HeaderStaged
  <2>. QED BY <1>1, <2>1, AwaitRanks, HeaderRetryRanks, EndHereRanks
<1>5. CASE HeaderTurn(o)
  <2>1. \/ End(o, released, "rejected")
        \/ /\ this.status[o] = "valid"
           /\ SetEntry(o, start_finalization(this))
           /\ \E l : Call(o, "finalize", l)
    BY <1>5 DEF HeaderTurn, planning_is_current
  <2>. QED BY <2>1, EndReleasedRanks, FinalizationRanks
<1>6. ASSUME HeaderFinalized(o) \/ HeaderReconciled(o) \/ HeaderInspected(o)
      PROVE  pc[o] \in Deciding /\ this.activeTurn = o
  <2>1. pc[o] \in Deciding /\ KindOf[o] # "highlight"
    BY <1>6 DEF HeaderFinalized, HeaderReconciled, HeaderInspected, Replied, Answered, Deciding
  <2>. QED BY <2>1, HasTurn
<1>7. CASE HeaderFinalized(o)
  <2>1. \/ UNCHANGED entry /\ \E call, l : Call(o, call, l)
        \/ End(o, released, "rejected")
        \/ ~newer_header(released, o) /\ HeaderRetry(o, released)
        \/ EndObserved(o, loc[o].reply.authority, "rejected")
    BY <1>7 DEF HeaderFinalized
  <2>2. ~newer_header(released, o) => InLine(released, {})
    BY <1>6, <1>7, LastInLine
  <2>. HIDE DEF released
  <2>3. End(o, released, "rejected") => Ranks(o)
    BY EndReleasedRanks DEF released
  <2>. QED BY <1>1, <1>2, <1>6, <1>7, <2>1, <2>2, <2>3, AskHereRanks, HeaderRetryRanks,
              EndObservedRanks
<1>8. CASE HeaderReconciled(o)
  <2>1. \/ UNCHANGED entry /\ \E call, l : Call(o, call, l)
        \/ End(o, released, "indeterminate") \/ End(o, released, "failed")
        \/ EndObserved(o, loc[o].reply.authority, "indeterminate")
    <3>1. reconciliation(o) \in {"committed", "notCommitted", "advanced"}
      BY DEF reconciliation
    <3>. QED BY <1>8, <3>1 DEF HeaderReconciled
  <2>. QED BY <1>2, <1>6, <1>8, <2>1, AskHereRanks, EndReleasedRanks, EndObservedRanks
<1>9. CASE HeaderInspected(o)
  <2>1. \/ EndObserved(o, loc[o].finalized, "indeterminate")
        \/ EndObserved(o, this.authority, "indeterminate")
        \/ EndCommitted(o, loc[o].finalized)
    BY <1>9 DEF HeaderInspected
  <2>. QED BY <1>2, <1>6, <1>9, <2>1, EndCommittedRanks, EndObservedRanks
<1>. QED BY <1>3, <1>4, <1>5, <1>7, <1>8, <1>9

-----------------------------------------------------------------------------
LEMMA CountInLine ==
    ASSUME NEW e \in Shape, InLine(e, {}), NEW n \in Int
    PROVE  /\ Narrows(e, [e EXCEPT !.operations = n])
           /\ InLine([e EXCEPT !.operations = n], {})
<1>. DEFINE f == [e EXCEPT !.operations = n]
<1>1. /\ f \in Shape /\ f.status = e.status /\ f.ordinal = e.ordinal
      /\ f.nextOrdinal = e.nextOrdinal /\ f.requests = e.requests
      /\ f.activeTurn = e.activeTurn
  BY DEF Shape
<1>. HIDE DEF f
<1>2. Narrows(e, f)
  BY <1>1 DEF Narrows
<1>3. InLine(f, {})
  BY <1>1, <1>2, InLineNarrowed
<1>. QED BY <1>2, <1>3 DEF f

LEMMA EndHighlightRanks ==
    ASSUME LocalInv, NEW o \in Op, KindOf[o] = "highlight", NEW new, NEW result,
           Narrows(entry[ProcOf[o]], new), InLine(new, {}), EndHighlight(o, new, result)
    PROVE  Ranks(o)
<1>1. new \in Shape /\ new.operations - 1 \in Int
  BY DEF Narrows, Shape
<1>. DEFINE f == [new EXCEPT !.operations = new.operations - 1]
<1>2. Narrows(new, f) /\ InLine(f, {})
  BY <1>1, CountInLine
<1>3. SetEntry(o, f)
  BY DEF EndHighlight
<1>. HIDE DEF f
<1>. QED BY <1>2, <1>3, NarrowsTransitive, StayRanks DEF Permitted, Header

LEMMA HighlightRanks ==
    ASSUME LocalInv, NEW o \in Op, InLine(entry[ProcOf[o]], {}), KindOf[o] = "highlight",
           \/ StartHighlight(o) \/ RunHighlight(o) \/ HighlightRead(o)
           \/ HighlightConflict(o) \/ HighlightWritten(o) \/ HighlightThrew(o)
    PROVE  Ranks(o)
<1>. DEFINE this == entry[ProcOf[o]]
<1>0. this \in Shape /\ Narrows(this, this) /\ ~Header(o)
  BY StandsThere, NarrowsReflexive DEF Header
<1>1. CASE StartHighlight(o)
  <2>. DEFINE f == [this EXCEPT !.operations = this.operations + 1]
  <2>1. this.operations + 1 \in Int
    BY <1>0 DEF Shape
  <2>2. Narrows(this, f) /\ InLine(f, {})
    BY <1>0, <2>1, CountInLine
  <2>3. SetEntry(o, f)
    BY <1>1 DEF StartHighlight, SetEntry
  <2>. HIDE DEF f
  <2>. QED BY <1>0, <2>2, <2>3, StayRanks DEF Permitted
<1>2. CASE HighlightConflict(o)
  <2>. DEFINE new == install_authority(this, loc[o].reply.authority, NoOp)
  <2>1. Narrows(this, new) /\ InLine(new, {})
    BY <1>0, Authorities, InstallInLine
  <2>2. \/ EndHighlight(o, new, "rejected")
        \/ SetEntry(o, new) /\ \E l : Call(o, "cas", l)
    BY <1>2 DEF HighlightConflict
  <2>. HIDE DEF new
  <2>. QED BY <1>0, <2>1, <2>2, EndHighlightRanks, AskRanks
<1>3. CASE RunHighlight(o) \/ HighlightRead(o) \/ HighlightWritten(o) \/ HighlightThrew(o)
  <2>1. \/ UNCHANGED entry /\ \E call, l : Call(o, call, l)
        \/ \E result : EndHighlight(o, this, result)
    BY <1>3 DEF RunHighlight, HighlightRead, HighlightAttempt, HighlightWritten, HighlightThrew
  <2>. QED BY <1>0, <2>1, EndHighlightRanks, AskHereRanks
<1>. QED BY <1>1, <1>2, <1>3

LEMMA ResumeRanks ==
    ASSUME LocalInv, NEW o \in Op, InLine(entry[ProcOf[o]], {}),
           LoadCandidate(o) \/ Request(o) \/ Resume(o),
           pc[o] = "loaded" => KindOf[o] = "physical"
    PROVE  Ranks(o)
<1>1. CASE LoadCandidate(o) \/ Request(o)
  BY <1>1, WantsRanks
<1>2. CASE BeginPhysical(o) \/ ObserveTurn(o) \/ CallThrew(o) \/ StartHeader(o)
  BY <1>2, BeginPhysicalRanks, ObserveRanks, ThrewRanks, StartHeaderRanks
<1>3. CASE \/ PhysicalRead(o) \/ PhysicalStaged(o) \/ PhysicalTurn(o)
           \/ PhysicalFinalized(o) \/ PhysicalReconciled(o) \/ PhysicalInspected(o)
  <2>1. KindOf[o] = "physical"
    BY <1>3 DEF PhysicalRead, PhysicalStaged, PhysicalTurn, PhysicalFinalized,
                PhysicalReconciled, PhysicalInspected
  <2>. QED BY <1>3, <2>1, PhysicalRanks
<1>4. CASE \/ HeaderRead(o) \/ HeaderStaged(o) \/ HeaderTurn(o)
           \/ HeaderFinalized(o) \/ HeaderReconciled(o) \/ HeaderInspected(o)
  BY <1>4, HeaderRanks
<1>5. CASE \/ StartHighlight(o) \/ RunHighlight(o) \/ HighlightRead(o)
           \/ HighlightConflict(o) \/ HighlightWritten(o) \/ HighlightThrew(o)
  <2>1. pc[o] \in {"queued", "cas"} => KindOf[o] = "highlight"
    BY StandsThere DEF MayAwait
  <2>2. KindOf[o] = "highlight"
    BY <1>5, <2>1 DEF StartHighlight, RunHighlight, HighlightRead, HighlightConflict,
                HighlightWritten, HighlightThrew, Replied, Answered
  <2>. QED BY <1>5, <2>2, HighlightRanks
<1>. QED BY <1>1, <1>2, <1>3, <1>4, <1>5 DEF Resume

-----------------------------------------------------------------------------
\* Only loads are loaded.
Loads == \A o \in Op : pc[o] = "loaded" => KindOf[o] = "physical"

\* Of two header settings of one process the older one is committed first or never.
Ordered(o, n) ==
    Older(entry[ProcOf[o]], o, n) /\ ProcOf[o] = ProcOf[n]
    /\ 0 < entry[ProcOf[o]].ordinal[o] /\ applied[n] > 0 =>
       IF applied[o] > 0 THEN applied[o] < applied[n]
       ELSE entry[ProcOf[o]].status[o] # "valid" /\ pc[o] \notin Deciding

InOrder ==
    /\ Loads
    /\ \A p \in Proc : InLine(entry[p], {})
    /\ \A o, n \in Op : Ordered(o, n)

LEMMA Beginning ==
    ASSUME NEW o \in Op, Resume(o), pc[o] \in {"idle", "requested"}
    PROVE  StartHeader(o) \/ StartHighlight(o)
<1>1. ~BeginPhysical(o) /\ ~ObserveTurn(o) /\ ~RunHighlight(o)
  BY DEF BeginPhysical, ObserveTurn, RunHighlight
<1>2. \A call \in StoreCalls : ~Answered(o, call)
  BY DEF Answered, StoreCalls
<1>3. ~PhysicalRead(o) /\ ~PhysicalStaged(o) /\ ~PhysicalTurn(o)
  BY <1>2 DEF PhysicalRead, PhysicalStaged, PhysicalTurn, Replied, StoreCalls
<1>4. ~PhysicalFinalized(o) /\ ~PhysicalReconciled(o) /\ ~PhysicalInspected(o) /\ ~CallThrew(o)
  BY <1>2 DEF PhysicalFinalized, PhysicalReconciled, PhysicalInspected, CallThrew, Replied, StoreCalls
<1>5. ~HeaderRead(o) /\ ~HeaderStaged(o) /\ ~HeaderTurn(o)
  BY <1>2 DEF HeaderRead, HeaderStaged, HeaderTurn, Replied, StoreCalls
<1>6. ~HeaderFinalized(o) /\ ~HeaderReconciled(o) /\ ~HeaderInspected(o)
  BY <1>2 DEF HeaderFinalized, HeaderReconciled, HeaderInspected, Replied, StoreCalls
<1>7. ~HighlightRead(o) /\ ~HighlightConflict(o) /\ ~HighlightWritten(o) /\ ~HighlightThrew(o)
  BY <1>2 DEF HighlightRead, HighlightConflict, HighlightWritten, HighlightThrew, Replied, StoreCalls
<1>. QED BY <1>1, <1>3, <1>4, <1>5, <1>6, <1>7 DEF Resume

LEMMA LoadsKept ==
    ASSUME LocalInv, Loads, NEW o \in Op, Progress(o), Flow(o),
           LoadCandidate(o) \/ Request(o) \/ Resume(o)
    PROVE  Loads'
<1>1. pc \in [Op -> Awaits]
  BY DEF LocalInv, Types
<1>2. ASSUME pc'[o] = "loaded" PROVE KindOf[o] = "physical"
  <2>1. pc[o] \in {"idle", "requested"}
    BY <1>2 DEF Progress
  <2>2. LoadCandidate(o) \/ Request(o) \/ StartHeader(o) \/ StartHighlight(o)
    BY <2>1, Beginning
  <2>3. CASE Request(o)
    BY <1>1, <1>2, <2>3 DEF Request
  <2>4. CASE StartHeader(o)
    BY <1>1, <1>2, <2>4 DEF StartHeader, Call
  <2>5. CASE StartHighlight(o)
    BY <1>1, <1>2, <2>5 DEF StartHighlight
  <2>. QED BY <2>2, <2>3, <2>4, <2>5 DEF LoadCandidate
<1>. QED BY <1>2 DEF Loads, Flow

LEMMA ResumeOrder ==
    ASSUME LocalInv, LocalInv', InOrder, NEW o \in Op, Progress(o), Flow(o), TookEffect(o) \/ applied[o] = 0,
           LoadCandidate(o) \/ Request(o) \/ Resume(o)
    PROVE  InOrder'
<1>1. /\ Loads' /\ Ranks(o)
      /\ \A p \in Proc : InLine(entry[p], {})
      /\ \A n, m \in Op : Ordered(n, m)
  <2>1. ProcOf[o] \in Proc /\ Loads /\ (pc[o] = "loaded" => KindOf[o] = "physical")
    BY StandsThere DEF InOrder, Loads
  <2>. QED BY <2>1, LoadsKept, ResumeRanks DEF InOrder
<1>2. /\ entry \in [Proc -> Shape] /\ ProcOf \in [Op -> Proc] /\ applied \in [Op -> Nat]
      /\ applied' = applied
      /\ entry' = [entry EXCEPT ![ProcOf[o]] = entry'[ProcOf[o]]]
      /\ \A n \in Op \ {o} : pc'[n] = pc[n]
  BY FileCoordinatorAssumption DEF LocalInv, Types, Flow
<1>3. ASSUME NEW p \in Proc PROVE InLine(entry'[p], {})
  BY <1>1, <1>2 DEF Ranks
<1>4. ASSUME NEW n \in Op, NEW m \in Op PROVE Ordered(n, m)'
  <2>. DEFINE e == entry[ProcOf[n]]
              f == entry'[ProcOf[n]]
  <2>0. e \in Shape /\ ProcOf[n] \in Proc
    BY <1>2
  <2>1. CASE ProcOf[n] # ProcOf[o]
    <3>1. f = e /\ pc'[n] = pc[n]
      BY <1>2, <2>0, <2>1
    <3>. QED BY <1>1, <1>2, <3>1 DEF Ordered
  <2>2. CASE ProcOf[n] = ProcOf[o] /\ Narrows(e, f)
    <3>1. /\ f.ordinal = e.ordinal
          /\ f.status[n] = "valid" => e.status[n] = "valid"
      BY <2>2 DEF Narrows
    <3>2. Header(n) /\ pc'[n] \in Deciding => pc[n] \in Deciding \/ e.status[n] = "valid"
      BY <1>1, <1>2, <2>2 DEF Ranks
    <3>. QED BY <1>1, <1>2, <3>1, <3>2 DEF Ordered, Older
  <2>3. CASE ProcOf[n] = ProcOf[o] /\ Begins(e, f, o) /\ pc[o] \in {"loaded", "requested"}
    <3>1. /\ f.ordinal[o] = e.nextOrdinal /\ e.nextOrdinal \in Nat
          /\ \A x \in Op : e.ordinal[x] \in Nat /\ e.ordinal[x] < e.nextOrdinal
          /\ \A x \in Op \ {o} : /\ f.ordinal[x] = e.ordinal[x]
                                 /\ f.status[x] = "valid" => e.status[x] = "valid"
      BY <1>1, <2>0, <2>3 DEF Begins, Shape, InLine
    <3>2. applied[o] = 0
      BY <2>3 DEF TookEffect, Deciding
    <3>3. CASE n = o
      <4>1. ~(f.ordinal[n] < f.ordinal[m])
        BY <3>1, <3>3
      <4>. QED BY <4>1 DEF Ordered, Older
    <3>4. CASE m = o
      BY <1>2, <3>2, <3>4 DEF Ordered
    <3>5. CASE n # o /\ m # o
      BY <1>1, <1>2, <3>1, <3>5 DEF Ordered, Older
    <3>. QED BY <3>3, <3>4, <3>5
  <2>. QED BY <1>1, <2>1, <2>2, <2>3 DEF Ranks
<1>. QED BY <1>1, <1>3, <1>4 DEF InOrder

-----------------------------------------------------------------------------
\* Nothing but what an operation has applied changes, and the order stands.
LEMMA SameOrder ==
    ASSUME InOrder, UNCHANGED <<entry, pc, applied>>
    PROVE  InOrder'
BY DEF InOrder, Loads, Ordered

LEMMA CommitOrder ==
    ASSUME Coordinated, InOrder, NEW o \in Op, pc[o] = "finalize", applied[o] = 0,
           KindOf[o] # "highlight", UNCHANGED <<entry, pc>>,
           applied' = [applied EXCEPT ![o] = durable.commitSequence + 1]
    PROVE  InOrder'
<1>1. /\ LocalInv /\ \A n \in Op : Tied(n)
      /\ \A p \in Proc : InLine(entry[p], {})
      /\ \A n, m \in Op : Ordered(n, m)
      /\ ProcOf[o] \in Proc
  BY FileCoordinatorAssumption DEF Coordinated, AllTied, InOrder
<1>2. applied \in [Op -> Nat] /\ durable.commitSequence \in Nat
  BY <1>1, VersionTypes DEF LocalInv, Types, Authority
<1>3. pc[o] \in Deciding /\ entry[ProcOf[o]].activeTurn = o
  BY <1>1, HasTurn DEF Deciding
<1>4. ASSUME NEW n \in Op, NEW m \in Op PROVE Ordered(n, m)'
  <2>1. CASE n # o /\ m # o
    BY <1>1, <1>2, <2>1 DEF Ordered
  <2>2. CASE n = o /\ m # o
    BY <1>1, <1>2, <1>3, <2>2 DEF Ordered
  <2>3. CASE n # o /\ m = o
    <3>. SUFFICES ASSUME Older(entry[ProcOf[n]], n, o), ProcOf[n] = ProcOf[o]
                  PROVE  IF applied'[n] > 0 THEN applied'[n] < applied'[o]
                         ELSE entry[ProcOf[n]].status[n] # "valid" /\ pc[n] \notin Deciding
      BY <2>3 DEF Ordered
    <3>1. applied'[o] = durable.commitSequence + 1 /\ applied'[n] = applied[n] /\ applied[n] \in Nat
      BY <1>2, <2>3
    <3>2. applied[n] > 0 => applied[n] <= durable.commitSequence
      BY <1>1 DEF Tied, Decided, TookEffect
    <3>3. entry[ProcOf[n]].status[n] # "valid"
      BY <1>1, <1>3 DEF InLine
    <3>4. pc[n] \notin Deciding
      <4>1. KindOf[n] # "highlight"
        BY DEF Older, Header
      <4>. QED BY <1>1, <1>3, <2>3, <4>1, HasTurn
    <3>. QED BY <1>2, <3>1, <3>2, <3>3, <3>4
  <2>4. CASE n = o /\ m = o
    <3>1. ~Older(entry[ProcOf[o]], o, o)
      <4>1. entry[ProcOf[o]].ordinal[o] \in Nat
        BY <1>1, StandsThere DEF Shape
      <4>. QED BY <4>1 DEF Older
    <3>. QED BY <2>4, <3>1 DEF Ordered
  <2>. QED BY <2>1, <2>2, <2>3, <2>4
<1>. QED BY <1>1, <1>4 DEF InOrder, Loads

LEMMA ExecutedOrder ==
    ASSUME Coordinated, InOrder, NEW p \in Proc, NEW o, NEW call, NEW next, NEW type,
           Executed(p, o, call, next, type)
    PROVE  InOrder'
<1>1. LocalInv /\ Chain /\ Revised /\ \A n \in Op : Tied(n)
  BY DEF Coordinated, AllTied
<1>2. Transacts(o, call, next, type) /\ o \in Op
  BY <1>1, ExecutedLocal
<1>3. /\ UNCHANGED <<entry, pc>>
      /\ call # "discard" => pc[o] = call /\ loc[o].reply.type = "none"
  BY <1>2 DEF Transacts
<1>4. CASE Leaves(o, call) \/ Stages(o, call) \/ Discards(o, call) \/ Writes(o, call)
  <2>1. applied' = applied
    BY <1>4 DEF Leaves, Stages, Discards, Writes
  <2>. QED BY <1>3, <2>1, SameOrder
<1>5. ASSUME call = "finalize", NEW s, Finalizes(o, s) PROVE InOrder'
  <2>1. pc[o] = "finalize" /\ loc[o].reply.type = "none"
    BY <1>3, <1>5
  <2>2. /\ KindOf[o] \in {"physical", "projection"} /\ applied[o] = 0
        /\ durable'.commitSequence = durable.commitSequence + 1
        /\ applied' = [applied EXCEPT ![o] = durable'.commitSequence]
    BY <1>1, <1>2, <1>5, <2>1, FinalizeCommits
  <2>. QED BY <1>2, <1>3, <2>1, <2>2, CommitOrder
<1>. QED BY <1>1, <1>4, <1>5, Outcomes

LEMMA NewInLine ==
    ASSUME NEW authority
    PROVE  InLine(new_entry(authority), {})
BY DEF InLine, new_entry

LEMMA CrashOrder ==
    ASSUME LocalInv, InOrder, NEW p \in Proc, Crash(p)
    PROVE  InOrder'
<1>1. /\ entry' = [entry EXCEPT ![p] = new_entry(durable)] /\ applied' = applied
      /\ \A o \in Op : pc'[o] \in {pc[o], "done"}
      /\ entry \in [Proc -> Shape] /\ ProcOf \in [Op -> Proc]
  BY FileCoordinatorAssumption DEF Crash, LocalInv, Types
<1>2. /\ \A q \in Proc : InLine(entry[q], {})
      /\ \A o, n \in Op : Ordered(o, n)
      /\ Loads
  BY DEF InOrder
<1>3. Loads'
  BY <1>1, <1>2 DEF Loads
<1>4. ASSUME NEW q \in Proc PROVE InLine(entry'[q], {})
  <2>1. entry'[q] = entry[q] \/ entry'[q] = new_entry(durable)
    BY <1>1
  <2>. QED BY <1>2, <2>1, NewInLine
<1>5. ASSUME NEW o \in Op, NEW n \in Op PROVE Ordered(o, n)'
  <2>1. CASE ProcOf[o] = p
    <3>1. entry'[ProcOf[o]].ordinal[o] = 0
      BY <1>1, <2>1 DEF new_entry
    <3>. QED BY <3>1 DEF Ordered
  <2>2. CASE ProcOf[o] # p
    <3>1. entry'[ProcOf[o]] = entry[ProcOf[o]]
      BY <1>1, <2>2
    <3>2. pc'[o] \in Deciding => pc[o] \in Deciding
      BY <1>1 DEF Deciding
    <3>. QED BY <1>1, <1>2, <3>1, <3>2 DEF Ordered
  <2>. QED BY <2>1, <2>2
<1>. QED BY <1>3, <1>4, <1>5 DEF InOrder

LEMMA InitOrder ==
    ASSUME Init
    PROVE  InOrder
<1>1. /\ pc = [o \in Op |-> "idle"] /\ applied = [o \in Op |-> 0]
      /\ entry = [p \in Proc |-> new_entry(authority_of(db, File))]
  BY DEF Init
<1>2. \A p \in Proc : InLine(entry[p], {})
  BY <1>1, NewInLine
<1>. QED BY <1>1, <1>2 DEF InOrder, Loads, Ordered

LEMMA NextInOrder ==
    ASSUME MaxEvictions = 0, Coordinated, InOrder, [Next]_vars
    PROVE  InOrder'
<1>0. /\ LocalInv /\ LocalInv' /\ Chain /\ (\A n \in Op : Tied(n)) /\ ~EvictElsewhere
  BY NextCoordinated DEF Coordinated, AllTied
<1>1. ASSUME NEW o \in Op, LoadCandidate(o) \/ Request(o) \/ Resume(o)
      PROVE  InOrder'
  <2>1. Flow(o) /\ Progress(o)
    BY <1>0, <1>1, ResumeLocal, ResumeProgress
  <2>2. TookEffect(o) \/ applied[o] = 0
    BY <1>0 DEF Tied, Decided, LocalInv, Types
  <2>. QED BY <1>0, <1>1, <2>1, <2>2, ResumeOrder
<1>2. ASSUME NEW p \in Proc, Execute(p) \/ ExecuteThrows(p) PROVE InOrder'
  <2>1. PICK o, call, next, type : Executed(p, o, call, next, type)
    BY <1>2, Executions
  <2>. QED BY <2>1, ExecutedOrder
<1>3. ASSUME NEW p \in Proc, Crash(p) PROVE InOrder'
  BY <1>0, <1>3, CrashOrder
<1>4. ASSUME UNCHANGED vars PROVE InOrder'
  BY <1>4, SameOrder DEF vars
<1>. QED BY <1>0, <1>1, <1>2, <1>3, <1>4 DEF Next

LEMMA OrderOfCommits ==
    ASSUME InOrder
    PROVE  HeadersInOrder
BY DEF InOrder, Ordered, Older, Header, HeadersInOrder

\* Header settings of one process are committed in the order they began, whatever
\* the other processes commit between them.
THEOREM SettingsInOrder ==
    ASSUME MaxEvictions = 0
    PROVE  Spec => []HeadersInOrder
<1>1. Init => Coordinated /\ InOrder
  BY InitCoordinated, InitOrder
<1>2. Coordinated /\ InOrder /\ [Next]_vars => Coordinated' /\ InOrder'
  BY NextCoordinated, NextInOrder
<1>3. InOrder => HeadersInOrder
  BY OrderOfCommits
<1>. QED BY <1>1, <1>2, <1>3, PTL DEF Spec
=============================================================================

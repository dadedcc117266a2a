------------------------- MODULE ViewRefreshProofs -------------------------
(***************************************************************************)
(* Proofs about ViewRefresh, for any number of views, retries and events.  *)
(*                                                                         *)
(* Two views at the same authority agree because every pair of an          *)
(* authority's revision and a content (or header settings) that is written *)
(* down anywhere - in the authority, in an adoption, in a load that has    *)
(* committed - is a claim about that revision, and the claims are          *)
(* functional.  A step hands claims on or makes one for a new revision.    *)
(* For that, the operation that commits a load must be the only one of its *)
(* view and have the content of the load.                                  *)
(***************************************************************************)
EXTENDS ViewRefresh, FiniteSetTheorems, TLAPS

content_claims(w) ==
    (IF w.shown # 0 THEN {<<w.adopted, w.shown>>, <<w.basis, w.shown>>} ELSE {})
    \cup (IF w.load.phase = "committed" THEN {<<w.load.basis, w.load.content>>} ELSE {})

header_claims(w) ==
    (IF w.shown # 0 THEN {<<w.adopted, w.headers>>} ELSE {})
    \cup (IF w.load.phase = "committed" THEN {<<w.load.basis, w.load.headers>>} ELSE {})

ContentClaims ==
    {<<authority.revision, authority.content>>} \cup UNION {content_claims(view[v]) : v \in View}

HeaderClaims ==
    {<<authority.revision, authority.headers>>} \cup UNION {header_claims(view[v]) : v \in View}

\* Of each revision up to the last one there is at most one claim.
Functional(claims, last) ==
    /\ claims \subseteq Nat \X Nat
    /\ \A c \in claims : c[1] <= last
    /\ \A c, d \in claims : c[1] = d[1] => c[2] = d[2]

\* A load that will not be adopted again has the content that is shown.
same_is_shown(w) ==
    w.load.phase \in {"committing", "committed"} /\ w.load.same => w.load.content = w.shown

\* The operation of the load that a view waits for.
OperationsMatch ==
    /\ \A op \in ops : op.current =>
          /\ view[op.view].open
          /\ view[op.view].load.phase = "committing"
          /\ view[op.view].load.content = op.content
    /\ \A o, p \in ops : o.current /\ p.current /\ o.view = p.view => o = p

\* A view that is not there yet has nothing that a save could need.
FreshRests == \A v \in View : view[v].fresh => ~view[v].open /\ save[v] = "none"

Balance == TypeOK /\ ReservationsBalance /\ FreshRests

ClaimsAgree ==
    /\ Functional(ContentClaims, authority.revision)
    /\ Functional(HeaderClaims, authority.revision)
    /\ \A v \in View : same_is_shown(view[v])

IInv == Balance /\ OperationsMatch /\ ClaimsAgree

-----------------------------------------------------------------------------
(* What the operators on a view do *)

\* x is w but for a load without a claim.
LoadIsNew(w, x) ==
    /\ x \in ViewState
    /\ x.open = w.open /\ x.fresh = w.fresh
    /\ x.shown = w.shown /\ x.adopted = w.adopted /\ x.basis = w.basis /\ x.headers = w.headers
    /\ x.load.phase \in {"none", "reading", "waiting"}

LEMMA NoLoadType == NoLoad \in Load
  BY ViewRefreshAssumption DEF NoLoad, Load

LEMMA BeginLoad ==
  ASSUME NEW w \in ViewState, NEW forced \in BOOLEAN, NEW header \in BOOLEAN,
         NEW expected \in Nat
  PROVE  LoadIsNew(w, begin_load(w, forced, header, expected))
  <1> DEFINE load == [NoLoad EXCEPT !.phase = "reading", !.forced = forced,
                                    !.header = header, !.expected = expected]
  <1>1. load \in Load /\ load.phase = "reading"
    BY NoLoadType DEF NoLoad, Load
  <1>2. begin_load(w, forced, header, expected) = [w EXCEPT !.failed = FALSE, !.load = load]
    BY DEF begin_load
  <1> HIDE DEF load
  <1> QED BY <1>1, <1>2 DEF ViewState, LoadIsNew

LEMMA AttemptFailed ==
  ASSUME NEW w \in ViewState
  PROVE  LoadIsNew(w, attempt_failed(w))
  <1> DEFINE ended == IF w.load.header THEN [w EXCEPT !.scheduled = FALSE] ELSE w
             again == [w.load EXCEPT !.phase = "waiting", !.header = FALSE, !.attempts = @ + 1]
  <1>1. ended \in ViewState /\ ended.load = w.load /\ ended.open = w.open
        /\ ended.fresh = w.fresh
        /\ ended.shown = w.shown /\ ended.adopted = w.adopted /\ ended.basis = w.basis
        /\ ended.headers = w.headers
    BY DEF ViewState
  <1>2. w.load \in Load
    BY DEF ViewState
  <1>3. CASE w.load.attempts < RetryCount
    <2>1. w.load.attempts + 1 \in 0..RetryCount
      BY <1>2, <1>3, ViewRefreshAssumption DEF Load
    <2>2. again \in Load /\ again.phase = "waiting"
      BY <1>2, <2>1 DEF Load
    <2>3. attempt_failed(w) = [ended EXCEPT !.load = again]
      BY <1>3 DEF attempt_failed
    <2> HIDE DEF ended, again
    <2> QED BY <2>2, <2>3, <1>1 DEF ViewState, LoadIsNew
  <1>4. CASE ~(w.load.attempts < RetryCount)
    <2>1. attempt_failed(w) = [ended EXCEPT !.load = NoLoad, !.failed = TRUE]
      BY <1>4 DEF attempt_failed
    <2>2. NoLoad.phase = "none"
      BY DEF NoLoad
    <2> HIDE DEF ended
    <2> QED BY <2>1, <2>2, <1>1, NoLoadType DEF ViewState, LoadIsNew
  <1> QED BY <1>3, <1>4

\* A view whose load is new makes no claim that it did not make.
LEMMA NewLoadClaims ==
  ASSUME NEW w, NEW x, LoadIsNew(w, x)
  PROVE  /\ content_claims(x) \subseteq content_claims(w)
         /\ header_claims(x) \subseteq header_claims(w)
         /\ same_is_shown(x)
  BY DEF LoadIsNew, content_claims, header_claims, same_is_shown

\* Claims stay functional when the only claim added is of a new revision, or known.
LEMMA FunctionalGrows ==
  ASSUME NEW C, NEW last \in Nat, Functional(C, last),
         NEW D, NEW next \in Nat, NEW value \in Nat, last <= next,
         D \subseteq C \cup {<<next, value>>},
         last < next \/ <<next, value>> \in C
  PROVE  Functional(D, next)
  <1> DEFINE new == <<next, value>>
  <1>1. new \in Nat \X Nat /\ new[1] = next /\ new[2] = value
    OBVIOUS
  <1>2. CASE new \in C
    <2>1. D \subseteq C
      BY <1>2
    <2>2. \A c \in C : c[1] \in Nat /\ c[1] <= next
      BY DEF Functional
    <2> QED BY <2>1, <2>2 DEF Functional
  <1>3. CASE last < next
    <2>1. \A c \in C : c[1] \in Nat /\ c[1] < next
      BY <1>3 DEF Functional
    <2>2. \A c \in D : c \in C \/ c = new
      OBVIOUS
    <2> HIDE DEF new
    <2> QED BY <1>1, <2>1, <2>2 DEF Functional
  <1> QED BY <1>2, <1>3

-----------------------------------------------------------------------------
(* Steps that make no claim *)

\* The view goes from w to x without a claim that it did not make.
Quiet(w, x) ==
    /\ x \in ViewState
    /\ x.open = w.open /\ x.fresh = w.fresh
    /\ same_is_shown(w) => /\ content_claims(x) \subseteq content_claims(w)
                           /\ header_claims(x) \subseteq header_claims(w)
                           /\ same_is_shown(x)

LEMMA QuietSame == \A w \in ViewState : Quiet(w, w)
  BY DEF Quiet

LEMMA QuietNewLoad ==
  ASSUME NEW w \in ViewState, NEW x, LoadIsNew(w, x)
  PROVE  Quiet(w, x)
  BY NewLoadClaims DEF Quiet, LoadIsNew

\* The load gets on, short of a commit.
LEMMA QuietLoad ==
  ASSUME NEW w \in ViewState, NEW load \in Load, load.phase # "committed",
         load.phase = "committing" /\ load.same => load.content = w.shown
  PROVE  Quiet(w, [w EXCEPT !.load = load])
  <1> DEFINE x == [w EXCEPT !.load = load]
  <1>1. /\ x \in ViewState /\ x.open = w.open /\ x.fresh = w.fresh
        /\ x.shown = w.shown /\ x.headers = w.headers
        /\ x.adopted = w.adopted /\ x.basis = w.basis /\ x.load = load
    BY DEF ViewState
  <1> HIDE DEF x
  <1>2. same_is_shown(x)
    BY <1>1 DEF same_is_shown
  <1>3. content_claims(x) \subseteq content_claims(w) /\ header_claims(x) \subseteq header_claims(w)
    BY <1>1 DEF content_claims, header_claims
  <1> QED BY <1>1, <1>2, <1>3 DEF Quiet, x

\* One view takes a step.
LEMMA OneView ==
  ASSUME TypeOK, NEW v \in View, NEW x, Quiet(view[v], x), view' = [view EXCEPT ![v] = x]
  PROVE  /\ view' \in [View -> ViewState]
         /\ view'[v] = x
         /\ \A u \in View : Quiet(view[u], view'[u])
         /\ \A u \in View \ {v} : view'[u] = view[u]
  BY QuietSame DEF TypeOK, Quiet

LEMMA ReadQuiet ==
  ASSUME TypeOK, NEW v \in View, Read(v)
  PROVE  \E x : Quiet(view[v], x) /\ view' = [view EXCEPT ![v] = x]
  <1> DEFINE w == view[v]
             load == [w.load EXCEPT !.phase = "built", !.content = disk.content]
  <1>1. w \in ViewState /\ w.load \in Load /\ disk.content \in Nat
    BY DEF TypeOK, ViewState
  <1>2. CASE disk.present
    <2>1. load \in Load /\ load.phase = "built"
      BY <1>1 DEF Load
    <2>2. view' = [view EXCEPT ![v] = [w EXCEPT !.load = load]]
      BY <1>1, <1>2 DEF Read, ViewState, TypeOK
    <2> HIDE DEF load, w
    <2>3. Quiet(w, [w EXCEPT !.load = load])
      BY <1>1, <2>1, QuietLoad
    <2> QED BY <2>2, <2>3 DEF w
  <1>3. CASE ~disk.present
    <2>1. view' = [view EXCEPT ![v] = attempt_failed(w)]
      BY <1>3 DEF Read
    <2> QED BY <1>1, <2>1, AttemptFailed, QuietNewLoad
  <1> QED BY <1>2, <1>3

LEMMA VerifyQuiet ==
  ASSUME TypeOK, NEW v \in View, Verify(v)
  PROVE  \E x : Quiet(view[v], x) /\ view' = [view EXCEPT ![v] = x]
  <1> DEFINE w == view[v]
             load == [w.load EXCEPT !.phase = "verified"]
             current == disk.present /\ disk.content = w.load.content
  <1>1. w \in ViewState /\ w.load \in Load
    BY DEF TypeOK, ViewState
  <1>2. CASE current
    <2>1. load \in Load /\ load.phase = "verified"
      BY <1>1 DEF Load
    <2>2. view' = [view EXCEPT ![v] = [w EXCEPT !.load = load]]
      BY <1>1, <1>2 DEF Verify, ViewState, TypeOK
    <2> HIDE DEF load, w
    <2>3. Quiet(w, [w EXCEPT !.load = load])
      BY <1>1, <2>1, QuietLoad
    <2> QED BY <2>2, <2>3 DEF w
  <1>3. CASE ~current
    <2>1. view' = [view EXCEPT ![v] = attempt_failed(w)]
      BY <1>3 DEF Verify
    <2> QED BY <1>1, <2>1, AttemptFailed, QuietNewLoad
  <1> QED BY <1>2, <1>3

\* The operation that begin_physical begins.
begun(v, content) ==
    [view |-> v, content |-> content, valid |-> TRUE, turn |-> FALSE, current |-> TRUE]

LEMMA BeginPhysicalQuiet ==
  ASSUME TypeOK, NEW v \in View, begin_physical(v)
  PROVE  \E x : /\ Quiet(view[v], x) /\ view' = [view EXCEPT ![v] = x]
                /\ \/ ops' = ops
                   \/ /\ x.load.phase = "committing" /\ x.load.content = view[v].load.content
                      /\ ops' = invalidate(ops, view[v].load.content) \cup
                                   {begun(v, view[v].load.content)}
  <1> DEFINE w == view[v]
             same == ~w.load.forced /\ w.load.content = w.shown /\ w.answer = "acked"
             load == [w.load EXCEPT !.phase = "committing", !.same = same]
             refused == w.load.expected # authority.revision
                        /\ w.load.content # authority.content
  <1>1. w \in ViewState /\ w.load \in Load
    BY DEF TypeOK, ViewState
  <1>2. CASE ~refused
    <2>1. load \in Load /\ load.phase = "committing" /\ load.same = same
          /\ load.content = w.load.content
      BY <1>1 DEF Load
    <2>2. /\ view' = [view EXCEPT ![v] = [w EXCEPT !.load = load]]
          /\ ops' = invalidate(ops, w.load.content) \cup {begun(v, w.load.content)}
      BY <1>1, <1>2 DEF begin_physical, begun, ViewState, TypeOK
    <2>3. load.phase = "committing" /\ load.same => load.content = w.shown
      BY <2>1
    <2>4. load.phase # "committed"
      BY <2>1
    <2> HIDE DEF load, w
    <2>5. Quiet(w, [w EXCEPT !.load = load])
      BY <1>1, <2>1, <2>3, <2>4, QuietLoad
    <2>6. [w EXCEPT !.load = load].load = load
      BY <1>1 DEF ViewState
    <2> QED BY <2>1, <2>2, <2>5, <2>6 DEF w
  <1>3. CASE refused
    <2>1. view' = [view EXCEPT ![v] = attempt_failed(w)] /\ ops' = ops
      BY <1>3 DEF begin_physical
    <2> QED BY <1>1, <2>1, AttemptFailed, QuietNewLoad
  <1> QED BY <1>2, <1>3

LEMMA AdoptQuiet ==
  ASSUME TypeOK, NEW v \in View, adopt_committed_candidate(v)
  PROVE  \E x : Quiet(view[v], x) /\ view' = [view EXCEPT ![v] = x]
  <1> DEFINE w == view[v]
             y == install(w, w.load.content, w.load.headers, w.load.basis)
             x == [y EXCEPT !.scheduled = w.scheduled /\ ~w.load.header, !.load = NoLoad]
  <1>1. w \in ViewState /\ w.load \in Load
    BY DEF TypeOK, ViewState
  <1>2. w.load.content \in Nat /\ w.load.headers \in Nat /\ w.load.basis \in Nat
        /\ w.load.phase = "committed" /\ w.open
    BY <1>1 DEF Load, adopt_committed_candidate, LoadIn
  <1>3. /\ y \in ViewState
        /\ y.open = w.open /\ y.fresh = w.fresh /\ y.shown = w.load.content /\ y.adopted = w.load.basis
        /\ y.basis = w.load.basis /\ y.headers = w.load.headers
    <2> HIDE DEF w
    <2> QED BY <1>1, <1>2 DEF install, ViewState
  <1>4. (w.scheduled /\ ~w.load.header) \in BOOLEAN
    OBVIOUS
  <1>5. view' = [view EXCEPT ![v] = x]
    BY DEF adopt_committed_candidate
  <1> HIDE DEF y
  <1>6. /\ x \in ViewState
        /\ x.open = w.open /\ x.fresh = w.fresh /\ x.shown = w.load.content /\ x.adopted = w.load.basis
        /\ x.basis = w.load.basis /\ x.headers = w.load.headers /\ x.load = NoLoad
    BY <1>3, <1>4, NoLoadType DEF ViewState
  <1>7. NoLoad.phase = "none"
    BY DEF NoLoad
  <1> HIDE DEF x, w
  <1>8. same_is_shown(x)
    BY <1>6, <1>7 DEF same_is_shown
  <1>9. content_claims(x) \subseteq content_claims(w) /\ header_claims(x) \subseteq header_claims(w)
    BY <1>2, <1>6, <1>7 DEF content_claims, header_claims
  <1> QED BY <1>5, <1>6, <1>8, <1>9 DEF Quiet, w

LEMMA DeduplicateQuiet ==
  ASSUME TypeOK, NEW v \in View, Deduplicate(v)
  PROVE  \E x : Quiet(view[v], x) /\ view' = [view EXCEPT ![v] = x]
  <1> DEFINE w == view[v]
             x == [w EXCEPT !.basis = w.load.basis, !.load = NoLoad]
  <1>1. w \in ViewState /\ w.load \in Load
    BY DEF TypeOK, ViewState
  <1>2. w.load.basis \in Nat /\ w.load.phase = "committed" /\ w.load.same
    BY <1>1 DEF Load, Deduplicate, LoadIn
  <1>3. view' = [view EXCEPT ![v] = x]
    BY DEF Deduplicate
  <1>4. /\ x \in ViewState
        /\ x.open = w.open /\ x.fresh = w.fresh /\ x.shown = w.shown /\ x.adopted = w.adopted
        /\ x.basis = w.load.basis /\ x.headers = w.headers /\ x.load = NoLoad
    BY <1>1, <1>2, NoLoadType DEF ViewState
  <1>5. NoLoad.phase = "none"
    BY DEF NoLoad
  <1> HIDE DEF x, w
  <1>6. same_is_shown(x)
    BY <1>4, <1>5 DEF same_is_shown
  <1>7. same_is_shown(w) => w.load.content = w.shown
    BY <1>2 DEF same_is_shown
  <1>8. same_is_shown(w) => content_claims(x) \subseteq content_claims(w)
    BY <1>2, <1>4, <1>5, <1>7 DEF content_claims
  <1>9. header_claims(x) \subseteq header_claims(w)
    BY <1>4, <1>5 DEF header_claims
  <1> QED BY <1>3, <1>4, <1>6, <1>8, <1>9 DEF Quiet, w

LEMMA RetryLoadQuiet ==
  ASSUME TypeOK, NEW v \in View, RetryLoad(v)
  PROVE  \E x : Quiet(view[v], x) /\ view' = [view EXCEPT ![v] = x]
  <1> DEFINE w == view[v]
             load == [w.load EXCEPT !.phase = "reading", !.expected = authority.revision]
  <1>1. w \in ViewState /\ w.load \in Load /\ authority.revision \in Nat
    BY DEF TypeOK, ViewState
  <1>2. load \in Load /\ load.phase = "reading"
    BY <1>1 DEF Load
  <1>3. view' = [view EXCEPT ![v] = [w EXCEPT !.load = load]]
    BY <1>1 DEF RetryLoad, ViewState, TypeOK
  <1> HIDE DEF load, w
  <1>4. Quiet(w, [w EXCEPT !.load = load])
    BY <1>1, <1>2, QuietLoad
  <1> QED BY <1>3, <1>4 DEF w

LEMMA AnswerQuiet ==
  ASSUME TypeOK, NEW v \in View, handle_snapshot_applied(v)
  PROVE  \E x : /\ Quiet(view[v], x) /\ view' = [view EXCEPT ![v] = x]
                /\ \/ x.load = view[v].load /\ ops' = ops
                   \/ ops' = superseded(ops, v)
  <1> DEFINE w == view[v]
             b == begin_load(w, TRUE, FALSE, authority.revision)
             x == [w EXCEPT !.answer = "acked", !.page = w.adopted]
             y == [b EXCEPT !.answer = "stale"]
  <1>1. w \in ViewState /\ authority.revision \in Nat
    BY DEF TypeOK
  <1>2. CASE w.adopted < w.page
    <2>1. view' = [view EXCEPT ![v] = y] /\ ops' = superseded(ops, v)
      BY <1>2 DEF handle_snapshot_applied
    <2>2. LoadIsNew(w, b)
      BY <1>1, BeginLoad
    <2> HIDE DEF w, b
    <2>3. LoadIsNew(w, y)
      BY <2>2 DEF LoadIsNew, ViewState
    <2> HIDE DEF y
    <2> QED BY <1>1, <2>1, <2>3, QuietNewLoad DEF w
  <1>3. CASE ~(w.adopted < w.page)
    <2>1. view' = [view EXCEPT ![v] = x] /\ ops' = ops
      BY <1>3 DEF handle_snapshot_applied
    <2>2. /\ x \in ViewState
          /\ x.open = w.open /\ x.fresh = w.fresh /\ x.shown = w.shown /\ x.adopted = w.adopted
          /\ x.basis = w.basis /\ x.headers = w.headers /\ x.load = w.load
      BY <1>1 DEF ViewState
    <2> HIDE DEF w, x
    <2>3. Quiet(w, x)
      BY <2>2 DEF Quiet, content_claims, header_claims, same_is_shown
    <2> QED BY <2>1, <2>2, <2>3 DEF w
  <1> QED BY <1>2, <1>3

LEMMA HeaderRefreshReturnsQuiet ==
  ASSUME TypeOK, NEW v \in View, HeaderRefreshReturns(v)
  PROVE  \E x : Quiet(view[v], x) /\ view' = [view EXCEPT ![v] = x] /\ x.load = view[v].load
  <1> DEFINE w == view[v]
             x == [w EXCEPT !.scheduled = FALSE]
  <1>1. w \in ViewState
    BY DEF TypeOK
  <1>2. view' = [view EXCEPT ![v] = x]
    BY <1>1 DEF HeaderRefreshReturns, ViewState, TypeOK
  <1>3. /\ x \in ViewState
        /\ x.open = w.open /\ x.fresh = w.fresh /\ x.shown = w.shown /\ x.adopted = w.adopted
        /\ x.basis = w.basis /\ x.headers = w.headers /\ x.load = w.load
    BY <1>1 DEF ViewState
  <1> HIDE DEF w, x
  <1>4. Quiet(w, x)
    BY <1>3 DEF Quiet, content_claims, header_claims, same_is_shown
  <1> QED BY <1>2, <1>3, <1>4 DEF w

\* A view that begins a load, and nothing else.
LEMMA BeginLoadQuiet ==
  ASSUME TypeOK, NEW v \in View, NEW forced \in BOOLEAN, NEW header \in BOOLEAN
  PROVE  LET x == begin_load(view[v], forced, header, authority.revision)
         IN  Quiet(view[v], x) /\ LoadIsNew(view[v], x)
  <1> DEFINE w == view[v]
             x == begin_load(w, forced, header, authority.revision)
  <1>1. w \in ViewState /\ authority.revision \in Nat
    BY DEF TypeOK
  <1>2. LoadIsNew(w, x)
    BY <1>1, BeginLoad
  <1> HIDE DEF x, w
  <1>3. Quiet(w, x)
    BY <1>1, <1>2, QuietNewLoad
  <1> QED BY <1>2, <1>3 DEF x, w

-----------------------------------------------------------------------------
(* Operations and reservations *)

\* Operations are told of something, or end; the views of those that stay current wait
\* with a load that does not change.
Waits(v) == view'[v].load = view[v].load /\ view'[v].open = view[v].open

LEMMA MatchKept ==
  ASSUME OperationsMatch, NEW O \in SUBSET ops, NEW g,
         ops' \subseteq {g[op] : op \in O},
         \A op \in O : g[op].current =>
             /\ op.current /\ g[op].view = op.view /\ g[op].content = op.content
             /\ Waits(op.view)
  PROVE  OperationsMatch'
  <1>1. ASSUME NEW o \in ops', o.current
        PROVE  \E op \in ops : /\ op \in O /\ o = g[op] /\ op.current
                               /\ o.view = op.view /\ o.content = op.content
                               /\ Waits(op.view)
    BY <1>1
  <1>2. ASSUME NEW o \in ops', o.current
        PROVE  /\ view'[o.view].open
               /\ view'[o.view].load.phase = "committing"
               /\ view'[o.view].load.content = o.content
    BY <1>1, <1>2 DEF OperationsMatch, Waits
  <1>3. ASSUME NEW o \in ops', NEW p \in ops', o.current, p.current, o.view = p.view
        PROVE  o = p
    <2>1. PICK q \in ops : o = g[q] /\ q.current /\ o.view = q.view
      BY <1>1, <1>3
    <2>2. PICK r \in ops : p = g[r] /\ r.current /\ p.view = r.view
      BY <1>1, <1>3
    <2> QED BY <2>1, <2>2, <1>3 DEF OperationsMatch
  <1> QED BY <1>2, <1>3 DEF OperationsMatch

\* One view changes, and no operation is new.
LEMMA OneViewMatch ==
  ASSUME TypeOK, OperationsMatch, NEW v \in View,
         \A u \in View \ {v} : view'[u] = view[u],
         ops' \subseteq ops,
         \A op \in ops' : op.current /\ op.view = v => Waits(v)
  PROVE  OperationsMatch' /\ ops' \subseteq Operation
  <1>1. ops' \subseteq Operation /\ \A op \in ops' : op.view \in View
    BY DEF TypeOK, Operation
  <1>2. \A op \in ops' : op.current => Waits(op.view)
    BY <1>1 DEF Waits
  <1> QED BY <1>1, <1>2 DEF OperationsMatch, Waits

\* One view changes, and its operation is no longer wanted.
LEMMA SupersededMatch ==
  ASSUME TypeOK, OperationsMatch, NEW v \in View,
         \A u \in View \ {v} : view'[u] = view[u],
         ops' = superseded(ops, v)
  PROVE  OperationsMatch' /\ ops' \subseteq Operation
  <1> DEFINE g == [op \in ops |-> IF op.view = v THEN [op EXCEPT !.current = FALSE] ELSE op]
  <1>1. ops' = {g[op] : op \in ops}
    BY DEF superseded
  <1>2. ASSUME NEW op \in ops
        PROVE  op \in Operation /\ g[op] \in Operation
    <2>1. op \in Operation
      BY DEF TypeOK
    <2>2. [op EXCEPT !.current = FALSE] \in Operation
      BY <2>1 DEF Operation
    <2> QED BY <2>1, <2>2
  <1>3. ASSUME NEW op \in ops, g[op].current
        PROVE  op.view # v /\ g[op] = op
    BY <1>2, <1>3 DEF Operation
  <1>4. \A op \in ops : op.view \in View
    BY <1>2 DEF Operation
  <1>5. \A op \in ops : g[op].current =>
            /\ op.current /\ g[op].view = op.view /\ g[op].content = op.content
            /\ Waits(op.view)
    BY <1>3, <1>4 DEF Waits
  <1> HIDE DEF g
  <1> QED BY <1>1, <1>2, <1>5, MatchKept

\* Every view may change when no operation stays current.
LEMMA NoneCurrent ==
  ASSUME TypeOK, OperationsMatch, ops' = {[op EXCEPT !.current = FALSE] : op \in ops}
  PROVE  OperationsMatch' /\ ops' \subseteq Operation
  <1>1. \A op \in ops : op \in Operation
    BY DEF TypeOK
  <1>2. \A op \in ops' : op \in Operation /\ ~op.current
    BY <1>1 DEF Operation
  <1> QED BY <1>2 DEF OperationsMatch

\* Operations are invalidated.
LEMMA InvalidateType ==
  ASSUME NEW O \in SUBSET Operation, NEW content \in Nat
  PROVE  /\ invalidate(O, content) \subseteq Operation
         /\ \A o \in invalidate(O, content) :
               \E op \in O : /\ o.view = op.view /\ o.content = op.content
                             /\ o.current = op.current
  <1>1. ASSUME NEW o \in invalidate(O, content)
        PROVE  \E op \in O : o = IF op.content # content /\ ~op.turn
                                 THEN [op EXCEPT !.valid = FALSE] ELSE op
    BY <1>1 DEF invalidate
  <1>2. ASSUME NEW op \in O
        PROVE  LET o == [op EXCEPT !.valid = FALSE]
               IN  /\ o \in Operation
                   /\ o.view = op.view /\ o.content = op.content /\ o.current = op.current
    BY DEF Operation
  <1> QED BY <1>1, <1>2

\* Of the current operations of a view there is still one when others are invalidated.
InvalidatedOnce(content) ==
    \A o, p \in invalidate(ops, content) : o.current /\ p.current /\ o.view = p.view => o = p

LEMMA InvalidateOnce ==
  ASSUME OperationsMatch, NEW content, \A op \in ops : op \in Operation
  PROVE  InvalidatedOnce(content)
  <1> DEFINE g(op) == IF op.content # content /\ ~op.turn THEN [op EXCEPT !.valid = FALSE]
                      ELSE op
  <1>1. invalidate(ops, content) = {g(op) : op \in ops}
    BY DEF invalidate
  <1>2. ASSUME NEW op \in ops
        PROVE  g(op).view = op.view /\ g(op).current = op.current
    BY DEF Operation
  <1> HIDE DEF g
  <1>3. ASSUME NEW o \in invalidate(ops, content), NEW p \in invalidate(ops, content),
               o.current, p.current, o.view = p.view
        PROVE  o = p
    <2>1. PICK q \in ops, r \in ops : o = g(q) /\ p = g(r)
      BY <1>1
    <2>2. q = r
      BY <1>2, <1>3, <2>1 DEF OperationsMatch
    <2> QED BY <2>1, <2>2
  <1> QED BY <1>3 DEF InvalidatedOnce

Writers == {v \in View : Writing(v)}

LEMMA WritersFinite == IsFiniteSet(Writers) /\ Cardinality(Writers) \in Nat
  BY ViewRefreshAssumption, FS_Subset, FS_CardinalityType DEF Writers

LEMMA HeldStays ==
  ASSUME ReservationsBalance, held' = held, Writers' = Writers
  PROVE  ReservationsBalance'
  BY DEF ReservationsBalance, Writers

LEMMA HeldGrows ==
  ASSUME ReservationsBalance, NEW v \in View, v \notin Writers,
         held' = held + 1, Writers' = Writers \cup {v}
  PROVE  ReservationsBalance'
  BY WritersFinite, FS_AddElement DEF ReservationsBalance, Writers

LEMMA HeldShrinks ==
  ASSUME ReservationsBalance, NEW v \in Writers,
         held' = held - 1, Writers' = Writers \ {v}
  PROVE  ReservationsBalance' /\ held' \in Nat
  <1>1. Cardinality(Writers \ {v}) = Cardinality(Writers) - 1
    BY WritersFinite, FS_RemoveElement
  <1>2. IsFiniteSet(Writers \ {v})
    BY WritersFinite, FS_Subset
  <1>3. Cardinality(Writers \ {v}) \in Nat
    BY <1>2, FS_CardinalityType
  <1> QED BY <1>1, <1>3 DEF ReservationsBalance, Writers

-----------------------------------------------------------------------------
(* What is enough for a step *)

\* The view goes from w to x, and makes no claim but one about the authority.
Hands(w, x, a) ==
    /\ content_claims(x) \subseteq content_claims(w) \cup {<<a.revision, a.content>>}
    /\ header_claims(x) \subseteq header_claims(w) \cup {<<a.revision, a.headers>>}
    /\ same_is_shown(x)

LEMMA ClaimsKept ==
  ASSUME TypeOK, ClaimsAgree,
         authority' \in [revision : Nat, content : Nat, headers : Nat],
         authority.revision < authority'.revision \/ authority' = authority,
         \A u \in View : Hands(view[u], view'[u], authority')
  PROVE  ClaimsAgree'
  <1> DEFINE content == <<authority'.revision, authority'.content>>
             headers == <<authority'.revision, authority'.headers>>
  <1>1. authority.revision \in Nat /\ authority'.revision \in Nat
        /\ authority'.content \in Nat /\ authority'.headers \in Nat
    BY DEF TypeOK
  <1>2. authority.revision <= authority'.revision
    BY <1>1
  <1>3. ContentClaims' \subseteq ContentClaims \cup {content}
    <2>1. \A u \in View : content_claims(view'[u]) \subseteq ContentClaims \cup {content}
      BY DEF Hands, ContentClaims
    <2>2. ContentClaims' = {content} \cup UNION {content_claims(view'[u]) : u \in View}
      BY DEF ContentClaims, content_claims
    <2> HIDE DEF content
    <2> QED BY <2>1, <2>2
  <1>4. HeaderClaims' \subseteq HeaderClaims \cup {headers}
    <2>1. \A u \in View : header_claims(view'[u]) \subseteq HeaderClaims \cup {headers}
      BY DEF Hands, HeaderClaims
    <2>2. HeaderClaims' = {headers} \cup UNION {header_claims(view'[u]) : u \in View}
      BY DEF HeaderClaims, header_claims
    <2> HIDE DEF headers
    <2> QED BY <2>1, <2>2
  <1>5. authority.revision < authority'.revision \/ content \in ContentClaims
    BY DEF ContentClaims
  <1>6. authority.revision < authority'.revision \/ headers \in HeaderClaims
    BY DEF HeaderClaims
  <1>7. Functional(ContentClaims, authority.revision) /\ Functional(HeaderClaims, authority.revision)
    BY DEF ClaimsAgree
  <1>8. Functional(ContentClaims', authority'.revision)
    BY <1>1, <1>2, <1>3, <1>5, <1>7, FunctionalGrows
  <1>9. Functional(HeaderClaims', authority'.revision)
    BY <1>1, <1>2, <1>4, <1>6, <1>7, FunctionalGrows
  <1>10. \A u \in View : same_is_shown(view'[u])
    BY DEF Hands
  <1> QED BY <1>8, <1>9, <1>10 DEF ClaimsAgree, Functional, same_is_shown

LEMMA QuietHands ==
  ASSUME NEW w, NEW x, NEW a, Quiet(w, x), same_is_shown(w)
  PROVE  Hands(w, x, a)
  BY DEF Quiet, Hands

\* The reservations and the fresh views, when no save gets on.
LEMMA SaveRests ==
  ASSUME Balance, \A u \in View : Quiet(view[u], view'[u]), UNCHANGED <<held, save>>
  PROVE  ReservationsBalance' /\ FreshRests'
  <1>1. \A u \in View : view'[u].open = view[u].open /\ view'[u].fresh = view[u].fresh
    BY DEF Quiet
  <1>2. Writers' = Writers
    BY <1>1 DEF Writers, Writing
  <1>3. ReservationsBalance'
    BY <1>2, HeldStays DEF Balance
  <1>4. FreshRests'
    BY <1>1 DEF Balance, FreshRests
  <1> QED BY <1>3, <1>4

\* The views step quietly.
LEMMA QuietStep ==
  ASSUME IInv,
         view' \in [View -> ViewState], \A u \in View : Quiet(view[u], view'[u]),
         ops' \subseteq Operation, OperationsMatch', authority' = authority,
         ReservationsBalance', FreshRests',
         disk' \in [content : Nat, present : BOOLEAN],
         signal' \in BOOLEAN, pending' \in BOOLEAN, flush' \in BOOLEAN,
         held' \in Nat, events' \in Nat, settings' \subseteq Nat,
         save' \in [View -> {"none", "checked", "writing", "written"}]
  PROVE  IInv'
  <1>1. TypeOK'
    BY DEF IInv, Balance, TypeOK
  <1>2. authority' \in [revision : Nat, content : Nat, headers : Nat]
    BY <1>1 DEF TypeOK
  <1>3. \A u \in View : same_is_shown(view[u])
    BY DEF IInv, ClaimsAgree
  <1>4. \A u \in View : Hands(view[u], view'[u], authority')
    BY <1>3, QuietHands
  <1>5. ClaimsAgree'
    BY <1>2, <1>4, ClaimsKept DEF IInv, Balance
  <1> QED BY <1>1, <1>5 DEF IInv, Balance

\* One view steps quietly, and nothing else but events and operations.
LEMMA OneViewStep ==
  ASSUME IInv, NEW v \in View, NEW x, Quiet(view[v], x), view' = [view EXCEPT ![v] = x],
         ops' \subseteq Operation, OperationsMatch', events' \in Nat,
         UNCHANGED <<disk, signal, refreshVars, authority, settings, save>>
  PROVE  IInv'
  <1>1. TypeOK /\ Balance
    BY DEF IInv, Balance
  <1>2. view' \in [View -> ViewState] /\ \A u \in View : Quiet(view[u], view'[u])
    BY <1>1, OneView
  <1>3. ReservationsBalance' /\ FreshRests'
    BY <1>1, <1>2, SaveRests DEF refreshVars
  <1> QED BY <1>1, <1>2, <1>3, QuietStep DEF TypeOK, refreshVars

\* One view steps quietly, whose load has no operation.
LEMMA LoadSteps ==
  ASSUME IInv, NEW v \in View, NEW x, Quiet(view[v], x), view' = [view EXCEPT ![v] = x],
         view[v].load.phase # "committing" \/ x.load = view[v].load,
         UNCHANGED <<disk, signal, refreshVars, authority, settings, ops, save, events>>
  PROVE  IInv'
  <1>1. TypeOK /\ OperationsMatch
    BY DEF IInv, Balance
  <1>2. view'[v] = x /\ \A u \in View \ {v} : view'[u] = view[u]
    BY <1>1, OneView
  <1>3. \A op \in ops' : op.current /\ op.view = v => Waits(v)
    BY <1>1, <1>2 DEF OperationsMatch, Waits, Quiet
  <1>4. OperationsMatch' /\ ops' \subseteq Operation
    BY <1>1, <1>2, <1>3, OneViewMatch
  <1>5. events' \in Nat
    BY <1>1 DEF TypeOK
  <1> QED BY <1>4, <1>5, OneViewStep

\* One view steps quietly, and what its load waited for is superseded.
LEMMA LoadSuperseded ==
  ASSUME IInv, NEW v \in View, NEW x, Quiet(view[v], x), view' = [view EXCEPT ![v] = x],
         ops' = superseded(ops, v), events' \in Nat,
         UNCHANGED <<disk, signal, refreshVars, authority, settings, save>>
  PROVE  IInv'
  <1>1. TypeOK /\ OperationsMatch
    BY DEF IInv, Balance
  <1>2. \A u \in View \ {v} : view'[u] = view[u]
    BY <1>1, OneView
  <1>3. OperationsMatch' /\ ops' \subseteq Operation
    BY <1>1, <1>2, SupersededMatch
  <1> QED BY <1>3, OneViewStep

-----------------------------------------------------------------------------
(* The steps *)

LEMMA ReadStep ==
  ASSUME IInv, NEW v \in View, Read(v)
  PROVE  IInv'
  <1>1. PICK x : Quiet(view[v], x) /\ view' = [view EXCEPT ![v] = x]
    BY ReadQuiet DEF IInv, Balance
  <1>2. view[v].load.phase # "committing"
    BY DEF Read, LoadIn
  <1>3. UNCHANGED <<disk, signal, refreshVars, authority, settings, ops, save, events>>
    BY DEF Read
  <1> QED BY <1>1, <1>2, <1>3, LoadSteps

LEMMA VerifyStep ==
  ASSUME IInv, NEW v \in View, Verify(v)
  PROVE  IInv'
  <1>1. PICK x : Quiet(view[v], x) /\ view' = [view EXCEPT ![v] = x]
    BY VerifyQuiet DEF IInv, Balance
  <1>2. view[v].load.phase # "committing"
    BY DEF Verify, LoadIn
  <1>3. UNCHANGED <<disk, signal, refreshVars, authority, settings, ops, save, events>>
    BY DEF Verify
  <1> QED BY <1>1, <1>2, <1>3, LoadSteps

LEMMA AdoptStep ==
  ASSUME IInv, NEW v \in View, adopt_committed_candidate(v)
  PROVE  IInv'
  <1>1. PICK x : Quiet(view[v], x) /\ view' = [view EXCEPT ![v] = x]
    BY AdoptQuiet DEF IInv, Balance
  <1>2. view[v].load.phase # "committing"
    BY DEF adopt_committed_candidate, LoadIn
  <1>3. UNCHANGED <<disk, signal, refreshVars, authority, settings, ops, save, events>>
    BY DEF adopt_committed_candidate
  <1> QED BY <1>1, <1>2, <1>3, LoadSteps

LEMMA DeduplicateStep ==
  ASSUME IInv, NEW v \in View, Deduplicate(v)
  PROVE  IInv'
  <1>1. PICK x : Quiet(view[v], x) /\ view' = [view EXCEPT ![v] = x]
    BY DeduplicateQuiet DEF IInv, Balance
  <1>2. view[v].load.phase # "committing"
    BY DEF Deduplicate, LoadIn
  <1>3. UNCHANGED <<disk, signal, refreshVars, authority, settings, ops, save, events>>
    BY DEF Deduplicate
  <1> QED BY <1>1, <1>2, <1>3, LoadSteps

LEMMA RetryLoadStep ==
  ASSUME IInv, NEW v \in View, RetryLoad(v)
  PROVE  IInv'
  <1>1. PICK x : Quiet(view[v], x) /\ view' = [view EXCEPT ![v] = x]
    BY RetryLoadQuiet DEF IInv, Balance
  <1>2. view[v].load.phase # "committing"
    BY DEF RetryLoad, LoadIn
  <1>3. UNCHANGED <<disk, signal, refreshVars, authority, settings, ops, save, events>>
    BY DEF RetryLoad
  <1> QED BY <1>1, <1>2, <1>3, LoadSteps

LEMMA BeginPhysicalStep ==
  ASSUME IInv, NEW v \in View, begin_physical(v)
  PROVE  IInv'
  <1> DEFINE content == view[v].load.content
  <1>1. PICK x : /\ Quiet(view[v], x) /\ view' = [view EXCEPT ![v] = x]
                 /\ \/ ops' = ops
                    \/ /\ x.load.phase = "committing" /\ x.load.content = content
                       /\ ops' = invalidate(ops, content) \cup {begun(v, content)}
    BY BeginPhysicalQuiet DEF IInv, Balance
  <1>2. view[v].load.phase = "verified" /\ view[v].open
    BY DEF begin_physical, LoadIn
  <1>3. UNCHANGED <<disk, signal, refreshVars, authority, settings, save, events>>
    BY DEF begin_physical
  <1>4. CASE ops' = ops
    BY <1>1, <1>2, <1>3, <1>4, LoadSteps
  <1>5. CASE ops' # ops
    <2>1. TypeOK /\ OperationsMatch
      BY DEF IInv, Balance
    <2>2. view'[v] = x /\ \A u \in View \ {v} : view'[u] = view[u]
      BY <1>1, <2>1, OneView
    <2>3. content \in Nat
      BY <2>1 DEF TypeOK, ViewState, Load
    <2>4. begun(v, content) \in Operation
      BY <2>3 DEF begun, Operation
    <2>5. \A op \in ops : op \in Operation /\ op.view \in View
      BY <2>1 DEF TypeOK, Operation
    <2>6. \A op \in ops : op.current => op.view # v
      BY <1>2, <2>1 DEF OperationsMatch
    <2>7. /\ invalidate(ops, content) \subseteq Operation
          /\ \A o \in invalidate(ops, content) :
                \E op \in ops : /\ o.view = op.view /\ o.content = op.content
                                /\ o.current = op.current
      BY <2>3, <2>5, InvalidateType
    <2>8. ops' \subseteq Operation
      BY <1>1, <1>5, <2>4, <2>7
    <2>9. \A op \in invalidate(ops, content) : op.current => op.view # v /\ op.view \in View
      BY <2>5, <2>6, <2>7
    <2>10. OperationsMatch'
      <3>1. ASSUME NEW o \in ops', o.current
            PROVE  /\ view'[o.view].open
                   /\ view'[o.view].load.phase = "committing"
                   /\ view'[o.view].load.content = o.content
        <4>1. CASE o = begun(v, content)
          BY <1>1, <1>2, <1>5, <2>2, <4>1 DEF begun, Quiet
        <4>2. CASE o \in invalidate(ops, content)
          BY <2>1, <2>2, <2>7, <2>9, <3>1, <4>2 DEF OperationsMatch
        <4> QED BY <1>1, <1>5, <4>1, <4>2
      <3>2. ASSUME NEW o \in ops', NEW p \in ops', o.current, p.current, o.view = p.view
            PROVE  o = p
        <4>1. begun(v, content).view = v
          BY DEF begun
        <4>2. CASE o \in invalidate(ops, content) /\ p \in invalidate(ops, content)
          <5>1. InvalidatedOnce(content)
            BY <2>1, <2>5, InvalidateOnce
          <5> QED BY <3>2, <4>2, <5>1 DEF InvalidatedOnce
        <4> QED BY <1>1, <1>5, <2>9, <3>2, <4>1, <4>2
      <3> QED BY <3>1, <3>2 DEF OperationsMatch
    <2>11. events' \in Nat
      BY <1>3, <2>1 DEF TypeOK
    <2> QED BY <1>1, <1>3, <2>8, <2>10, <2>11, OneViewStep
  <1> QED BY <1>4, <1>5

LEMMA AnswerStep ==
  ASSUME IInv, NEW v \in View, handle_snapshot_applied(v)
  PROVE  IInv'
  <1>1. PICK x : /\ Quiet(view[v], x) /\ view' = [view EXCEPT ![v] = x]
                 /\ \/ x.load = view[v].load /\ ops' = ops
                    \/ ops' = superseded(ops, v)
    <2>1. TypeOK
      BY DEF IInv, Balance
    <2> QED BY <2>1, AnswerQuiet
  <1>2. UNCHANGED <<disk, signal, refreshVars, authority, settings, save, events>>
    BY DEF handle_snapshot_applied
  <1>3. events' \in Nat
    BY <1>2 DEF IInv, Balance, TypeOK
  <1> QED BY <1>1, <1>2, <1>3, LoadSteps, LoadSuperseded

LEMMA HeaderRefreshReturnsStep ==
  ASSUME IInv, NEW v \in View, HeaderRefreshReturns(v)
  PROVE  IInv'
  <1>1. PICK x : /\ Quiet(view[v], x) /\ view' = [view EXCEPT ![v] = x]
                 /\ x.load = view[v].load
    BY HeaderRefreshReturnsQuiet DEF IInv, Balance
  <1>2. UNCHANGED <<disk, signal, refreshVars, authority, settings, ops, save, events>>
    BY DEF HeaderRefreshReturns
  <1> QED BY <1>1, <1>2, LoadSteps

LEMMA CountedType ==
  ASSUME TypeOK, Counted
  PROVE  events' \in Nat
  BY DEF TypeOK, Counted

LEMMA RefreshPanelSourceStep ==
  ASSUME IInv, NEW v \in View, refresh_panel_source(v)
  PROVE  IInv'
  <1> DEFINE x == begin_load(view[v], TRUE, FALSE, authority.revision)
  <1>1. TypeOK
    BY DEF IInv, Balance
  <1>2. Quiet(view[v], x)
    BY <1>1, BeginLoadQuiet
  <1>3. /\ view' = [view EXCEPT ![v] = x]
        /\ UNCHANGED <<disk, signal, refreshVars, authority, settings, save>>
        /\ ops' = superseded(ops, v)
    BY DEF refresh_panel_source
  <1>4. events' \in Nat
    BY <1>1, CountedType DEF refresh_panel_source
  <1> HIDE DEF x
  <1> QED BY <1>2, <1>3, <1>4, LoadSuperseded

\* The views stay as they are, and so do their operations.
LEMMA ViewsStay ==
  ASSUME IInv, UNCHANGED <<view, ops, authority>>,
         ReservationsBalance', FreshRests',
         disk' \in [content : Nat, present : BOOLEAN],
         signal' \in BOOLEAN, pending' \in BOOLEAN, flush' \in BOOLEAN,
         held' \in Nat, events' \in Nat, settings' \subseteq Nat,
         save' \in [View -> {"none", "checked", "writing", "written"}]
  PROVE  IInv'
  <1>1. TypeOK /\ OperationsMatch
    BY DEF IInv, Balance
  <1>2. view' \in [View -> ViewState] /\ \A u \in View : Quiet(view[u], view'[u])
    BY <1>1, QuietSame DEF TypeOK
  <1>3. OperationsMatch' /\ ops' \subseteq Operation
    BY <1>1 DEF OperationsMatch, TypeOK
  <1> QED BY <1>2, <1>3, QuietStep

\* The save of a view gets on.
LEMMA SaveGetsOn ==
  ASSUME Balance, NEW v \in View, NEW s, save' = [save EXCEPT ![v] = s], view' = view,
         ~view[v].fresh \/ s = "none"
  PROVE  /\ FreshRests'
         /\ \A u \in View \ {v} : u \in Writers <=> u \in Writers'
         /\ v \in Writers' <=> view[v].open /\ s \in {"writing", "written"}
         /\ s \in {"none", "checked"} => v \notin Writers'
  <1>1. save'[v] = s /\ \A u \in View \ {v} : save'[u] = save[u]
    BY DEF Balance, TypeOK
  <1> QED BY <1>1 DEF Balance, FreshRests, Writers, Writing

LEMMA FileChangesStep ==
  ASSUME IInv, FileChanges
  PROVE  IInv'
  <1>1. Balance /\ TypeOK
    BY DEF IInv, Balance
  <1>2. PICK present \in BOOLEAN : disk' = [content |-> disk.content + 1, present |-> present]
    BY DEF FileChanges
  <1>3. disk' \in [content : Nat, present : BOOLEAN]
    BY <1>1, <1>2 DEF TypeOK
  <1>4. UNCHANGED <<refreshVars, authority, settings, ops, view, save>> /\ signal' = TRUE
    BY DEF FileChanges
  <1>5. events' \in Nat
    BY <1>1, CountedType DEF FileChanges
  <1>6. ReservationsBalance' /\ FreshRests'
    BY <1>1, <1>4, SaveRests, QuietSame DEF TypeOK, refreshVars
  <1> QED BY <1>1, <1>3, <1>4, <1>5, <1>6, ViewsStay DEF TypeOK, refreshVars

LEMMA QueueWatcherRefreshStep ==
  ASSUME IInv, queue_watcher_refresh
  PROVE  IInv'
  <1>1. Balance /\ TypeOK
    BY DEF IInv, Balance
  <1>2. UNCHANGED <<disk, held, authority, settings, ops, view, save, events>>
    BY DEF queue_watcher_refresh
  <1>3. signal' \in BOOLEAN /\ pending' \in BOOLEAN /\ flush' \in BOOLEAN
    BY <1>1 DEF queue_watcher_refresh, TypeOK
  <1>4. ReservationsBalance' /\ FreshRests'
    BY <1>1, <1>2, SaveRests, QuietSame DEF TypeOK
  <1> QED BY <1>1, <1>2, <1>3, <1>4, ViewsStay DEF TypeOK

LEMMA HeaderSettingStep ==
  ASSUME IInv, NEW v \in View, setExcelFirstRowHeader(v)
  PROVE  IInv'
  <1>1. Balance /\ TypeOK
    BY DEF IInv, Balance
  <1>2. UNCHANGED <<disk, signal, refreshVars, authority, ops, view, save>>
    BY DEF setExcelFirstRowHeader
  <1>3. settings' \subseteq Nat
    BY <1>1 DEF setExcelFirstRowHeader, TypeOK
  <1>4. events' \in Nat
    BY <1>1, CountedType DEF setExcelFirstRowHeader
  <1>5. ReservationsBalance' /\ FreshRests'
    BY <1>1, <1>2, SaveRests, QuietSame DEF TypeOK, refreshVars
  <1> QED BY <1>1, <1>2, <1>3, <1>4, <1>5, ViewsStay DEF TypeOK, refreshVars

LEMMA BeginSaveStep ==
  ASSUME IInv, NEW v \in View, BeginSave(v)
  PROVE  IInv'
  <1> DEFINE x == begin_load(view[v], TRUE, FALSE, authority.revision)
  <1>1. Balance /\ TypeOK
    BY DEF IInv, Balance
  <1>2. UNCHANGED <<disk, signal, refreshVars, authority, settings>> /\ events' \in Nat
    BY <1>1, CountedType DEF BeginSave
  <1>3. CASE view' = [view EXCEPT ![v] = x] /\ ops' = superseded(ops, v) /\ save' = save
    <2>1. Quiet(view[v], x)
      BY <1>1, BeginLoadQuiet
    <2> HIDE DEF x
    <2> QED BY <1>2, <1>3, <2>1, LoadSuperseded
  <1>4. CASE save' = [save EXCEPT ![v] = "checked"] /\ view' = view /\ ops' = ops
    <2>1. save[v] = "none" /\ view[v].open /\ ~view[v].fresh
      BY <1>1 DEF BeginSave, Balance, FreshRests
    <2>2. /\ FreshRests'
          /\ \A u \in View \ {v} : u \in Writers <=> u \in Writers'
          /\ v \notin Writers'
      BY <1>1, <1>4, <2>1, SaveGetsOn
    <2>3. v \notin Writers
      BY <2>1 DEF Writers, Writing
    <2>4. Writers' = Writers
      BY <2>2, <2>3 DEF Writers
    <2>5. ReservationsBalance'
      BY <1>1, <1>2, <2>4, HeldStays DEF refreshVars, Balance
    <2>6. save' \in [View -> {"none", "checked", "writing", "written"}]
      BY <1>1, <1>4 DEF TypeOK
    <2> QED BY <1>1, <1>2, <1>4, <2>2, <2>5, <2>6, ViewsStay DEF TypeOK, refreshVars
  <1> QED BY <1>3, <1>4 DEF BeginSave

LEMMA BeginWriteStep ==
  ASSUME IInv, NEW v \in View, BeginWrite(v)
  PROVE  IInv'
  <1> DEFINE x == begin_load(view[v], TRUE, FALSE, authority.revision)
  <1>1. Balance /\ TypeOK /\ events' \in Nat
    BY DEF IInv, Balance, TypeOK, BeginWrite
  <1>2. UNCHANGED <<disk, signal, pending, flush, authority, settings, events>>
    BY DEF BeginWrite
  <1>3. save[v] = "checked" /\ view[v].open /\ ~view[v].fresh
    BY <1>1 DEF BeginWrite, Balance, FreshRests
  <1>4. v \notin Writers
    BY <1>3 DEF Writers, Writing
  <1>5. CASE /\ save' = [save EXCEPT ![v] = "writing"] /\ held' = held + 1
             /\ view' = view /\ ops' = ops
    <2>1. /\ FreshRests'
          /\ \A u \in View \ {v} : u \in Writers <=> u \in Writers'
          /\ v \in Writers'
      BY <1>1, <1>3, <1>5, SaveGetsOn
    <2>2. Writers' = Writers \cup {v}
      BY <2>1 DEF Writers
    <2>3. ReservationsBalance'
      BY <1>1, <1>4, <1>5, <2>2, HeldGrows DEF Balance
    <2>4. save' \in [View -> {"none", "checked", "writing", "written"}] /\ held' \in Nat
      BY <1>1, <1>5 DEF TypeOK
    <2> QED BY <1>1, <1>2, <1>5, <2>1, <2>3, <2>4, ViewsStay DEF TypeOK
  <1>6. CASE /\ save' = [save EXCEPT ![v] = "none"] /\ held' = held
             /\ view' = [view EXCEPT ![v] = x] /\ ops' = superseded(ops, v)
    <2>1. Quiet(view[v], x)
      BY <1>1, BeginLoadQuiet
    <2> HIDE DEF x
    <2>2. /\ view' \in [View -> ViewState] /\ \A u \in View : Quiet(view[u], view'[u])
          /\ \A u \in View \ {v} : view'[u] = view[u]
      BY <1>1, <1>6, <2>1, OneView
    <2>3. \A u \in View : view'[u].open = view[u].open /\ view'[u].fresh = view[u].fresh
      BY <2>2 DEF Quiet
    <2>4. save'[v] = "none" /\ \A u \in View \ {v} : save'[u] = save[u]
      BY <1>1, <1>6 DEF TypeOK
    <2>5. Writers' = Writers
      BY <1>3, <2>3, <2>4 DEF Writers, Writing
    <2>6. ReservationsBalance'
      BY <1>1, <1>6, <2>5, HeldStays DEF Balance
    <2>7. FreshRests'
      BY <1>1, <2>3, <2>4 DEF Balance, FreshRests
    <2>8. OperationsMatch' /\ ops' \subseteq Operation
      BY <1>1, <1>6, <2>2, SupersededMatch DEF IInv
    <2>9. save' \in [View -> {"none", "checked", "writing", "written"}] /\ held' \in Nat
      BY <1>1, <1>6 DEF TypeOK
    <2> QED BY <1>1, <1>2, <2>2, <2>6, <2>7, <2>8, <2>9, QuietStep DEF TypeOK
  <1> QED BY <1>5, <1>6 DEF BeginWrite

LEMMA WritesStep ==
  ASSUME IInv, NEW v \in View, Writes(v)
  PROVE  IInv'
  <1>1. Balance /\ TypeOK
    BY DEF IInv, Balance
  <1>2. /\ save[v] = "writing" /\ save' = [save EXCEPT ![v] = "written"] /\ signal' = TRUE
        /\ UNCHANGED <<refreshVars, authority, settings, ops, view, events>>
    BY DEF Writes
  <1>3. ~view[v].fresh
    BY <1>1, <1>2 DEF Balance, FreshRests
  <1>4. /\ FreshRests'
        /\ \A u \in View \ {v} : u \in Writers <=> u \in Writers'
        /\ v \in Writers' <=> view[v].open
    BY <1>1, <1>2, <1>3, SaveGetsOn
  <1>5. v \in Writers <=> view[v].open
    BY <1>2 DEF Writers, Writing
  <1>6. Writers' = Writers
    BY <1>4, <1>5 DEF Writers
  <1>7. ReservationsBalance'
    BY <1>1, <1>2, <1>6, HeldStays DEF refreshVars, Balance
  <1>8. save' \in [View -> {"none", "checked", "writing", "written"}]
    BY <1>1, <1>2 DEF TypeOK
  <1>9. disk' \in [content : Nat, present : BOOLEAN]
    BY <1>1 DEF Writes, TypeOK
  <1> QED BY <1>1, <1>2, <1>4, <1>7, <1>8, <1>9, ViewsStay DEF TypeOK, refreshVars

LEMMA SaveFailsStep ==
  ASSUME IInv, NEW v \in View, SaveFails(v)
  PROVE  IInv'
  <1>1. Balance /\ TypeOK
    BY DEF IInv, Balance
  <1>2. /\ save[v] \in {"writing", "written"} /\ save' = [save EXCEPT ![v] = "none"]
        /\ UNCHANGED <<disk, signal, pending, authority, settings, ops, view>>
    BY DEF SaveFails
  <1>3. events' \in Nat
    BY <1>1, CountedType DEF SaveFails, TypeOK
  <1>4. /\ FreshRests'
        /\ \A u \in View \ {v} : u \in Writers <=> u \in Writers'
        /\ v \notin Writers'
    BY <1>1, <1>2, SaveGetsOn
  <1>5. v \in Writers <=> view[v].open
    BY <1>2 DEF Writers, Writing
  <1>6. Writers' = Writers \ {v}
    BY <1>4 DEF Writers
  <1>7. ReservationsBalance' /\ held' \in Nat /\ flush' \in BOOLEAN
    <2>1. CASE view[v].open
      <3>1. held' = held - 1 /\ flush' \in BOOLEAN
        BY <1>1, <2>1 DEF SaveFails, release_reservation, TypeOK
      <3> QED BY <1>1, <1>5, <1>6, <2>1, <3>1, HeldShrinks DEF Balance
    <2>2. CASE ~view[v].open
      <3>1. held' = held /\ flush' = flush
        BY <2>2 DEF SaveFails
      <3>2. Writers' = Writers
        BY <1>5, <1>6, <2>2
      <3> QED BY <1>1, <3>1, <3>2, HeldStays DEF Balance, TypeOK
    <2> QED BY <2>1, <2>2
  <1>8. save' \in [View -> {"none", "checked", "writing", "written"}]
    BY <1>1, <1>2 DEF TypeOK
  <1> QED BY <1>1, <1>2, <1>3, <1>4, <1>7, <1>8, ViewsStay DEF TypeOK

\* Every open view begins a load.
LEMMA DispatchQuiet ==
  ASSUME TypeOK, OperationsMatch, dispatch_refresh
  PROVE  /\ view' \in [View -> ViewState]
         /\ \A u \in View : Quiet(view[u], view'[u])
         /\ OperationsMatch' /\ ops' \subseteq Operation
  <1>1. ASSUME NEW u \in View
        PROVE  Quiet(view[u], view'[u])
    <2> DEFINE x == begin_load(view[u], FALSE, FALSE, authority.revision)
    <2>1. view'[u] = IF view[u].open THEN x ELSE view[u]
      BY DEF dispatch_refresh
    <2>2. Quiet(view[u], x)
      BY BeginLoadQuiet
    <2>3. Quiet(view[u], view[u])
      BY QuietSame DEF TypeOK
    <2> HIDE DEF x
    <2> QED BY <2>1, <2>2, <2>3
  <1>2. view' \in [View -> ViewState]
    <2>1. view' = [u \in View |-> view'[u]]
      BY DEF dispatch_refresh
    <2>2. \A u \in View : view'[u] \in ViewState
      BY <1>1 DEF Quiet
    <2> QED BY <2>1, <2>2
  <1>3. OperationsMatch' /\ ops' \subseteq Operation
    BY NoneCurrent DEF dispatch_refresh
  <1> QED BY <1>1, <1>2, <1>3

LEMMA FlushStep ==
  ASSUME IInv, flush_pending_refresh
  PROVE  IInv'
  <1>1. Balance /\ TypeOK /\ OperationsMatch
    BY DEF IInv, Balance
  <1>2. UNCHANGED <<disk, signal, held, authority, settings, save, events>> /\ flush' = FALSE
    BY DEF flush_pending_refresh
  <1>3. CASE held > 0
    <2>1. UNCHANGED <<pending, view, ops>>
      BY <1>3 DEF flush_pending_refresh
    <2>2. ReservationsBalance' /\ FreshRests'
      BY <1>1, <1>2, <2>1, SaveRests, QuietSame DEF TypeOK
    <2> QED BY <1>1, <1>2, <2>1, <2>2, ViewsStay DEF TypeOK
  <1>4. CASE ~(held > 0)
    <2>1. pending' = FALSE /\ dispatch_refresh
      BY <1>4 DEF flush_pending_refresh
    <2>2. /\ view' \in [View -> ViewState] /\ \A u \in View : Quiet(view[u], view'[u])
          /\ OperationsMatch' /\ ops' \subseteq Operation
      BY <1>1, <2>1, DispatchQuiet
    <2>3. ReservationsBalance' /\ FreshRests'
      BY <1>1, <1>2, <2>2, SaveRests
    <2> QED BY <1>1, <1>2, <2>1, <2>2, <2>3, QuietStep DEF TypeOK
  <1> QED BY <1>3, <1>4

LEMMA RequestPostSaveStep ==
  ASSUME IInv, NEW v \in View, request_post_save(v)
  PROVE  IInv'
  <1>1. Balance /\ TypeOK /\ OperationsMatch
    BY DEF IInv, Balance
  <1>2. /\ save[v] = "written" /\ save' = [save EXCEPT ![v] = "none"]
        /\ UNCHANGED <<disk, signal, authority, settings, events>>
    BY DEF request_post_save
  <1>3. save'[v] = "none" /\ \A u \in View \ {v} : save'[u] = save[u]
    BY <1>1, <1>2 DEF TypeOK
  <1>4. save' \in [View -> {"none", "checked", "writing", "written"}]
    BY <1>1, <1>2 DEF TypeOK
  <1>5. CASE view[v].open
    <2>1. held' = held - 1 /\ pending' = FALSE /\ flush' = FALSE /\ dispatch_refresh
      BY <1>5 DEF request_post_save
    <2>2. /\ view' \in [View -> ViewState] /\ \A u \in View : Quiet(view[u], view'[u])
          /\ OperationsMatch' /\ ops' \subseteq Operation
      BY <1>1, <2>1, DispatchQuiet
    <2>3. \A u \in View : view'[u].open = view[u].open /\ view'[u].fresh = view[u].fresh
      BY <2>2 DEF Quiet
    <2>4. v \in Writers
      BY <1>2, <1>5 DEF Writers, Writing
    <2>5. v \notin Writers'
      BY <1>3 DEF Writers, Writing
    <2>6. \A u \in View \ {v} : u \in Writers <=> u \in Writers'
      BY <1>3, <2>3 DEF Writers, Writing
    <2>7. Writers' = Writers \ {v}
      BY <2>5, <2>6 DEF Writers
    <2>8. ReservationsBalance' /\ held' \in Nat
      BY <1>1, <2>1, <2>4, <2>7, HeldShrinks DEF Balance
    <2>9. FreshRests'
      BY <1>1, <1>3, <2>3 DEF Balance, FreshRests
    <2> QED BY <1>1, <1>2, <1>4, <2>1, <2>2, <2>8, <2>9, QuietStep DEF TypeOK
  <1>6. CASE ~view[v].open
    <2>1. UNCHANGED <<refreshVars, view, ops>>
      BY <1>6 DEF request_post_save
    <2>2. FreshRests'
      BY <1>1, <1>2, <2>1, SaveGetsOn
    <2>3. Writers' = Writers
      BY <1>3, <1>6, <2>1 DEF Writers, Writing
    <2>4. ReservationsBalance'
      BY <1>1, <2>1, <2>3, HeldStays DEF Balance, refreshVars
    <2> QED BY <1>1, <1>2, <1>4, <2>1, <2>2, <2>4, ViewsStay DEF TypeOK, refreshVars
  <1> QED BY <1>5, <1>6

\* An operation ends without a commit.
LEMMA UnfinishedStep ==
  ASSUME IInv, NEW op \in ops, Unfinished(op), events' \in Nat
  PROVE  IInv'
  <1>1. Balance /\ TypeOK /\ OperationsMatch
    BY DEF IInv, Balance
  <1>2. /\ ops' = ops \ {op}
        /\ UNCHANGED <<disk, signal, refreshVars, authority, settings, save>>
    BY DEF Unfinished
  <1>3. op.view \in View /\ op.current \in BOOLEAN
    BY <1>1 DEF TypeOK, Operation
  <1>4. CASE op.current
    <2> DEFINE v == op.view
               x == attempt_failed(view[v])
    <2>1. view' = [view EXCEPT ![v] = x]
      BY <1>4 DEF Unfinished
    <2>2. view[v] \in ViewState
      BY <1>1, <1>3 DEF TypeOK
    <2>3. Quiet(view[v], x)
      BY <2>2, AttemptFailed, QuietNewLoad
    <2>4. \A o \in ops' : ~(o.current /\ o.view = v)
      BY <1>1, <1>2, <1>4 DEF OperationsMatch
    <2> HIDE DEF x
    <2>5. \A u \in View \ {v} : view'[u] = view[u]
      BY <1>1, <1>3, <2>1, <2>3, OneView
    <2> HIDE DEF v
    <2>6. v \in View
      BY <1>3 DEF v
    <2>7. OperationsMatch' /\ ops' \subseteq Operation
      BY <1>1, <1>2, <2>4, <2>5, <2>6, OneViewMatch
    <2> QED BY <1>2, <2>1, <2>3, <2>6, <2>7, OneViewStep
  <1>5. CASE ~op.current
    <2>1. view' = view
      BY <1>5 DEF Unfinished
    <2>2. OperationsMatch' /\ ops' \subseteq Operation
      BY <1>1, <1>2, <2>1 DEF OperationsMatch, TypeOK
    <2>3. Quiet(view[op.view], view[op.view])
      BY <1>1, <1>3, QuietSame DEF TypeOK
    <2>4. view' = [view EXCEPT ![op.view] = view[op.view]]
      BY <1>1, <1>3, <2>1 DEF TypeOK
    <2> QED BY <1>2, <1>3, <2>2, <2>3, <2>4, OneViewStep
  <1> QED BY <1>3, <1>4, <1>5

LEMMA RejectedStep ==
  ASSUME IInv, NEW op \in ops, Rejected(op)
  PROVE  IInv'
  BY UnfinishedStep DEF Rejected, IInv, Balance, TypeOK

LEMMA FinalizeFailsStep ==
  ASSUME IInv, NEW op \in ops, FinalizeFails(op)
  PROVE  IInv'
  BY UnfinishedStep, CountedType DEF FinalizeFails, IInv, Balance

LEMMA RequestCommitTurnStep ==
  ASSUME IInv, NEW op \in ops, request_commit_turn(op)
  PROVE  IInv'
  <1> DEFINE turned == [op EXCEPT !.turn = TRUE]
             g == [o \in ops |-> IF o = op THEN turned ELSE o]
  <1>1. Balance /\ TypeOK /\ OperationsMatch
    BY DEF IInv, Balance
  <1>2. /\ ops' = (ops \ {op}) \cup {turned}
        /\ UNCHANGED <<disk, signal, refreshVars, authority, settings, view, save, events>>
    BY DEF request_commit_turn
  <1>3. /\ turned \in Operation /\ turned.view = op.view /\ turned.content = op.content
        /\ turned.current = op.current
    <2>1. op \in Operation
      BY <1>1 DEF TypeOK
    <2> QED BY <2>1 DEF Operation
  <1> HIDE DEF turned
  <1>4. ops' \subseteq {g[o] : o \in ops}
    BY <1>2
  <1>5. \A o \in ops : g[o].current =>
            /\ o.current /\ g[o].view = o.view /\ g[o].content = o.content
            /\ Waits(o.view)
    BY <1>2, <1>3 DEF Waits
  <1> HIDE DEF g
  <1>6. OperationsMatch'
    BY <1>1, <1>4, <1>5, MatchKept
  <1>7. ops' \subseteq Operation
    BY <1>1, <1>2, <1>3 DEF TypeOK
  <1>8. ReservationsBalance' /\ FreshRests'
    BY <1>1, <1>2, SaveRests, QuietSame DEF TypeOK, refreshVars
  <1>9. view' \in [View -> ViewState] /\ \A u \in View : Quiet(view[u], view'[u])
    BY <1>1, <1>2, QuietSame DEF TypeOK
  <1> QED BY <1>1, <1>2, <1>6, <1>7, <1>8, <1>9, QuietStep DEF TypeOK, refreshVars

\* A view that keeps its adoption, with a load that has not committed.
LEMMA NewLoadHands ==
  ASSUME NEW w, NEW x, NEW a,
         x.shown = w.shown, x.adopted = w.adopted, x.basis = w.basis, x.headers = w.headers,
         x.load.phase \in {"none", "reading", "waiting"}
  PROVE  Hands(w, x, a)
  BY DEF Hands, content_claims, header_claims, same_is_shown

LEMMA SameHands ==
  ASSUME NEW w, NEW a, same_is_shown(w)
  PROVE  Hands(w, w, a)
  BY DEF Hands

LEMMA OpenStep ==
  ASSUME IInv, NEW v \in View, Open(v)
  PROVE  IInv'
  <1> DEFINE w == view[v]
             b == begin_load(w, TRUE, FALSE, authority.revision)
             x == [b EXCEPT !.fresh = FALSE, !.open = TRUE]
  <1>1. Balance /\ TypeOK /\ OperationsMatch /\ ClaimsAgree
    BY DEF IInv, Balance
  <1>2. /\ view' = [view EXCEPT ![v] = x]
        /\ UNCHANGED <<disk, signal, refreshVars, authority, settings, ops, save>>
    BY DEF Open
  <1>3. events' \in Nat
    BY <1>1, CountedType DEF Open
  <1>4. w.fresh /\ ~w.open /\ save[v] = "none"
    BY <1>1 DEF Open, Balance, FreshRests
  <1>5. LoadIsNew(w, b)
    BY <1>1, BeginLoadQuiet
  <1> HIDE DEF w, b
  <1>6. /\ x \in ViewState /\ x.open /\ ~x.fresh
        /\ x.shown = w.shown /\ x.adopted = w.adopted /\ x.basis = w.basis
        /\ x.headers = w.headers /\ x.load.phase \in {"none", "reading", "waiting"}
    BY <1>5 DEF LoadIsNew, ViewState
  <1> HIDE DEF x
  <1>7. /\ view' \in [View -> ViewState] /\ view'[v] = x
        /\ \A u \in View \ {v} : view'[u] = view[u]
    BY <1>1, <1>2, <1>6 DEF TypeOK
  <1>8. TypeOK'
    BY <1>1, <1>2, <1>3, <1>7 DEF TypeOK, refreshVars
  <1>9. Writers' = Writers
    BY <1>2, <1>4, <1>7 DEF Writers, Writing, w
  <1>10. ReservationsBalance'
    BY <1>1, <1>2, <1>9, HeldStays DEF Balance, refreshVars
  <1>11. FreshRests'
    BY <1>1, <1>2, <1>6, <1>7 DEF Balance, FreshRests
  <1>12. OperationsMatch'
    <2>1. \A op \in ops' : op.current /\ op.view = v => Waits(v)
      BY <1>1, <1>2, <1>4 DEF OperationsMatch, w
    <2> QED BY <1>1, <1>2, <1>7, <2>1, OneViewMatch
  <1>13. ASSUME NEW u \in View
         PROVE  Hands(view[u], view'[u], authority')
    <2>1. CASE u = v
      BY <1>6, <1>7, <2>1, NewLoadHands DEF w
    <2>2. CASE u # v
      <3>1. view'[u] = view[u] /\ same_is_shown(view[u])
        BY <1>1, <1>7, <2>2 DEF ClaimsAgree
      <3> QED BY <3>1, SameHands
    <2> QED BY <2>1, <2>2
  <1>14. authority' \in [revision : Nat, content : Nat, headers : Nat] /\ authority' = authority
    BY <1>1, <1>2 DEF TypeOK
  <1>15. ClaimsAgree'
    BY <1>1, <1>13, <1>14, ClaimsKept
  <1> QED BY <1>8, <1>10, <1>11, <1>12, <1>15 DEF IInv, Balance

LEMMA DisposeStep ==
  ASSUME IInv, NEW v \in View, Dispose(v)
  PROVE  IInv'
  <1> DEFINE w == view[v]
             x == [w EXCEPT !.open = FALSE, !.load = NoLoad]
             s == IF save[v] = "checked" THEN "none" ELSE save[v]
  <1>1. Balance /\ TypeOK /\ OperationsMatch /\ ClaimsAgree
    BY DEF IInv, Balance
  <1>2. /\ w.open /\ view' = [view EXCEPT ![v] = x] /\ ops' = superseded(ops, v)
        /\ save' = [save EXCEPT ![v] = s]
        /\ UNCHANGED <<disk, signal, pending, authority, settings, events>>
    BY <1>1 DEF Dispose, TypeOK
  <1>3. ~w.fresh
    BY <1>1, <1>2 DEF Balance, FreshRests
  <1>4. NoLoad \in Load /\ NoLoad.phase = "none"
    BY NoLoadType DEF NoLoad
  <1>5. /\ x \in ViewState /\ ~x.open /\ ~x.fresh
        /\ x.shown = w.shown /\ x.adopted = w.adopted /\ x.basis = w.basis
        /\ x.headers = w.headers /\ x.load.phase \in {"none", "reading", "waiting"}
    <2>1. w \in ViewState
      BY <1>1 DEF TypeOK
    <2> HIDE DEF w
    <2> QED BY <1>3, <1>4, <2>1 DEF ViewState
  <1>6. s \in {"none", "checked", "writing", "written"}
    BY <1>1 DEF TypeOK
  <1> HIDE DEF x, s, w
  <1>7. /\ view' \in [View -> ViewState] /\ view'[v] = x
        /\ \A u \in View \ {v} : view'[u] = view[u]
    BY <1>1, <1>2, <1>5 DEF TypeOK
  <1>8. /\ save' \in [View -> {"none", "checked", "writing", "written"}]
        /\ \A u \in View \ {v} : save'[u] = save[u]
    BY <1>1, <1>2, <1>6 DEF TypeOK
  <1>9. Writers' = Writers \ {v}
    BY <1>5, <1>7, <1>8 DEF Writers, Writing
  <1>10. v \in Writers <=> save[v] \in {"writing", "written"}
    BY <1>2 DEF Writers, Writing, w
  <1>11. ReservationsBalance' /\ held' \in Nat /\ flush' \in BOOLEAN
    <2>1. CASE save[v] \in {"writing", "written"}
      <3>1. held' = held - 1 /\ flush' \in BOOLEAN
        BY <1>1, <2>1 DEF Dispose, release_reservation, TypeOK
      <3> QED BY <1>1, <1>9, <1>10, <2>1, <3>1, HeldShrinks DEF Balance
    <2>2. CASE save[v] \notin {"writing", "written"}
      <3>1. held' = held /\ flush' = flush
        BY <2>2 DEF Dispose
      <3>2. Writers' = Writers
        BY <1>9, <1>10, <2>2
      <3> QED BY <1>1, <3>1, <3>2, HeldStays DEF Balance, TypeOK
    <2> QED BY <2>1, <2>2
  <1>12. FreshRests'
    BY <1>1, <1>5, <1>7, <1>8 DEF Balance, FreshRests
  <1>13. OperationsMatch' /\ ops' \subseteq Operation
    BY <1>1, <1>2, <1>7, SupersededMatch
  <1>14. TypeOK'
    BY <1>1, <1>2, <1>7, <1>8, <1>11, <1>13 DEF TypeOK
  <1>15. ASSUME NEW u \in View
         PROVE  Hands(view[u], view'[u], authority')
    <2>1. CASE u = v
      BY <1>5, <1>7, <2>1, NewLoadHands DEF w
    <2>2. CASE u # v
      <3>1. view'[u] = view[u] /\ same_is_shown(view[u])
        BY <1>1, <1>7, <2>2 DEF ClaimsAgree
      <3> QED BY <3>1, SameHands
    <2> QED BY <2>1, <2>2
  <1>16. authority' \in [revision : Nat, content : Nat, headers : Nat] /\ authority' = authority
    BY <1>1, <1>2 DEF TypeOK
  <1>17. ClaimsAgree'
    BY <1>1, <1>15, <1>16, ClaimsKept
  <1> QED BY <1>11, <1>12, <1>13, <1>14, <1>17 DEF IInv, Balance

LEMMA FinalizeStep ==
  ASSUME IInv, NEW op \in ops, finalize_authority_commit(op)
  PROVE  IInv'
  <1> DEFINE v == op.view
             w == view[v]
             changes == op.content # authority.content
             revision == IF changes THEN authority.revision + 1 ELSE authority.revision
             load == [w.load EXCEPT !.phase = "committed", !.basis = revision,
                                    !.headers = authority.headers]
             x == [w EXCEPT !.load = load]
             rest == ops \ {op}
  <1>1. Balance /\ TypeOK /\ OperationsMatch /\ ClaimsAgree
    BY DEF IInv, Balance
  <1>2. op \in Operation /\ v \in View /\ op.content \in Nat /\ op.current \in BOOLEAN
    BY <1>1 DEF TypeOK, Operation
  <1>3. /\ authority.revision \in Nat /\ authority.content \in Nat /\ authority.headers \in Nat
        /\ w \in ViewState /\ w.load \in Load
    BY <1>1, <1>2 DEF TypeOK, ViewState
  <1>4. /\ authority' = [authority EXCEPT !.content = op.content, !.revision = revision]
        /\ ops' = IF changes THEN invalidate(rest, op.content) ELSE rest
        /\ UNCHANGED <<disk, signal, refreshVars, save, events, settings>>
    BY DEF finalize_authority_commit
  <1>5. view' = IF op.current THEN [view EXCEPT ![v] = x] ELSE view
    BY <1>1, <1>2, <1>3 DEF finalize_authority_commit, TypeOK, ViewState
  <1>6. revision \in Nat
    BY <1>3
  <1>7. /\ authority' \in [revision : Nat, content : Nat, headers : Nat]
        /\ authority'.revision = revision /\ authority'.content = op.content
        /\ authority'.headers = authority.headers
        /\ (authority.revision < authority'.revision \/ authority' = authority)
    <2>1. authority \in [revision : Nat, content : Nat, headers : Nat]
      BY <1>1 DEF TypeOK
    <2>2. \/ revision = authority.revision /\ op.content = authority.content
          \/ authority.revision < revision
      BY <1>3
    <2> HIDE DEF revision
    <2> QED BY <1>2, <1>4, <1>6, <2>1, <2>2
  <1>8. /\ load \in Load /\ load.phase = "committed" /\ load.basis = revision
        /\ load.headers = authority.headers /\ load.content = w.load.content
        /\ load.same = w.load.same
    BY <1>3, <1>6 DEF Load
  <1> HIDE DEF load, revision
  <1>9. /\ x \in ViewState /\ x.open = w.open /\ x.fresh = w.fresh /\ x.shown = w.shown
        /\ x.adopted = w.adopted /\ x.basis = w.basis /\ x.headers = w.headers
        /\ x.load = load
    BY <1>3, <1>8 DEF ViewState
  <1> HIDE DEF x, w
  <1>10. /\ view' \in [View -> ViewState]
         /\ view'[v] = IF op.current THEN x ELSE w
         /\ \A u \in View \ {v} : view'[u] = view[u]
    BY <1>1, <1>2, <1>5, <1>9 DEF TypeOK, w
  <1>11. op.current => w.load.phase = "committing" /\ w.load.content = op.content
    BY <1>1 DEF OperationsMatch, w
  <1>12. \A o \in rest : o.current /\ o.view = v => ~op.current
    BY <1>1 DEF OperationsMatch
  <1>13. ASSUME NEW u \in View
         PROVE  view'[u].open = view[u].open /\ view'[u].fresh = view[u].fresh
    BY <1>9, <1>10 DEF w
  <1>14. FreshRests'
    BY <1>1, <1>4, <1>13 DEF Balance, FreshRests
  <1>15. Writers' = Writers
    BY <1>4, <1>13 DEF Writers, Writing
  <1>16. ReservationsBalance'
    BY <1>1, <1>4, <1>15, HeldStays DEF Balance, refreshVars
  <1>17. rest \subseteq Operation /\ rest \subseteq ops
    BY <1>1 DEF TypeOK
  <1>18. ops' \subseteq Operation
    BY <1>2, <1>4, <1>17, InvalidateType
  <1>19. OperationsMatch'
    <2> DEFINE told(o) == IF o.content # op.content /\ ~o.turn THEN [o EXCEPT !.valid = FALSE]
                          ELSE o
               g == [o \in rest |-> IF changes THEN told(o) ELSE o]
    <2>1. ops' \subseteq {g[o] : o \in rest}
      BY <1>4 DEF invalidate
    <2>2. ASSUME NEW o \in rest
          PROVE  g[o].current = o.current /\ g[o].view = o.view /\ g[o].content = o.content
      <3>1. o \in Operation
        BY <1>17
      <3>2. told(o).current = o.current /\ told(o).view = o.view /\ told(o).content = o.content
        BY <3>1 DEF Operation
      <3>3. g[o] = IF changes THEN told(o) ELSE o
        OBVIOUS
      <3> HIDE DEF g, told
      <3> QED BY <3>2, <3>3
    <2>3. ASSUME NEW o \in rest, o.current
          PROVE  Waits(o.view)
      <3>1. o.view \in View
        BY <1>17 DEF Operation
      <3> QED BY <1>10, <1>12, <2>3, <3>1 DEF Waits, w
    <2>4. \A o \in rest : g[o].current =>
              /\ o.current /\ g[o].view = o.view /\ g[o].content = o.content
              /\ Waits(o.view)
      BY <2>2, <2>3
    <2> HIDE DEF g, rest
    <2> QED BY <1>1, <1>17, <2>1, <2>4, MatchKept
  <1>20. ASSUME NEW u \in View
         PROVE  Hands(view[u], view'[u], authority')
    <2>1. same_is_shown(view[u])
      BY <1>1 DEF ClaimsAgree
    <2>2. CASE u = v /\ op.current
      <3>1. same_is_shown(x)
        BY <1>8, <1>9, <1>11, <2>1, <2>2 DEF same_is_shown, w
      <3>2. content_claims(x) \subseteq
               content_claims(w) \cup {<<authority'.revision, authority'.content>>}
        BY <1>7, <1>8, <1>9, <1>11, <2>2 DEF content_claims
      <3>3. header_claims(x) \subseteq
               header_claims(w) \cup {<<authority'.revision, authority'.headers>>}
        BY <1>7, <1>8, <1>9 DEF header_claims
      <3>4. view[u] = w /\ view'[u] = x
        BY <1>10, <2>2 DEF w
      <3> QED BY <3>1, <3>2, <3>3, <3>4 DEF Hands
    <2>3. CASE u # v \/ ~op.current
      <3>1. view'[u] = view[u]
        BY <1>10, <2>3 DEF w
      <3> QED BY <2>1, <3>1, SameHands
    <2> QED BY <1>2, <2>2, <2>3
  <1>21. ClaimsAgree'
    BY <1>1, <1>7, <1>20, ClaimsKept
  <1>22. TypeOK'
    BY <1>1, <1>4, <1>7, <1>10, <1>18 DEF TypeOK, refreshVars
  <1> QED BY <1>14, <1>16, <1>19, <1>21, <1>22 DEF IInv, Balance

\* What a view becomes that is told of a header setting.
told_of_setting(w, a) ==
    IF takes_header(w)
    THEN [install(w, w.shown, a.headers, a.revision) EXCEPT !.dropped = FALSE]
    ELSE IF w.open THEN receive_header_refresh(w, a.revision)
    ELSE w

\* The view stays open, and makes no claim but one about the new authority: one that
\* takes the setting is of the last one.
LEMMA ToldHands ==
  ASSUME TypeOK, ClaimsAgree, NEW v \in View,
         authority' = [authority EXCEPT !.headers = authority.headers + 1,
                                        !.revision = authority.revision + 1]
  PROVE  LET w == view[v]
             x == told_of_setting(w, authority')
         IN  /\ x \in ViewState /\ x.open = w.open /\ x.fresh = w.fresh
             /\ Hands(w, x, authority')
             /\ takes_header(w) \/ w.scheduled => x.load = w.load
  <1> DEFINE w == view[v]
             a == authority'
             x == told_of_setting(w, a)
  <1>1. w \in ViewState /\ authority \in [revision : Nat, content : Nat, headers : Nat]
    BY DEF TypeOK
  <1>2. /\ a.revision \in Nat /\ a.content = authority.content /\ a.headers \in Nat
    BY <1>1
  <1>3. same_is_shown(w)
    BY DEF ClaimsAgree
  <1>4. CASE takes_header(w)
    <2> DEFINE y == install(w, w.shown, a.headers, a.revision)
    <2>1. w.shown = authority.content
      <3>1. <<w.basis, w.shown>> \in ContentClaims
        BY <1>4 DEF ContentClaims, content_claims, takes_header
      <3>2. <<authority.revision, authority.content>> \in ContentClaims
        BY DEF ContentClaims
      <3>3. w.basis = authority.revision
        BY <1>4 DEF takes_header
      <3>4. \A c, d \in ContentClaims : c[1] = d[1] => c[2] = d[2]
        BY DEF ClaimsAgree, Functional
      <3> HIDE DEF w
      <3>5. <<w.basis, w.shown>>[2] = <<authority.revision, authority.content>>[2]
        BY <3>1, <3>2, <3>3, <3>4
      <3> QED BY <3>5
    <2> HIDE DEF w, a
    <2>2. /\ y \in ViewState /\ y.open = w.open /\ y.fresh = w.fresh /\ y.shown = w.shown
          /\ y.adopted = a.revision /\ y.basis = a.revision /\ y.headers = a.headers
          /\ y.load = w.load
      BY <1>1, <1>2 DEF install, ViewState
    <2>3. x = [y EXCEPT !.dropped = FALSE]
      BY <1>4 DEF told_of_setting
    <2> HIDE DEF y, x
    <2>4. /\ x \in ViewState /\ x.open = w.open /\ x.fresh = w.fresh /\ x.shown = w.shown
          /\ x.adopted = a.revision /\ x.basis = a.revision /\ x.headers = a.headers
          /\ x.load = w.load
      BY <2>2, <2>3 DEF ViewState
    <2>5. same_is_shown(x)
      BY <1>3, <2>4 DEF same_is_shown
    <2>6. content_claims(x) \subseteq content_claims(w) \cup {<<a.revision, a.content>>}
      BY <1>2, <2>1, <2>4 DEF content_claims
    <2>7. header_claims(x) \subseteq header_claims(w) \cup {<<a.revision, a.headers>>}
      BY <2>4 DEF header_claims
    <2> QED BY <2>4, <2>5, <2>6, <2>7 DEF Hands, x, w, a
  <1>5. CASE ~takes_header(w) /\ w.open /\ w.scheduled
    <2>1. x = [w EXCEPT !.dropped = TRUE]
      BY <1>5 DEF told_of_setting, receive_header_refresh
    <2>2. /\ x \in ViewState /\ x.open = w.open /\ x.fresh = w.fresh /\ x.shown = w.shown
          /\ x.adopted = w.adopted /\ x.basis = w.basis /\ x.headers = w.headers
          /\ x.load = w.load
      BY <1>1, <2>1 DEF ViewState
    <2> HIDE DEF w, a, x
    <2>3. Hands(w, x, a)
      BY <1>3, <2>2 DEF Hands, content_claims, header_claims, same_is_shown
    <2> QED BY <2>2, <2>3 DEF x, w, a
  <1>6. CASE ~takes_header(w) /\ w.open /\ ~w.scheduled
    <2> DEFINE b == begin_load(w, TRUE, TRUE, a.revision)
    <2>1. x = [b EXCEPT !.scheduled = TRUE]
      BY <1>6 DEF told_of_setting, receive_header_refresh
    <2>2. LoadIsNew(w, b)
      BY <1>1, <1>2, BeginLoad
    <2> HIDE DEF w, a, b
    <2>3. /\ x \in ViewState /\ x.open = w.open /\ x.fresh = w.fresh /\ x.shown = w.shown
          /\ x.adopted = w.adopted /\ x.basis = w.basis /\ x.headers = w.headers
          /\ x.load.phase \in {"none", "reading", "waiting"}
      BY <2>1, <2>2 DEF LoadIsNew, ViewState
    <2> HIDE DEF x
    <2>4. Hands(w, x, a)
      BY <2>3, NewLoadHands
    <2> QED BY <1>6, <2>3, <2>4 DEF x, w, a
  <1>7. CASE ~takes_header(w) /\ ~w.open
    <2>1. x = w
      BY <1>7 DEF told_of_setting
    <2> HIDE DEF x, a, w
    <2> QED BY <1>1, <1>3, <2>1, SameHands DEF x, w, a
  <1>8. w.open \in BOOLEAN /\ w.scheduled \in BOOLEAN
    BY <1>1 DEF ViewState
  <1> QED BY <1>4, <1>5, <1>6, <1>7, <1>8

LEMMA HeaderReceiptsStep ==
  ASSUME IInv, process_excel_header_receipts, settings' \subseteq Nat,
         UNCHANGED <<disk, signal, refreshVars, save, events>>
  PROVE  IInv'
  <1>1. Balance /\ TypeOK /\ OperationsMatch /\ ClaimsAgree
    BY DEF IInv, Balance
  <1>2. /\ authority' = [authority EXCEPT !.headers = authority.headers + 1,
                                          !.revision = authority.revision + 1]
        /\ ops' = {IF takes_header(view[op.view]) \/ view[op.view].scheduled THEN op
                    ELSE [op EXCEPT !.current = FALSE] : op \in ops}
    BY DEF process_excel_header_receipts
  <1>3. /\ authority' \in [revision : Nat, content : Nat, headers : Nat]
        /\ authority'.headers = authority.headers + 1
        /\ authority'.revision = authority.revision + 1
        /\ authority.revision < authority'.revision
    <2>1. authority \in [revision : Nat, content : Nat, headers : Nat]
      BY <1>1 DEF TypeOK
    <2> DEFINE headers == authority.headers + 1
               revision == authority.revision + 1
    <2>2. headers \in Nat /\ revision \in Nat /\ authority.revision < revision
      BY <2>1
    <2>3. authority' = [authority EXCEPT !.headers = headers, !.revision = revision]
      BY <1>2
    <2> HIDE DEF headers, revision
    <2>4. /\ authority' \in [revision : Nat, content : Nat, headers : Nat]
          /\ authority'.headers = headers /\ authority'.revision = revision
      BY <2>1, <2>2, <2>3
    <2> QED BY <2>2, <2>4 DEF headers, revision
  <1>4. view' = [v \in View |-> told_of_setting(view[v], authority')]
    BY <1>3 DEF process_excel_header_receipts, told_of_setting
  <1>5. ASSUME NEW v \in View
        PROVE  /\ view'[v] = told_of_setting(view[v], authority')
               /\ view'[v] \in ViewState
               /\ view'[v].open = view[v].open /\ view'[v].fresh = view[v].fresh
               /\ Hands(view[v], view'[v], authority')
               /\ takes_header(view[v]) \/ view[v].scheduled => Waits(v)
    <2> DEFINE x == told_of_setting(view[v], authority')
    <2>1. view'[v] = x
      BY <1>4
    <2>2. /\ x \in ViewState /\ x.open = view[v].open /\ x.fresh = view[v].fresh
          /\ Hands(view[v], x, authority')
          /\ takes_header(view[v]) \/ view[v].scheduled => x.load = view[v].load
      BY <1>1, <1>2, ToldHands
    <2> HIDE DEF x
    <2>3. takes_header(view[v]) \/ view[v].scheduled => Waits(v)
      BY <2>1, <2>2 DEF Waits
    <2> QED BY <2>1, <2>2, <2>3 DEF x
  <1>6. view' \in [View -> ViewState]
    BY <1>4, <1>5
  <1>7. FreshRests'
    BY <1>1, <1>5 DEF Balance, FreshRests
  <1>8. Writers' = Writers
    BY <1>5 DEF Writers, Writing
  <1>9. ReservationsBalance'
    BY <1>1, <1>8, HeldStays DEF Balance, refreshVars
  <1>10. OperationsMatch' /\ ops' \subseteq Operation
    <2> DEFINE stays(op) == takes_header(view[op.view]) \/ view[op.view].scheduled
               dropped(op) == [op EXCEPT !.current = FALSE]
               g == [op \in ops |-> IF stays(op) THEN op ELSE dropped(op)]
    <2>1. ops' = {g[op] : op \in ops}
      BY <1>2
    <2>2. ASSUME NEW op \in ops
          PROVE  /\ op \in Operation /\ op.view \in View
                 /\ dropped(op) \in Operation /\ ~dropped(op).current
                 /\ g[op] = IF stays(op) THEN op ELSE dropped(op)
      <3>1. op \in Operation
        BY <1>1 DEF TypeOK
      <3>2. op.view \in View /\ dropped(op) \in Operation /\ ~dropped(op).current
        BY <3>1 DEF Operation
      <3> HIDE DEF stays, dropped
      <3> QED BY <3>1, <3>2
    <2>3. ASSUME NEW op \in ops, stays(op)
          PROVE  Waits(op.view)
      BY <1>5, <2>2, <2>3
    <2> HIDE DEF g, stays, dropped
    <2>4. \A op \in ops : g[op].current =>
              /\ op.current /\ g[op].view = op.view /\ g[op].content = op.content
              /\ Waits(op.view)
      BY <2>2, <2>3
    <2>5. OperationsMatch'
      BY <1>1, <2>1, <2>4, MatchKept
    <2>6. ops' \subseteq Operation
      BY <2>1, <2>2
    <2> QED BY <2>5, <2>6
  <1>11. ClaimsAgree'
    BY <1>1, <1>3, <1>5, ClaimsKept
  <1>12. TypeOK'
    BY <1>1, <1>3, <1>6, <1>10 DEF TypeOK, refreshVars
  <1> QED BY <1>7, <1>9, <1>10, <1>11, <1>12 DEF IInv, Balance

LEMMA CommitExcelHeaderStep ==
  ASSUME IInv, NEW content \in settings, commit_excel_header(content)
  PROVE  IInv'
  <1>1. Balance /\ TypeOK
    BY DEF IInv, Balance
  <1>2. settings' \subseteq Nat /\ UNCHANGED <<disk, signal, refreshVars, save, events>>
    BY <1>1 DEF commit_excel_header, TypeOK
  <1>3. CASE content = authority.content
    <2>1. process_excel_header_receipts
      BY <1>3 DEF commit_excel_header
    <2> QED BY <1>2, <2>1, HeaderReceiptsStep
  <1>4. CASE content # authority.content
    <2>1. UNCHANGED <<authority, view, ops>>
      BY <1>4 DEF commit_excel_header
    <2>2. ReservationsBalance' /\ FreshRests'
      BY <1>1, <1>2, <2>1, SaveRests, QuietSame DEF TypeOK, refreshVars
    <2> QED BY <1>1, <1>2, <2>1, <2>2, ViewsStay DEF TypeOK, refreshVars
  <1> QED BY <1>3, <1>4

-----------------------------------------------------------------------------
(* The invariant *)

LEMMA InitIInv ==
  ASSUME Init
  PROVE  IInv
  <1>1. /\ disk = [content |-> 1, present |-> TRUE] /\ signal = FALSE
        /\ pending = FALSE /\ flush = FALSE /\ held = 0 /\ events = 0
        /\ authority = [revision |-> 1, content |-> 1, headers |-> 0]
        /\ ops = {} /\ settings = {} /\ save = [v \in View |-> "none"]
    BY DEF Init
  <1> DEFINE shows == [NewView EXCEPT !.fresh = FALSE, !.open = TRUE, !.shown = 1,
                                      !.adopted = 1, !.basis = 1, !.page = 1,
                                      !.answer = "acked"]
  <1>2. PICK settled \in SUBSET View :
           view = [v \in View |-> IF v \in settled THEN shows ELSE NewView]
    BY DEF Init
  <1>3. NoLoad \in Load /\ NoLoad.phase = "none"
    BY NoLoadType DEF NoLoad
  <1>4. NewView \in ViewState /\ NewView.shown = 0 /\ ~NewView.open /\ NewView.load = NoLoad
    BY <1>3 DEF NewView, ViewState
  <1>5. /\ shows \in ViewState /\ ~shows.fresh
        /\ shows.shown = 1 /\ shows.adopted = 1 /\ shows.basis = 1
        /\ shows.headers = 0 /\ shows.load = NoLoad
    <2>1. NewView.headers = 0
      BY DEF NewView
    <2> QED BY <1>3, <1>4, <2>1 DEF ViewState
  <1> HIDE DEF shows
  <1>6. \A v \in View : view[v] = shows \/ view[v] = NewView
    BY <1>2
  <1>7. view \in [View -> ViewState]
    BY <1>2, <1>4, <1>5
  <1>8. TypeOK
    BY <1>1, <1>7 DEF TypeOK
  <1>9. ReservationsBalance
    <2>1. Writers = {}
      BY <1>1 DEF Writers, Writing
    <2> QED BY <1>1, <2>1, FS_EmptySet DEF ReservationsBalance, Writers
  <1>10. FreshRests
    BY <1>1, <1>4, <1>5, <1>6 DEF FreshRests
  <1>11. OperationsMatch
    BY <1>1 DEF OperationsMatch
  <1>12. ASSUME NEW v \in View
         PROVE  /\ content_claims(view[v]) \subseteq {<<1, 1>>}
                /\ header_claims(view[v]) \subseteq {<<1, 0>>}
                /\ same_is_shown(view[v])
    BY <1>3, <1>4, <1>5, <1>6 DEF content_claims, header_claims, same_is_shown
  <1>13. ContentClaims = {<<1, 1>>} /\ HeaderClaims = {<<1, 0>>}
    BY <1>1, <1>12 DEF ContentClaims, HeaderClaims
  <1>14. ClaimsAgree
    BY <1>1, <1>12, <1>13 DEF ClaimsAgree, Functional
  <1> QED BY <1>8, <1>9, <1>10, <1>11, <1>14 DEF IInv, Balance

LEMMA StutterIInv ==
  ASSUME IInv, UNCHANGED vars
  PROVE  IInv'
  <1>1. Balance /\ TypeOK
    BY DEF IInv, Balance
  <1>2. /\ UNCHANGED <<disk, signal, refreshVars, authority, settings, ops, view, save, events>>
    BY DEF vars, refreshVars
  <1>3. ReservationsBalance' /\ FreshRests'
    BY <1>1, <1>2, SaveRests, QuietSame DEF TypeOK, refreshVars
  <1> QED BY <1>1, <1>2, <1>3, ViewsStay DEF TypeOK, refreshVars

LEMMA NextIInv ==
  ASSUME IInv, [Next]_vars
  PROVE  IInv'
  <1>1. CASE FileChanges \/ queue_watcher_refresh \/ flush_pending_refresh
    BY <1>1, FileChangesStep, QueueWatcherRefreshStep, FlushStep
  <1>2. ASSUME NEW content \in settings, commit_excel_header(content)
        PROVE  IInv'
    BY <1>2, CommitExcelHeaderStep
  <1>3. ASSUME NEW v \in View, LoadStep(v)
        PROVE  IInv'
    BY <1>3, ReadStep, VerifyStep, BeginPhysicalStep, AdoptStep, DeduplicateStep, RetryLoadStep
       DEF LoadStep
  <1>4. ASSUME NEW v \in View, SaveEnds(v)
        PROVE  IInv'
    BY <1>4, BeginWriteStep, WritesStep, SaveFailsStep, RequestPostSaveStep DEF SaveEnds
  <1>5. ASSUME NEW v \in View,
               \/ handle_snapshot_applied(v) \/ setExcelFirstRowHeader(v)
               \/ Open(v) \/ refresh_panel_source(v) \/ HeaderRefreshReturns(v)
               \/ BeginSave(v) \/ Dispose(v)
        PROVE  IInv'
    BY <1>5, AnswerStep, HeaderSettingStep, OpenStep, RefreshPanelSourceStep,
       HeaderRefreshReturnsStep, BeginSaveStep, DisposeStep
  <1>6. ASSUME NEW op \in ops, OperationEnds(op) \/ FinalizeFails(op)
        PROVE  IInv'
    BY <1>6, RejectedStep, RequestCommitTurnStep, FinalizeStep, FinalizeFailsStep
       DEF OperationEnds
  <1>7. CASE UNCHANGED vars
    BY <1>7, StutterIInv
  <1> QED BY <1>1, <1>2, <1>3, <1>4, <1>5, <1>6, <1>7 DEF Next

LEMMA IInvAgrees ==
  ASSUME IInv
  PROVE  AuthorityNamesTheView
  <1>1. ASSUME NEW v \in View, NEW w \in View,
               view[v].shown # 0, view[w].shown # 0, view[v].adopted = view[w].adopted
        PROVE  view[v].shown = view[w].shown /\ view[v].headers = view[w].headers
    <2> DEFINE c == <<view[v].adopted, view[v].shown>>
               d == <<view[w].adopted, view[w].shown>>
               h == <<view[v].adopted, view[v].headers>>
               k == <<view[w].adopted, view[w].headers>>
    <2>1. c \in ContentClaims /\ d \in ContentClaims
      BY <1>1 DEF ContentClaims, content_claims
    <2>2. h \in HeaderClaims /\ k \in HeaderClaims
      BY <1>1 DEF HeaderClaims, header_claims
    <2>3. /\ \A p, q \in ContentClaims : p[1] = q[1] => p[2] = q[2]
          /\ \A p, q \in HeaderClaims : p[1] = q[1] => p[2] = q[2]
      BY DEF IInv, ClaimsAgree, Functional
    <2>4. c[1] = d[1] /\ h[1] = k[1]
      BY <1>1
    <2>5. c[2] = d[2]
      BY <2>1, <2>3, <2>4
    <2>6. h[2] = k[2]
      BY <2>2, <2>3, <2>4
    <2> QED BY <2>5, <2>6
  <1> QED BY <1>1 DEF AuthorityNamesTheView

\* The invariant that the three theorems below rest on.
THEOREM ViewRefreshInvariant == Spec => []IInv
  <1>1. Init => IInv
    BY InitIInv
  <1>2. IInv /\ [Next]_vars => IInv'
    BY NextIInv
  <1> QED BY <1>1, <1>2, PTL DEF Spec

\* However loads, saves and header settings of the views interleave, every view, operation
\* and reservation has its type, and no load makes more attempts than RELOAD_RETRY_COUNT
\* allows.
THEOREM ViewRefreshTypes == Spec => []TypeOK
  <1>1. IInv => TypeOK
    BY DEF IInv, Balance
  <1> QED BY <1>1, ViewRefreshInvariant, PTL

\* The reservations that hold the watcher's events back are those of the writes of open
\* views, whether a save ends, fails or outlives its panel: release_refresh_reservation runs
\* once for each.
THEOREM ReservationsBelongToWrites == Spec => []ReservationsBalance
  <1>1. IInv => ReservationsBalance
    BY DEF IInv, Balance
  <1> QED BY <1>1, ViewRefreshInvariant, PTL

\* Views that adopted the same authority show the same content and headers, whichever of
\* their loads, commits and header settings overtook each other.
THEOREM SameAuthoritySameView == Spec => []AuthorityNamesTheView
  <1>1. IInv => AuthorityNamesTheView
    BY IInvAgrees
  <1> QED BY <1>1, ViewRefreshInvariant, PTL
=============================================================================

------------------------- MODULE PanelSessionProofs -------------------------
(***************************************************************************)
(* A session believes only what its page shows, and the page never goes    *)
(* back, for any number of results, retries, loads, writes and lost posts. *)
(*                                                                         *)
(* The invariant follows a snapshot from the session to the page and back. *)
(* Only the latest one is desired.  Those on the wire are in the order of  *)
(* their numbers, and none is older than what the page shows; so what the  *)
(* page has taken once it still shows or has replaced by a later one,      *)
(* unless it has reloaded, and then its "ready" comes after the            *)
(* acknowledgement and before any snapshot for the new page.               *)
(***************************************************************************)
EXTENDS PanelSession, SequenceTheorems, WellFoundedInduction, TLAPS

-----------------------------------------------------------------------------
(* Types *)

Adoption == [epoch : Nat, authority : Nat, revision : Nat]
Attempt == [live : BOOLEAN, accepted : BOOLEAN]
Status == {"none", "desired", "posted", "acked"}
Timer == {"none", "attempt", "ack", "retry", "probe"}

Session ==
    [ lifecycle : {"awaitingReady", "ready", "active", "disposed"}, receiver : Nat,
      gate : BOOLEAN, epoch : Nat, current : Adoption \cup {NoAdoption}, desired : Nat,
      status : Status, acknowledged : Nat, stale : Nat, retained : Seq(Result),
      settled : SUBSET Result, issued : Seq(Delivery), ledger : SUBSET Nat,
      timer : Timer, retries : 0..BackoffLength, dormant : BOOLEAN,
      posts : SUBSET Attempt, wire : Seq(Nat), lost : Nat ]

Disposition == {"applied", "duplicate", "stale"}
Ready == [type : {"ready"}]
Request == [type : {"setExcelFirstRowHeader"}, id : Result]
Applied == [type : {"snapshotApplied"}, id : Nat \ {0}, disposition : Disposition]
Ack == Ready \cup Request \cup Applied

Load == {NoLoad, Wanted} \cup [phase : {"committed"}, authority : Nat, revision : Nat]

-----------------------------------------------------------------------------
(* The inductive invariant *)

\* A snapshot that is desired is the latest; no timer, attempt or status is without one.
Latest(s) == s.desired \in {0, Len(s.issued)}
Targeted(s) ==
    /\ s.timer # "none" \/ s.posts # {} \/ s.status # "none" => s.desired # 0
    /\ s.desired # 0 => s.current \in Adoption
Numbered(s) == s.ledger \cup {s.acknowledged} \subseteq 0..Len(s.issued)

\* Snapshots are on the wire in order, none older than `floor`, which the page shows.
InOrder(s, floor) ==
    /\ floor <= Len(s.issued)
    /\ \A i \in DOMAIN s.wire : s.wire[i] \in 1..Len(s.issued) /\ floor <= s.wire[i]
    /\ \A i, j \in DOMAIN s.wire : i <= j => s.wire[i] <= s.wire[j]

\* What is acknowledged the page shows, or it is about to announce itself anew.
Believed(s, floor, reloaded) == s.status = "acked" => s.desired <= floor \/ reloaded

Sound(s, floor, reloaded) ==
    /\ s \in Session
    /\ Latest(s) /\ Targeted(s) /\ Numbered(s)
    /\ InOrder(s, floor) /\ Believed(s, floor, reloaded)

Reloaded == \E i \in DOMAIN acks : acks[i].type = "ready"

\* What an acknowledgement on its way says still holds, or the page has reloaded since.
Answered ==
    \A i \in DOMAIN acks :
        acks[i].type = "snapshotApplied" /\ acks[i].disposition # "stale" =>
            \/ acks[i].id <= shown
            \/ \E j \in DOMAIN acks : j > i /\ acks[j].type = "ready"

Surroundings ==
    acks \in Seq(Ack) /\ shown \in Nat /\ durable \in Nat /\ authority \in Nat /\ load \in Load

IInv == Surroundings /\ Sound(session, shown, Reloaded) /\ Answered

-----------------------------------------------------------------------------
(* Sequences *)

LEMMA SmallestExists ==
    ASSUME NEW I \in SUBSET Nat, I # {}
    PROVE  Min(I) \in I
<1>. DEFINE R == {ss \in Nat \X Nat : ss[1] < ss[2]}
<1>1. IsWellFoundedOn(R, Nat)
  BY NatLessThanWellFounded DEF OpToRel
<1>2. PICK x \in I : \A y \in I : <<y, x>> \notin R
  <2>. HIDE DEF R
  <2>. QED BY <1>1, WFMin
<1>3. ASSUME NEW y \in I PROVE x <= y
  <2>1. <<y, x>> \notin R
    BY <1>2
  <2>2. ~ y < x
    BY <2>1
  <2>. QED BY <2>2
<1>. QED BY <1>3 DEF Min

LEMMA RemoveFirstType ==
    ASSUME NEW S, NEW s \in Seq(S), NEW e
    PROVE  RemoveFirst(s, e) \in Seq(S)
<1>1. CASE ~ \E i \in 1..Len(s) : s[i] = e
  BY <1>1 DEF RemoveFirst
<1>2. CASE \E i \in 1..Len(s) : s[i] = e
  <2>. DEFINE I == {i \in 1..Len(s) : s[i] = e}
              first == SelectInSeq(s, LAMBDA v : v = e)
  <2>1. first \in 1..Len(s)
    <3>1. I # {} /\ I \in SUBSET Nat /\ I \subseteq 1..Len(s)
      BY <1>2
    <3>2. Min(I) \in I
      BY <3>1, SmallestExists
    <3>. QED BY <3>1, <3>2 DEF SelectInSeq
  <2>. HIDE DEF first
  <2>2. RemoveAt(s, first) \in Seq(S)
    <3>1. SubSeq(s, 1, first - 1) \in Seq(S)
      BY <2>1, SubSeqProperties
    <3>2. SubSeq(s, first + 1, Len(s)) \in Seq(S)
      BY <2>1, SubSeqProperties
    <3>. QED BY <3>1, <3>2, ConcatProperties DEF RemoveAt
  <2>. QED BY <1>2, <2>2 DEF RemoveFirst, first
<1>. QED BY <1>1, <1>2

LEMMA Appended ==
    ASSUME NEW S, NEW s \in Seq(S), NEW e \in S
    PROVE  /\ Append(s, e) \in Seq(S)
           /\ Len(s) \in Nat /\ Len(Append(s, e)) = Len(s) + 1
           /\ DOMAIN s = 1..Len(s) /\ DOMAIN Append(s, e) = 1..(Len(s) + 1)
           /\ \A i \in 1..Len(s) : Append(s, e)[i] = s[i]
           /\ Append(s, e)[Len(s) + 1] = e
<1>1. /\ Append(s, e) \in Seq(S)
      /\ Len(Append(s, e)) = Len(s) + 1
      /\ \A i \in 1..Len(s) : Append(s, e)[i] = s[i]
      /\ Append(s, e)[Len(s) + 1] = e
  BY AppendProperties
<1>. QED BY <1>1, LenProperties

LEMMA Taken ==
    ASSUME NEW S, NEW s \in Seq(S), s # <<>>
    PROVE  /\ Tail(s) \in Seq(S) /\ Head(s) \in S /\ Head(s) = s[1]
           /\ Len(s) \in Nat \ {0} /\ Len(Tail(s)) = Len(s) - 1
           /\ DOMAIN s = 1..Len(s) /\ DOMAIN Tail(s) = 1..(Len(s) - 1)
           /\ \A i \in 1..(Len(s) - 1) : Tail(s)[i] = s[i + 1]
<1>1. /\ Tail(s) \in Seq(S) /\ Head(s) \in S
      /\ Len(Tail(s)) = Len(s) - 1
      /\ \A i \in 1..Len(Tail(s)) : Tail(s)[i] = s[i + 1]
  BY HeadTailProperties
<1>2. Len(s) \in Nat \ {0}
  BY EmptySeq, LenProperties
<1>. QED BY <1>1, <1>2, LenProperties

-----------------------------------------------------------------------------
(* What the methods do to a sound session *)

\* A step that issues and posts nothing.
LEMMA Unmoved ==
    ASSUME NEW f \in Nat, NEW r \in BOOLEAN, NEW s, Sound(s, f, r),
           NEW t \in Session, t.issued = s.issued, t.wire = s.wire,
           t.desired \in {0, s.desired}, t.ledger \subseteq s.ledger,
           t.acknowledged \in {0, s.desired, s.acknowledged},
           Targeted(t), Believed(t, f, r)
    PROVE  Sound(t, f, r)
<1>1. Latest(t)
  BY DEF Sound, Latest
<1>2. Numbered(t)
  <2>1. Len(s.issued) \in Nat
    <3>1. s.issued \in Seq(Delivery)
      BY DEF Sound, Session
    <3>. QED BY <3>1, LenProperties
  <2>2. s.desired \in 0..Len(s.issued)
    <3>1. s.desired \in {0, Len(s.issued)}
      BY DEF Sound, Latest
    <3>. QED BY <2>1, <3>1
  <2>. QED BY <2>1, <2>2 DEF Sound, Numbered
<1>3. InOrder(t, f)
  BY DEF Sound, InOrder
<1>. QED BY <1>1, <1>2, <1>3 DEF Sound

LEMMA OvertakenType ==
    ASSUME NEW posts \in SUBSET Attempt
    PROVE  /\ overtaken(posts) \in SUBSET Attempt
           /\ posts = {} => overtaken(posts) = {}
           /\ \A post \in overtaken(posts) : ~post.live
<1>. QED BY DEF overtaken, Attempt

LEMMA InvalidateSound ==
    ASSUME NEW f \in Nat, NEW r \in BOOLEAN, NEW s, Sound(s, f, r)
    PROVE  /\ Sound(invalidate_transport(s), f, r)
           /\ invalidate_transport(s) =
                [s EXCEPT !.timer = "none", !.posts = overtaken(s.posts)]
<1>. DEFINE t == [s EXCEPT !.timer = "none", !.posts = overtaken(s.posts)]
<1>1. s \in Session /\ s.posts \in SUBSET Attempt
  BY DEF Sound, Session
<1>2. invalidate_transport(s) = t
  BY DEF invalidate_transport
<1>3. t \in Session
  BY <1>1, OvertakenType DEF Session, Timer
<1>4. /\ t.issued = s.issued /\ t.wire = s.wire /\ t.desired = s.desired /\ t.ledger = s.ledger
      /\ t.acknowledged = s.acknowledged /\ t.current = s.current /\ t.status = s.status
      /\ t.timer = "none" /\ t.posts = overtaken(s.posts)
  BY <1>1 DEF Session
<1>. HIDE DEF t
<1>5. Targeted(t)
  BY <1>1, <1>4, OvertakenType DEF Sound, Targeted
<1>6. Believed(t, f, r)
  BY <1>4 DEF Sound, Believed
<1>. QED BY <1>2, <1>3, <1>4, <1>5, <1>6, Unmoved DEF t

\* The transport is silenced and nothing is desired any more.
silent(s) == supersede_desired(invalidate_transport(s))

Silenced(s, t) ==
    /\ t.issued = s.issued /\ t.wire = s.wire /\ t.ledger = s.ledger
    /\ t.acknowledged = s.acknowledged /\ t.current = s.current /\ t.epoch = s.epoch
    /\ t.desired = 0 /\ t.status = "none" /\ t.timer = "none" /\ t.posts = {}

LEMMA SilentSound ==
    ASSUME NEW f \in Nat, NEW r \in BOOLEAN, NEW s, Sound(s, f, r)
    PROVE  /\ Sound(silent(s), f, r)
           /\ silent(s) \in Session /\ Silenced(s, silent(s))
<1>. DEFINE t == [s EXCEPT !.timer = "none", !.posts = {}, !.desired = 0, !.status = "none"]
<1>1. s \in Session
  BY DEF Sound
<1>2. silent(s) = t
  BY <1>1 DEF silent, supersede_desired, invalidate_transport, Session
<1>3. t \in Session
  BY <1>1 DEF Session, Timer, Status
<1>4. Silenced(s, t)
  BY <1>1 DEF Session, Silenced
<1>. HIDE DEF t
<1>5. Targeted(t) /\ Believed(t, f, r)
  BY <1>4 DEF Silenced, Targeted, Believed
<1>6. Sound(t, f, r)
  BY <1>3, <1>4, <1>5, Unmoved DEF Silenced
<1>. QED BY <1>2, <1>3, <1>4, <1>6

LEMMA PostSound ==
    ASSUME NEW f \in Nat, NEW r \in BOOLEAN, NEW s, Sound(s, f, r), s.desired # 0,
           NEW arrives \in BOOLEAN
    PROVE  Sound(post_desired(s, arrives), f, r)
<1>. DEFINE posts == overtaken(s.posts) \cup {[live |-> TRUE, accepted |-> arrives]}
            wire == IF arrives THEN Append(s.wire, s.desired) ELSE s.wire
            lost == IF arrives THEN s.lost ELSE s.lost + 1
            t == [s EXCEPT !.posts = posts, !.timer = "attempt", !.wire = wire, !.lost = lost]
<1>1. /\ s \in Session /\ s.posts \in SUBSET Attempt /\ s.wire \in Seq(Nat) /\ s.lost \in Nat
      /\ s.desired \in Nat /\ s.issued \in Seq(Delivery)
  BY DEF Sound, Session
<1>2. post_desired(s, arrives) = t
  BY DEF post_desired
<1>3. posts \in SUBSET Attempt
  <2>1. [live |-> TRUE, accepted |-> arrives] \in Attempt
    BY DEF Attempt
  <2>. QED BY <1>1, <2>1, OvertakenType
<1>4. wire \in Seq(Nat)
  BY <1>1, Appended
<1>5. lost \in Nat
  BY <1>1
<1>. HIDE DEF posts, wire, lost
<1>6. t \in Session
  BY <1>1, <1>3, <1>4, <1>5 DEF Session, Timer
<1>7. /\ t.issued = s.issued /\ t.wire = wire /\ t.desired = s.desired /\ t.ledger = s.ledger
      /\ t.acknowledged = s.acknowledged /\ t.current = s.current /\ t.status = s.status
  BY <1>1 DEF Session
<1>. HIDE DEF t
<1>8. Latest(t) /\ Targeted(t) /\ Numbered(t) /\ Believed(t, f, r)
  BY <1>7 DEF Sound, Latest, Targeted, Numbered, Believed
<1>9. InOrder(t, f)
  <2>1. CASE ~arrives
    BY <1>7, <2>1 DEF wire, Sound, InOrder
  <2>2. CASE arrives
    <3>1. Len(s.issued) \in Nat /\ s.desired = Len(s.issued)
      BY <1>1, LenProperties DEF Sound, Latest
    <3>2. f <= s.desired /\ s.desired \in 1..Len(s.issued)
      BY <1>1, <3>1 DEF Sound, InOrder
    <3>3. /\ Len(s.wire) \in Nat /\ DOMAIN s.wire = 1..Len(s.wire)
          /\ DOMAIN wire = 1..(Len(s.wire) + 1)
          /\ \A i \in 1..Len(s.wire) : wire[i] = s.wire[i]
          /\ wire[Len(s.wire) + 1] = s.desired
      BY <1>1, <2>2, Appended DEF wire
    <3>4. \A i \in 1..Len(s.wire) : s.wire[i] \in 1..Len(s.issued) /\ f <= s.wire[i]
      BY <3>3 DEF Sound, InOrder
    <3>5. \A i, j \in 1..Len(s.wire) : i <= j => s.wire[i] <= s.wire[j]
      BY <3>3 DEF Sound, InOrder
    <3>6. \A i \in 1..(Len(s.wire) + 1) : i \in 1..Len(s.wire) \/ i = Len(s.wire) + 1
      BY <3>3
    <3>7. \A i \in DOMAIN wire : wire[i] \in 1..Len(s.issued) /\ f <= wire[i]
      BY <3>2, <3>3, <3>4, <3>6
    <3>8. \A i \in 1..Len(s.wire) : s.wire[i] <= s.desired
      BY <3>1, <3>4
    <3>9. \A i, j \in DOMAIN wire : i <= j => wire[i] <= wire[j]
      <4>1. TAKE i, j \in DOMAIN wire
      <4>2. HAVE i <= j
      <4>3. CASE j \in 1..Len(s.wire)
        <5>1. i \in 1..Len(s.wire)
          BY <3>3, <4>2, <4>3
        <5>. QED BY <3>3, <3>5, <4>2, <4>3, <5>1
      <4>4. CASE j = Len(s.wire) + 1
        <5>1. CASE i \in 1..Len(s.wire)
          BY <3>3, <3>8, <4>4, <5>1
        <5>2. CASE i = Len(s.wire) + 1
          BY <1>1, <3>3, <4>4, <5>2
        <5>. QED BY <3>3, <3>6, <5>1, <5>2
      <4>. QED BY <3>3, <3>6, <4>3, <4>4
    <3>. QED BY <1>7, <3>7, <3>9 DEF Sound, InOrder
  <2>. QED BY <2>1, <2>2
<1>. QED BY <1>2, <1>6, <1>8, <1>9 DEF Sound, t

LEMMA RetrySound ==
    ASSUME NEW f \in Nat, NEW r \in BOOLEAN, NEW s, Sound(s, f, r), s.desired # 0
    PROVE  Sound(schedule_retry(s), f, r)
<1>. DEFINE t == schedule_retry(s)
<1>1. s \in Session
  BY DEF Sound
<1>2. t \in Session
  <2>1. BackoffLength \in Nat
    BY PanelSessionAssumption
  <2>2. CASE s.dormant \/ s.retries = BackoffLength
    BY <1>1, <2>2 DEF schedule_retry, Session, Timer, Status
  <2>3. CASE ~(s.dormant \/ s.retries = BackoffLength)
    <3>1. s.retries + 1 \in 0..BackoffLength
      BY <1>1, <2>1, <2>3 DEF Session
    <3>2. ASSUME NEW n \in 0..BackoffLength
          PROVE  [s EXCEPT !.retries = n, !.timer = "retry", !.status = "desired"] \in Session
      BY <1>1 DEF Session, Timer, Status
    <3>3. t = [s EXCEPT !.retries = s.retries + 1, !.timer = "retry", !.status = "desired"]
      BY <2>3 DEF schedule_retry
    <3>. QED BY <3>1, <3>2, <3>3
  <2>. QED BY <2>2, <2>3
<1>3. /\ t.issued = s.issued /\ t.wire = s.wire /\ t.desired = s.desired /\ t.ledger = s.ledger
      /\ t.acknowledged = s.acknowledged /\ t.current = s.current /\ t.status = "desired"
  BY <1>1 DEF schedule_retry, Session
<1>. HIDE DEF t
<1>4. Targeted(t) /\ Believed(t, f, r)
  BY <1>3 DEF Sound, Targeted, Believed
<1>. QED BY <1>2, <1>3, <1>4, Unmoved DEF t

-----------------------------------------------------------------------------
(* A snapshot is issued *)

LEMMA CreateSound ==
    ASSUME NEW f \in Nat, NEW r \in BOOLEAN, NEW s, Sound(s, f, r), s.current \in Adoption,
           NEW arrives \in BOOLEAN
    PROVE  Sound(create_desired(s, arrives), f, r)
<1>. DEFINE n == Len(s.issued)
            delivery ==
              [ epoch |-> s.current.epoch, receiver |-> s.receiver,
                authority |-> s.current.authority, revision |-> s.current.revision,
                result |-> IF s.retained = <<>> THEN NoResult ELSE Head(s.retained) ]
            issued == Append(s.issued, delivery)
            ledger == trim_ledger(s.ledger \cup {n + 1})
            q == silent(s)
            t == [q EXCEPT !.issued = issued, !.desired = n + 1, !.status = "desired",
                           !.ledger = ledger, !.retries = 0, !.dormant = FALSE]
<1>1. /\ s \in Session /\ s.issued \in Seq(Delivery) /\ n \in Nat /\ s.wire \in Seq(Nat)
      /\ s.current \in Adoption /\ s.receiver \in Nat /\ s.retained \in Seq(Result)
      /\ s.ledger \in SUBSET Nat
  BY LenProperties DEF Sound, Session
<1>2. /\ q \in Session /\ q.issued = s.issued /\ q.ledger = s.ledger /\ q.wire = s.wire
      /\ q.timer = "none" /\ q.posts = {} /\ q.acknowledged = s.acknowledged
      /\ q.current = s.current
  BY SilentSound DEF Silenced
<1>3. delivery \in Delivery
  <2>1. s.retained # <<>> => Head(s.retained) \in Result
    BY <1>1, HeadTailProperties
  <2>2. s.current.epoch \in Nat /\ s.current.authority \in Nat /\ s.current.revision \in Nat
    BY <1>1 DEF Adoption
  <2>. QED BY <1>1, <2>1, <2>2 DEF Delivery
<1>4. create_desired(s, arrives) = post_desired(t, arrives)
  BY <1>2 DEF create_desired, silent
<1>. HIDE DEF delivery
<1>5. issued \in Seq(Delivery) /\ Len(issued) = n + 1
  BY <1>1, <1>3, Appended
<1>6. ledger \subseteq s.ledger \cup {n + 1}
  BY DEF trim_ledger
<1>. HIDE DEF issued, ledger, q
<1>7. t \in Session
  <2>1. 0 \in 0..BackoffLength
    BY PanelSessionAssumption
  <2>2. ledger \in SUBSET Nat /\ n + 1 \in Nat
    BY <1>1, <1>6
  <2>3. ASSUME NEW m \in Nat, NEW k \in 0..BackoffLength
        PROVE  [q EXCEPT !.issued = issued, !.desired = m, !.status = "desired",
                         !.ledger = ledger, !.retries = k, !.dormant = FALSE] \in Session
    BY <1>2, <1>5, <2>2 DEF Session, Status
  <2>. QED BY <2>1, <2>2, <2>3
<1>8. /\ t.issued = issued /\ t.desired = n + 1 /\ t.status = "desired" /\ t.ledger = ledger
      /\ t.wire = s.wire /\ t.timer = "none" /\ t.posts = {} /\ t.current = s.current
      /\ t.acknowledged = s.acknowledged
  BY <1>2 DEF Session
<1>. HIDE DEF t, n
<1>9. Latest(t) /\ Targeted(t) /\ Believed(t, f, r)
  BY <1>1, <1>5, <1>8 DEF Latest, Targeted, Believed
<1>10. Numbered(t)
  <2>1. s.ledger \cup {s.acknowledged} \subseteq 0..n
    BY DEF Sound, Numbered, n
  <2>2. 0..n \subseteq 0..(n + 1) /\ n + 1 \in 0..(n + 1)
    BY <1>1
  <2>. QED BY <1>5, <1>6, <1>8, <2>1, <2>2 DEF Numbered
<1>11. InOrder(t, f)
  <2>1. /\ f <= n
        /\ \A i \in DOMAIN s.wire : s.wire[i] \in 1..n /\ f <= s.wire[i]
        /\ \A i, j \in DOMAIN s.wire : i <= j => s.wire[i] <= s.wire[j]
    BY DEF Sound, InOrder, n
  <2>2. 1..n \subseteq 1..(n + 1)
    BY <1>1
  <2>3. f <= n + 1
    BY <1>1, <2>1
  <2>4. \A i \in DOMAIN s.wire : s.wire[i] \in 1..(n + 1)
    BY <2>1, <2>2
  <2>. QED BY <1>5, <1>8, <2>1, <2>3, <2>4 DEF InOrder
<1>12. Sound(t, f, r) /\ t.desired # 0
  BY <1>1, <1>7, <1>8, <1>9, <1>10, <1>11 DEF Sound
<1>. QED BY <1>4, <1>12, PostSound

-----------------------------------------------------------------------------
(* The methods *)

LEMMA BeginReadySound ==
    ASSUME NEW f \in Nat, NEW r \in BOOLEAN, NEW q \in BOOLEAN, NEW s, Sound(s, f, r)
    PROVE  Sound(begin_ready(s), f, q)
<1>. DEFINE u == silent(s)
            t == [u EXCEPT !.receiver = u.receiver + 1, !.gate = TRUE, !.stale = 0,
                           !.acknowledged = 0, !.lifecycle = "ready"]
<1>1. Sound(u, f, r) /\ u \in Session
  BY SilentSound DEF Sound
<1>2. begin_ready(s) = t
  BY DEF begin_ready, silent
<1>3. u.status = "none" /\ u.desired = 0 /\ u.timer = "none" /\ u.posts = {}
  BY SilentSound DEF Silenced
<1>. HIDE DEF u
<1>4. t \in Session
  <2>1. u.receiver + 1 \in Nat
    BY <1>1 DEF Session
  <2>2. ASSUME NEW m \in Nat, NEW k \in Nat
        PROVE  [u EXCEPT !.receiver = m, !.gate = TRUE, !.stale = k, !.acknowledged = k,
                         !.lifecycle = "ready"] \in Session
    BY <1>1 DEF Session
  <2>. QED BY <2>1, <2>2
<1>5. /\ t.issued = u.issued /\ t.wire = u.wire /\ t.desired = 0 /\ t.ledger = u.ledger
      /\ t.acknowledged = 0 /\ t.current = u.current /\ t.status = "none"
      /\ t.timer = "none" /\ t.posts = {}
  BY <1>1, <1>3 DEF Session
<1>. HIDE DEF t
<1>6. Targeted(t) /\ Believed(t, f, q)
  BY <1>5 DEF Targeted, Believed
<1>7. Sound(u, f, q)
  BY <1>1, <1>3 DEF Sound, Believed
<1>8. Sound(t, f, q)
  BY <1>3, <1>4, <1>5, <1>6, <1>7, Unmoved
<1>. QED BY <1>2, <1>8

\* An update of fields that the invariant does not speak of.
LEMMA Incidental ==
    ASSUME NEW f \in Nat, NEW r \in BOOLEAN, NEW s, Sound(s, f, r),
           NEW t \in Session, t.issued = s.issued, t.wire = s.wire, t.desired = s.desired,
           t.ledger = s.ledger, t.acknowledged \in {0, s.acknowledged},
           t.timer = s.timer, t.posts = s.posts, t.status = s.status,
           s.current \in Adoption => t.current \in Adoption
    PROVE  Sound(t, f, r)
<1>1. Targeted(t) /\ Believed(t, f, r)
  BY DEF Sound, Targeted, Believed
<1>. QED BY <1>1, Unmoved

LEMMA CompleteReadySound ==
    ASSUME NEW f \in Nat, NEW r \in BOOLEAN, NEW s, Sound(s, f, r), NEW arrives \in BOOLEAN
    PROVE  Sound(complete_ready(s, arrives), f, r)
<1>1. s \in Session
  BY DEF Sound
<1>2. ASSUME NEW lifecycle \in {"ready", "active"}
      PROVE  LET t == [s EXCEPT !.gate = FALSE, !.lifecycle = lifecycle]
             IN  Sound(t, f, r) /\ t.current = s.current
  <2>. DEFINE t == [s EXCEPT !.gate = FALSE, !.lifecycle = lifecycle]
  <2>1. t \in Session
    BY <1>1 DEF Session
  <2>2. /\ t.issued = s.issued /\ t.wire = s.wire /\ t.desired = s.desired
        /\ t.ledger = s.ledger /\ t.acknowledged = s.acknowledged /\ t.current = s.current
        /\ t.timer = s.timer /\ t.posts = s.posts /\ t.status = s.status
    BY <1>1 DEF Session
  <2>. HIDE DEF t
  <2>3. Sound(t, f, r)
    BY <2>1, <2>2, Incidental
  <2>. QED BY <2>2, <2>3 DEF t
<1>3. s.current # NoAdoption => s.current \in Adoption
  BY <1>1 DEF Session
<1>. QED BY <1>2, <1>3, CreateSound DEF complete_ready

LEMMA ReplaceSound ==
    ASSUME NEW f \in Nat, NEW r \in BOOLEAN, NEW s, Sound(s, f, r), NEW arrives \in BOOLEAN,
           NEW basis \in Nat, NEW revision \in Nat
    PROVE  Sound(replace_adoption(s, basis, revision, arrives), f, r)
<1>. DEFINE u == silent(s)
            adoption == [epoch |-> s.epoch + 1, authority |-> basis, revision |-> revision]
            t == [u EXCEPT !.acknowledged = 0, !.stale = 0, !.epoch = u.epoch + 1,
                           !.current = adoption]
<1>1. Sound(u, f, r) /\ u \in Session /\ Silenced(s, u) /\ s \in Session
  BY SilentSound DEF Sound
<1>2. adoption \in Adoption
  <2>1. s.epoch \in Nat
    BY <1>1 DEF Session
  <2>2. s.epoch + 1 \in Nat
    BY <2>1
  <2>. QED BY <2>2 DEF Adoption
<1>3. replace_adoption(s, basis, revision, arrives) =
        IF t.receiver = 0 THEN t
        ELSE IF t.gate THEN [t EXCEPT !.lifecycle = "ready"]
        ELSE create_desired([t EXCEPT !.lifecycle = "active"], arrives)
  <2>1. u.epoch = s.epoch
    BY <1>1 DEF Silenced
  <2>. QED BY <2>1 DEF replace_adoption, silent
<1>. HIDE DEF adoption, u
<1>4. Sound(t, f, r) /\ t \in Session /\ t.current \in Adoption
  <2>1. u.epoch + 1 \in Nat
    <3>1. u.epoch \in Nat
      BY <1>1 DEF Session
    <3>. QED BY <3>1
  <2>2. ASSUME NEW e \in Nat, NEW z \in Nat
        PROVE  LET v == [u EXCEPT !.acknowledged = z, !.stale = z, !.epoch = e,
                                  !.current = adoption]
               IN  /\ v \in Session
                   /\ v.issued = u.issued /\ v.wire = u.wire /\ v.desired = u.desired
                   /\ v.ledger = u.ledger /\ v.acknowledged = z /\ v.current = adoption
                   /\ v.timer = u.timer /\ v.posts = u.posts /\ v.status = u.status
    BY <1>1, <1>2 DEF Session
  <2>3. /\ t \in Session
        /\ t.issued = u.issued /\ t.wire = u.wire /\ t.desired = u.desired
        /\ t.ledger = u.ledger /\ t.acknowledged = 0 /\ t.current = adoption
        /\ t.timer = u.timer /\ t.posts = u.posts /\ t.status = u.status
    BY <2>1, <2>2
  <2>. HIDE DEF t
  <2>. QED BY <1>1, <1>2, <2>3, Incidental
<1>. HIDE DEF t
<1>5. ASSUME NEW lifecycle \in {"ready", "active"}
      PROVE  LET m == [t EXCEPT !.lifecycle = lifecycle]
             IN  Sound(m, f, r) /\ m.current \in Adoption
  <2>. DEFINE m == [t EXCEPT !.lifecycle = lifecycle]
  <2>1. m \in Session
    BY <1>4 DEF Session
  <2>2. /\ m.issued = t.issued /\ m.wire = t.wire /\ m.desired = t.desired
        /\ m.ledger = t.ledger /\ m.acknowledged = t.acknowledged /\ m.current = t.current
        /\ m.timer = t.timer /\ m.posts = t.posts /\ m.status = t.status
    BY <1>4 DEF Session
  <2>. HIDE DEF m
  <2>3. Sound(m, f, r)
    BY <1>4, <2>1, <2>2, Incidental
  <2>. QED BY <1>4, <2>2, <2>3 DEF m
<1>. QED BY <1>3, <1>4, <1>5, CreateSound

LEMMA DeliverSound ==
    ASSUME NEW f \in Nat, NEW r \in BOOLEAN, NEW s, Sound(s, f, r), NEW arrives \in BOOLEAN,
           s.current \in Adoption
    PROVE  Sound(create_desired([s EXCEPT !.acknowledged = 0], arrives), f, r)
<1>. DEFINE t == [s EXCEPT !.acknowledged = 0]
<1>1. s \in Session
  BY DEF Sound
<1>2. t \in Session
  BY <1>1 DEF Session
<1>3. /\ t.issued = s.issued /\ t.wire = s.wire /\ t.desired = s.desired
      /\ t.ledger = s.ledger /\ t.acknowledged = 0 /\ t.current = s.current
      /\ t.timer = s.timer /\ t.posts = s.posts /\ t.status = s.status
  BY <1>1 DEF Session
<1>. HIDE DEF t
<1>4. Sound(t, f, r)
  BY <1>2, <1>3, Incidental
<1>. QED BY <1>3, <1>4, CreateSound DEF t

LEMMA UpdateStateSound ==
    ASSUME NEW f \in Nat, NEW r \in BOOLEAN, NEW s, Sound(s, f, r), NEW arrives \in BOOLEAN,
           NEW revision \in Nat, NEW deliver \in BOOLEAN
    PROVE  Sound(update_state_snapshot(s, revision, deliver, arrives), f, r)
<1>1. CASE s.current = NoAdoption \/ revision < s.current.revision
  BY <1>1 DEF update_state_snapshot
<1>2. CASE ~(s.current = NoAdoption \/ revision < s.current.revision)
  <2>. DEFINE adoption == [s.current EXCEPT !.revision = revision]
              t == [s EXCEPT !.current = adoption]
  <2>1. s \in Session /\ s.current \in Adoption
    BY <1>2 DEF Sound, Session
  <2>2. adoption \in Adoption
    BY <2>1 DEF Adoption
  <2>. HIDE DEF adoption
  <2>3. t \in Session
    BY <2>1, <2>2 DEF Session
  <2>4. /\ t.issued = s.issued /\ t.wire = s.wire /\ t.desired = s.desired
        /\ t.ledger = s.ledger /\ t.acknowledged = s.acknowledged /\ t.current = adoption
        /\ t.timer = s.timer /\ t.posts = s.posts /\ t.status = s.status
    BY <2>1 DEF Session
  <2>. HIDE DEF t
  <2>5. Sound(t, f, r) /\ t.current \in Adoption
    BY <2>2, <2>3, <2>4, Incidental
  <2>6. Sound(deliver_material_refresh(t, arrives), f, r)
    BY <2>5, DeliverSound DEF deliver_material_refresh
  <2>7. update_state_snapshot(s, revision, deliver, arrives) \in
          {t, deliver_material_refresh(t, arrives)}
    BY <1>2 DEF update_state_snapshot, t, adoption
  <2>. QED BY <2>5, <2>6, <2>7
<1>. QED BY <1>1, <1>2

LEMMA RetainSound ==
    ASSUME NEW f \in Nat, NEW r \in BOOLEAN, NEW s, Sound(s, f, r), NEW arrives \in BOOLEAN,
           NEW result \in Result, NEW deliver \in BOOLEAN
    PROVE  /\ Sound(retain_command_result(s, result, deliver, arrives), f, r)
           /\ ~deliver => retain_command_result(s, result, deliver, arrives).current = s.current
<1>. DEFINE retained == Append(s.retained, result)
            t == [s EXCEPT !.retained = retained]
<1>1. s \in Session /\ retained \in Seq(Result)
  BY Appended DEF Sound, Session
<1>. HIDE DEF retained
<1>2. t \in Session
  BY <1>1 DEF Session
<1>3. /\ t.issued = s.issued /\ t.wire = s.wire /\ t.desired = s.desired
      /\ t.ledger = s.ledger /\ t.acknowledged = s.acknowledged /\ t.current = s.current
      /\ t.timer = s.timer /\ t.posts = s.posts /\ t.status = s.status
  BY <1>1 DEF Session
<1>. HIDE DEF t
<1>4. Sound(t, f, r)
  BY <1>2, <1>3, Incidental
<1>5. s.current \in Adoption =>
        Sound(create_desired([t EXCEPT !.acknowledged = 0], arrives), f, r)
  BY <1>3, <1>4, DeliverSound
<1>6. \/ retain_command_result(s, result, deliver, arrives) \in {s, t}
      \/ /\ deliver /\ s.current \in Adoption
         /\ retain_command_result(s, result, deliver, arrives) =
              create_desired([t EXCEPT !.acknowledged = 0], arrives)
  <2>1. s.current # NoAdoption => s.current \in Adoption
    BY <1>1 DEF Session
  <2>. QED BY <2>1 DEF retain_command_result, deliverable, t, retained
<1>. QED BY <1>3, <1>4, <1>5, <1>6

LEMMA WakeSound ==
    ASSUME NEW f \in Nat, NEW r \in BOOLEAN, NEW s, Sound(s, f, r), NEW arrives \in BOOLEAN
    PROVE  Sound(wake_delivery(s, arrives), f, r)
<1>1. CASE s.desired = 0 \/ s.status = "acked"
  BY <1>1 DEF wake_delivery
<1>2. CASE ~(s.desired = 0 \/ s.status = "acked")
  <2>. DEFINE u == invalidate_transport(s)
              t == [u EXCEPT !.retries = 0, !.dormant = FALSE, !.status = "desired"]
  <2>1. Sound(u, f, r) /\ u \in Session /\ u.desired = s.desired
    <3>1. Sound(u, f, r)
      BY InvalidateSound
    <3>2. s \in Session
      BY DEF Sound
    <3>. QED BY <3>1, <3>2 DEF Sound, invalidate_transport, Session
  <2>2. wake_delivery(s, arrives) = post_desired(t, arrives)
    BY <1>2 DEF wake_delivery
  <2>. HIDE DEF u
  <2>3. t \in Session
    <3>1. 0 \in 0..BackoffLength
      BY PanelSessionAssumption
    <3>. QED BY <2>1, <3>1 DEF Session, Status
  <2>4. /\ t.issued = u.issued /\ t.wire = u.wire /\ t.desired = u.desired
        /\ t.ledger = u.ledger /\ t.acknowledged = u.acknowledged /\ t.current = u.current
        /\ t.status = "desired"
    BY <2>1 DEF Session
  <2>. HIDE DEF t
  <2>5. Targeted(t) /\ Believed(t, f, r)
    BY <1>2, <2>1, <2>4 DEF Sound, Targeted, Believed
  <2>6. Sound(t, f, r) /\ t.desired # 0
    BY <1>2, <2>1, <2>3, <2>4, <2>5, Unmoved
  <2>. QED BY <2>2, <2>6, PostSound
<1>. QED BY <1>1, <1>2

LEMMA AcknowledgedStaleSound ==
    ASSUME NEW f \in Nat, NEW r \in BOOLEAN, NEW s, Sound(s, f, r), s.desired # 0
    PROVE  Sound(acknowledged_stale(s), f, r)
<1>. DEFINE u == silent(s)
            epoch == s.issued[s.desired].epoch
            ledger == u.ledger \ {s.desired}
            t == [u EXCEPT !.ledger = ledger, !.acknowledged = 0, !.stale = epoch]
<1>1. Sound(u, f, r) /\ u \in Session /\ Silenced(s, u) /\ s \in Session
  BY SilentSound DEF Sound
<1>2. epoch \in Nat
  <2>1. s.issued \in Seq(Delivery) /\ s.desired \in Nat
    BY <1>1 DEF Session
  <2>2. s.desired = Len(s.issued) /\ Len(s.issued) \in Nat
    BY <2>1, LenProperties DEF Sound, Latest
  <2>3. s.issued[s.desired] \in Delivery
    BY <2>1, <2>2, ElementOfSeq
  <2>. QED BY <2>3 DEF Delivery
<1>3. acknowledged_stale(s) = t
  BY DEF acknowledged_stale, silent
<1>. HIDE DEF u, epoch
<1>4. ledger \in SUBSET Nat /\ ledger \subseteq u.ledger
  BY <1>1 DEF Session
<1>. HIDE DEF ledger
<1>5. t \in Session
  BY <1>1, <1>2, <1>4 DEF Session
<1>6. /\ t.issued = u.issued /\ t.wire = u.wire /\ t.desired = u.desired
      /\ t.ledger = ledger /\ t.acknowledged = 0 /\ t.current = u.current
      /\ t.timer = u.timer /\ t.posts = u.posts /\ t.status = u.status
  BY <1>1 DEF Session
<1>. HIDE DEF t
<1>7. Targeted(t) /\ Believed(t, f, r)
  BY <1>1, <1>6 DEF Silenced, Targeted, Believed
<1>8. Sound(t, f, r)
  BY <1>1, <1>4, <1>5, <1>6, <1>7, Unmoved
<1>. QED BY <1>3, <1>8

LEMMA AcknowledgedAppliedSound ==
    ASSUME NEW f \in Nat, NEW r \in BOOLEAN, NEW s, Sound(s, f, r), s.desired # 0,
           NEW arrives \in BOOLEAN, s.desired <= f \/ r
    PROVE  Sound(acknowledged_applied(s, arrives), f, r)
<1>. DEFINE u == invalidate_transport(s)
            result == s.issued[s.desired].result
            retained == RemoveFirst(u.retained, result)
            settled == IF result \in ToSet(s.retained) THEN u.settled \cup {result}
                       ELSE u.settled
            t == [u EXCEPT !.status = "acked", !.acknowledged = s.desired,
                           !.retained = retained, !.settled = settled]
<1>1. /\ s \in Session /\ Sound(u, f, r) /\ u \in Session
      /\ u.desired = s.desired /\ u.current = s.current
  <2>1. Sound(u, f, r) /\ s \in Session
    BY InvalidateSound DEF Sound
  <2>. QED BY <2>1 DEF Sound, invalidate_transport, Session
<1>2. acknowledged_applied(s, arrives) =
        IF result # NoResult /\ t.retained # <<>> THEN create_desired(t, arrives) ELSE t
  BY DEF acknowledged_applied
<1>. HIDE DEF u, result
<1>3. retained \in Seq(Result)
  BY <1>1, RemoveFirstType DEF Session
<1>4. settled \in SUBSET Result
  <2>1. s.retained \in Seq(Result) /\ u.settled \in SUBSET Result
    BY <1>1 DEF Session
  <2>2. ToSet(s.retained) \subseteq Result
    BY <2>1, ElementOfSeq DEF ToSet
  <2>. QED BY <2>1, <2>2
<1>5. s.desired \in Nat
  BY <1>1 DEF Session
<1>. HIDE DEF retained, settled
<1>6. t \in Session
  BY <1>1, <1>3, <1>4, <1>5 DEF Session, Status
<1>7. /\ t.issued = u.issued /\ t.wire = u.wire /\ t.desired = u.desired
      /\ t.ledger = u.ledger /\ t.acknowledged = s.desired /\ t.current = u.current
      /\ t.timer = u.timer /\ t.posts = u.posts /\ t.status = "acked"
  BY <1>1 DEF Session
<1>. HIDE DEF t
<1>8. Targeted(t) /\ Believed(t, f, r)
  BY <1>1, <1>7 DEF Sound, Targeted, Believed
<1>9. Sound(t, f, r)
  BY <1>1, <1>6, <1>7, <1>8, Unmoved
<1>10. t.current \in Adoption
  BY <1>1, <1>7 DEF Sound, Targeted
<1>. QED BY <1>2, <1>9, <1>10, CreateSound

\* Only an acknowledgement that still holds makes the session believe anything.
LEMMA HandleAppliedSound ==
    ASSUME NEW f \in Nat, NEW r \in BOOLEAN, NEW s, Sound(s, f, r), NEW arrives \in BOOLEAN,
           NEW id \in Nat \ {0}, NEW disposition,
           disposition # "stale" => id <= f \/ r
    PROVE  Sound(handle_snapshot_applied(s, id, disposition, arrives), f, r)
<1>1. CASE id # s.desired
  <2>. DEFINE ledger == s.ledger \ {id}
              t == [s EXCEPT !.ledger = ledger]
  <2>1. s \in Session /\ ledger \in SUBSET Nat /\ ledger \subseteq s.ledger
    BY DEF Sound, Session
  <2>. HIDE DEF ledger
  <2>2. t \in Session
    BY <2>1 DEF Session
  <2>3. /\ t.issued = s.issued /\ t.wire = s.wire /\ t.desired = s.desired
        /\ t.ledger = ledger /\ t.acknowledged = s.acknowledged /\ t.current = s.current
        /\ t.timer = s.timer /\ t.posts = s.posts /\ t.status = s.status
    BY <2>1 DEF Session
  <2>. HIDE DEF t
  <2>4. Targeted(t) /\ Believed(t, f, r)
    BY <2>3 DEF Sound, Targeted, Believed
  <2>5. Sound(t, f, r)
    BY <2>1, <2>2, <2>3, <2>4, Unmoved
  <2>6. handle_snapshot_applied(s, id, disposition, arrives) \in {s, t}
    BY <1>1 DEF handle_snapshot_applied, t, ledger
  <2>. QED BY <2>5, <2>6
<1>2. CASE id = s.desired
  <2>1. handle_snapshot_applied(s, id, disposition, arrives) \in
          IF disposition = "stale" THEN {s, acknowledged_stale(s)}
          ELSE {s, acknowledged_applied(s, arrives)}
    BY <1>2 DEF handle_snapshot_applied
  <2>2. CASE disposition = "stale"
    BY <1>2, <2>1, <2>2, AcknowledgedStaleSound
  <2>3. CASE disposition # "stale"
    BY <1>2, <2>1, <2>3, AcknowledgedAppliedSound
  <2>. QED BY <2>2, <2>3
<1>. QED BY <1>1, <1>2

LEMMA AnsweredSound ==
    ASSUME NEW f \in Nat, NEW r \in BOOLEAN, NEW s, Sound(s, f, r), NEW post \in s.posts
    PROVE  Sound([attempt_answered(s, post) EXCEPT !.posts = @ \ {post}], f, r)
<1>. DEFINE u == attempt_answered(s, post)
<1>1. s \in Session /\ s.posts \in SUBSET Attempt /\ s.desired # 0
  BY DEF Sound, Session, Targeted
<1>2. Sound(u, f, r)
  <2>1. CASE ~post.live
    BY <2>1 DEF attempt_answered
  <2>2. CASE post.live /\ post.accepted
    <3>. DEFINE t == [s EXCEPT !.status = "posted", !.timer = "ack"]
    <3>1. u = t
      BY <2>2 DEF attempt_answered
    <3>2. t \in Session
      BY <1>1 DEF Session, Status, Timer
    <3>3. /\ t.issued = s.issued /\ t.wire = s.wire /\ t.desired = s.desired
          /\ t.ledger = s.ledger /\ t.acknowledged = s.acknowledged
          /\ t.current = s.current /\ t.status = "posted"
      BY <1>1 DEF Session
    <3>. HIDE DEF t, u
    <3>4. Targeted(t) /\ Believed(t, f, r)
      BY <1>1, <3>3 DEF Sound, Targeted, Believed
    <3>. QED BY <3>1, <3>2, <3>3, <3>4, Unmoved
  <2>3. CASE post.live /\ ~post.accepted
    BY <1>1, <2>3, RetrySound DEF attempt_answered
  <2>. QED BY <2>1, <2>2, <2>3
<1>. HIDE DEF u
<1>. DEFINE posts == u.posts \ {post}
            t == [u EXCEPT !.posts = posts]
<1>3. u \in Session /\ posts \in SUBSET Attempt /\ posts \subseteq u.posts
  BY <1>2 DEF Sound, Session
<1>. HIDE DEF posts
<1>4. t \in Session
  BY <1>3 DEF Session
<1>5. /\ t.issued = u.issued /\ t.wire = u.wire /\ t.desired = u.desired
      /\ t.ledger = u.ledger /\ t.acknowledged = u.acknowledged /\ t.current = u.current
      /\ t.timer = u.timer /\ t.posts = posts /\ t.status = u.status
  BY <1>3 DEF Session
<1>. HIDE DEF t
<1>6. Targeted(t) /\ Believed(t, f, r)
  BY <1>2, <1>3, <1>5 DEF Sound, Targeted, Believed
<1>7. Sound(t, f, r)
  BY <1>2, <1>4, <1>5, <1>6, Unmoved
<1>. QED BY <1>7 DEF t, u, posts

LEMMA TimesOutSound ==
    ASSUME NEW f \in Nat, NEW r \in BOOLEAN, NEW s, Sound(s, f, r), s.timer # "none"
    PROVE  Sound(schedule_retry([s EXCEPT !.posts = overtaken(@)]), f, r)
<1>. DEFINE posts == overtaken(s.posts)
            t == [s EXCEPT !.posts = posts]
<1>1. /\ s \in Session /\ posts \in SUBSET Attempt /\ (s.posts = {} => posts = {})
      /\ s.desired # 0
  BY OvertakenType DEF Sound, Session, Targeted
<1>. HIDE DEF posts
<1>2. t \in Session
  BY <1>1 DEF Session
<1>3. /\ t.issued = s.issued /\ t.wire = s.wire /\ t.desired = s.desired
      /\ t.ledger = s.ledger /\ t.acknowledged = s.acknowledged /\ t.current = s.current
      /\ t.timer = s.timer /\ t.posts = posts /\ t.status = s.status
  BY <1>1 DEF Session
<1>. HIDE DEF t
<1>4. Targeted(t) /\ Believed(t, f, r)
  BY <1>1, <1>3 DEF Sound, Targeted, Believed
<1>5. Sound(t, f, r)
  BY <1>2, <1>3, <1>4, Unmoved
<1>. QED BY <1>1, <1>3, <1>5, RetrySound DEF t, posts

-----------------------------------------------------------------------------
(* Messages from the page *)

LEMMA AckTypes ==
    /\ \A ack \in Ack : ack.type \in {"ready", "setExcelFirstRowHeader", "snapshotApplied"}
    /\ \A ack \in Ack : ack.type = "setExcelFirstRowHeader" => ack.id \in Result
    /\ \A ack \in Ack : ack.type = "snapshotApplied" =>
          ack.id \in Nat \ {0} /\ ack.disposition \in Disposition
<1>. QED BY DEF Ack, Ready, Request, Applied

\* The next message is taken.
LEMMA Consumed ==
    ASSUME acks \in Seq(Ack), acks # <<>>, acks' = Tail(acks), shown' = shown, Answered
    PROVE  /\ acks' \in Seq(Ack) /\ Answered' /\ Head(acks) \in Ack
           /\ Head(acks).type # "ready" => Reloaded' = Reloaded
           /\ Head(acks).type = "snapshotApplied" /\ Head(acks).disposition # "stale" =>
                 Head(acks).id <= shown \/ Reloaded
<1>. DEFINE n == Len(acks)
<1>1. /\ acks' \in Seq(Ack) /\ Head(acks) \in Ack /\ Head(acks) = acks[1]
      /\ n \in Nat \ {0} /\ DOMAIN acks = 1..n /\ DOMAIN acks' = 1..(n - 1)
      /\ \A i \in 1..(n - 1) : acks'[i] = acks[i + 1]
  BY Taken
<1>. HIDE DEF n
<1>2. ASSUME NEW i \in 1..(n - 1)
      PROVE  i + 1 \in 1..n /\ acks'[i] = acks[i + 1]
  BY <1>1, <1>2
<1>3. ASSUME NEW i \in 1..n, i # 1
      PROVE  i - 1 \in 1..(n - 1) /\ acks'[i - 1] = acks[i]
  BY <1>1, <1>3
<1>4. Answered'
  <2>. SUFFICES ASSUME NEW i \in 1..(n - 1), acks'[i].type = "snapshotApplied",
                       acks'[i].disposition # "stale", ~(acks'[i].id <= shown)
                PROVE  \E j \in 1..(n - 1) : j > i /\ acks'[j].type = "ready"
    BY <1>1 DEF Answered
  <2>1. PICK j \in 1..n : j > i + 1 /\ acks[j].type = "ready"
    BY <1>1, <1>2 DEF Answered
  <2>2. j # 1 /\ j - 1 > i
    BY <1>1, <2>1
  <2>. QED BY <1>3, <2>1, <2>2
<1>5. Head(acks).type # "ready" => Reloaded' = Reloaded
  <2>1. Reloaded' => Reloaded
    BY <1>1, <1>2 DEF Reloaded
  <2>2. ASSUME Head(acks).type # "ready", Reloaded PROVE Reloaded'
    <3>1. PICK i \in 1..n : acks[i].type = "ready"
      BY <1>1, <2>2 DEF Reloaded
    <3>2. i # 1
      BY <1>1, <2>2, <3>1
    <3>. QED BY <1>1, <1>3, <3>1, <3>2 DEF Reloaded
  <2>3. Reloaded \in BOOLEAN /\ Reloaded' \in BOOLEAN
    BY DEF Reloaded
  <2>. QED BY <2>1, <2>2, <2>3
<1>6. Head(acks).type = "snapshotApplied" /\ Head(acks).disposition # "stale" =>
        Head(acks).id <= shown \/ Reloaded
  <2>1. 1 \in DOMAIN acks
    BY <1>1
  <2>. QED BY <1>1, <2>1 DEF Answered, Reloaded
<1>. QED BY <1>1, <1>4, <1>5, <1>6

\* The page says something.
LEMMA Said ==
    ASSUME acks \in Seq(Ack), NEW ack \in Ack, acks' = Append(acks, ack),
           shown \in Nat, shown' \in Nat, Answered,
           \/ ack.type = "ready"
           \/ /\ shown <= shown'
              /\ ack.type = "snapshotApplied" /\ ack.disposition # "stale" => ack.id <= shown'
    PROVE  /\ acks' \in Seq(Ack) /\ Answered'
           /\ Reloaded \/ ack.type = "ready" => Reloaded'
<1>. DEFINE n == Len(acks)
<1>1. /\ acks' \in Seq(Ack) /\ n \in Nat /\ DOMAIN acks = 1..n /\ DOMAIN acks' = 1..(n + 1)
      /\ \A i \in 1..n : acks'[i] = acks[i] /\ acks[i] \in Ack
      /\ acks'[n + 1] = ack
  BY Appended, ElementOfSeq
<1>. HIDE DEF n
<1>2. 1..n \subseteq 1..(n + 1) /\ n + 1 \in 1..(n + 1)
  BY <1>1
<1>3. \A i \in 1..(n + 1) : i \in 1..n \/ i = n + 1
  BY <1>1
<1>4. Reloaded \/ ack.type = "ready" => Reloaded'
  BY <1>1, <1>2 DEF Reloaded
<1>5. Answered'
  <2>1. CASE ack.type = "ready"
    <3>1. \A i \in 1..n : n + 1 > i
      BY <1>1
    <3>. QED BY <1>1, <1>2, <1>3, <2>1, <3>1 DEF Answered
  <2>2. CASE ack.type # "ready"
    <3>1. shown <= shown'
      BY <2>2
    <3>2. ASSUME NEW i \in 1..n, acks[i].type = "snapshotApplied",
                 acks[i].disposition # "stale", ~(acks[i].id <= shown')
          PROVE  \E j \in 1..(n + 1) : j > i /\ acks'[j].type = "ready"
      <4>1. acks[i].id \in Nat
        BY <1>1, <3>2, AckTypes
      <4>2. ~(acks[i].id <= shown)
        BY <3>1, <3>2, <4>1
      <4>3. PICK j \in 1..n : j > i /\ acks[j].type = "ready"
        BY <1>1, <3>2, <4>2 DEF Answered
      <4>. QED BY <1>1, <1>2, <4>3
    <3>. QED BY <1>1, <1>3, <2>2, <3>2 DEF Answered
  <2>. QED BY <2>1, <2>2
<1>. QED BY <1>1, <1>4, <1>5

-----------------------------------------------------------------------------
(* The steps *)

\* A step of the owner or the transport.
LEMMA OwnerKeeps ==
    ASSUME IInv, UNCHANGED <<acks, shown>>,
           durable' \in Nat, authority' \in Nat, load' \in Load,
           Sound(session', shown, Reloaded)
    PROVE  IInv'
<1>. QED BY DEF IInv, Surroundings, Answered, Reloaded

\* A message of the page is handled.
LEMMA HandledKeeps ==
    ASSUME IInv, acks # <<>>, acks' = Tail(acks), UNCHANGED shown,
           UNCHANGED <<durable, authority>>, load' \in Load,
           Sound(session', shown, Reloaded')
    PROVE  IInv'
<1>1. acks' \in Seq(Ack) /\ Answered'
  BY Consumed DEF IInv, Surroundings
<1>. QED BY <1>1 DEF IInv, Surroundings

LEMMA Booleans == Reloaded \in BOOLEAN /\ (Reloaded') \in BOOLEAN /\ Arrivals \subseteq BOOLEAN
<1>. QED BY DEF Reloaded, Arrivals

LEMMA Basics ==
    ASSUME IInv
    PROVE  /\ Sound(session, shown, Reloaded) /\ session \in Session /\ acks \in Seq(Ack)
           /\ shown \in Nat /\ durable \in Nat /\ authority \in Nat /\ load \in Load /\ Answered
           /\ Wanted \in Load /\ NoLoad \in Load
<1>. QED BY DEF IInv, Surroundings, Sound, Load

LEMMA HandleReadyKeeps == ASSUME IInv, HandleReady PROVE IInv'
<1>1. Sound(begin_ready(session), shown, Reloaded')
  BY Basics, Booleans, BeginReadySound
<1>. QED BY <1>1, Basics, HandledKeeps DEF HandleReady, Message

LEMMA HandleAppliedKeeps == ASSUME IInv, HandleApplied PROVE IInv'
<1>. DEFINE ack == Head(acks)
<1>1. acks # <<>> /\ ack.type = "snapshotApplied" /\ acks' = Tail(acks) /\ shown' = shown
  BY DEF HandleApplied, Message
<1>2. /\ ack \in Ack /\ Reloaded' = Reloaded
      /\ ack.disposition # "stale" => ack.id <= shown \/ Reloaded
  BY <1>1, Basics, Consumed
<1>3. ack.id \in Nat \ {0}
  BY <1>1, <1>2, AckTypes
<1>4. PICK arrives \in Arrivals :
         session' = handle_snapshot_applied(session, ack.id, ack.disposition, arrives)
  BY DEF HandleApplied
<1>5. Sound(session', shown, Reloaded)
  BY <1>2, <1>3, <1>4, Basics, Booleans, HandleAppliedSound
<1>6. load' \in Load
  BY Basics DEF HandleApplied
<1>. QED BY <1>1, <1>2, <1>5, <1>6, HandledKeeps DEF HandleApplied

LEMMA HandleCommandKeeps == ASSUME IInv, HandleCommand PROVE IInv'
<1>1. /\ acks # <<>> /\ Head(acks).type = "setExcelFirstRowHeader"
      /\ acks' = Tail(acks) /\ shown' = shown
  BY DEF HandleCommand, Message
<1>2. Reloaded' = Reloaded
  BY <1>1, Basics, Consumed
<1>3. PICK arrives \in Arrivals : session' = wake_delivery(session, arrives)
  BY DEF HandleCommand
<1>4. Sound(session', shown, Reloaded)
  BY <1>3, Basics, Booleans, WakeSound
<1>. QED BY <1>1, <1>2, <1>4, Basics, HandledKeeps DEF HandleCommand

LEMMA AnswerCommandKeeps ==
    ASSUME IInv, NEW result \in Result, AnswerCommand(result)
    PROVE  IInv'
<1>1. durable + 1 \in Nat /\ authority + 1 \in Nat
  BY Basics
<1>2. CASE CommitHeader(result)
  <2>1. PICK arrives \in Arrivals :
           session' = replace_adoption(retain_command_result(session, result, FALSE, arrives),
                                       authority + 1, durable + 1, arrives)
    BY <1>2 DEF CommitHeader
  <2>2. Sound(retain_command_result(session, result, FALSE, arrives), shown, Reloaded)
    BY Basics, Booleans, RetainSound
  <2>3. Sound(session', shown, Reloaded)
    BY <1>1, <2>1, <2>2, Basics, Booleans, ReplaceSound
  <2>. QED BY <1>1, <1>2, <2>3, Basics, OwnerKeeps DEF AnswerCommand, CommitHeader
<1>3. CASE RecoverHeader(result)
  <2>1. Sound(session', shown, Reloaded)
    BY <1>3, Basics, Booleans, RetainSound DEF RecoverHeader
  <2>. QED BY <1>1, <1>3, <2>1, Basics, OwnerKeeps DEF AnswerCommand, RecoverHeader
<1>4. CASE RejectHeader(result)
  <2>1. Sound(session', shown, Reloaded)
    BY <1>4, Basics, Booleans, RetainSound DEF RejectHeader
  <2>. QED BY <1>4, <2>1, Basics, OwnerKeeps DEF AnswerCommand, RejectHeader
<1>. QED BY <1>2, <1>3, <1>4 DEF AnswerCommand

LEMMA CompleteReadyKeeps == ASSUME IInv, CompleteReady PROVE IInv'
<1>1. Sound(session', shown, Reloaded)
  BY Basics, Booleans, CompleteReadySound DEF CompleteReady
<1>2. load' \in Load
  BY Basics DEF CompleteReady
<1>. QED BY <1>1, <1>2, Basics, OwnerKeeps DEF CompleteReady

LEMMA CommitLoadKeeps == ASSUME IInv, CommitLoad PROVE IInv'
<1>1. authority' \in Nat
  BY Basics DEF CommitLoad
<1>2. load' \in Load
  BY <1>1, Basics DEF CommitLoad, Load
<1>. QED BY <1>1, <1>2, Basics, OwnerKeeps DEF CommitLoad

LEMMA AdoptLoadKeeps == ASSUME IInv, AdoptLoad PROVE IInv'
<1>1. load.authority \in Nat /\ load.revision \in Nat
  BY Basics DEF AdoptLoad, Load, NoLoad, Wanted
<1>2. Sound(session', shown, Reloaded)
  BY <1>1, Basics, Booleans, ReplaceSound DEF AdoptLoad
<1>. QED BY <1>2, Basics, OwnerKeeps DEF AdoptLoad

LEMMA WritesKeep ==
    ASSUME IInv, WantLoad \/ Write \/ UpdateState
    PROVE  IInv'
<1>1. CASE WantLoad
  BY <1>1, Basics, OwnerKeeps DEF WantLoad
<1>2. CASE Write
  <2>1. durable' \in Nat
    BY <1>2, Basics DEF Write
  <2>. QED BY <1>2, <2>1, Basics, OwnerKeeps DEF Write
<1>3. CASE UpdateState
  <2>1. Sound(session', shown, Reloaded)
    BY <1>3, Basics, Booleans, UpdateStateSound DEF UpdateState
  <2>. QED BY <1>3, <2>1, Basics, OwnerKeeps DEF UpdateState
<1>. QED BY <1>1, <1>2, <1>3

LEMMA TransportKeeps == ASSUME IInv, TransportStep PROVE IInv'
<1>1. CASE PostAnswered
  <2>1. Sound(session', shown, Reloaded)
    <3>1. PICK post \in session.posts :
             session' = [attempt_answered(session, post) EXCEPT !.posts = @ \ {post}]
      BY <1>1 DEF PostAnswered
    <3>. QED BY <3>1, Basics, Booleans, AnsweredSound
  <2>. QED BY <1>1, <2>1, Basics, OwnerKeeps DEF PostAnswered
<1>2. CASE TimesOut
  <2>1. Sound(session', shown, Reloaded)
    <3>1. session.timer # "none"
      BY <1>2 DEF TimesOut
    <3>2. session' = schedule_retry([session EXCEPT !.posts = overtaken(@)])
      BY <1>2 DEF TimesOut
    <3>. QED BY <3>1, <3>2, Basics, Booleans, TimesOutSound
  <2>. QED BY <1>2, <2>1, Basics, OwnerKeeps DEF TimesOut
<1>3. CASE Retries
  <2>1. Sound(session', shown, Reloaded)
    <3>1. session.desired # 0
      BY <1>3, Basics DEF Retries, Sound, Targeted
    <3>. QED BY <1>3, <3>1, Basics, Booleans, PostSound DEF Retries
  <2>. QED BY <1>3, <2>1, Basics, OwnerKeeps DEF Retries
<1>. QED BY <1>1, <1>2, <1>3 DEF TransportStep

-----------------------------------------------------------------------------
(* The page *)

LEMMA ClassifyTypes ==
    ASSUME NEW incoming, NEW applied
    PROVE  /\ classify_snapshot(incoming, applied) \in Disposition
           /\ classify_snapshot(incoming, applied) = "duplicate" => incoming = applied
<1>. QED BY DEF classify_snapshot, Disposition

\* What the page takes is not older than what it shows, and nothing on the wire is older
\* than either.
LEMMA ReceiveKeeps == ASSUME IInv, Receive PROVE IInv'
<1>. DEFINE s == session
            id == Head(s.wire)
            disposition == classify_snapshot(id, shown)
            ack == [type |-> "snapshotApplied", id |-> id, disposition |-> disposition]
            rest == Tail(s.wire)
            t == [s EXCEPT !.wire = rest]
<1>1. /\ s.wire # <<>> /\ session' = t /\ acks' = Append(acks, ack)
      /\ shown' = IF disposition = "applied" THEN id ELSE shown
      /\ UNCHANGED <<durable, authority, load>>
  BY DEF Receive
<1>2. /\ s \in Session /\ s.wire \in Seq(Nat) /\ s.issued \in Seq(Delivery)
      /\ Len(s.issued) \in Nat /\ s.desired \in Nat /\ Latest(s)
  BY Basics, LenProperties DEF Session, Sound
<1>3. /\ rest \in Seq(Nat) /\ id = s.wire[1]
      /\ Len(s.wire) \in Nat \ {0} /\ DOMAIN s.wire = 1..Len(s.wire)
      /\ DOMAIN rest = 1..(Len(s.wire) - 1)
      /\ \A i \in 1..(Len(s.wire) - 1) : rest[i] = s.wire[i + 1]
  BY <1>1, <1>2, Taken
<1>4. /\ shown <= Len(s.issued)
      /\ \A i \in 1..Len(s.wire) : s.wire[i] \in 1..Len(s.issued) /\ shown <= s.wire[i]
      /\ \A i, j \in 1..Len(s.wire) : i <= j => s.wire[i] <= s.wire[j]
  BY <1>3, Basics DEF Sound, InOrder
<1>5. 1 \in 1..Len(s.wire) /\ id \in 1..Len(s.issued) /\ shown <= id /\ id \in Nat \ {0}
  BY <1>2, <1>3, <1>4
<1>6. shown' \in Nat /\ shown <= shown' /\ shown' <= Len(s.issued) /\ shown' <= id
  BY <1>1, <1>2, <1>4, <1>5, Basics
<1>7. disposition # "stale" => id <= shown'
  BY <1>1, <1>2, <1>5, Basics, ClassifyTypes DEF Disposition
<1>8. ack \in Ack /\ ack.type = "snapshotApplied" /\ ack.disposition = disposition /\ ack.id = id
  BY <1>5, ClassifyTypes DEF Ack, Applied
<1>. HIDE DEF disposition, id, rest, ack
<1>9. acks' \in Seq(Ack) /\ Answered' /\ (Reloaded => Reloaded')
  BY <1>1, <1>6, <1>7, <1>8, Basics, Said
<1>10. t \in Session
  BY <1>2, <1>3 DEF Session
<1>11. /\ t.issued = s.issued /\ t.wire = rest /\ t.desired = s.desired
       /\ t.ledger = s.ledger /\ t.acknowledged = s.acknowledged /\ t.current = s.current
       /\ t.timer = s.timer /\ t.posts = s.posts /\ t.status = s.status
  BY <1>2 DEF Session
<1>. HIDE DEF t
<1>12. Latest(t) /\ Targeted(t) /\ Numbered(t)
  BY <1>11, Basics DEF Sound, Latest, Targeted, Numbered
<1>13. InOrder(t, shown')
  <2>1. ASSUME NEW i \in 1..(Len(s.wire) - 1)
        PROVE  i + 1 \in 1..Len(s.wire) /\ 1 <= i + 1 /\ rest[i] = s.wire[i + 1]
    BY <1>3, <2>1
  <2>2. ASSUME NEW i \in 1..(Len(s.wire) - 1)
        PROVE  rest[i] \in 1..Len(s.issued) /\ shown' <= rest[i]
    <3>1. s.wire[i + 1] \in 1..Len(s.issued) /\ id <= s.wire[i + 1]
      BY <1>3, <1>4, <1>5, <2>1
    <3>. QED BY <1>2, <1>5, <1>6, <2>1, <3>1
  <2>3. ASSUME NEW i \in 1..(Len(s.wire) - 1), NEW j \in 1..(Len(s.wire) - 1), i <= j
        PROVE  rest[i] <= rest[j]
    <3>1. i + 1 <= j + 1
      BY <2>3
    <3>. QED BY <1>4, <2>1, <3>1
  <2>. QED BY <1>3, <1>6, <1>11, <2>2, <2>3 DEF InOrder
<1>14. Believed(t, shown', Reloaded')
  <2>1. s.status = "acked" => s.desired <= shown \/ Reloaded
    BY Basics DEF Sound, Believed
  <2>. QED BY <1>2, <1>6, <1>9, <1>11, <2>1, Basics DEF Believed
<1>. QED BY <1>1, <1>6, <1>9, <1>10, <1>12, <1>13, <1>14, Basics DEF IInv, Surroundings, Sound

LEMMA AskKeeps == ASSUME IInv, NEW result \in Result, Ask(result) PROVE IInv'
<1>. DEFINE ack == [type |-> "setExcelFirstRowHeader", id |-> result]
<1>1. acks' = Append(acks, ack) /\ UNCHANGED <<session, shown, durable, authority, load>>
  BY DEF Ask
<1>2. ack \in Ack /\ ack.type = "setExcelFirstRowHeader"
  BY DEF Ack, Request
<1>. HIDE DEF ack
<1>3. acks' \in Seq(Ack) /\ Answered' /\ (Reloaded => Reloaded')
  BY <1>1, <1>2, Basics, Said
<1>4. Sound(session', shown', Reloaded')
  BY <1>1, <1>3, Basics DEF Sound, Believed
<1>. QED BY <1>1, <1>3, <1>4, Basics DEF IInv, Surroundings

LEMMA ReloadKeeps == ASSUME IInv, Reload PROVE IInv'
<1>. DEFINE ack == [type |-> "ready"]
<1>1. /\ acks' = Append(acks, ack) /\ shown' = 0
      /\ UNCHANGED <<durable, authority, load>>
  BY DEF Reload
<1>2. PICK wire \in {<<>>, session.wire} : session' = [session EXCEPT !.wire = wire]
  BY DEF Reload
<1>3. ack \in Ack /\ ack.type = "ready"
  BY DEF Ack, Ready
<1>. HIDE DEF ack
<1>4. acks' \in Seq(Ack) /\ Answered' /\ Reloaded'
  BY <1>1, <1>3, Basics, Said
<1>5. session' \in Session
  <2>1. <<>> \in Seq(Nat)
    OBVIOUS
  <2>2. wire \in Seq(Nat)
    BY <1>2, <2>1, Basics DEF Session
  <2>. QED BY <1>2, <2>2, Basics DEF Session
<1>6. /\ session'.issued = session.issued /\ session'.wire = wire
      /\ session'.desired = session.desired /\ session'.ledger = session.ledger
      /\ session'.acknowledged = session.acknowledged /\ session'.current = session.current
      /\ session'.timer = session.timer /\ session'.posts = session.posts
      /\ session'.status = session.status
  BY <1>2, Basics DEF Session
<1>7. Latest(session') /\ Targeted(session') /\ Numbered(session')
  BY <1>6, Basics DEF Sound, Latest, Targeted, Numbered
<1>8. InOrder(session', 0)
  <2>1. Len(session.issued) \in Nat
    BY Basics, LenProperties DEF Session
  <2>2. /\ \A i \in DOMAIN session.wire : session.wire[i] \in 1..Len(session.issued)
        /\ \A i, j \in DOMAIN session.wire : i <= j => session.wire[i] <= session.wire[j]
    BY Basics DEF Sound, InOrder
  <2>3. DOMAIN <<>> = {}
    OBVIOUS
  <2>4. \A n \in 1..Len(session.issued) : 0 <= n
    BY <2>1
  <2>. QED BY <1>2, <1>6, <2>1, <2>2, <2>3, <2>4 DEF InOrder
<1>9. Believed(session', 0, Reloaded')
  BY <1>4 DEF Believed
<1>. QED BY <1>1, <1>4, <1>5, <1>7, <1>8, <1>9, Basics DEF IInv, Surroundings, Sound

LEMMA DisposeKeeps == ASSUME IInv, Dispose PROVE IInv'
<1>. DEFINE u == invalidate_transport(supersede_desired(session))
            d == [u EXCEPT !.lifecycle = "disposed", !.gate = FALSE, !.current = NoAdoption,
                           !.acknowledged = 0, !.retained = <<>>, !.settled = {},
                           !.stale = 0, !.ledger = {}]
            t == [d EXCEPT !.issued = <<>>, !.wire = <<>>]
<1>1. /\ session' = t /\ shown' = 0 /\ acks' = <<>> /\ load' = NoLoad
      /\ UNCHANGED <<durable, authority>>
  BY DEF Dispose, dispose
<1>2. /\ u \in Session
      /\ u.desired = 0 /\ u.status = "none" /\ u.timer = "none" /\ u.posts = {}
  <2>. DEFINE v == supersede_desired(session)
  <2>1. v \in Session /\ v.desired = 0 /\ v.status = "none" /\ v.posts = {}
    BY Basics DEF supersede_desired, Session, Status
  <2>. HIDE DEF v
  <2>2. overtaken(v.posts) = {}
    BY <2>1, OvertakenType
  <2>3. invalidate_transport(v) = [v EXCEPT !.timer = "none", !.posts = {}]
    BY <2>2 DEF invalidate_transport
  <2>. QED BY <2>1, <2>3 DEF v, Session, Timer
<1>. HIDE DEF u
<1>3. <<>> \in Seq(Result) /\ <<>> \in Seq(Delivery) /\ <<>> \in Seq(Nat)
  OBVIOUS
<1>4. /\ d \in Session
      /\ d.desired = 0 /\ d.status = "none" /\ d.timer = "none" /\ d.posts = {}
      /\ d.ledger = {} /\ d.acknowledged = 0
  BY <1>2, <1>3 DEF Session
<1>. HIDE DEF d
<1>5. /\ t \in Session
      /\ t.issued = <<>> /\ t.wire = <<>> /\ t.desired = 0 /\ t.ledger = {}
      /\ t.acknowledged = 0 /\ t.timer = "none" /\ t.posts = {} /\ t.status = "none"
  BY <1>3, <1>4 DEF Session
<1>. HIDE DEF t
<1>6. Len(<<>>) = 0 /\ DOMAIN <<>> = {}
  OBVIOUS
<1>7. Sound(t, 0, Reloaded')
  BY <1>5, <1>6 DEF Sound, Latest, Targeted, Numbered, InOrder, Believed
<1>8. acks' \in Seq(Ack) /\ Answered'
  BY <1>1, <1>6 DEF Answered
<1>. QED BY <1>1, <1>7, <1>8, Basics DEF IInv, Surroundings

-----------------------------------------------------------------------------
(* The theorems *)

LEMMA InitIInv == Init => IInv
<1>. SUFFICES ASSUME Init PROVE IInv
  OBVIOUS
<1>1. /\ session = new_session /\ acks = <<>> /\ shown = 0 /\ durable = 0 /\ authority = 0
      /\ load = Wanted
  BY DEF Init
<1>2. Len(<<>>) = 0 /\ DOMAIN <<>> = {}
  OBVIOUS
<1>3. <<>> \in Seq(Result) /\ <<>> \in Seq(Delivery) /\ <<>> \in Seq(Nat) /\ <<>> \in Seq(Ack)
  OBVIOUS
<1>4. new_session \in Session
  <2>1. 0 \in 0..BackoffLength
    BY PanelSessionAssumption
  <2>. QED BY <1>3, <2>1 DEF new_session, Session, Status, Timer
<1>5. /\ session.issued = <<>> /\ session.wire = <<>> /\ session.desired = 0
      /\ session.ledger = {} /\ session.acknowledged = 0 /\ session.timer = "none"
      /\ session.posts = {} /\ session.status = "none"
  BY <1>1 DEF new_session
<1>6. Sound(session, shown, Reloaded)
  BY <1>1, <1>2, <1>4, <1>5
     DEF Sound, Latest, Targeted, Numbered, InOrder, Believed
<1>. QED BY <1>1, <1>2, <1>3, <1>6 DEF IInv, Surroundings, Answered, Load

LEMMA NextIInv == IInv /\ [Next]_vars => IInv'
<1>. SUFFICES ASSUME IInv, [Next]_vars PROVE IInv'
  OBVIOUS
<1>1. CASE PageStep
  BY <1>1, ReceiveKeeps, HandleReadyKeeps, HandleAppliedKeeps, HandleCommandKeeps DEF PageStep
<1>2. CASE OwnerStep
  BY <1>2, CompleteReadyKeeps, CommitLoadKeeps, AdoptLoadKeeps, AnswerCommandKeeps DEF OwnerStep
<1>3. CASE TransportStep
  BY <1>3, TransportKeeps
<1>4. CASE Reload \/ WantLoad \/ Write \/ UpdateState \/ Dispose
  BY <1>4, ReloadKeeps, WritesKeep, DisposeKeeps
<1>5. CASE \E result \in Result : Ask(result)
  BY <1>5, AskKeeps
<1>6. CASE UNCHANGED vars
  BY <1>6 DEF vars, IInv, Surroundings, Reloaded, Answered
<1>. QED BY <1>1, <1>2, <1>3, <1>4, <1>5, <1>6 DEF Next

\* The session's fields are what they should be; what it desires, acknowledges and
\* remembers, and what the page shows, are snapshots it has issued, and no timer runs
\* without one that is desired (PanelSession).
THEOREM SessionTypes == Spec => []TypeOK
<1>1. ASSUME IInv PROVE TypeOK
  <2>1. session \in Session /\ Sound(session, shown, Reloaded) /\ shown \in Nat
    BY <1>1, Basics
  <2>2. session.issued \in Seq(Delivery) /\ Len(session.issued) \in Nat
    BY <2>1, LenProperties DEF Session
  <2>3. session.ledger \cup {session.desired, session.acknowledged, shown} \subseteq
          0..Len(session.issued)
    BY <2>1, <2>2 DEF Sound, Numbered, Latest, InOrder
  <2>4. session.timer # "none" => session.desired # 0
    BY <2>1 DEF Sound, Targeted
  <2>5. session.current = NoAdoption
          \/ session.current \in [epoch : Nat, authority : Nat, revision : Nat]
    BY <2>1 DEF Session, Adoption
  <2>. QED BY <2>1, <2>2, <2>3, <2>4, <2>5 DEF TypeOK, Session, Status, Timer
<1>. QED BY <1>1, InitIInv, NextIInv, PTL DEF Spec

\* The identity that acknowledged_current vouches for is what the page shows, or the page
\* has reloaded and is about to say so.
THEOREM BelievesThePage == Spec => []AcknowledgedIsShown
<1>1. ASSUME IInv, acknowledged_current(session)
      PROVE  shown = session.desired \/ Reloaded
  <2>1. session.desired # 0 /\ session.status = "acked"
    BY <1>1 DEF acknowledged_current
  <2>2. /\ session.desired \in Nat /\ shown \in Nat /\ Len(session.issued) \in Nat
        /\ session.desired \in {0, Len(session.issued)} /\ shown <= Len(session.issued)
        /\ session.desired <= shown \/ Reloaded
    BY <1>1, <2>1, Basics, LenProperties DEF Session, Sound, Latest, InOrder, Believed
  <2>. QED BY <2>1, <2>2
<1>2. IInv => AcknowledgedIsShown
  BY <1>1 DEF AcknowledgedIsShown, Reloaded
<1>. QED BY <1>2, InitIInv, NextIInv, PTL DEF Spec

\* While it stays loaded, what the page shows goes back neither to an earlier authority
\* nor to an earlier state of the same one (classify_snapshot).
THEOREM NeverGoesBack == Spec => PageNeverGoesBack
<1>. DEFINE Forward ==
       shown # 0 /\ shown' # 0 =>
          LET old == session.issued[shown]
              new == session.issued[shown']
          IN  \/ new.authority > old.authority
              \/ new.authority = old.authority /\ new.revision >= old.revision
<1>1. ASSUME IInv, [Next]_vars, shown # 0, shown' # 0
      PROVE  LET old == session.issued[shown]
                 new == session.issued[shown']
             IN  \/ new.authority > old.authority
                 \/ new.authority = old.authority /\ new.revision >= old.revision
  <2>1. \A n \in 1..Len(session.issued) :
           session.issued[n].authority \in Nat /\ session.issued[n].revision \in Nat
    <3>1. session.issued \in Seq(Delivery)
      BY <1>1, Basics DEF Session
    <3>2. \A n \in 1..Len(session.issued) : session.issued[n] \in Delivery
      BY <3>1, ElementOfSeq
    <3>. QED BY <3>2 DEF Delivery
  <2>2. shown \in 1..Len(session.issued)
    <3>1. shown \in Nat /\ shown <= Len(session.issued) /\ Len(session.issued) \in Nat
      BY <1>1, Basics, LenProperties DEF Session, Sound, InOrder
    <3>. QED BY <1>1, <3>1
  <2>3. CASE shown' = shown
    BY <2>1, <2>2, <2>3
  <2>4. CASE Receive /\ shown' # shown
    <3>. DEFINE id == Head(session.wire)
    <3>1. id \in 1..Len(session.issued)
      <4>1. session.wire # <<>> /\ session.wire \in Seq(Nat)
        BY <1>1, <2>4, Basics DEF Receive, Session
      <4>2. id = session.wire[1] /\ 1 \in DOMAIN session.wire
        BY <4>1, Taken
      <4>. QED BY <1>1, <4>2, Basics DEF Sound, InOrder
    <3>2. shown' = id /\ classify_snapshot(id, shown) = "applied"
      BY <2>4 DEF Receive
    <3>. HIDE DEF id
    <3>. QED BY <1>1, <2>1, <2>2, <3>1, <3>2 DEF classify_snapshot
  <2>5. CASE Reload \/ Dispose
    BY <1>1, <2>5 DEF Reload, Dispose
  <2>6. CASE HandleReady \/ HandleApplied \/ HandleCommand \/ TransportStep
    BY <2>3, <2>6
       DEF HandleReady, HandleApplied, HandleCommand, TransportStep, PostAnswered, TimesOut,
           Retries
  <2>7. CASE OwnerStep \/ WantLoad \/ Write \/ UpdateState \/ \E result \in Result : Ask(result)
    BY <2>3, <2>7
       DEF OwnerStep, CompleteReady, CommitLoad, AdoptLoad, AnswerCommand, WantLoad, Write,
           UpdateState, Ask
  <2>8. CASE UNCHANGED vars
    BY <2>3, <2>8 DEF vars
  <2>. QED BY <1>1, <2>3, <2>4, <2>5, <2>6, <2>7, <2>8 DEF Next, PageStep
<1>2. IInv /\ [Next]_vars => [Forward]_vars
  BY <1>1
<1>. QED BY <1>2, InitIInv, NextIInv, PTL DEF Spec, PageNeverGoesBack, Forward

=============================================================================

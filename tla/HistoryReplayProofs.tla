------------------------ MODULE HistoryReplayProofs ------------------------
(***************************************************************************)
(* Proofs about undo and redo in one panel: that a replay the page waits   *)
(* for is always answered, that a commit keeps its lease, and that saves   *)
(* and replays exclude each other.                                         *)
(*                                                                         *)
(* The second half begins the proof of HistoryDescribesDocument: it states *)
(* the invariant DocInv, says what each step of the host and of the page   *)
(* does to the fields that DocInv speaks of, and shows that every step     *)
(* keeps the parts about numbers (Numbered, from which the theorems about  *)
(* leases and saves follow, and Heard), loads of the page (Arriving), the  *)
(* order of snapshots (Ordered) and the one replay that is under way       *)
(* (Tokens, Bound).  HistoryDocumentProofs has the other parts and the     *)
(* theorem.                                                                *)
(***************************************************************************)
EXTENDS HistoryReplay, SequenceTheorems, TLAPS

-----------------------------------------------------------------------------
(* The shape of the state *)

Entry == [before : Nat, after : Nat]

Page == [ up : BOOLEAN, cell : Nat, published : Nat, sequence : Nat, acknowledged : BOOLEAN,
          session : {"none", "requested", "held", "discarding"}, saving : BOOLEAN,
          request : Nat, undo : Seq(Entry), redo : Seq(Entry) ]

Slot == [phase : {"idle"}]
           \cup [phase : {"acquiring"}, direction : Directions]
           \cup [phase : {"preparing"}, direction : Directions, entry : Entry, request : Nat]
           \cup [phase : {"committing"}, direction : Directions, entry : Entry, lease : Nat]

Host == [ durable : Nat, known : Nat, overtaken : BOOLEAN,
          basis : Nat, epoch : Nat, readying : BOOLEAN,
          delivery : Nat, shown : Nat, posted : BOOLEAN, acked : BOOLEAN,
          session : Nat, sessions : Nat, claiming : BOOLEAN,
          flag : BOOLEAN, posting : SUBSET [lease : Nat, heard : BOOLEAN],
          saving : BOOLEAN, leases : Nat ]

Op == [ request : Nat, epoch : Nat, cell : Nat, awaits : Nat,
        step : {"draining", "comparing", "verifying"}, basis : Nat, session : Nat ]

Lease == [state : {"none"}] \cup [state : {"issued", "committing"}, id : Nat, op : Op]

Commit == [ lease : Nat, op : Op, value : Nat, awaits : Nat, epoch : Nat,
            step : {"starting", "draining", "verified", "written"} ]

Write == [value : Nat, epoch : Nat, sequence : Nat, session : Nat]

ToHost == [type : {"edits"}, value : Nat, sequence : Nat]
             \cup [type : {"discard", "session", "save", "ready"}]
             \cup [type : {"prepare"}, request : Nat, cell : Nat]
             \cup [type : {"commit"}, lease : Nat, value : Nat]
             \cup [type : {"abandon"}, lease : Nat]
             \cup [type : {"applied"}, delivery : Nat]

ToPage == [type : {"snapshot"}, initial : {FALSE}, delivery : Nat, cell : Nat]
             \cup [type : {"snapshot"}, initial : {TRUE}, delivery : Nat, cell : Nat,
                   session : BOOLEAN]
             \cup [type : {"acknowledged"}, sequence : Nat]
             \cup [type : {"session"}, granted : {TRUE}, cell : Nat]
             \cup [type : {"session"}, granted : {FALSE}]
             \cup [type : {"discarded", "saved"}]
             \cup [type : {"prepared"}, request : Nat, lease : Nat, cell : Nat]
             \cup [type : {"prepareRefused"}, request : Nat]
             \cup [type : {"committed", "commitRefused"}, lease : Nat]

Count == [ edits : Nat, replays : Nat, saves : Nat, faults : Nat,
           lost : BOOLEAN, overlap : BOOLEAN, others : BOOLEAN ]

\* A replay that is wanted has an entry to replay.
PageTypes ==
    /\ page \in Page /\ slot \in Slot
    /\ slot.phase = "acquiring" => stack_for(page, slot.direction) # <<>>

HostTypes == host \in Host /\ lease \in Lease /\ preparing \subseteq Op
                /\ committing \in Seq(Commit) /\ writes \in Seq(Write)
WireTypes == toHost \in Seq(ToHost) /\ toPage \in Seq(ToPage)

Types == PageTypes /\ HostTypes /\ WireTypes /\ count \in Count

-----------------------------------------------------------------------------
(* The inductive invariant *)

\* Until preparations have overlapped there is one at most, and none while a lease is
\* posted, one for the present page holds the flag, and while a save runs nobody holds it
\* and no lease is out.
Exclusive ==
    /\ \A op \in preparing : op.epoch <= host.epoch
    /\ ~count.overlap =>
          /\ \A op, other \in preparing : op = other
          /\ preparing = {} \/ host.posting = {}
          /\ \A op \in preparing : op.epoch = host.epoch => host.flag
          /\ host.saving => ~host.flag /\ ~live

\* A lease that is spent is that of a commit that runs.
Spent ==
    lease.state = "committing" => \E i \in DOMAIN committing : committing[i].lease = lease.id

\* What a preparation or a commit awaits is pending.
Awaited == \A op \in preparing : op.awaits <= Len(writes)

\* No message speaks of a snapshot that is not yet issued, or issued and not posted.
Known(delivery) == delivery <= host.delivery /\ (~host.posted => delivery # host.delivery)

Deliveries ==
    /\ \A message \in Range(toPage) : message.type = "snapshot" => Known(message.delivery)
    /\ \A message \in Range(toHost) : message.type = "applied" => Known(message.delivery)
    /\ host.acked => host.posted
    /\ host.readying => host.posted

\* A load of the page is announced once, by its last message, and answered once.
Announcements == {i \in DOMAIN toHost : toHost[i].type = "ready"}
First(message) == message.type = "snapshot" /\ message.initial
Firsts == {i \in DOMAIN toPage : First(toPage[i])}

Loading ==
    /\ Announcements \subseteq {Len(toHost)}
    /\ \A i, j \in Firsts : i = j
    /\ Announcements # {} => ~host.readying /\ Firsts = {} /\ ~page.up
    /\ host.readying => Firsts = {} /\ ~page.up
    /\ Firsts # {} => ~page.up
    /\ ~page.up => slot = Idle /\ page.session = "none"

\* What the page waits for is on its way, or the host is at work on it.
OnTheWay == Range(toHost) \cup Range(toPage)

SessionComing == host.claiming \/ \E message \in OnTheWay : message.type = "session"
DiscardComing == \E message \in OnTheWay : message.type \in {"discard", "discarded"}

PrepareComing(request) ==
    \/ \E message \in OnTheWay : /\ message.type \in {"prepare", "prepared", "prepareRefused"}
                                 /\ message.request = request
    \/ \E op \in preparing : op.request = request /\ op.epoch = host.epoch

CommitComing(id) ==
    \/ \E message \in OnTheWay : /\ message.type \in {"commit", "committed", "commitRefused"}
                                 /\ message.lease = id
    \/ \E commit \in Range(committing) : commit.lease = id /\ commit.epoch = host.epoch

Owed ==
    ~count.lost =>
       /\ page.session = "requested" => SessionComing
       /\ page.session = "discarding" => DiscardComing
       /\ slot.phase = "preparing" => PrepareComing(slot.request)
       /\ slot.phase = "committing" => CommitComing(slot.lease)

IInv == Types /\ Exclusive /\ Spent /\ Awaited /\ Deliveries /\ Loading /\ Owed

-----------------------------------------------------------------------------
(* Sequences *)

LEMMA AfterAppend ==
    ASSUME NEW S, NEW s \in Seq(S), NEW e \in S
    PROVE  /\ Append(s, e) \in Seq(S)
           /\ Len(Append(s, e)) = Len(s) + 1
           /\ \A i \in 1..Len(s) : Append(s, e)[i] = s[i]
           /\ Append(s, e)[Len(s) + 1] = e
           /\ Range(Append(s, e)) = Range(s) \cup {e}
<1>1. /\ Append(s, e) \in Seq(S)
      /\ Len(Append(s, e)) = Len(s) + 1
      /\ \A i \in 1..Len(s) : Append(s, e)[i] = s[i]
      /\ Append(s, e)[Len(s) + 1] = e
  BY AppendProperties
<1>2. Range(Append(s, e)) = Range(s) \cup {e}
  <2>1. DOMAIN Append(s, e) = 1..(Len(s) + 1) /\ DOMAIN s = 1..Len(s) /\ Len(s) \in Nat
    BY <1>1, LenProperties
  <2>. QED BY <1>1, <2>1 DEF Range
<1>. QED BY <1>1, <1>2

LEMMA AfterConcat ==
    ASSUME NEW S, NEW s \in Seq(S), NEW t \in Seq(S)
    PROVE  /\ s \o t \in Seq(S)
           /\ Range(s \o t) = Range(s) \cup Range(t)
<1>. QED BY ConcatProperties, RangeConcatenation

LEMMA AfterTail ==
    ASSUME NEW S, NEW s \in Seq(S), s # <<>>
    PROVE  /\ Head(s) \in S /\ Tail(s) \in Seq(S)
           /\ Len(s) \in Nat \ {0} /\ Len(Tail(s)) = Len(s) - 1
           /\ \A i \in 1..Len(Tail(s)) : Tail(s)[i] = s[i + 1]
           /\ Head(s) = s[1]
           /\ Range(s) = Range(Tail(s)) \cup {Head(s)}
<1>1. /\ Head(s) \in S /\ Tail(s) \in Seq(S)
      /\ Len(s) \in Nat \ {0} /\ Len(Tail(s)) = Len(s) - 1
      /\ \A i \in 1..Len(Tail(s)) : Tail(s)[i] = s[i + 1]
  BY HeadTailProperties, EmptySeq
<1>2. Head(s) = s[1]
  OBVIOUS
<1>3. Range(s) = Range(Tail(s)) \cup {Head(s)}
  <2>1. DOMAIN s = 1..Len(s) /\ DOMAIN Tail(s) = 1..(Len(s) - 1)
    BY <1>1, LenProperties
  <2>2. ASSUME NEW i \in 1..Len(s)
        PROVE  s[i] \in Range(Tail(s)) \cup {Head(s)}
    <3>1. CASE i = 1
      BY <3>1, <1>2
    <3>2. CASE i # 1
      <4>1. i - 1 \in 1..(Len(s) - 1) /\ (i - 1) + 1 = i
        BY <3>2, <1>1
      <4>2. Tail(s)[i - 1] = s[i]
        BY <4>1, <1>1
      <4>. QED BY <4>1, <4>2, <2>1 DEF Range
    <3>. QED BY <3>1, <3>2
  <2>3. ASSUME NEW i \in 1..(Len(s) - 1)
        PROVE  Tail(s)[i] \in Range(s)
    <3>1. i + 1 \in 1..Len(s) /\ Tail(s)[i] = s[i + 1]
      BY <1>1
    <3>. QED BY <3>1, <2>1 DEF Range
  <2>4. Head(s) \in Range(s)
    <3>1. 1 \in 1..Len(s)
      BY <1>1
    <3>. QED BY <3>1, <1>2, <2>1 DEF Range
  <2>. QED BY <2>1, <2>2, <2>3, <2>4 DEF Range
<1>. QED BY <1>1, <1>2, <1>3

LEMMA SingletonSeq ==
    ASSUME NEW S, NEW e \in S
    PROVE  /\ <<e>> \in Seq(S) /\ Range(<<e>>) = {e} /\ Len(<<e>>) = 1 /\ <<e>>[1] = e
           /\ <<>> \in Seq(S) /\ Range(<<>>) = {} /\ Len(<<>>) = 0 /\ <<e>> # <<>>
<1>. QED BY EmptySeq DEF Range

\* The sequence without its first element, and another in its place.
LEMMA NewHead ==
    ASSUME NEW S, NEW s \in Seq(S), s # <<>>, NEW e \in S
    PROVE  /\ <<e>> \o Tail(s) \in Seq(S)
           /\ Len(<<e>> \o Tail(s)) = Len(s)
           /\ \A i \in 1..Len(s) : (<<e>> \o Tail(s))[i] = IF i = 1 THEN e ELSE s[i]
           /\ Range(<<e>> \o Tail(s)) = {e} \cup Range(Tail(s))
<1>1. /\ Tail(s) \in Seq(S) /\ <<e>> \in Seq(S) /\ Len(<<e>>) = 1 /\ <<e>>[1] = e
      /\ Len(s) \in Nat \ {0} /\ Len(Tail(s)) = Len(s) - 1
      /\ \A i \in 1..Len(Tail(s)) : Tail(s)[i] = s[i + 1]
      /\ Range(<<e>>) = {e}
  BY AfterTail, SingletonSeq
<1>2. /\ <<e>> \o Tail(s) \in Seq(S)
      /\ Len(<<e>> \o Tail(s)) = 1 + (Len(s) - 1)
      /\ \A i \in 1..(1 + (Len(s) - 1)) :
            (<<e>> \o Tail(s))[i] = IF i <= 1 THEN <<e>>[i] ELSE Tail(s)[i - 1]
  BY <1>1, ConcatProperties
<1>3. ASSUME NEW i \in 1..Len(s)
      PROVE  (<<e>> \o Tail(s))[i] = IF i = 1 THEN e ELSE s[i]
  BY <1>1, <1>2
<1>4. Range(<<e>> \o Tail(s)) = {e} \cup Range(Tail(s))
  <2>1. ASSUME NEW one \in Seq(S), NEW rest \in Seq(S), Range(one) = {e}
        PROVE  Range(one \o rest) = {e} \cup Range(rest)
    BY <2>1, AfterConcat
  <2>. QED BY <1>1, <2>1
<1>. QED BY <1>1, <1>2, <1>3, <1>4

-----------------------------------------------------------------------------
(* What the helpers of the actions do *)

\* The messages of a set, some of them, are posted; none is the first of a load.
Posted(messages) ==
    /\ toPage' \in Seq(ToPage)
    /\ Range(toPage) \subseteq Range(toPage')
    /\ Range(toPage') \subseteq Range(toPage) \cup messages
    /\ Firsts' = Firsts

Counted ==
    /\ count' \in Count
    /\ count'.overlap = count.overlap
    /\ count.lost => count'.lost

\* A snapshot of h may be posted with the messages, or is still to be.
Showing(h, messages) ==
    \/ host' = h /\ Posted(messages)
    \/ ~h.readying /\ host' = shown(h) /\ Posted({Snapshot(shown(h))} \cup messages)
    \/ ~h.readying /\ host' = [shown(h) EXCEPT !.posted = FALSE] /\ Posted(messages)

LEMMA Longer ==
    ASSUME toPage \in Seq(ToPage), NEW t \in Seq(ToPage), toPage' = toPage \o t,
           NEW messages, Range(t) \subseteq messages,
           \A message \in Range(t) : ~First(message)
    PROVE  Posted(messages) /\ Range(t) \subseteq Range(toPage')
<1>1. /\ toPage' \in Seq(ToPage)
      /\ Range(toPage') = Range(toPage) \cup Range(t)
  BY AfterConcat
<1>2. /\ Len(toPage') = Len(toPage) + Len(t)
      /\ \A i \in 1..(Len(toPage) + Len(t)) :
            toPage'[i] = IF i <= Len(toPage) THEN toPage[i] ELSE t[i - Len(toPage)]
      /\ Len(toPage) \in Nat /\ Len(t) \in Nat
      /\ DOMAIN toPage = 1..Len(toPage) /\ DOMAIN t = 1..Len(t)
      /\ DOMAIN toPage' = 1..Len(toPage')
  BY <1>1, ConcatProperties, LenProperties
<1>3. ASSUME NEW i \in 1..Len(t)
      PROVE  ~First(t[i])
  BY <1>2, <1>3 DEF Range
<1>4. Firsts' = Firsts
  <2>1. ASSUME NEW i \in DOMAIN toPage'
        PROVE  First(toPage'[i]) <=> i \in DOMAIN toPage /\ First(toPage[i])
    <3>1. CASE i <= Len(toPage)
      BY <1>2, <3>1
    <3>2. CASE ~(i <= Len(toPage))
      <4>1. i - Len(toPage) \in 1..Len(t) /\ toPage'[i] = t[i - Len(toPage)]
        BY <1>2, <3>2
      <4>. QED BY <4>1, <1>2, <1>3, <3>2
    <3>. QED BY <3>1, <3>2
  <2>2. DOMAIN toPage \subseteq DOMAIN toPage'
    BY <1>2
  <2>. QED BY <2>1, <2>2 DEF Firsts
<1>5. Range(toPage') = Range(toPage) \cup Range(t)
  BY <1>1
<1>. QED BY <1>1, <1>4, <1>5 DEF Posted

LEMMA LongerByOne ==
    ASSUME toPage \in Seq(ToPage), NEW message \in ToPage, ~First(message),
           toPage' = Append(toPage, message) \/ toPage' = toPage \o <<message>>
    PROVE  Posted({message}) /\ message \in Range(toPage')
<1>1. toPage' = toPage \o <<message>>
  BY AppendIsConcat
<1>2. <<message>> \in Seq(ToPage) /\ Range(<<message>>) = {message}
  BY SingletonSeq
<1>3. ASSUME NEW t \in Seq(ToPage), Range(t) = {message}, toPage' = toPage \o t
      PROVE  Posted({message}) /\ message \in Range(toPage')
  BY <1>3, Longer, AfterConcat
<1>. QED BY <1>1, <1>2, <1>3

LEMMA PostedMore ==
    ASSUME NEW A, NEW B, Posted(A), A \subseteq B
    PROVE  Posted(B)
<1>. QED BY DEF Posted

LEMMA PostedNothing ==
    ASSUME toPage \in Seq(ToPage), UNCHANGED toPage
    PROVE  Posted({})
<1>. QED BY DEF Posted, Firsts

LEMMA CountedSame ==
    ASSUME count \in Count, UNCHANGED count
    PROVE  Counted
<1>. QED BY DEF Counted

LEMMA FaultCounts ==
    ASSUME count \in Count, Fault
    PROVE  Counted /\ count'.lost = count.lost
<1>. QED BY DEF Counted, Fault, Count

LEMMA LostCounts ==
    ASSUME count \in Count, Lost
    PROVE  Counted /\ count'.lost
<1>1. count' = [count EXCEPT !.faults = @ + 1, !.lost = TRUE]
  BY DEF Lost
<1>2. count' \in Count /\ count'.overlap = count.overlap
  <2>1. ASSUME NEW n \in Nat, count' = [count EXCEPT !.faults = n, !.lost = TRUE]
        PROVE  count' \in Count /\ count'.overlap = count.overlap
    BY <2>1 DEF Count
  <2>2. count.faults + 1 \in Nat
    BY DEF Count
  <2>. QED BY <1>1, <2>1, <2>2
<1>3. count'.lost = TRUE
  BY <1>1 DEF Count
<1>. QED BY <1>2, <1>3 DEF Counted

\* A post for the present page arrives unless it is lost; others do not.
LEMMA PostEffect ==
    ASSUME toPage \in Seq(ToPage), count \in Count, NEW epoch, NEW message \in ToPage,
           ~First(message), Post(epoch, message)
    PROVE  /\ Posted({message})
           /\ Counted
           /\ epoch = host.epoch /\ ~count'.lost => message \in Range(toPage')
           /\ epoch # host.epoch => toPage' = toPage
<1>1. CASE toPage' = toPage \o For(epoch, message) /\ UNCHANGED count
  <2>1. CASE epoch = host.epoch
    BY <1>1, <2>1, LongerByOne, CountedSame DEF For
  <2>2. CASE epoch # host.epoch
    <3>1. toPage' = toPage
      BY <1>1, <2>2, ConcatEmptySeq DEF For
    <3>. QED BY <1>1, <2>2, <3>1, PostedNothing, PostedMore, CountedSame
  <2>. QED BY <2>1, <2>2
<1>2. CASE Lost /\ epoch = host.epoch /\ UNCHANGED toPage
  BY <1>2, LostCounts, PostedNothing, PostedMore
<1>. QED BY <1>1, <1>2 DEF Post

LEMMA SnapshotType ==
    ASSUME NEW h \in Host
    PROVE  /\ shown(h) \in Host /\ [shown(h) EXCEPT !.posted = FALSE] \in Host
           /\ Snapshot(h) \in ToPage /\ ~First(Snapshot(h))
           /\ Snapshot(h).type = "snapshot" /\ Snapshot(h).delivery = h.delivery
<1>1. shown(h) \in Host /\ [shown(h) EXCEPT !.posted = FALSE] \in Host
  <2>1. ASSUME NEW n \in Nat
        PROVE  [h EXCEPT !.delivery = n, !.shown = h.known, !.posted = TRUE, !.acked = FALSE]
                  \in Host
    BY DEF Host
  <2>2. h.delivery + 1 \in Nat
    BY DEF Host
  <2>3. shown(h) \in Host
    BY <2>1, <2>2 DEF shown
  <2>4. ASSUME NEW g \in Host
        PROVE  [g EXCEPT !.posted = FALSE] \in Host
    BY DEF Host
  <2>. QED BY <2>3, <2>4
<1>2. /\ Snapshot(h) \in [type : {"snapshot"}, initial : {FALSE}, delivery : Nat, cell : Nat]
      /\ Snapshot(h).initial = FALSE
      /\ Snapshot(h).type = "snapshot" /\ Snapshot(h).delivery = h.delivery
  BY DEF Host, Snapshot
<1>. QED BY <1>1, <1>2 DEF ToPage, First

LEMMA DeliverEffect ==
    ASSUME toPage \in Seq(ToPage), count \in Count, NEW h \in Host,
           NEW answers \in Seq(ToPage), \A message \in Range(answers) : ~First(message),
           Deliver(h, answers)
    PROVE  /\ Showing(h, Range(answers))
           /\ Counted
           /\ ~count'.lost => Range(answers) \subseteq Range(toPage')
<1>. DEFINE snapshot == Snapshot(shown(h))
<1>1. /\ snapshot \in ToPage /\ ~First(snapshot)
      /\ <<snapshot>> \in Seq(ToPage) /\ Range(<<snapshot>>) = {snapshot}
  BY SnapshotType, SingletonSeq
<1>. HIDE DEF snapshot
<1>2. ASSUME NEW shows \in Seq(ToPage), \A message \in Range(shows) : ~First(message),
             toPage' = toPage \o shows \o answers
      PROVE  /\ Posted(Range(shows) \cup Range(answers))
             /\ Range(answers) \subseteq Range(toPage')
  <2>1. ASSUME NEW t, t = shows \o answers
        PROVE  t \in Seq(ToPage) /\ Range(t) = Range(shows) \cup Range(answers)
               /\ toPage' = toPage \o t
    BY <1>2, <2>1, AfterConcat, ConcatAssociative
  <2>2. ASSUME NEW t \in Seq(ToPage), Range(t) = Range(shows) \cup Range(answers),
               toPage' = toPage \o t
        PROVE  Posted(Range(shows) \cup Range(answers)) /\ Range(answers) \subseteq Range(toPage')
    BY <1>2, <2>2, Longer, AfterConcat
  <2>. QED BY <2>1, <2>2
<1>3. CASE h.readying
  <2>1. /\ host' = h
        /\ \/ toPage' = toPage \o <<>> \o answers /\ UNCHANGED count
           \/ Lost /\ toPage' = toPage \o <<>>
    BY <1>3 DEF Deliver
  <2>2. <<>> \in Seq(ToPage) /\ Range(<<>>) = {}
    BY EmptySeq DEF Range
  <2>3. CASE toPage' = toPage \o <<>> \o answers /\ UNCHANGED count
    <3>1. toPage' = toPage \o answers
      BY <2>3, ConcatEmptySeq
    <3>2. Posted(Range(answers)) /\ Range(answers) \subseteq Range(toPage')
      BY <3>1, Longer, AfterConcat
    <3>. QED BY <1>3, <2>1, <2>3, <3>2, CountedSame DEF Showing
  <2>4. CASE Lost /\ toPage' = toPage \o <<>>
    <3>1. toPage' = toPage
      BY <2>4, ConcatEmptySeq
    <3>2. Posted(Range(answers))
      BY <3>1, PostedNothing, PostedMore
    <3>. QED BY <1>3, <2>1, <2>4, <3>2, LostCounts DEF Showing
  <2>. QED BY <2>1, <2>3, <2>4
<1>4. CASE ~h.readying
  <2>1. \/ host' = shown(h) /\ toPage' = toPage \o <<snapshot>> \o answers /\ UNCHANGED count
        \/ Fault /\ host' = [shown(h) EXCEPT !.posted = FALSE] /\ toPage' = toPage \o answers
        \/ Lost /\ host' = shown(h) /\ toPage' = toPage \o <<snapshot>>
    BY <1>4 DEF Deliver, Late, snapshot
  <2>2. CASE host' = shown(h) /\ toPage' = toPage \o <<snapshot>> \o answers /\ UNCHANGED count
    <3>1. ASSUME NEW shows, shows = <<snapshot>>
          PROVE  /\ Posted({snapshot} \cup Range(answers))
                 /\ Range(answers) \subseteq Range(toPage')
      BY <1>1, <1>2, <2>2, <3>1
    <3>2. /\ Posted({snapshot} \cup Range(answers))
          /\ Range(answers) \subseteq Range(toPage')
      BY <3>1
    <3>. QED BY <1>4, <2>2, <3>2, CountedSame DEF Showing, snapshot
  <2>3. CASE Fault /\ host' = [shown(h) EXCEPT !.posted = FALSE] /\ toPage' = toPage \o answers
    <3>1. Posted(Range(answers)) /\ Range(answers) \subseteq Range(toPage')
      BY <2>3, Longer, AfterConcat
    <3>. QED BY <1>4, <2>3, <3>1, FaultCounts DEF Showing
  <2>4. CASE Lost /\ host' = shown(h) /\ toPage' = toPage \o <<snapshot>>
    <3>1. Posted({snapshot})
      BY <1>1, <2>4, LongerByOne
    <3>2. Posted({snapshot} \cup Range(answers))
      BY <3>1, PostedMore
    <3>. QED BY <1>4, <2>4, <3>2, LostCounts DEF Showing, snapshot
  <2>. QED BY <2>1, <2>2, <2>3, <2>4
<1>. QED BY <1>3, <1>4 DEF Host

LEMMA DeliverNothing ==
    ASSUME toPage \in Seq(ToPage), count \in Count, NEW h \in Host, Deliver(h, <<>>)
    PROVE  Showing(h, {}) /\ Counted
<1>1. <<>> \in Seq(ToPage) /\ Range(<<>>) = {}
  BY EmptySeq DEF Range
<1>2. ASSUME NEW answers \in Seq(ToPage), Range(answers) = {}, Deliver(h, answers),
             NEW none, none = {}
      PROVE  Showing(h, none) /\ Counted
  <2>1. none = Range(answers)
    BY <1>2
  <2>2. \A message \in Range(answers) : ~First(message)
    BY <1>2
  <2>3. Showing(h, Range(answers)) /\ Counted
    BY <1>2, <2>2, DeliverEffect
  <2>. QED BY <2>1, <2>3
<1>. QED BY <1>1, <1>2

LEMMA DeliverOne ==
    ASSUME toPage \in Seq(ToPage), count \in Count, NEW h \in Host,
           NEW answer \in ToPage, ~First(answer), Deliver(h, <<answer>>)
    PROVE  /\ Showing(h, {answer}) /\ Counted
           /\ ~count'.lost => answer \in Range(toPage')
<1>1. <<answer>> \in Seq(ToPage) /\ Range(<<answer>>) = {answer}
  BY SingletonSeq
<1>2. ASSUME NEW answers \in Seq(ToPage), Range(answers) = {answer}, Deliver(h, answers)
      PROVE  Showing(h, {answer}) /\ Counted /\ (~count'.lost => answer \in Range(toPage'))
  <2>1. \A message \in Range(answers) : ~First(message)
    BY <1>2
  <2>2. /\ Showing(h, Range(answers)) /\ Counted
        /\ ~count'.lost => Range(answers) \subseteq Range(toPage')
    BY <1>2, <2>1, DeliverEffect
  <2>. QED BY <1>2, <2>2
<1>. QED BY <1>1, <1>2

LEMMA RedrawEffect ==
    ASSUME toPage \in Seq(ToPage), NEW h \in Host, ~h.readying, Redraw(h)
    PROVE  Showing(h, {})
<1>1. CASE host' = shown(h) /\ toPage' = Append(toPage, Snapshot(shown(h)))
  <2>1. Posted({Snapshot(shown(h))})
    BY <1>1, SnapshotType, LongerByOne
  <2>2. Posted({Snapshot(shown(h))} \cup {})
    BY <2>1, PostedMore
  <2>. QED BY <1>1, <2>2 DEF Showing
<1>2. CASE Late(h) /\ UNCHANGED toPage
  BY <1>2, PostedNothing DEF Showing, Late
<1>. QED BY <1>1, <1>2 DEF Redraw

-----------------------------------------------------------------------------
(* What the steps of the host have in common *)

\* The host takes the next message, or none.
Consumed ==
    /\ toHost' \in Seq(ToHost)
    /\ Range(toHost') \subseteq Range(toHost)
    /\ Announcements' \subseteq {Len(toHost')}
    /\ Announcements = {} => Announcements' = {}

LEMMA HostTakes ==
    ASSUME toHost \in Seq(ToHost), Loading, NEW type, AtHost(type)
    PROVE  /\ Consumed
           /\ type = "ready" => Announcements' = {} /\ Announcements # {}
           /\ Head(toHost) \in ToHost /\ Head(toHost).type = type
           /\ Head(toHost) \in Range(toHost)
           /\ Range(toHost) = Range(toHost') \cup {Head(toHost)}
<1>1. toHost # <<>> /\ Head(toHost).type = type /\ toHost' = Tail(toHost)
  BY DEF AtHost
<1>2. /\ Head(toHost) \in ToHost /\ toHost' \in Seq(ToHost)
      /\ Len(toHost) \in Nat \ {0} /\ Len(toHost') = Len(toHost) - 1
      /\ \A i \in 1..Len(toHost') : toHost'[i] = toHost[i + 1]
      /\ Head(toHost) = toHost[1]
      /\ Range(toHost) = Range(toHost') \cup {Head(toHost)}
  BY <1>1, AfterTail
<1>3. DOMAIN toHost = 1..Len(toHost) /\ DOMAIN toHost' = 1..Len(toHost')
  BY <1>2, LenProperties
<1>4. Announcements' = {i \in 1..Len(toHost') : i + 1 \in Announcements}
  BY <1>2, <1>3 DEF Announcements
<1>5. Announcements \subseteq {Len(toHost)}
  BY DEF Loading
<1>6. Announcements' \subseteq {Len(toHost')} /\ (Announcements = {} => Announcements' = {})
  BY <1>2, <1>4, <1>5
<1>7. ASSUME type = "ready"
      PROVE  Announcements' = {} /\ Announcements # {}
  <2>1. 1 \in Announcements
    BY <1>1, <1>2, <1>3, <1>7 DEF Announcements
  <2>2. Len(toHost) = 1
    BY <2>1, <1>5
  <2>. QED BY <2>1, <2>2, <1>2, <1>4
<1>. QED BY <1>1, <1>2, <1>6, <1>7 DEF Consumed

LEMMA HostTakesNone ==
    ASSUME toHost \in Seq(ToHost), Loading, UNCHANGED toHost
    PROVE  Consumed
<1>. QED BY DEF Consumed, Announcements, Loading

\* What h leaves of the loads and the deliveries of the host.
Alike(h) ==
    /\ h \in Host
    /\ h.epoch = host.epoch /\ h.readying = host.readying
    /\ h.delivery = host.delivery /\ h.posted = host.posted /\ h.acked = host.acked

\* And what a snapshot leaves of h.
Agrees(h) ==
    /\ host' \in Host
    /\ host'.durable = h.durable /\ host'.known = h.known /\ host'.basis = h.basis
    /\ host'.epoch = h.epoch /\ host'.readying = h.readying
    /\ host'.session = h.session /\ host'.flag = h.flag /\ host'.saving = h.saving
    /\ host'.claiming = h.claiming /\ host'.posting = h.posting

LEMMA HostAlike == ASSUME host \in Host PROVE Alike(host)
<1>. QED BY DEF Alike

LEMMA HostStep ==
    ASSUME Types, Deliveries, Loading,
           UNCHANGED pageVars, Consumed, Counted,
           NEW h, Alike(h),
           NEW messages, \A message \in messages : message.type # "snapshot",
           Showing(h, messages)
    PROVE  /\ PageTypes' /\ WireTypes' /\ count' \in Count /\ Agrees(h)
           /\ Deliveries' /\ Loading'
<1>1. toPage' \in Seq(ToPage) /\ Firsts' = Firsts
  BY DEF Showing, Posted
<1>2. PageTypes' /\ WireTypes' /\ count' \in Count
  BY <1>1 DEF Types, PageTypes, WireTypes, pageVars, Consumed, Counted
<1>3. Agrees(h)
  <2>1. CASE host' = h
    BY <2>1 DEF Agrees, Alike
  <2>2. CASE host' = shown(h)
    BY <2>2, SnapshotType DEF Agrees, Alike, shown, Host
  <2>3. CASE host' = [shown(h) EXCEPT !.posted = FALSE]
    BY ZenonT(60), <2>3, SnapshotType DEF Agrees, Alike, shown, Host
  <2>. QED BY <2>1, <2>2, <2>3 DEF Showing
<1>4. Loading'
  <2>1. host'.readying = host.readying
    BY <1>3 DEF Agrees, Alike
  <2>. QED BY <1>1, <2>1 DEF Loading, Consumed, pageVars
<1>5. Deliveries'
  <2>1. Range(toHost') \subseteq Range(toHost)
    BY DEF Consumed
  <2>2. CASE host' = h /\ Posted(messages)
    BY <2>1, <2>2 DEF Deliveries, Known, Alike, Posted
  <2>3. host.delivery \in Nat
    BY DEF Types, HostTypes, Host
  <2>4. \A message \in Range(toPage) : message.type = "snapshot" => message.delivery \in Nat
    <3>1. \A message \in ToPage : message.type = "snapshot" => message.delivery \in Nat
      BY DEF ToPage
    <3>. QED BY <3>1, RangeOfSeq DEF Types, WireTypes
  <2>5. \A message \in Range(toHost) : message.type = "applied" => message.delivery \in Nat
    <3>1. \A message \in ToHost : message.type = "applied" => message.delivery \in Nat
      BY DEF ToHost
    <3>. QED BY <3>1, RangeOfSeq DEF Types, WireTypes
  <2>6. CASE ~h.readying /\ host' = shown(h) /\ Posted({Snapshot(shown(h))} \cup messages)
    <3>1. /\ host'.delivery = host.delivery + 1 /\ host'.posted = TRUE
          /\ host'.acked = FALSE /\ host'.readying = h.readying
      BY <2>6 DEF shown, Alike, Host
    <3>2. Snapshot(shown(h)).delivery = host'.delivery
      BY <2>6, SnapshotType DEF Alike
    <3>3. \A message \in Range(toPage') :
             message.type = "snapshot" => message.delivery <= host.delivery + 1
      BY <2>3, <2>4, <2>6, <3>1, <3>2 DEF Posted, Deliveries, Known
    <3>4. \A message \in Range(toHost') :
             message.type = "applied" => message.delivery <= host.delivery + 1
      BY <2>1, <2>3, <2>5, <2>6 DEF Deliveries, Known
    <3>. QED BY <3>1, <3>3, <3>4, <2>6 DEF Deliveries, Known
  <2>7. CASE ~h.readying /\ host' = [shown(h) EXCEPT !.posted = FALSE] /\ Posted(messages)
    <3>1. /\ host'.delivery = host.delivery + 1 /\ host'.posted = FALSE
          /\ host'.acked = FALSE /\ host'.readying = h.readying
      BY <2>7 DEF shown, Alike, Host
    <3>2. \A message \in Range(toPage') :
             message.type = "snapshot" => /\ message.delivery <= host.delivery + 1
                                          /\ message.delivery # host.delivery + 1
      BY <2>3, <2>4, <2>7, <3>1 DEF Posted, Deliveries, Known
    <3>3. \A message \in Range(toHost') :
             message.type = "applied" => /\ message.delivery <= host.delivery + 1
                                         /\ message.delivery # host.delivery + 1
      BY <2>1, <2>3, <2>5, <2>7 DEF Deliveries, Known
    <3>. QED BY <3>1, <3>2, <3>3, <2>7 DEF Deliveries, Known
  <2>. QED BY <2>2, <2>6, <2>7 DEF Showing
<1>. QED BY <1>2, <1>3, <1>4, <1>5

\* Messages that nobody waits for.
Unasked == { "edits", "save", "abandon", "applied", "ready",
             "snapshot", "acknowledged", "saved" }

LEMMA OwedStep ==
    ASSUME Owed, UNCHANGED pageVars, Counted,
           ~count'.lost =>
              /\ SessionComing => SessionComing'
              /\ DiscardComing => DiscardComing'
              /\ \A request : PrepareComing(request) => PrepareComing(request)'
              /\ \A id : CommitComing(id) => CommitComing(id)'
    PROVE  Owed'
<1>1. ASSUME ~count'.lost
      PROVE  ~count.lost
  BY <1>1 DEF Counted
<1>2. ASSUME ~count'.lost
      PROVE  /\ page.session = "requested" => SessionComing'
             /\ page.session = "discarding" => DiscardComing'
  BY <1>1, <1>2 DEF Owed
<1>3. ASSUME ~count'.lost, slot.phase = "preparing", NEW request, request = slot.request
      PROVE  PrepareComing(request)'
  BY <1>1, <1>3 DEF Owed
<1>4. ASSUME ~count'.lost, slot.phase = "committing", NEW id, id = slot.lease
      PROVE  CommitComing(id)'
  BY <1>1, <1>4 DEF Owed
<1>5. page' = page /\ slot' = slot
  BY DEF pageVars
<1>. QED BY <1>2, <1>3, <1>4, <1>5 DEF Owed

LEMMA SessionStays ==
    ASSUME SessionComing, host.claiming => host'.claiming,
           \A message \in OnTheWay : message \in OnTheWay' \/ message.type # "session"
    PROVE  SessionComing'
<1>. QED BY DEF SessionComing

LEMMA DiscardStays ==
    ASSUME DiscardComing,
           \A message \in OnTheWay :
              message \in OnTheWay' \/ message.type \notin {"discard", "discarded"}
    PROVE  DiscardComing'
<1>. QED BY DEF DiscardComing

LEMMA PrepareStays ==
    ASSUME NEW request, PrepareComing(request),
           \A message \in OnTheWay :
              \/ message \in OnTheWay'
              \/ message.type \notin {"prepare", "prepared", "prepareRefused"},
           host'.epoch = host.epoch,
           \A op \in preparing : \E next \in preparing' :
              next.request = op.request /\ next.epoch = op.epoch
    PROVE  PrepareComing(request)'
<1>. QED BY DEF PrepareComing

LEMMA CommitStays ==
    ASSUME NEW id, CommitComing(id),
           \A message \in OnTheWay :
              \/ message \in OnTheWay'
              \/ message.type \notin {"commit", "committed", "commitRefused"},
           host'.epoch = host.epoch,
           \A commit \in Range(committing) : \E next \in Range(committing') :
              next.lease = commit.lease /\ next.epoch = commit.epoch
    PROVE  CommitComing(id)'
<1>. QED BY DEF CommitComing

\* A step that takes a message nobody waits for, and ends no operation.
LEMMA OwedKept ==
    ASSUME Owed, UNCHANGED pageVars, Counted,
           \A message \in OnTheWay : message \in OnTheWay' \/ message.type \in Unasked,
           host'.epoch = host.epoch, host'.claiming = host.claiming,
           \A op \in preparing : \E next \in preparing' :
              next.request = op.request /\ next.epoch = op.epoch,
           \A commit \in Range(committing) : \E next \in Range(committing') :
              next.lease = commit.lease /\ next.epoch = commit.epoch
    PROVE  Owed'
<1>1. \A message \in OnTheWay :
         \/ message \in OnTheWay'
         \/ message.type \notin {"session", "discard", "discarded", "prepare", "prepared",
                                 "prepareRefused", "commit", "committed", "commitRefused"}
  BY DEF Unasked
<1>. QED BY <1>1, OwedStep, SessionStays, DiscardStays, PrepareStays, CommitStays

-----------------------------------------------------------------------------
(* The steps of the host *)

\* A step that starts and ends no preparation and no commit.
LEMMA QuietStep ==
    ASSUME IInv, UNCHANGED pageVars, Consumed, Counted,
           NEW h, Alike(h), h.flag = host.flag, h.posting = host.posting,
           h.saving => host.saving \/ (~host.flag /\ ~live),
           NEW messages, \A message \in messages : message.type # "snapshot",
           Showing(h, messages),
           UNCHANGED <<preparing, committing>>,
           lease' = lease \/ lease' = NoLease,
           writes' \in Seq(Write), Len(writes') >= Len(writes),
           Owed'
    PROVE  IInv'
<1>1. /\ PageTypes' /\ WireTypes' /\ count' \in Count /\ Agrees(h)
      /\ Deliveries' /\ Loading'
  BY HostStep DEF IInv
<1>2. NoLease \in Lease
  BY DEF NoLease, Lease
<1>3. Types'
  BY <1>1, <1>2 DEF IInv, Types, HostTypes, Agrees
<1>4. /\ host'.epoch = host.epoch /\ host'.flag = host.flag
      /\ host'.posting = host.posting
      /\ host'.saving => host.saving \/ (~host.flag /\ ~live)
      /\ live' => live
  BY <1>1 DEF Agrees, Alike, live, NoLease
<1>5. Exclusive'
  BY <1>4 DEF IInv, Exclusive, Counted
<1>6. Spent'
  BY DEF IInv, Spent, NoLease
<1>7. Awaited'
  <2>1. Len(writes) \in Nat /\ Len(writes') \in Nat
    BY LenProperties DEF IInv, Types, HostTypes
  <2>. QED BY <2>1 DEF IInv, Awaited, Types, HostTypes, Op
<1>. QED BY <1>1, <1>3, <1>5, <1>6, <1>7 DEF IInv

LEMMA StoredAlike ==
    ASSUME host \in Host, NEW value \in Nat
    PROVE  /\ Alike(stored(value)) /\ stored(value).flag = host.flag
           /\ stored(value).posting = host.posting
           /\ stored(value).saving = host.saving
           /\ stored(value).claiming = host.claiming
<1>. QED BY DEF Host, Alike, stored

LEMMA HandleEditsKeeps == ASSUME IInv, HandleEdits PROVE IInv'
<1>. DEFINE edits == Head(toHost)
            write == [value |-> edits.value, epoch |-> host.epoch,
                      sequence |-> edits.sequence, session |-> host.session]
<1>1. /\ Consumed /\ edits \in ToHost /\ edits.type = "edits"
      /\ Range(toHost) = Range(toHost') \cup {edits}
  BY HostTakes DEF IInv, Types, WireTypes, HandleEdits
<1>2. host \in Host /\ toPage \in Seq(ToPage) /\ writes \in Seq(Write)
  BY DEF IInv, Types, HostTypes, WireTypes
<1>3. edits.value \in Nat /\ edits.sequence \in Nat
  BY <1>1 DEF ToHost
<1>4. write \in Write
  BY <1>2, <1>3 DEF Write, Host
<1>5. writes' = Append(writes, write) \/ writes' = writes
  BY DEF HandleEdits
<1>. HIDE DEF write
<1>6. writes' \in Seq(Write) /\ Len(writes') >= Len(writes)
  BY <1>2, <1>4, <1>5, AfterAppend, LenProperties
<1>7. /\ UNCHANGED <<page, slot, host, lease, preparing, committing, toPage, count>>
      /\ UNCHANGED pageVars /\ Counted /\ Showing(host, {})
  BY <1>2, CountedSame, PostedNothing
     DEF HandleEdits, pageVars, IInv, Types, Showing
<1>8. Owed'
  BY <1>1, <1>7, OwedKept DEF IInv, OnTheWay, Unasked
<1>9. Alike(host)
  BY <1>2, HostAlike
<1>. QED BY <1>1, <1>6, <1>7, <1>8, <1>9, QuietStep

LEMMA HandleSessionKeeps == ASSUME IInv, HandleSession PROVE IInv'
<1>. DEFINE asked == Head(toHost)
            h == [host EXCEPT !.claiming = TRUE]
<1>1. /\ Consumed /\ asked.type = "session"
      /\ Range(toHost) = Range(toHost') \cup {asked}
  BY HostTakes DEF IInv, Types, WireTypes, HandleSession
<1>2. /\ host \in Host /\ toPage \in Seq(ToPage) /\ writes \in Seq(Write)
      /\ count \in Count /\ Len(writes) \in Nat
  BY LenProperties DEF IInv, Types, HostTypes, WireTypes
<1>3. Alike(h) /\ h.flag = host.flag /\ h.posting = host.posting /\ h.saving = host.saving /\ h.claiming
  BY <1>2 DEF Host, Alike
<1>4. /\ UNCHANGED <<page, slot, lease, preparing, committing, writes, toPage, count>>
      /\ UNCHANGED pageVars /\ host' = h
  BY DEF HandleSession, pageVars
<1>. HIDE DEF h
<1>5. Showing(h, {}) /\ Counted
  BY <1>2, <1>4, PostedNothing, CountedSame DEF Showing
<1>6. Owed'
  <2>1. SessionComing'
    BY <1>3, <1>4 DEF SessionComing
  <2>2. \A message \in OnTheWay : message \in OnTheWay' \/ message = asked
    BY <1>1, <1>4 DEF OnTheWay
  <2>3. host'.epoch = host.epoch /\ UNCHANGED <<preparing, committing>>
    BY <1>3, <1>4 DEF Alike
  <2>4. /\ DiscardComing => DiscardComing'
        /\ \A request : PrepareComing(request) => PrepareComing(request)'
        /\ \A id : CommitComing(id) => CommitComing(id)'
    BY <1>1, <2>2, <2>3, DiscardStays, PrepareStays, CommitStays
  <2>. QED BY <1>4, <1>5, <2>1, <2>4, OwedStep DEF IInv
<1>. QED BY <1>1, <1>2, <1>3, <1>4, <1>5, <1>6, QuietStep

LEMMA GrantSessionKeeps == ASSUME IInv, GrantSession PROVE IInv'
<1>. DEFINE id == IF host.session # 0 THEN host.session ELSE host.sessions + 1
            number == IF host.session # 0 THEN host.sessions ELSE id
            h == [stored(host.durable) EXCEPT !.claiming = FALSE, !.session = id,
                     !.sessions = IF host.session # 0 THEN @ ELSE id]
            ended == [host EXCEPT !.claiming = FALSE]
            granted == [type |-> "session", granted |-> TRUE, cell |-> host.durable]
            refused == [type |-> "session", granted |-> FALSE]
<1>1. /\ host \in Host /\ toPage \in Seq(ToPage) /\ writes \in Seq(Write)
      /\ count \in Count /\ Len(writes) \in Nat /\ toHost \in Seq(ToHost)
  BY LenProperties DEF IInv, Types, HostTypes, WireTypes
<1>2. Alike(h) /\ h.flag = host.flag /\ h.posting = host.posting /\ h.saving = host.saving
  <2>1. ASSUME NEW n \in Nat, NEW m \in Nat, NEW k \in Nat
        PROVE  LET g == [stored(m) EXCEPT !.claiming = FALSE, !.session = k, !.sessions = n]
               IN  Alike(g) /\ g.flag = host.flag /\ g.posting = host.posting /\ g.saving = host.saving
    BY <1>1 DEF Host, Alike, stored
  <2>2. number \in Nat /\ id \in Nat /\ host.durable \in Nat
    BY <1>1 DEF Host
  <2>3. h = [stored(host.durable) EXCEPT !.claiming = FALSE, !.session = id,
                                         !.sessions = number]
    BY <1>1 DEF Host, stored
  <2>. HIDE DEF h, id, number
  <2>. QED BY <2>1, <2>2, <2>3
<1>3. /\ Alike(ended) /\ ended.flag = host.flag /\ ended.saving = host.saving
      /\ ended.posting = host.posting
  BY <1>1 DEF Host, Alike
<1>4. /\ granted \in ToPage /\ ~First(granted) /\ granted.type = "session"
      /\ refused \in ToPage /\ ~First(refused) /\ refused.type = "session"
  BY <1>1 DEF ToPage, First, Host
<1>5. /\ UNCHANGED <<page, slot, lease, preparing, committing, writes, toHost>>
      /\ \/ Deliver(h, <<granted>>)
         \/ Fault /\ toPage' = Append(toPage, refused) /\ host' = ended
      /\ UNCHANGED pageVars
  BY DEF GrantSession, pageVars
<1>. HIDE DEF h, ended, granted, refused
<1>6. ASSUME NEW g, Alike(g), g.flag = host.flag, g.posting = host.posting, g.saving = host.saving,
             NEW answer, answer.type = "session",
             Showing(g, {answer}), Counted,
             ~count'.lost => answer \in Range(toPage')
      PROVE  IInv'
  <2>1. Range(toPage) \subseteq Range(toPage') /\ host'.epoch = host.epoch
    BY <1>6, SnapshotType DEF Showing, Posted, Alike, shown, Host
  <2>2. ~count'.lost => SessionComing'
    BY <1>6 DEF SessionComing, OnTheWay
  <2>3. \A message \in OnTheWay : message \in OnTheWay'
    BY <1>5, <2>1 DEF OnTheWay
  <2>4. UNCHANGED <<preparing, committing>>
    BY <1>5
  <2>5. /\ DiscardComing => DiscardComing'
        /\ \A request : PrepareComing(request) => PrepareComing(request)'
        /\ \A commit : CommitComing(commit) => CommitComing(commit)'
    BY <2>1, <2>3, <2>4, DiscardStays, PrepareStays, CommitStays
  <2>6. Owed'
    BY <1>5, <1>6, <2>2, <2>5, OwedStep DEF IInv
  <2>7. Consumed
    BY <1>1, <1>5, HostTakesNone DEF IInv
  <2>. QED BY <1>1, <1>5, <1>6, <2>6, <2>7, QuietStep
<1>7. CASE Deliver(h, <<granted>>)
  <2>1. Showing(h, {granted}) /\ Counted /\ (~count'.lost => granted \in Range(toPage'))
    BY <1>1, <1>2, <1>4, <1>7, DeliverOne DEF Alike
  <2>. QED BY <1>2, <1>4, <1>6, <2>1
<1>8. CASE Fault /\ toPage' = Append(toPage, refused) /\ host' = ended
  <2>1. Posted({refused}) /\ refused \in Range(toPage')
    BY <1>1, <1>4, <1>8, LongerByOne
  <2>2. Showing(ended, {refused}) /\ Counted
    BY <1>1, <1>8, <2>1, FaultCounts DEF Showing
  <2>. QED BY <1>3, <1>4, <1>6, <2>1, <2>2
<1>. QED BY <1>5, <1>7, <1>8

\* After a step that only shows something, what was owed is owed still.
LEMMA ShowingKeeps ==
    ASSUME NEW h, Alike(h), NEW messages, Showing(h, messages)
    PROVE  /\ Range(toPage) \subseteq Range(toPage') /\ host'.epoch = host.epoch
           /\ host'.claiming = h.claiming
<1>1. /\ shown(h).epoch = h.epoch /\ [shown(h) EXCEPT !.posted = FALSE].epoch = h.epoch
      /\ shown(h).claiming = h.claiming
      /\ [shown(h) EXCEPT !.posted = FALSE].claiming = h.claiming
  BY DEF Alike, Host, shown
<1>. QED BY <1>1 DEF Showing, Posted, Alike

LEMMA HandleDiscardKeeps == ASSUME IInv, HandleDiscard PROVE IInv'
<1>. DEFINE asked == Head(toHost)
            h == [stored(0) EXCEPT !.session = 0]
            answer == [type |-> "discarded"]
<1>1. /\ Consumed /\ asked.type = "discard"
      /\ Range(toHost) = Range(toHost') \cup {asked}
  BY HostTakes DEF IInv, Types, WireTypes, HandleDiscard
<1>2. /\ host \in Host /\ toPage \in Seq(ToPage) /\ writes \in Seq(Write)
      /\ count \in Count /\ Len(writes) \in Nat
  BY LenProperties DEF IInv, Types, HostTypes, WireTypes
<1>3. /\ Alike(h) /\ h.flag = host.flag /\ h.posting = host.posting /\ h.saving = host.saving
      /\ h.claiming = host.claiming
  BY <1>2 DEF Host, Alike, stored
<1>4. answer \in ToPage /\ ~First(answer) /\ answer.type = "discarded"
  BY DEF ToPage, First
<1>5. /\ UNCHANGED <<page, slot, lease, preparing, committing, writes>>
      /\ Deliver(h, <<answer>>)
      /\ UNCHANGED pageVars
  BY DEF HandleDiscard, pageVars
<1>. HIDE DEF h, answer
<1>6. Showing(h, {answer}) /\ Counted /\ (~count'.lost => answer \in Range(toPage'))
  BY <1>2, <1>3, <1>4, <1>5, DeliverOne DEF Alike
<1>7. /\ Range(toPage) \subseteq Range(toPage') /\ host'.epoch = host.epoch
      /\ host'.claiming = host.claiming
  BY <1>3, <1>6, ShowingKeeps
<1>8. Owed'
  <2>1. ~count'.lost => DiscardComing'
    BY <1>4, <1>6 DEF DiscardComing, OnTheWay
  <2>2. \A message \in OnTheWay : message \in OnTheWay' \/ message = asked
    BY <1>1, <1>7 DEF OnTheWay
  <2>3. UNCHANGED <<preparing, committing>>
    BY <1>5
  <2>4. /\ SessionComing => SessionComing'
        /\ \A request : PrepareComing(request) => PrepareComing(request)'
        /\ \A id : CommitComing(id) => CommitComing(id)'
    BY <1>1, <1>7, <2>2, <2>3, SessionStays, PrepareStays, CommitStays
  <2>. QED BY <1>5, <1>6, <2>1, <2>4, OwedStep DEF IInv
<1>. QED BY <1>1, <1>2, <1>3, <1>4, <1>5, <1>6, <1>8, QuietStep

LEMMA OtherPanelEditsKeeps == ASSUME IInv, OtherPanelEdits PROVE IInv'
<1>. DEFINE h == stored(MaxEdits + 1)
<1>1. /\ host \in Host /\ toPage \in Seq(ToPage) /\ writes \in Seq(Write)
      /\ count \in Count /\ Len(writes) \in Nat /\ toHost \in Seq(ToHost)
  BY LenProperties DEF IInv, Types, HostTypes, WireTypes
<1>2. MaxEdits + 1 \in Nat
  BY HistoryReplayAssumption
<1>3. /\ Alike(h) /\ h.flag = host.flag /\ h.posting = host.posting /\ h.saving = host.saving
      /\ h.claiming = host.claiming
  BY <1>1, <1>2, StoredAlike
<1>4. /\ UNCHANGED <<page, slot, lease, preparing, committing, writes, toHost>>
      /\ UNCHANGED pageVars /\ ~host.readying /\ Redraw(h)
  BY DEF OtherPanelEdits, pageVars
<1>5. Counted
  <2>1. ASSUME NEW n \in Nat, count' = [count EXCEPT !.faults = n, !.others = TRUE]
        PROVE  count' \in Count /\ count'.overlap = count.overlap /\ count'.lost = count.lost
    BY <1>1, <2>1 DEF Count
  <2>2. count.faults + 1 \in Nat
    BY <1>1 DEF Count
  <2>3. count' = [count EXCEPT !.faults = count.faults + 1, !.others = TRUE]
    BY DEF OtherPanelEdits
  <2>. QED BY <2>1, <2>2, <2>3 DEF Counted
<1>. HIDE DEF h
<1>6. Showing(h, {})
  BY <1>1, <1>3, <1>4, RedrawEffect DEF Alike
<1>7. /\ Range(toPage) \subseteq Range(toPage') /\ host'.epoch = host.epoch
      /\ host'.claiming = host.claiming
  BY <1>3, <1>6, ShowingKeeps
<1>8. Owed'
  BY <1>4, <1>5, <1>7, OwedKept DEF IInv, OnTheWay
<1>9. Consumed
  BY <1>1, <1>4, HostTakesNone DEF IInv
<1>. QED BY <1>1, <1>3, <1>4, <1>5, <1>6, <1>8, <1>9, QuietStep

LEMMA HandleSaveKeeps == ASSUME IInv, handle_save PROVE IInv'
<1>. DEFINE asked == Head(toHost)
            h == [host EXCEPT !.saving = TRUE]
            answer == [type |-> "saved"]
<1>1. /\ Consumed /\ asked.type = "save"
      /\ Range(toHost) = Range(toHost') \cup {asked}
  BY HostTakes DEF IInv, Types, WireTypes, handle_save
<1>2. /\ host \in Host /\ toPage \in Seq(ToPage) /\ writes \in Seq(Write)
      /\ count \in Count /\ Len(writes) \in Nat
  BY LenProperties DEF IInv, Types, HostTypes, WireTypes
<1>3. /\ Alike(h) /\ h.flag = host.flag /\ h.posting = host.posting
      /\ h.claiming = host.claiming
  BY <1>2 DEF Host, Alike
<1>4. answer \in ToPage /\ ~First(answer) /\ answer.type = "saved"
  BY DEF ToPage, First
<1>5. /\ UNCHANGED <<page, slot, lease, preparing, committing, writes>>
      /\ \/ UNCHANGED host /\ Post(host.epoch, answer)
         \/ ~host.flag /\ ~live /\ Deliver(h, <<>>)
      /\ UNCHANGED pageVars
  BY DEF handle_save, pageVars, history_replay_blocks_save
<1>. HIDE DEF h, answer
<1>6. ASSUME NEW g, Alike(g), g.flag = host.flag, g.posting = host.posting,
             g.claiming = host.claiming,
             g.saving => host.saving \/ (~host.flag /\ ~live),
             NEW messages, \A message \in messages : message.type # "snapshot",
             Showing(g, messages), Counted
      PROVE  IInv'
  <2>1. /\ Range(toPage) \subseteq Range(toPage') /\ host'.epoch = host.epoch
        /\ host'.claiming = host.claiming
    BY <1>6, ShowingKeeps
  <2>2. Owed'
    BY <1>1, <1>5, <1>6, <2>1, OwedKept DEF IInv, OnTheWay, Unasked
  <2>. QED BY <1>1, <1>2, <1>5, <1>6, <2>2, QuietStep
<1>7. CASE UNCHANGED host /\ Post(host.epoch, answer)
  <2>1. Showing(host, {answer}) /\ Counted
    BY <1>2, <1>4, <1>7, PostEffect DEF Showing
  <2>. QED BY <1>2, <1>4, <1>6, <2>1, HostAlike
<1>8. CASE ~host.flag /\ ~live /\ Deliver(h, <<>>)
  <2>1. Showing(h, {}) /\ Counted
    BY <1>2, <1>3, <1>8, DeliverNothing DEF Alike
  <2>. QED BY <1>3, <1>6, <1>8, <2>1
<1>. QED BY <1>5, <1>7, <1>8

LEMMA SaveEndsKeeps == ASSUME IInv, SaveEnds PROVE IInv'
<1>. DEFINE h == [host EXCEPT !.saving = FALSE]
            answer == [type |-> "saved"]
<1>1. /\ host \in Host /\ toPage \in Seq(ToPage) /\ writes \in Seq(Write)
      /\ count \in Count /\ Len(writes) \in Nat /\ toHost \in Seq(ToHost)
  BY LenProperties DEF IInv, Types, HostTypes, WireTypes
<1>2. /\ Alike(h) /\ h.flag = host.flag /\ h.posting = host.posting /\ ~h.saving
      /\ h.claiming = host.claiming
  BY <1>1 DEF Host, Alike
<1>3. answer \in ToPage /\ ~First(answer) /\ answer.type = "saved"
  BY DEF ToPage, First
<1>4. /\ UNCHANGED <<page, slot, lease, preparing, committing, writes, toHost>>
      /\ UNCHANGED pageVars /\ Deliver(h, <<answer>>)
  BY DEF SaveEnds, pageVars
<1>. HIDE DEF h, answer
<1>5. Showing(h, {answer}) /\ Counted
  BY <1>1, <1>2, <1>3, <1>4, DeliverOne DEF Alike
<1>6. /\ Range(toPage) \subseteq Range(toPage') /\ host'.epoch = host.epoch
      /\ host'.claiming = host.claiming
  BY <1>2, <1>5, ShowingKeeps
<1>7. Owed'
  BY <1>4, <1>5, <1>6, OwedKept DEF IInv, OnTheWay
<1>8. Consumed
  BY <1>1, <1>4, HostTakesNone DEF IInv
<1>. QED BY <1>1, <1>2, <1>3, <1>4, <1>5, <1>7, <1>8, QuietStep

LEMMA LeaseExpiresKeeps == ASSUME IInv, LeaseExpires PROVE IInv'
<1>1. /\ host \in Host /\ toPage \in Seq(ToPage) /\ writes \in Seq(Write)
      /\ count \in Count /\ Len(writes) \in Nat /\ toHost \in Seq(ToHost)
  BY LenProperties DEF IInv, Types, HostTypes, WireTypes
<1>2. /\ UNCHANGED <<page, slot, host, preparing, committing, writes, toHost, toPage, count>>
      /\ UNCHANGED pageVars /\ lease' = NoLease
  BY DEF LeaseExpires, pageVars
<1>3. Showing(host, {}) /\ Counted /\ Consumed /\ Alike(host)
  BY <1>1, <1>2, HostAlike, HostTakesNone, PostedNothing, CountedSame DEF IInv, Showing
<1>4. Owed'
  BY <1>2, <1>3, OwedKept DEF IInv, OnTheWay
<1>. QED BY <1>1, <1>2, <1>3, <1>4, QuietStep

LEMMA PostEndsKeeps ==
    ASSUME IInv, NEW post \in host.posting, PostEnds(post)
    PROVE  IInv'
<1>. DEFINE h == [host EXCEPT !.flag = FALSE, !.posting = @ \ {post}]
<1>1. /\ host \in Host /\ toPage \in Seq(ToPage) /\ count \in Count /\ toHost \in Seq(ToHost)
  BY DEF IInv, Types, HostTypes, WireTypes
<1>2. /\ UNCHANGED <<page, slot, preparing, committing, writes, toHost, toPage, count>>
      /\ UNCHANGED pageVars /\ host' = h /\ (lease' = lease \/ lease' = NoLease)
  BY DEF PostEnds, abandon, pageVars
<1>3. /\ Alike(h) /\ h.flag = FALSE /\ h.saving = host.saving /\ h.claiming = host.claiming
      /\ h.posting \subseteq host.posting
  BY <1>1 DEF Host, Alike
<1>. HIDE DEF h
<1>4. Showing(h, {}) /\ Counted /\ Consumed
  BY <1>1, <1>2, HostTakesNone, PostedNothing, CountedSame DEF IInv, Showing
<1>5. /\ PageTypes' /\ WireTypes' /\ count' \in Count /\ Agrees(h)
      /\ Deliveries' /\ Loading'
  BY <1>2, <1>3, <1>4, HostStep DEF IInv
<1>6. NoLease \in Lease
  BY DEF NoLease, Lease
<1>7. Types'
  BY <1>2, <1>5, <1>6 DEF IInv, Types, HostTypes, Agrees
<1>8. Exclusive'
  <2>1. /\ host'.epoch = host.epoch /\ host'.saving = host.saving /\ ~host'.flag
        /\ (live' => live)
    BY <1>2, <1>3 DEF Alike, live, NoLease
  <2>2. ~count.overlap => preparing = {}
    BY DEF IInv, Exclusive
  <2>. QED BY <1>2, <2>1, <2>2 DEF IInv, Exclusive
<1>9. Spent' /\ Awaited'
  BY <1>2 DEF IInv, Spent, Awaited, NoLease
<1>10. Owed'
  BY <1>2, <1>3, <1>4, OwedKept DEF IInv, OnTheWay, Alike
<1>. QED BY <1>5, <1>7, <1>8, <1>9, <1>10 DEF IInv

LEMMA HandleAbandonKeeps == ASSUME IInv, HandleAbandon PROVE IInv'
<1>. DEFINE asked == Head(toHost)
<1>1. /\ Consumed /\ asked.type = "abandon"
      /\ Range(toHost) = Range(toHost') \cup {asked}
  BY HostTakes DEF IInv, Types, WireTypes, HandleAbandon
<1>2. /\ host \in Host /\ toPage \in Seq(ToPage) /\ writes \in Seq(Write)
      /\ count \in Count /\ Len(writes) \in Nat
  BY LenProperties DEF IInv, Types, HostTypes, WireTypes
<1>3. /\ UNCHANGED <<page, slot, host, preparing, committing, writes, toPage, count>>
      /\ UNCHANGED pageVars /\ (lease' = lease \/ lease' = NoLease)
  BY DEF HandleAbandon, abandon, pageVars
<1>4. Showing(host, {}) /\ Counted /\ Alike(host)
  BY <1>2, <1>3, HostAlike, PostedNothing, CountedSame DEF Showing
<1>5. Owed'
  BY <1>1, <1>3, <1>4, OwedKept DEF IInv, OnTheWay, Unasked
<1>. QED BY <1>1, <1>2, <1>3, <1>4, <1>5, QuietStep

LEMMA RefreshKeeps == ASSUME IInv, NEW moved \in BOOLEAN, Refresh(moved) PROVE IInv'
<1>. DEFINE h == [host EXCEPT !.basis = IF moved THEN @ + 1 ELSE @]
<1>1. /\ host \in Host /\ toPage \in Seq(ToPage) /\ writes \in Seq(Write)
      /\ count \in Count /\ Len(writes) \in Nat /\ toHost \in Seq(ToHost)
  BY LenProperties DEF IInv, Types, HostTypes, WireTypes
<1>2. /\ Alike(h) /\ h.flag = host.flag /\ h.posting = host.posting
      /\ h.saving = host.saving /\ h.claiming = host.claiming
  <2>1. ASSUME NEW n \in Nat
        PROVE  LET g == [host EXCEPT !.basis = n]
               IN  /\ Alike(g) /\ g.flag = host.flag /\ g.posting = host.posting
                   /\ g.saving = host.saving /\ g.claiming = host.claiming
    BY <1>1 DEF Host, Alike
  <2>2. (IF moved THEN host.basis + 1 ELSE host.basis) \in Nat
    BY <1>1 DEF Host
  <2>. QED BY <2>1, <2>2
<1>3. /\ UNCHANGED <<page, slot, preparing, committing, writes, toHost>>
      /\ UNCHANGED pageVars /\ Redraw(h) /\ ~host.readying /\ Fault
      /\ lease' = lease \/ lease' = NoLease
  BY DEF Refresh, pageVars
<1>. HIDE DEF h
<1>4. Showing(h, {}) /\ Counted
  BY <1>1, <1>2, <1>3, RedrawEffect, FaultCounts DEF Alike
<1>5. /\ Range(toPage) \subseteq Range(toPage') /\ host'.epoch = host.epoch
      /\ host'.claiming = host.claiming
  BY <1>2, <1>4, ShowingKeeps
<1>6. Owed'
  BY <1>3, <1>4, <1>5, OwedKept DEF IInv, OnTheWay
<1>7. Consumed
  BY <1>1, <1>3, HostTakesNone DEF IInv
<1>. QED BY <1>1, <1>2, <1>3, <1>4, <1>6, <1>7, QuietStep

-----------------------------------------------------------------------------
(* Preparations *)

\* A preparation ends, with or without a lease, and the page is told.
Ends(op, h, answer) ==
    /\ preparing' = preparing \ {op}
    /\ UNCHANGED pageVars /\ UNCHANGED <<committing, writes, toHost>>
    /\ Counted
    /\ Alike(h) /\ h.saving = host.saving /\ h.claiming = host.claiming
    /\ h.flag => host.flag
    /\ answer.type \in {"prepared", "prepareRefused"} /\ answer.request = op.request
    /\ Showing(h, {answer})
    /\ op.epoch = host.epoch /\ ~count'.lost => answer \in Range(toPage')
    /\ lease' \in Lease /\ (lease'.state = "committing" => lease' = lease)
    /\ live' => live \/ op.epoch = host.epoch

LEMMA PreparationEnds ==
    ASSUME IInv, NEW op \in preparing, NEW h, NEW answer, Ends(op, h, answer)
    PROVE  IInv'
<1>. USE DEF Ends
<1>1. toHost \in Seq(ToHost) /\ Consumed
  BY HostTakesNone DEF IInv, Types, WireTypes
<1>2. /\ PageTypes' /\ WireTypes' /\ count' \in Count /\ Agrees(h)
      /\ Deliveries' /\ Loading'
  BY <1>1, HostStep DEF IInv
<1>3. Types'
  BY <1>2 DEF IInv, Types, HostTypes, Agrees
<1>4. Exclusive'
  <2>1. /\ host'.epoch = host.epoch /\ (host'.flag => host.flag)
        /\ host'.saving = host.saving
    BY <1>2 DEF Agrees, Alike
  <2>2. \A other \in preparing' : other.epoch <= host'.epoch
    BY <2>1 DEF IInv, Exclusive
  <2>3. ASSUME ~count'.overlap
        PROVE  preparing' = {} /\ (host.saving => ~host.flag /\ ~live')
    <3>1. ~count.overlap
      BY <2>3 DEF Counted
    <3>2. preparing' = {}
      BY <3>1 DEF IInv, Exclusive
    <3>3. host.saving => ~host.flag /\ ~live
      BY <3>1 DEF IInv, Exclusive
    <3>4. op.epoch = host.epoch => host.flag
      BY <3>1 DEF IInv, Exclusive
    <3>. QED BY <3>2, <3>3, <3>4
  <2>. QED BY <2>1, <2>2, <2>3 DEF Exclusive
<1>5. Spent' /\ Awaited'
  BY DEF IInv, Spent, Awaited
<1>6. Owed'
  <2>1. /\ Range(toPage) \subseteq Range(toPage') /\ host'.epoch = host.epoch
        /\ host'.claiming = host.claiming
    BY ShowingKeeps
  <2>2. \A message \in OnTheWay : message \in OnTheWay'
    BY <2>1 DEF OnTheWay
  <2>3. ASSUME NEW request, PrepareComing(request), ~count'.lost
        PROVE  PrepareComing(request)'
    <3>1. CASE op.request = request /\ op.epoch = host.epoch
      BY <2>3, <3>1 DEF PrepareComing, OnTheWay
    <3>2. CASE ~(op.request = request /\ op.epoch = host.epoch)
      BY <2>1, <2>2, <2>3, <3>2 DEF PrepareComing
    <3>. QED BY <3>1, <3>2
  <2>4. UNCHANGED pageVars /\ UNCHANGED committing
    OBVIOUS
  <2>5. /\ SessionComing => SessionComing'
        /\ DiscardComing => DiscardComing'
        /\ \A id : CommitComing(id) => CommitComing(id)'
    BY <2>1, <2>2, <2>4, SessionStays, DiscardStays, CommitStays
  <2>. QED BY <2>3, <2>4, <2>5, OwedStep DEF IInv
<1>. QED BY <1>2, <1>3, <1>4, <1>5, <1>6 DEF IInv

LEMMA FlagDown ==
    ASSUME host \in Host
    PROVE  LET h == [host EXCEPT !.flag = FALSE]
           IN  /\ Alike(h) /\ h.flag = FALSE /\ h.saving = host.saving
               /\ h.claiming = host.claiming
<1>. QED BY DEF Host, Alike

LEMMA RefusedAnswer ==
    ASSUME NEW request \in Nat
    PROVE  LET answer == [type |-> "prepareRefused", request |-> request]
           IN  /\ answer \in ToPage /\ ~First(answer)
               /\ answer.type = "prepareRefused" /\ answer.request = request
<1>. QED BY DEF ToPage, First

LEMMA RefusePreparationKeeps ==
    ASSUME IInv, NEW op \in preparing, RefusePreparation(op)
    PROVE  IInv'
<1>. DEFINE h == [host EXCEPT !.flag = FALSE]
            answer == [type |-> "prepareRefused", request |-> op.request]
<1>1. /\ host \in Host /\ toPage \in Seq(ToPage) /\ count \in Count /\ op \in Op
      /\ lease \in Lease
  BY DEF IInv, Types, HostTypes, WireTypes
<1>2. /\ Alike(h) /\ h.flag = FALSE /\ h.saving = host.saving
      /\ h.claiming = host.claiming
  BY <1>1, FlagDown
<1>3. op.request \in Nat
  BY <1>1 DEF Op
<1>4. /\ answer \in ToPage /\ ~First(answer)
      /\ answer.type = "prepareRefused" /\ answer.request = op.request
  BY <1>3, RefusedAnswer
<1>5. /\ preparing' = preparing \ {op} /\ host' = h
      /\ Post(op.epoch, answer)
      /\ UNCHANGED pageVars /\ UNCHANGED <<committing, writes, toHost>>
      /\ UNCHANGED lease
  BY DEF RefusePreparation, EndPreparation, pageVars
<1>. HIDE DEF h, answer
<1>6. /\ Posted({answer}) /\ Counted
      /\ op.epoch = host.epoch /\ ~count'.lost => answer \in Range(toPage')
  BY <1>1, <1>4, <1>5, PostEffect
<1>7. Showing(h, {answer})
  BY <1>5, <1>6 DEF Showing
<1>8. lease' \in Lease /\ (lease'.state = "committing" => lease' = lease) /\ (live' => live)
  BY <1>1, <1>5 DEF live
<1>9. Ends(op, h, answer)
  BY <1>2, <1>4, <1>5, <1>6, <1>7, <1>8 DEF Ends
<1>. QED BY <1>9, PreparationEnds

LEMMA OutdatedKeeps ==
    ASSUME IInv, NEW op \in preparing, PreparationOutdated(op)
    PROVE  IInv'
<1>. DEFINE h == [host EXCEPT !.flag = FALSE]
            answer == [type |-> "prepareRefused", request |-> op.request]
<1>1. /\ host \in Host /\ toPage \in Seq(ToPage) /\ count \in Count /\ op \in Op
      /\ lease \in Lease
  BY DEF IInv, Types, HostTypes, WireTypes
<1>2. /\ Alike(h) /\ h.flag = FALSE /\ h.saving = host.saving
      /\ h.claiming = host.claiming
  BY <1>1, FlagDown
<1>3. op.request \in Nat
  BY <1>1 DEF Op
<1>4. /\ answer \in ToPage /\ ~First(answer)
      /\ answer.type = "prepareRefused" /\ answer.request = op.request
  BY <1>3, RefusedAnswer
<1>5. /\ preparing' = preparing \ {op} /\ host' = h /\ Fault
      /\ toPage' = IF op.epoch = host.epoch THEN Append(toPage, answer) ELSE toPage
      /\ UNCHANGED pageVars /\ UNCHANGED <<committing, writes, toHost>>
      /\ UNCHANGED lease
  BY DEF PreparationOutdated, EndPreparation, pageVars
<1>. HIDE DEF h, answer
<1>6. /\ Posted({answer}) /\ Counted
      /\ op.epoch = host.epoch /\ ~count'.lost => answer \in Range(toPage')
  BY <1>1, <1>4, <1>5, LongerByOne, PostedNothing, PostedMore, FaultCounts
<1>7. Showing(h, {answer})
  BY <1>5, <1>6 DEF Showing
<1>8. lease' \in Lease /\ (lease'.state = "committing" => lease' = lease) /\ (live' => live)
  BY <1>1, <1>5 DEF live
<1>9. Ends(op, h, answer)
  BY <1>2, <1>4, <1>5, <1>6, <1>7, <1>8 DEF Ends
<1>. QED BY <1>9, PreparationEnds

LEMMA IssueLeaseKeeps ==
    ASSUME IInv, NEW op \in preparing, IssueLease(op)
    PROVE  IInv'
<1>1. CASE RefusePreparation(op)
  BY <1>1, RefusePreparationKeeps
<1>2. CASE ~RefusePreparation(op)
  <2>. DEFINE id == host.leases + 1
              post == [lease |-> id, heard |-> toPage' # toPage]
              h == [host EXCEPT !.leases = id, !.posting = @ \cup {post}]
              answer == [type |-> "prepared", request |-> op.request,
                         lease |-> id, cell |-> op.cell]
              issued == [state |-> "issued", id |-> id, op |-> op]
  <2>1. /\ host \in Host /\ toPage \in Seq(ToPage) /\ count \in Count /\ op \in Op
        /\ lease \in Lease
    BY DEF IInv, Types, HostTypes, WireTypes
  <2>2. id \in Nat
    BY <2>1 DEF Host
  <2>3. /\ preparing' = preparing \ {op} /\ host' = h
        /\ Post(op.epoch, answer)
        /\ lease' = issued
        /\ UNCHANGED pageVars /\ UNCHANGED <<committing, writes, toHost>>
        /\ op.epoch = host.epoch
    BY <1>2 DEF IssueLease, replay_is_current, pageVars
  <2>. HIDE DEF id
  <2>4. /\ Alike(h) /\ h.flag = host.flag /\ h.saving = host.saving
        /\ h.claiming = host.claiming
    <3>1. post \in [lease : Nat, heard : BOOLEAN]
      BY <2>2
    <3>. QED BY <2>1, <2>2, <3>1 DEF Host, Alike
  <2>5. /\ answer \in ToPage /\ ~First(answer)
        /\ answer.type = "prepared" /\ answer.request = op.request
    BY <2>1, <2>2 DEF ToPage, First, Op
  <2>6. issued \in Lease /\ issued.state = "issued"
    BY <2>1, <2>2 DEF Lease
  <2>. HIDE DEF h, answer, issued
  <2>7. /\ Posted({answer}) /\ Counted
        /\ op.epoch = host.epoch /\ ~count'.lost => answer \in Range(toPage')
    BY <2>1, <2>3, <2>5, PostEffect
  <2>8. Showing(h, {answer})
    BY <2>3, <2>7 DEF Showing
  <2>9. lease' \in Lease /\ (lease'.state = "committing" => lease' = lease)
    BY <2>1, <2>3, <2>6
  <2>10. Ends(op, h, answer)
    BY <2>3, <2>4, <2>5, <2>7, <2>8, <2>9 DEF Ends
  <2>. QED BY <2>10, PreparationEnds
<1>. QED BY <1>1, <1>2

\* A preparation goes on.
LEMMA PreparationMoves ==
    ASSUME IInv, NEW op \in preparing, NEW next \in Op,
           next.request = op.request, next.epoch = op.epoch, next.awaits = op.awaits,
           preparing' = (preparing \ {op}) \cup {next},
           UNCHANGED <<pageVars, host, lease, committing, writes, toHost, toPage, count>>
    PROVE  IInv'
<1>1. Types'
  BY DEF IInv, Types, PageTypes, HostTypes, WireTypes, pageVars
<1>2. Exclusive'
  <2>1. \A other \in preparing' : other.epoch <= host'.epoch
    BY DEF IInv, Exclusive
  <2>2. ASSUME ~count'.overlap
        PROVE  /\ \A a, b \in preparing' : a = b
               /\ host'.posting = {}
               /\ \A a \in preparing' : a.epoch = host'.epoch => host'.flag
               /\ host'.saving => ~host'.flag /\ ~live'
    <3>1. /\ \A a, b \in preparing : a = b
          /\ host.posting = {}
          /\ \A a \in preparing : a.epoch = host.epoch => host.flag
          /\ host.saving => ~host.flag /\ ~live
      BY <2>2 DEF IInv, Exclusive
    <3>2. preparing' = {next}
      BY <3>1
    <3>. QED BY <3>1, <3>2 DEF live
  <2>. QED BY <2>1, <2>2 DEF Exclusive
<1>3. Spent' /\ Awaited' /\ Deliveries' /\ Loading'
  BY DEF IInv, Spent, Awaited, Deliveries, Known, Loading, Announcements, Firsts, pageVars
<1>4. Owed'
  <2>1. Counted /\ UNCHANGED pageVars
    BY CountedSame DEF IInv, Types
  <2>2. OnTheWay' = OnTheWay /\ host' = host /\ committing' = committing
    BY DEF OnTheWay
  <2>3. \A a \in preparing : \E b \in preparing' : b.request = a.request /\ b.epoch = a.epoch
    OBVIOUS
  <2>. QED BY <2>1, <2>2, <2>3, OwedKept DEF IInv
<1>. QED BY <1>1, <1>2, <1>3, <1>4 DEF IInv

LEMMA BindPreparationKeeps ==
    ASSUME IInv, NEW op \in preparing, BindPreparation(op)
    PROVE  IInv'
<1>. DEFINE bound == [op EXCEPT !.step = "comparing", !.basis = host.basis,
                                !.session = host.session]
<1>1. CASE RefusePreparation(op)
  BY <1>1, RefusePreparationKeeps
<1>2. CASE ~RefusePreparation(op)
  <2>1. /\ preparing' = (preparing \ {op}) \cup {bound}
        /\ UNCHANGED <<pageVars, host, lease, committing, writes, toHost, toPage, count>>
    BY <1>2 DEF BindPreparation
  <2>2. op \in Op /\ host \in Host
    BY DEF IInv, Types, HostTypes
  <2>3. /\ bound \in Op /\ bound.request = op.request /\ bound.epoch = op.epoch
        /\ bound.awaits = op.awaits
    BY <2>2 DEF Op, Host
  <2>. HIDE DEF bound
  <2>. QED BY <2>1, <2>3, PreparationMoves
<1>. QED BY <1>1, <1>2

LEMMA ComparePreparationKeeps ==
    ASSUME IInv, NEW op \in preparing, ComparePreparation(op)
    PROVE  IInv'
<1>. DEFINE next == [op EXCEPT !.step = "verifying"]
<1>1. CASE RefusePreparation(op)
  BY <1>1, RefusePreparationKeeps
<1>2. CASE ~RefusePreparation(op)
  <2>1. /\ preparing' = (preparing \ {op}) \cup {next}
        /\ UNCHANGED <<pageVars, host, lease, committing, writes, toHost, toPage, count>>
    BY <1>2 DEF ComparePreparation
  <2>2. op \in Op
    BY DEF IInv, Types, HostTypes
  <2>3. /\ next \in Op /\ next.request = op.request /\ next.epoch = op.epoch
        /\ next.awaits = op.awaits
    BY <2>2 DEF Op
  <2>. HIDE DEF next
  <2>. QED BY <2>1, <2>3, PreparationMoves
<1>. QED BY <1>1, <1>2

LEMMA HandlePrepareKeeps == ASSUME IInv, HandlePrepare PROVE IInv'
<1>. DEFINE asked == Head(toHost)
            op == [request |-> asked.request, epoch |-> host.epoch, cell |-> asked.cell,
                   awaits |-> Len(writes), step |-> "draining", basis |-> 0, session |-> 0]
            answer == [type |-> "prepareRefused", request |-> asked.request]
            h == [host EXCEPT !.flag = TRUE]
<1>1. /\ Consumed /\ asked \in ToHost /\ asked.type = "prepare"
      /\ Range(toHost) = Range(toHost') \cup {asked}
  BY HostTakes DEF IInv, Types, WireTypes, HandlePrepare
<1>2. /\ host \in Host /\ toPage \in Seq(ToPage) /\ writes \in Seq(Write)
      /\ count \in Count /\ Len(writes) \in Nat
  BY LenProperties DEF IInv, Types, HostTypes, WireTypes
<1>3. asked.request \in Nat /\ asked.cell \in Nat
  BY <1>1 DEF ToHost
<1>4. /\ answer \in ToPage /\ ~First(answer)
      /\ answer.type = "prepareRefused" /\ answer.request = asked.request
  BY <1>3, RefusedAnswer
<1>5. /\ op \in Op /\ op.request = asked.request /\ op.epoch = host.epoch
      /\ op.awaits = Len(writes)
  BY <1>2, <1>3 DEF Op, Host
<1>6. /\ Alike(h) /\ h.flag = TRUE /\ h.saving = host.saving
      /\ h.claiming = host.claiming /\ h.posting = host.posting
  BY <1>2 DEF Host, Alike
<1>7. /\ UNCHANGED <<page, slot, lease, committing, writes>>
      /\ UNCHANGED pageVars
      /\ \/ Post(host.epoch, answer) /\ UNCHANGED <<host, preparing>>
         \/ /\ ~host.saving /\ ~live
            /\ host' = h /\ preparing' = preparing \cup {op} /\ toPage' = toPage
            /\ count' = [count EXCEPT !.overlap = @ \/ preparing # {} \/ host.posting # {}]
  BY DEF HandlePrepare, pageVars, history_replay_blocks_save
<1>. HIDE DEF h, op, answer
<1>8. CASE Post(host.epoch, answer) /\ UNCHANGED <<host, preparing>>
  <2>1. /\ Posted({answer}) /\ Counted
        /\ ~count'.lost => answer \in Range(toPage')
    BY <1>2, <1>4, <1>8, PostEffect
  <2>2. Showing(host, {answer})
    BY <1>8, <2>1 DEF Showing
  <2>3. Owed'
    <3>1. \A message \in OnTheWay : message \in OnTheWay' \/ message = asked
      BY <1>1, <2>1 DEF OnTheWay, Posted
    <3>2. UNCHANGED <<preparing, committing, host>>
      BY <1>7, <1>8
    <3>3. ASSUME NEW request, PrepareComing(request), ~count'.lost
          PROVE  PrepareComing(request)'
      <4>1. CASE request = asked.request
        BY <1>4, <2>1, <3>3, <4>1 DEF PrepareComing, OnTheWay
      <4>2. CASE request # asked.request
        BY <3>1, <3>2, <3>3, <4>2 DEF PrepareComing
      <4>. QED BY <4>1, <4>2
    <3>4. /\ SessionComing => SessionComing'
          /\ DiscardComing => DiscardComing'
          /\ \A id : CommitComing(id) => CommitComing(id)'
      BY <1>1, <3>1, <3>2, SessionStays, DiscardStays, CommitStays
    <3>. QED BY <1>7, <2>1, <3>3, <3>4, OwedStep DEF IInv
  <2>. QED BY <1>1, <1>2, <1>4, <1>7, <1>8, <2>1, <2>2, <2>3, HostAlike, QuietStep
<1>9. CASE /\ ~host.saving /\ ~live
           /\ host' = h /\ preparing' = preparing \cup {op} /\ toPage' = toPage
           /\ count' = [count EXCEPT !.overlap = @ \/ preparing # {} \/ host.posting # {}]
  <2>1. /\ count' \in Count /\ count'.lost = count.lost
        /\ count'.overlap = (count.overlap \/ preparing # {} \/ host.posting # {})
    <3>1. ASSUME NEW b \in BOOLEAN, count' = [count EXCEPT !.overlap = b]
          PROVE  count' \in Count /\ count'.lost = count.lost /\ count'.overlap = b
      BY <1>2, <3>1 DEF Count
    <3>. QED BY <1>9, <3>1
  <2>2. host' \in Host
    BY <1>6, <1>9 DEF Alike
  <2>3. Types'
    BY <1>1, <1>5, <1>7, <1>9, <2>1, <2>2
       DEF IInv, Types, PageTypes, HostTypes, WireTypes, Consumed
  <2>4. Exclusive'
    <3>1. \A other \in preparing' : other.epoch <= host'.epoch
      BY SMTT(30), <1>2, <1>5, <1>6, <1>9 DEF IInv, Exclusive, Alike, Host
    <3>2. ASSUME ~count'.overlap
          PROVE  /\ preparing' = {op} /\ host'.flag = TRUE /\ ~host'.saving
                 /\ host'.posting = {}
      BY <1>6, <1>9, <2>1, <3>2
    <3>. QED BY <3>1, <3>2 DEF Exclusive
  <2>5. Spent'
    BY <1>7 DEF IInv, Spent
  <2>6. Awaited'
    BY <1>2, <1>5, <1>7, <1>9 DEF IInv, Awaited
  <2>7. Deliveries'
    BY <1>1, <1>6, <1>9 DEF IInv, Deliveries, Known, Alike, Consumed
  <2>8. Loading'
    BY <1>1, <1>6, <1>7, <1>9 DEF IInv, Loading, Firsts, Alike, Consumed
  <2>9. Owed'
    <3>1. \A message \in OnTheWay : message \in OnTheWay' \/ message = asked
      BY <1>1, <1>9 DEF OnTheWay
    <3>2. host'.epoch = host.epoch /\ host'.claiming = host.claiming
      BY <1>6, <1>9 DEF Alike
    <3>3. ASSUME NEW request, PrepareComing(request)
          PROVE  PrepareComing(request)'
      <4>1. CASE request = asked.request
        BY <1>5, <1>9, <3>2, <4>1 DEF PrepareComing
      <4>2. CASE request # asked.request
        BY <1>9, <3>1, <3>2, <3>3, <4>2 DEF PrepareComing
      <4>. QED BY <4>1, <4>2
    <3>4. committing' = committing
      BY <1>7
    <3>5. /\ SessionComing => SessionComing'
          /\ DiscardComing => DiscardComing'
          /\ \A id : CommitComing(id) => CommitComing(id)'
      BY <1>1, <3>1, <3>2, <3>4, SessionStays, DiscardStays, CommitStays
    <3>6. page' = page /\ slot' = slot /\ ~count'.lost => ~count.lost
      BY <1>7, <2>1
    <3>7. ASSUME NEW request, slot.phase = "preparing", request = slot.request, ~count'.lost
          PROVE  PrepareComing(request)'
      BY <2>1, <3>3, <3>7 DEF IInv, Owed
    <3>8. ASSUME NEW id, slot.phase = "committing", id = slot.lease, ~count'.lost
          PROVE  CommitComing(id)'
      BY <2>1, <3>5, <3>8 DEF IInv, Owed
    <3>9. ASSUME ~count'.lost
          PROVE  /\ page.session = "requested" => SessionComing'
                 /\ page.session = "discarding" => DiscardComing'
      BY <2>1, <3>5, <3>9 DEF IInv, Owed
    <3>. QED BY <1>7, <3>7, <3>8, <3>9 DEF Owed
  <2>. QED BY <2>3, <2>4, <2>5, <2>6, <2>7, <2>8, <2>9 DEF IInv
<1>. QED BY <1>7, <1>8, <1>9

-----------------------------------------------------------------------------
(* Commits *)

LEMMA RangeSeq ==
    ASSUME NEW S, NEW s \in Seq(S)
    PROVE  /\ Len(s) \in Nat /\ DOMAIN s = 1..Len(s) /\ Range(s) \subseteq S
           /\ \A e \in Range(s) : \E i \in 1..Len(s) : e = s[i]
           /\ \A i \in 1..Len(s) : s[i] \in Range(s) /\ s[i] \in S
<1>. QED BY LenProperties, ElementOfSeq DEF Range

\* A commit ends, its lease is settled, and the page is told.
Settles(h, answer) ==
    LET commit == Head(committing)
    IN  /\ committing # <<>> /\ committing' = Tail(committing)
        /\ UNCHANGED pageVars /\ UNCHANGED <<preparing, writes, toHost>>
        /\ Counted
        /\ Alike(h) /\ h.flag = host.flag /\ h.saving = host.saving
        /\ h.claiming = host.claiming /\ h.posting = host.posting
        /\ answer.type \in {"committed", "commitRefused"} /\ answer.lease = commit.lease
        /\ Showing(h, {answer})
        /\ commit.epoch = host.epoch /\ ~count'.lost => answer \in Range(toPage')
        /\ lease' = settle(commit.lease)

LEMMA CommitEnds ==
    ASSUME IInv, NEW h, NEW answer, Settles(h, answer)
    PROVE  IInv'
<1>. DEFINE commit == Head(committing)
<1>. USE DEF Settles
<1>1. toHost \in Seq(ToHost) /\ Consumed
  BY HostTakesNone DEF IInv, Types, WireTypes
<1>2. /\ PageTypes' /\ WireTypes' /\ count' \in Count /\ Agrees(h)
      /\ Deliveries' /\ Loading'
  BY <1>1, HostStep DEF IInv
<1>3. committing \in Seq(Commit) /\ lease \in Lease /\ NoLease \in Lease
  BY DEF IInv, Types, HostTypes, NoLease, Lease
<1>4. /\ committing' \in Seq(Commit)
      /\ Len(committing) \in Nat \ {0} /\ Len(committing') = Len(committing) - 1
      /\ \A i \in 1..Len(committing') : committing'[i] = committing[i + 1]
      /\ commit = committing[1]
      /\ Range(committing) = Range(committing') \cup {commit}
      /\ DOMAIN committing = 1..Len(committing) /\ DOMAIN committing' = 1..Len(committing')
  BY <1>3, AfterTail, LenProperties
<1>5. lease' = lease \/ lease' = NoLease
  BY DEF settle
<1>6. Types'
  BY <1>2, <1>3, <1>4, <1>5 DEF IInv, Types, HostTypes, Agrees
<1>7. Exclusive'
  <2>1. /\ host'.epoch = host.epoch /\ host'.flag = host.flag /\ host'.saving = host.saving
        /\ host'.posting = host.posting /\ (live' => live)
    BY <1>2, <1>5 DEF Agrees, Alike, live, NoLease
  <2>. QED BY <2>1 DEF IInv, Exclusive, Counted
<1>8. Spent'
  <2>1. SUFFICES ASSUME lease' = lease, lease.state = "committing", lease.id # commit.lease
                 PROVE  \E i \in DOMAIN committing' : committing'[i].lease = lease.id
    BY <1>5 DEF Spent, settle, NoLease
  <2>2. PICK i \in 1..Len(committing) : committing[i].lease = lease.id
    BY <1>4, <2>1 DEF IInv, Spent
  <2>3. i # 1
    BY <1>4, <2>1, <2>2
  <2>4. i - 1 \in 1..Len(committing') /\ (i - 1) + 1 = i
    BY <1>4, <2>2, <2>3
  <2>5. committing'[i - 1].lease = lease.id
    BY <1>4, <2>2, <2>4
  <2>. QED BY <1>4, <2>4, <2>5
<1>9. Awaited'
  BY DEF IInv, Awaited
<1>10. Owed'
  <2>1. /\ Range(toPage) \subseteq Range(toPage') /\ host'.epoch = host.epoch
        /\ host'.claiming = host.claiming
    BY ShowingKeeps
  <2>2. \A message \in OnTheWay : message \in OnTheWay'
    BY <2>1 DEF OnTheWay
  <2>3. ASSUME NEW id, CommitComing(id), ~count'.lost
        PROVE  CommitComing(id)'
    <3>1. CASE commit.lease = id /\ commit.epoch = host.epoch
      BY <2>3, <3>1 DEF CommitComing, OnTheWay
    <3>2. CASE ~(commit.lease = id /\ commit.epoch = host.epoch)
      BY <1>4, <2>1, <2>2, <2>3, <3>2 DEF CommitComing
    <3>. QED BY <3>1, <3>2
  <2>4. UNCHANGED pageVars /\ UNCHANGED preparing
    OBVIOUS
  <2>5. /\ SessionComing => SessionComing'
        /\ DiscardComing => DiscardComing'
        /\ \A request : PrepareComing(request) => PrepareComing(request)'
    BY <2>1, <2>2, <2>4, SessionStays, DiscardStays, PrepareStays
  <2>. QED BY <2>3, <2>4, <2>5, OwedStep DEF IInv
<1>. QED BY <1>2, <1>6, <1>7, <1>8, <1>9, <1>10 DEF IInv

LEMMA EndCommitKeeps ==
    ASSUME IInv, committing # <<>>, NEW type \in {"committed", "commitRefused"}, EndCommit(type),
           NEW h, Alike(h), h.flag = host.flag, h.saving = host.saving,
           h.claiming = host.claiming, h.posting = host.posting, host' = h
    PROVE  IInv'
<1>. DEFINE commit == Head(committing)
            answer == [type |-> type, lease |-> commit.lease]
<1>1. /\ toPage \in Seq(ToPage) /\ count \in Count /\ committing \in Seq(Commit)
  BY DEF IInv, Types, HostTypes, WireTypes
<1>2. commit \in Commit
  BY <1>1, AfterTail
<1>3. /\ answer \in ToPage /\ ~First(answer)
      /\ answer.type = type /\ answer.lease = commit.lease
  BY <1>2 DEF ToPage, First, Commit
<1>4. /\ committing' = Tail(committing) /\ lease' = settle(commit.lease)
      /\ Post(commit.epoch, answer)
      /\ UNCHANGED pageVars /\ UNCHANGED <<preparing, writes, toHost>>
  BY DEF EndCommit, CommitEnded, pageVars
<1>. HIDE DEF answer
<1>5. /\ Posted({answer}) /\ Counted
      /\ commit.epoch = host.epoch /\ ~count'.lost => answer \in Range(toPage')
  BY <1>1, <1>3, <1>4, PostEffect
<1>6. Showing(h, {answer})
  BY <1>5 DEF Showing
<1>7. Settles(h, answer)
  BY <1>3, <1>4, <1>5, <1>6 DEF Settles
<1>. QED BY <1>7, CommitEnds

LEMMA RefuseCommitKeeps ==
    ASSUME IInv, committing # <<>>, RefuseCommit,
           NEW h, Alike(h), h.flag = host.flag, h.saving = host.saving,
           h.claiming = host.claiming, h.posting = host.posting, host' = h
    PROVE  IInv'
<1>. DEFINE commit == Head(committing)
            answer == [type |-> "commitRefused", lease |-> commit.lease]
<1>1. /\ toPage \in Seq(ToPage) /\ count \in Count /\ committing \in Seq(Commit)
  BY DEF IInv, Types, HostTypes, WireTypes
<1>2. commit \in Commit
  BY <1>1, AfterTail
<1>3. /\ answer \in ToPage /\ ~First(answer)
      /\ answer.type = "commitRefused" /\ answer.lease = commit.lease
  BY <1>2 DEF ToPage, First, Commit
<1>4. /\ committing' = Tail(committing) /\ lease' = settle(commit.lease) /\ Fault
      /\ toPage' = toPage \o For(commit.epoch, answer)
      /\ UNCHANGED pageVars /\ UNCHANGED <<preparing, writes, toHost>>
  BY DEF RefuseCommit, CommitEnded, pageVars
<1>. HIDE DEF answer
<1>5. /\ Posted({answer}) /\ Counted
      /\ commit.epoch = host.epoch => answer \in Range(toPage')
  <2>1. CASE commit.epoch = host.epoch
    BY <1>1, <1>3, <1>4, <2>1, LongerByOne, FaultCounts DEF For
  <2>2. CASE commit.epoch # host.epoch
    <3>1. toPage' = toPage
      BY <1>1, <1>4, <2>2, ConcatEmptySeq DEF For
    <3>. QED BY <1>1, <1>4, <2>2, <3>1, PostedNothing, PostedMore, FaultCounts
  <2>. QED BY <2>1, <2>2
<1>6. Showing(h, {answer})
  BY <1>5 DEF Showing
<1>7. Settles(h, answer)
  BY <1>3, <1>4, <1>5, <1>6 DEF Settles
<1>. QED BY <1>7, CommitEnds

\* The first commit goes on.
LEMMA CommitMoves ==
    ASSUME IInv, committing # <<>>, NEW next \in Commit,
           next.lease = Head(committing).lease, next.epoch = Head(committing).epoch,
           committing' = <<next>> \o Tail(committing),
           UNCHANGED pageVars,
           UNCHANGED <<lease, preparing, writes, toHost, toPage, count>>,
           Alike(host'), host'.flag = host.flag, host'.saving = host.saving,
           host'.claiming = host.claiming, host'.posting = host.posting
    PROVE  IInv'
<1>1. /\ committing \in Seq(Commit) /\ toHost \in Seq(ToHost) /\ toPage \in Seq(ToPage)
      /\ count \in Count
  BY DEF IInv, Types, HostTypes, WireTypes
<1>2. /\ committing' \in Seq(Commit) /\ Len(committing') = Len(committing)
      /\ \A i \in 1..Len(committing) : committing'[i] = IF i = 1 THEN next ELSE committing[i]
      /\ Range(committing') = {next} \cup Range(Tail(committing))
  BY <1>1, NewHead
<1>3. /\ DOMAIN committing = 1..Len(committing) /\ DOMAIN committing' = 1..Len(committing)
      /\ Head(committing) = committing[1]
      /\ Range(committing) = Range(Tail(committing)) \cup {Head(committing)}
  BY <1>1, <1>2, AfterTail, LenProperties
<1>4. Types'
  BY <1>2 DEF IInv, Types, PageTypes, HostTypes, WireTypes, pageVars, Alike
<1>5. Exclusive'
  BY DEF IInv, Exclusive, Alike, live
<1>6. Spent'
  <2>1. \A i \in DOMAIN committing' : committing'[i].lease = committing[i].lease
    BY <1>2, <1>3
  <2>. QED BY <1>3, <2>1 DEF IInv, Spent
<1>7. Awaited' /\ Deliveries' /\ Loading'
  BY DEF IInv, Awaited, Deliveries, Known, Loading, Announcements, Firsts, pageVars, Alike
<1>8. Owed'
  <2>1. Counted /\ OnTheWay' = OnTheWay /\ host'.epoch = host.epoch
    BY <1>1, CountedSame DEF OnTheWay, Alike
  <2>2. \A a \in Range(committing) : \E b \in Range(committing') :
           b.lease = a.lease /\ b.epoch = a.epoch
    BY <1>2, <1>3
  <2>. QED BY <2>1, <2>2, OwedKept DEF IInv
<1>. QED BY <1>4, <1>5, <1>6, <1>7, <1>8 DEF IInv

LEMMA CheckCommitKeeps ==
    ASSUME IInv, NEW step, NEW after \in {"draining", "verified"}, CheckCommit(step, after)
    PROVE  IInv'
<1>. DEFINE commit == Head(committing)
            next == [commit EXCEPT !.step = after]
<1>1. committing # <<>> /\ committing \in Seq(Commit) /\ host \in Host
  BY DEF CheckCommit, IInv, Types, HostTypes
<1>2. commit \in Commit
  BY <1>1, AfterTail
<1>3. next \in Commit /\ next.lease = commit.lease /\ next.epoch = commit.epoch
  BY <1>2 DEF Commit
<1>4. Alike(host)
  BY <1>1, HostAlike
<1>5. \/ /\ committing' = <<next>> \o Tail(committing)
         /\ UNCHANGED pageVars /\ UNCHANGED <<lease, preparing, writes, toHost, toPage, count>>
         /\ host' = host
      \/ EndCommit("commitRefused") /\ host' = host
  BY DEF CheckCommit, pageVars
<1>. HIDE DEF next
<1>. QED BY <1>1, <1>3, <1>4, <1>5, CommitMoves, EndCommitKeeps

LEMMA CommitOutdatedKeeps == ASSUME IInv, CommitOutdated PROVE IInv'
<1>1. committing # <<>> /\ RefuseCommit /\ host' = host /\ Alike(host)
  BY HostAlike DEF CommitOutdated, IInv, Types, HostTypes
<1>. QED BY <1>1, RefuseCommitKeeps

LEMMA CommitHistoryReplayKeeps == ASSUME IInv, commit_history_replay PROVE IInv'
<1>. DEFINE commit == Head(committing)
            next == [commit EXCEPT !.step = "written"]
            h == [host EXCEPT !.durable = commit.value]
<1>1. committing # <<>> /\ committing \in Seq(Commit) /\ host \in Host
  BY DEF commit_history_replay, IInv, Types, HostTypes
<1>2. commit \in Commit
  BY <1>1, AfterTail
<1>3. next \in Commit /\ next.lease = commit.lease /\ next.epoch = commit.epoch
  BY <1>2 DEF Commit
<1>4. /\ Alike(host) /\ Alike(h) /\ h.flag = host.flag /\ h.saving = host.saving
      /\ h.claiming = host.claiming /\ h.posting = host.posting
  BY <1>1, <1>2 DEF Alike, Host, Commit
<1>5. \/ /\ committing' = <<next>> \o Tail(committing)
         /\ UNCHANGED pageVars /\ UNCHANGED <<lease, preparing, writes, toHost, toPage, count>>
         /\ host' = h
      \/ EndCommit("commitRefused") /\ host' = host
  BY DEF commit_history_replay, pageVars
<1>. HIDE DEF next, h
<1>. QED BY <1>1, <1>3, <1>4, <1>5, CommitMoves, EndCommitKeeps

LEMMA AnswerCommitKeeps == ASSUME IInv, AnswerCommit PROVE IInv'
<1>. DEFINE commit == Head(committing)
            h(overtaken) == [host EXCEPT !.known = host.durable, !.overtaken = overtaken]
<1>1. committing # <<>> /\ host \in Host
  BY DEF AnswerCommit, IInv, Types, HostTypes
<1>2. \E overtaken \in BOOLEAN :
         /\ host' = h(overtaken)
         /\ EndCommit("committed") \/ EndCommit("commitRefused") \/ RefuseCommit
  <2>. DEFINE heard == [host EXCEPT !.known = host.durable]
              either == host.overtaken \/ commit.epoch = host.epoch
              over == [heard EXCEPT !.overtaken = @ \/ commit.epoch = host.epoch]
  <2>1. /\ host' = heard \/ host' = over
        /\ EndCommit("committed") \/ EndCommit("commitRefused") \/ RefuseCommit
    BY DEF AnswerCommit
  <2>2. heard = h(host.overtaken) /\ over = h(either)
    BY <1>1 DEF Host
  <2>3. host.overtaken \in BOOLEAN /\ either \in BOOLEAN
    BY <1>1 DEF Host
  <2>. HIDE DEF heard, over, h, either
  <2>. QED BY <2>1, <2>2, <2>3
<1>3. PICK overtaken \in BOOLEAN :
         /\ host' = h(overtaken)
         /\ EndCommit("committed") \/ EndCommit("commitRefused") \/ RefuseCommit
  BY <1>2
<1>4. /\ Alike(h(overtaken)) /\ h(overtaken).flag = host.flag
      /\ h(overtaken).saving = host.saving
      /\ h(overtaken).claiming = host.claiming /\ h(overtaken).posting = host.posting
  BY <1>1 DEF Alike, Host
<1>. HIDE DEF h
<1>. QED BY <1>1, <1>3, <1>4, EndCommitKeeps, RefuseCommitKeeps

LEMMA HandleCommitKeeps == ASSUME IInv, HandleCommit PROVE IInv'
<1>. DEFINE asked == Head(toHost)
            commit == [lease |-> asked.lease, op |-> lease.op, value |-> asked.value,
                       awaits |-> Len(writes), epoch |-> host.epoch, step |-> "starting"]
            answer == [type |-> "commitRefused", lease |-> asked.lease]
            next == [lease EXCEPT !.state = "committing"]
<1>1. /\ Consumed /\ asked \in ToHost /\ asked.type = "commit"
      /\ Range(toHost) = Range(toHost') \cup {asked}
  BY HostTakes DEF IInv, Types, WireTypes, HandleCommit
<1>2. /\ host \in Host /\ toPage \in Seq(ToPage) /\ writes \in Seq(Write)
      /\ count \in Count /\ Len(writes) \in Nat /\ committing \in Seq(Commit) /\ lease \in Lease
  BY LenProperties DEF IInv, Types, HostTypes, WireTypes
<1>3. asked.lease \in Nat /\ asked.value \in Nat
  BY <1>1 DEF ToHost
<1>4. /\ answer \in ToPage /\ ~First(answer)
      /\ answer.type = "commitRefused" /\ answer.lease = asked.lease
  BY <1>3 DEF ToPage, First
<1>5. lease.state = "issued" =>
         /\ lease.op \in Op /\ next \in Lease /\ next.id = lease.id
         /\ next.state = "committing" /\ next.state # "none"
  BY <1>2 DEF Lease
<1>6. lease.state = "issued" =>
         commit \in Commit /\ commit.lease = asked.lease /\ commit.epoch = host.epoch
  BY <1>2, <1>3, <1>5 DEF Commit, Host
<1>7. /\ UNCHANGED <<page, slot, host, preparing, writes>>
      /\ UNCHANGED pageVars
      /\ \/ /\ lease.state = "issued" /\ lease.id = asked.lease
            /\ lease' = next /\ committing' = Append(committing, commit)
            /\ toPage' = toPage /\ count' = count
         \/ Post(host.epoch, answer) /\ lease' = lease /\ committing' = committing
  BY DEF HandleCommit, pageVars
<1>. HIDE DEF commit, answer, next
<1>8. CASE Post(host.epoch, answer) /\ lease' = lease /\ committing' = committing
  <2>1. /\ Posted({answer}) /\ Counted
        /\ ~count'.lost => answer \in Range(toPage')
    BY <1>2, <1>4, <1>8, PostEffect
  <2>2. Showing(host, {answer})
    BY <1>7, <2>1 DEF Showing
  <2>3. Owed'
    <3>1. \A message \in OnTheWay : message \in OnTheWay' \/ message = asked
      BY <1>1, <2>1 DEF OnTheWay, Posted
    <3>2. UNCHANGED <<preparing, committing, host>>
      BY <1>7, <1>8
    <3>3. ASSUME NEW id, CommitComing(id), ~count'.lost
          PROVE  CommitComing(id)'
      <4>1. CASE id = asked.lease
        BY <1>4, <2>1, <3>3, <4>1 DEF CommitComing, OnTheWay
      <4>2. CASE id # asked.lease
        BY <3>1, <3>2, <3>3, <4>2 DEF CommitComing
      <4>. QED BY <4>1, <4>2
    <3>4. /\ SessionComing => SessionComing'
          /\ DiscardComing => DiscardComing'
          /\ \A request : PrepareComing(request) => PrepareComing(request)'
      BY <1>1, <3>1, <3>2, SessionStays, DiscardStays, PrepareStays
    <3>. QED BY <1>7, <2>1, <3>3, <3>4, OwedStep DEF IInv
  <2>. QED BY <1>1, <1>2, <1>4, <1>7, <1>8, <2>1, <2>2, <2>3, HostAlike, QuietStep
<1>9. CASE /\ lease.state = "issued" /\ lease.id = asked.lease
           /\ lease' = next /\ committing' = Append(committing, commit)
           /\ toPage' = toPage /\ count' = count
  <2>1. /\ committing' \in Seq(Commit) /\ Len(committing') = Len(committing) + 1
        /\ committing'[Len(committing) + 1] = commit
        /\ Range(committing') = Range(committing) \cup {commit}
        /\ DOMAIN committing' = 1..(Len(committing) + 1) /\ Len(committing) \in Nat
    BY <1>2, <1>6, <1>9, AfterAppend, LenProperties
  <2>2. Types'
    BY <1>1, <1>5, <1>7, <1>9, <2>1
       DEF IInv, Types, PageTypes, HostTypes, WireTypes, Consumed
  <2>3. Exclusive'
    <3>1. live' => live
      BY <1>9 DEF live
    <3>. QED BY <1>7, <1>9, <3>1 DEF IInv, Exclusive
  <2>4. Spent'
    BY <1>5, <1>6, <1>9, <2>1 DEF Spent
  <2>5. Awaited'
    BY <1>7 DEF IInv, Awaited
  <2>6. Deliveries'
    BY <1>1, <1>7, <1>9 DEF IInv, Deliveries, Known, Consumed
  <2>7. Loading'
    BY <1>1, <1>7, <1>9 DEF IInv, Loading, Firsts, Consumed
  <2>8. Owed'
    <3>1. \A message \in OnTheWay : message \in OnTheWay' \/ message = asked
      BY <1>1, <1>9 DEF OnTheWay
    <3>2. ASSUME NEW id, CommitComing(id)
          PROVE  CommitComing(id)'
      <4>1. CASE id = asked.lease
        BY <1>6, <1>7, <1>9, <2>1, <4>1 DEF CommitComing
      <4>2. CASE id # asked.lease
        BY <1>7, <2>1, <3>1, <3>2, <4>2 DEF CommitComing
      <4>. QED BY <4>1, <4>2
    <3>3. UNCHANGED <<preparing, host>>
      BY <1>7
    <3>4. /\ SessionComing => SessionComing'
          /\ DiscardComing => DiscardComing'
          /\ \A request : PrepareComing(request) => PrepareComing(request)'
      BY <1>1, <3>1, <3>3, SessionStays, DiscardStays, PrepareStays
    <3>5. Counted
      BY <1>2, <1>9, CountedSame
    <3>. QED BY <1>7, <3>2, <3>4, <3>5, OwedStep DEF IInv
  <2>. QED BY <2>2, <2>3, <2>4, <2>5, <2>6, <2>7, <2>8 DEF IInv
<1>. QED BY <1>7, <1>8, <1>9

-----------------------------------------------------------------------------
(* Edits that become durable, snapshots, and loads of the page *)

\* One edit less to wait for.
ahead(op) == [op EXCEPT !.awaits = IF @ = 0 THEN 0 ELSE @ - 1]

LEMMA AheadKeeps ==
    /\ \A op \in Op : /\ ahead(op) \in Op
                      /\ ahead(op).request = op.request /\ ahead(op).epoch = op.epoch
                      /\ ahead(op).awaits = IF op.awaits = 0 THEN 0 ELSE op.awaits - 1
    /\ \A commit \in Commit : /\ ahead(commit) \in Commit
                              /\ ahead(commit).lease = commit.lease
                              /\ ahead(commit).epoch = commit.epoch
<1>1. \A n \in Nat : (IF n = 0 THEN 0 ELSE n - 1) \in Nat
  OBVIOUS
<1>2. ASSUME NEW op \in Op
      PROVE  /\ ahead(op) \in Op
             /\ ahead(op).request = op.request /\ ahead(op).epoch = op.epoch
             /\ ahead(op).awaits = IF op.awaits = 0 THEN 0 ELSE op.awaits - 1
  BY <1>1 DEF ahead, Op
<1>3. ASSUME NEW commit \in Commit
      PROVE  /\ ahead(commit) \in Commit
             /\ ahead(commit).lease = commit.lease
             /\ ahead(commit).epoch = commit.epoch
  BY <1>1 DEF ahead, Commit
<1>. QED BY <1>2, <1>3

\* A write lands, and h is shown.
Lands(h, messages) ==
    /\ writes # <<>> /\ writes' = Tail(writes)
    /\ preparing' = {ahead(op) : op \in preparing}
    /\ committing' = [i \in DOMAIN committing |-> ahead(committing[i])]
    /\ UNCHANGED pageVars /\ UNCHANGED <<lease, toHost>>
    /\ Counted
    /\ Alike(h) /\ h.flag = host.flag /\ h.saving = host.saving
    /\ h.claiming = host.claiming /\ h.posting = host.posting
    /\ \A message \in messages : message.type # "snapshot"
    /\ Showing(h, messages)

LEMMA LandsKeeps ==
    ASSUME IInv, NEW h, NEW messages, Lands(h, messages)
    PROVE  IInv'
<1>. USE DEF Lands
<1>1. /\ toHost \in Seq(ToHost) /\ Consumed /\ preparing \subseteq Op
      /\ committing \in Seq(Commit) /\ writes \in Seq(Write)
  BY HostTakesNone DEF IInv, Types, WireTypes, HostTypes
<1>2. /\ PageTypes' /\ WireTypes' /\ count' \in Count /\ Agrees(h)
      /\ Deliveries' /\ Loading'
  BY <1>1, HostStep DEF IInv
<1>3. /\ writes' \in Seq(Write) /\ Len(writes) \in Nat \ {0} /\ Len(writes') = Len(writes) - 1
  BY <1>1, AfterTail
<1>4. preparing' \subseteq Op
  BY <1>1, AheadKeeps
<1>5. /\ committing' \in Seq(Commit)
      /\ DOMAIN committing' = DOMAIN committing
      /\ \A i \in DOMAIN committing : /\ committing'[i].lease = committing[i].lease
                                      /\ committing'[i].epoch = committing[i].epoch
  <2>1. /\ DOMAIN committing = 1..Len(committing) /\ Len(committing) \in Nat
        /\ \A i \in 1..Len(committing) : committing[i] \in Commit
    BY <1>1, LenProperties, ElementOfSeq
  <2>2. committing' \in [1..Len(committing) -> Commit]
    BY <2>1, AheadKeeps
  <2>3. committing' \in Seq(Commit)
    BY <2>1, <2>2, SeqDef
  <2>. QED BY <2>1, <2>3, AheadKeeps
<1>6. Types'
  BY <1>2, <1>3, <1>4, <1>5 DEF IInv, Types, HostTypes, Agrees
<1>7. Exclusive'
  <2>1. /\ host'.epoch = host.epoch /\ host'.flag = host.flag /\ host'.saving = host.saving
        /\ host'.posting = host.posting /\ live' = live
    BY <1>2 DEF Agrees, Alike, live
  <2>2. \A op \in preparing' : \E old \in preparing : op = ahead(old) /\ op.epoch = old.epoch
    BY <1>1, AheadKeeps
  <2>3. \A op \in preparing' : op.epoch <= host'.epoch
    BY <2>1, <2>2 DEF IInv, Exclusive
  <2>4. ASSUME ~count'.overlap
        PROVE  /\ \A a, b \in preparing' : a = b
               /\ preparing' = {} \/ host'.posting = {}
               /\ \A a \in preparing' : a.epoch = host'.epoch => host'.flag
               /\ host'.saving => ~host'.flag /\ ~live'
    BY <2>1, <2>2, <2>4 DEF IInv, Exclusive, Counted
  <2>. QED BY <2>3, <2>4 DEF Exclusive
<1>8. Spent'
  BY <1>5 DEF IInv, Spent
<1>9. Awaited'
  <2>1. ASSUME NEW op \in preparing
        PROVE  ahead(op).awaits <= Len(writes')
    <3>1. op.awaits \in Nat /\ op.awaits <= Len(writes)
      BY <1>1 DEF IInv, Awaited, Op
    <3>2. ahead(op).awaits = IF op.awaits = 0 THEN 0 ELSE op.awaits - 1
      BY <1>1, AheadKeeps
    <3>. QED BY <1>3, <3>1, <3>2
  <2>. QED BY <2>1 DEF Awaited
<1>10. Owed'
  <2>1. /\ Range(toPage) \subseteq Range(toPage') /\ host'.epoch = host.epoch
        /\ host'.claiming = host.claiming
    BY ShowingKeeps
  <2>2. \A message \in OnTheWay : message \in OnTheWay'
    BY <2>1 DEF OnTheWay
  <2>3. \A op \in preparing : \E next \in preparing' :
           next.request = op.request /\ next.epoch = op.epoch
    BY <1>1, AheadKeeps
  <2>4. \A commit \in Range(committing) : \E next \in Range(committing') :
           next.lease = commit.lease /\ next.epoch = commit.epoch
    BY <1>5 DEF Range
  <2>. QED BY <2>1, <2>2, <2>3, <2>4, OwedKept DEF IInv
<1>. QED BY <1>2, <1>6, <1>7, <1>8, <1>9, <1>10 DEF IInv

LEMMA WriteLandsKeeps == ASSUME IInv, WriteLands PROVE IInv'
<1>. DEFINE write == Head(writes)
            h == stored(write.value)
            answer == [type |-> "acknowledged", sequence |-> write.sequence]
<1>1. /\ host \in Host /\ toPage \in Seq(ToPage) /\ writes \in Seq(Write)
      /\ count \in Count /\ writes # <<>>
  BY DEF IInv, Types, HostTypes, WireTypes, WriteLands
<1>2. write \in Write
  BY <1>1, AfterTail
<1>3. /\ Alike(h) /\ h.flag = host.flag /\ h.saving = host.saving
      /\ h.claiming = host.claiming /\ h.posting = host.posting
  BY <1>1, <1>2, StoredAlike DEF Write
<1>4. answer \in ToPage /\ ~First(answer) /\ answer.type = "acknowledged"
  BY <1>2 DEF ToPage, First, Write
<1>5. /\ writes' = Tail(writes)
      /\ preparing' = {ahead(op) : op \in preparing}
      /\ committing' = [i \in DOMAIN committing |-> ahead(committing[i])]
      /\ UNCHANGED pageVars /\ UNCHANGED <<lease, toHost>>
  BY DEF WriteLands, ahead, pageVars
<1>6. \/ Deliver(h, <<answer>>)
      \/ Deliver(h, <<>>)
      \/ host' = host /\ toPage' = toPage /\ count' = count
  BY DEF WriteLands, For
<1>. HIDE DEF h, answer
<1>7. CASE Deliver(h, <<answer>>)
  <2>1. Showing(h, {answer}) /\ Counted
    BY <1>1, <1>3, <1>4, <1>7, DeliverOne DEF Alike
  <2>2. Lands(h, {answer})
    BY <1>1, <1>3, <1>4, <1>5, <2>1 DEF Lands
  <2>. QED BY <2>2, LandsKeeps
<1>8. CASE Deliver(h, <<>>)
  <2>1. Showing(h, {}) /\ Counted
    BY <1>1, <1>3, <1>8, DeliverNothing DEF Alike
  <2>2. Lands(h, {})
    BY <1>1, <1>3, <1>5, <2>1 DEF Lands
  <2>. QED BY <2>2, LandsKeeps
<1>9. CASE host' = host /\ toPage' = toPage /\ count' = count
  <2>1. Showing(host, {}) /\ Counted /\ Alike(host)
    BY <1>1, <1>9, PostedNothing, CountedSame, HostAlike DEF Showing
  <2>2. Lands(host, {})
    BY <1>1, <1>5, <2>1 DEF Lands
  <2>. QED BY <2>2, LandsKeeps
<1>. QED BY <1>6, <1>7, <1>8, <1>9

LEMMA PostSnapshotKeeps == ASSUME IInv, PostSnapshot PROVE IInv'
<1>1. /\ host \in Host /\ toPage \in Seq(ToPage) /\ toHost \in Seq(ToHost) /\ count \in Count
  BY DEF IInv, Types, HostTypes, WireTypes
<1>2. /\ UNCHANGED <<page, slot, lease, preparing, committing, writes, toHost, count>>
      /\ UNCHANGED pageVars
      /\ host' = [host EXCEPT !.posted = TRUE] /\ toPage' = Append(toPage, Snapshot(host))
  BY DEF PostSnapshot, pageVars
<1>3. /\ host' \in Host /\ host'.epoch = host.epoch /\ host'.flag = host.flag
      /\ host'.saving = host.saving /\ host'.readying = host.readying
      /\ host'.claiming = host.claiming /\ host'.posting = host.posting
      /\ host'.delivery = host.delivery /\ host'.posted = TRUE
  BY <1>1, <1>2 DEF Host
<1>4. Posted({Snapshot(host)}) /\ Snapshot(host).delivery = host.delivery
  BY <1>1, <1>2, SnapshotType, LongerByOne
<1>5. Types'
  BY <1>2, <1>3, <1>4 DEF IInv, Types, PageTypes, HostTypes, WireTypes, Posted
<1>6. Exclusive'
  BY <1>2, <1>3 DEF IInv, Exclusive, live
<1>7. Spent' /\ Awaited'
  BY <1>2 DEF IInv, Spent, Awaited
<1>8. Deliveries'
  <2>1. host.delivery \in Nat
    BY <1>1 DEF Host
  <2>. QED BY <1>2, <1>3, <1>4, <2>1 DEF IInv, Deliveries, Known, Posted
<1>9. Loading'
  BY <1>2, <1>3, <1>4 DEF IInv, Loading, Announcements, Posted
<1>10. Owed'
  <2>1. Counted /\ (\A message \in OnTheWay : message \in OnTheWay')
    BY <1>1, <1>2, <1>4, CountedSame DEF OnTheWay, Posted
  <2>. QED BY <1>2, <1>3, <2>1, OwedKept DEF IInv
<1>. QED BY <1>5, <1>6, <1>7, <1>8, <1>9, <1>10 DEF IInv

LEMMA HandleAppliedKeeps == ASSUME IInv, HandleApplied PROVE IInv'
<1>. DEFINE asked == Head(toHost)
            acked == host.acked \/ asked.delivery = host.delivery
<1>1. /\ Consumed /\ asked \in ToHost /\ asked.type = "applied"
      /\ asked \in Range(toHost)
      /\ Range(toHost) = Range(toHost') \cup {asked}
  BY HostTakes DEF IInv, Types, WireTypes, HandleApplied
<1>2. /\ host \in Host /\ toPage \in Seq(ToPage) /\ count \in Count
  BY DEF IInv, Types, HostTypes, WireTypes
<1>3. /\ UNCHANGED <<page, slot, lease, preparing, committing, writes, toPage, count>>
      /\ UNCHANGED pageVars
      /\ host' = [host EXCEPT !.acked = acked]
  BY DEF HandleApplied, pageVars
<1>4. acked => host.posted
  BY <1>1 DEF IInv, Deliveries, Known
<1>5. acked \in BOOLEAN
  OBVIOUS
<1>. HIDE DEF acked
<1>6. /\ host' \in Host /\ host'.epoch = host.epoch /\ host'.flag = host.flag
      /\ host'.saving = host.saving /\ host'.readying = host.readying
      /\ host'.claiming = host.claiming /\ host'.posting = host.posting
      /\ host'.delivery = host.delivery /\ host'.posted = host.posted /\ host'.acked = acked
  BY <1>2, <1>3, <1>5 DEF Host
<1>7. Types'
  BY <1>1, <1>3, <1>6 DEF IInv, Types, PageTypes, HostTypes, WireTypes, Consumed
<1>8. Exclusive'
  BY <1>3, <1>6 DEF IInv, Exclusive, live
<1>9. Spent' /\ Awaited'
  BY <1>3 DEF IInv, Spent, Awaited
<1>10. Deliveries'
  BY <1>1, <1>3, <1>4, <1>6 DEF IInv, Deliveries, Known, Consumed
<1>11. Loading'
  BY <1>1, <1>3, <1>6 DEF IInv, Loading, Firsts, Consumed
<1>12. Owed'
  <2>1. Counted /\ (\A message \in OnTheWay : message \in OnTheWay' \/ message.type \in Unasked)
    BY <1>1, <1>2, <1>3, CountedSame DEF OnTheWay, Unasked
  <2>. QED BY <1>3, <1>6, <2>1, OwedKept DEF IInv
<1>. QED BY <1>7, <1>8, <1>9, <1>10, <1>11, <1>12 DEF IInv

LEMMA HandleReadyKeeps == ASSUME IInv, HandleReady PROVE IInv'
<1>1. /\ Consumed /\ Announcements' = {} /\ Announcements # {}
      /\ Range(toHost') \subseteq Range(toHost)
  BY HostTakes DEF IInv, Types, WireTypes, HandleReady, Consumed
<1>2. /\ host \in Host /\ toPage \in Seq(ToPage) /\ toHost \in Seq(ToHost)
      /\ preparing \subseteq Op
  BY DEF IInv, Types, HostTypes, WireTypes
<1>3. /\ UNCHANGED <<page, slot, preparing, committing, writes, toPage, count>>
      /\ lease' = NoLease
      /\ host' = [host EXCEPT !.epoch = @ + 1, !.flag = FALSE, !.claiming = FALSE,
                              !.readying = TRUE, !.overtaken = FALSE,
                              !.delivery = @ + 1, !.posted = TRUE, !.acked = FALSE]
  BY DEF HandleReady, pageVars
<1>4. /\ host' \in Host /\ host'.epoch = host.epoch + 1 /\ host'.flag = FALSE
      /\ host'.saving = host.saving /\ host'.readying = TRUE
      /\ host'.delivery = host.delivery + 1 /\ host'.posted = TRUE /\ host'.acked = FALSE
      /\ host'.posting = host.posting
  <2>1. ASSUME NEW m \in Nat, NEW n \in Nat,
               host' = [host EXCEPT !.epoch = m, !.flag = FALSE, !.claiming = FALSE,
                                    !.readying = TRUE, !.overtaken = FALSE,
                                    !.delivery = n, !.posted = TRUE, !.acked = FALSE]
        PROVE  /\ host' \in Host /\ host'.epoch = m /\ host'.flag = FALSE
               /\ host'.saving = host.saving /\ host'.readying = TRUE
               /\ host'.delivery = n /\ host'.posted = TRUE /\ host'.acked = FALSE
               /\ host'.posting = host.posting
    BY <1>2, <2>1 DEF Host
  <2>2. host.epoch + 1 \in Nat /\ host.delivery + 1 \in Nat
    BY <1>2 DEF Host
  <2>. QED BY <1>3, <2>1, <2>2
<1>5. host.epoch \in Nat /\ host.delivery \in Nat /\ \A op \in preparing : op.epoch \in Nat
  BY <1>2 DEF Host, Op
<1>6. Types'
  BY <1>1, <1>3, <1>4
     DEF IInv, Types, PageTypes, HostTypes, WireTypes, Consumed, NoLease, Lease
<1>7. Exclusive'
  <2>1. \A op \in preparing : op.epoch <= host.epoch + 1 /\ op.epoch # host.epoch + 1
    BY <1>5 DEF IInv, Exclusive
  <2>2. ~live'
    BY <1>3 DEF live, NoLease
  <2>. QED BY <1>3, <1>4, <2>1, <2>2 DEF IInv, Exclusive
<1>8. Spent' /\ Awaited'
  BY <1>3 DEF IInv, Spent, Awaited, NoLease
<1>9. Deliveries'
  <2>1. \A message \in Range(toPage) : message.type = "snapshot" => message.delivery \in Nat
    <3>1. \A message \in ToPage : message.type = "snapshot" => message.delivery \in Nat
      BY DEF ToPage
    <3>. QED BY <1>2, <3>1, RangeSeq
  <2>2. \A message \in Range(toHost) : message.type = "applied" => message.delivery \in Nat
    <3>1. \A message \in ToHost : message.type = "applied" => message.delivery \in Nat
      BY DEF ToHost
    <3>. QED BY <1>2, <3>1, RangeSeq
  <2>3. /\ \A message \in Range(toPage) :
              message.type = "snapshot" => message.delivery <= host.delivery + 1
        /\ \A message \in Range(toHost) :
              message.type = "applied" => message.delivery <= host.delivery + 1
    BY <1>5, <2>1, <2>2 DEF IInv, Deliveries, Known
  <2>. QED BY <1>1, <1>3, <1>4, <2>3 DEF Deliveries, Known
<1>10. Loading'
  BY <1>1, <1>3 DEF IInv, Loading, Firsts
<1>11. Owed'
  <2>1. slot = Idle /\ page.session = "none"
    BY <1>1 DEF IInv, Loading
  <2>. QED BY <1>3, <2>1 DEF Owed, Idle
<1>. QED BY <1>6, <1>7, <1>8, <1>9, <1>10, <1>11 DEF IInv

LEMMA CompleteReadyKeeps == ASSUME IInv, CompleteReady PROVE IInv'
<1>. DEFINE first == [type |-> "snapshot", initial |-> TRUE, delivery |-> host.delivery,
                      cell |-> host.durable, session |-> host.session # 0]
<1>1. /\ host \in Host /\ toPage \in Seq(ToPage) /\ toHost \in Seq(ToHost)
  BY DEF IInv, Types, HostTypes, WireTypes
<1>2. /\ UNCHANGED <<page, slot, lease, preparing, committing, writes, toHost, count>>
      /\ host.readying
      /\ host' = [host EXCEPT !.readying = FALSE, !.known = host.durable]
      /\ toPage' = Append(toPage, first)
  BY DEF CompleteReady, pageVars
<1>3. /\ host' \in Host /\ host'.epoch = host.epoch /\ host'.flag = host.flag
      /\ host'.saving = host.saving /\ host'.readying = FALSE
      /\ host'.claiming = host.claiming /\ host'.posting = host.posting
      /\ host'.delivery = host.delivery /\ host'.posted = host.posted
      /\ host'.acked = host.acked
  BY <1>1, <1>2 DEF Host
<1>4. /\ first \in ToPage /\ first.delivery = host.delivery
  <2>1. (host.session # 0) \in BOOLEAN
    OBVIOUS
  <2>2. ASSUME NEW b \in BOOLEAN
        PROVE  [type |-> "snapshot", initial |-> TRUE, delivery |-> host.delivery,
                cell |-> host.durable, session |-> b] \in ToPage
    BY <1>1 DEF ToPage, Host
  <2>. QED BY <2>1, <2>2
<1>. HIDE DEF first
<1>5. /\ toPage' \in Seq(ToPage) /\ Len(toPage') = Len(toPage) + 1
      /\ \A i \in 1..Len(toPage) : toPage'[i] = toPage[i]
      /\ Range(toPage') = Range(toPage) \cup {first}
      /\ DOMAIN toPage = 1..Len(toPage) /\ DOMAIN toPage' = 1..(Len(toPage) + 1)
      /\ Len(toPage) \in Nat
  BY <1>1, <1>2, <1>4, AfterAppend, LenProperties
<1>6. Types'
  BY <1>2, <1>3, <1>5 DEF IInv, Types, PageTypes, HostTypes, WireTypes
<1>7. Exclusive'
  BY <1>2, <1>3 DEF IInv, Exclusive, live
<1>8. Spent' /\ Awaited'
  BY <1>2 DEF IInv, Spent, Awaited
<1>9. Deliveries'
  <2>1. host.delivery \in Nat /\ host.posted
    BY <1>1, <1>2 DEF Host, IInv, Deliveries
  <2>. QED BY <1>2, <1>3, <1>4, <1>5, <2>1 DEF IInv, Deliveries, Known
<1>10. Loading'
  <2>1. Firsts = {} /\ ~page.up /\ Announcements = {}
    BY <1>2 DEF IInv, Loading
  <2>2. Firsts' \subseteq {Len(toPage) + 1}
    <3>1. ASSUME NEW i \in 1..Len(toPage)
          PROVE  ~First(toPage'[i])
      BY <1>5, <2>1 DEF Firsts
    <3>. QED BY <1>5, <3>1 DEF Firsts
  <2>3. Announcements' = {}
    BY <1>2, <2>1 DEF Announcements
  <2>. QED BY <1>2, <1>3, <2>1, <2>2, <2>3 DEF IInv, Loading
<1>11. Owed'
  <2>1. slot = Idle /\ page.session = "none"
    BY <1>2 DEF IInv, Loading
  <2>. QED BY <1>2, <2>1 DEF Owed, Idle
<1>. QED BY <1>6, <1>7, <1>8, <1>9, <1>10, <1>11 DEF IInv

-----------------------------------------------------------------------------
(* What the steps of the page have in common *)

\* The page sends messages of a set, none of which announces a load.
Sends(messages) ==
    /\ toHost' \in Seq(ToHost)
    /\ Range(toHost) \subseteq Range(toHost')
    /\ Range(toHost') \subseteq Range(toHost) \cup messages
    /\ Announcements = {} => Announcements' = {}

\* It takes the next message, or none.
Received ==
    /\ toPage' \in Seq(ToPage)
    /\ Range(toPage') \subseteq Range(toPage)
    /\ \A i, j \in Firsts' : i = j
    /\ Firsts = {} => Firsts' = {}

LEMMA SendsMany ==
    ASSUME toHost \in Seq(ToHost), NEW t \in Seq(ToHost), toHost' = toHost \o t,
           NEW messages, Range(t) \subseteq messages,
           \A message \in Range(t) : message.type # "ready"
    PROVE  Sends(messages) /\ Range(t) \subseteq Range(toHost')
<1>1. /\ toHost' \in Seq(ToHost)
      /\ Range(toHost') = Range(toHost) \cup Range(t)
  BY AfterConcat
<1>2. Announcements = {} => Announcements' = {}
  <2>1. SUFFICES ASSUME Announcements = {}, NEW i \in DOMAIN toHost', toHost'[i].type = "ready"
                 PROVE  FALSE
    BY DEF Announcements
  <2>2. toHost'[i] \in Range(toHost) \cup Range(t)
    BY <1>1 DEF Range
  <2>3. toHost'[i] \in Range(toHost)
    BY <2>1, <2>2
  <2>4. PICK j \in DOMAIN toHost : toHost'[i] = toHost[j]
    BY <2>3 DEF Range
  <2>. QED BY <2>1, <2>4 DEF Announcements
<1>3. Range(toHost') = Range(toHost) \cup Range(t)
  BY <1>1
<1>. QED BY <1>1, <1>2, <1>3 DEF Sends

LEMMA SendsOne ==
    ASSUME toHost \in Seq(ToHost), NEW message \in ToHost, message.type # "ready",
           Send(message)
    PROVE  Sends({message}) /\ message \in Range(toHost')
<1>1. toHost' = toHost \o <<message>>
  BY AppendIsConcat DEF Send
<1>2. <<message>> \in Seq(ToHost) /\ Range(<<message>>) = {message}
  BY SingletonSeq
<1>3. ASSUME NEW t \in Seq(ToHost), Range(t) = {message}, toHost' = toHost \o t
      PROVE  Sends({message}) /\ message \in Range(toHost')
  BY <1>3, SendsMany
<1>. QED BY <1>1, <1>2, <1>3

LEMMA SendsNothing ==
    ASSUME toHost \in Seq(ToHost), UNCHANGED toHost
    PROVE  Sends({})
<1>. QED BY DEF Sends, Announcements

LEMMA PageTakes ==
    ASSUME toPage \in Seq(ToPage), Loading, NEW type, AtPage(type)
    PROVE  /\ Received
           /\ Head(toPage) \in ToPage /\ Head(toPage).type = type
           /\ Head(toPage) \in Range(toPage)
           /\ Range(toPage) = Range(toPage') \cup {Head(toPage)}
           /\ First(Head(toPage)) => Firsts # {} /\ Firsts' = {}
<1>1. toPage # <<>> /\ Head(toPage).type = type /\ toPage' = Tail(toPage)
  BY DEF AtPage
<1>2. /\ Head(toPage) \in ToPage /\ toPage' \in Seq(ToPage)
      /\ Len(toPage) \in Nat \ {0} /\ Len(toPage') = Len(toPage) - 1
      /\ \A i \in 1..Len(toPage') : toPage'[i] = toPage[i + 1]
      /\ Head(toPage) = toPage[1]
      /\ Range(toPage) = Range(toPage') \cup {Head(toPage)}
  BY <1>1, AfterTail
<1>3. DOMAIN toPage = 1..Len(toPage) /\ DOMAIN toPage' = 1..Len(toPage')
  BY <1>2, LenProperties
<1>4. ASSUME NEW i \in Firsts'
      PROVE  i \in Nat /\ i \in 1..Len(toPage') /\ i + 1 \in Firsts
  <2>1. i \in 1..Len(toPage') /\ First(toPage'[i])
    BY <1>3 DEF Firsts
  <2>2. i + 1 \in 1..Len(toPage) /\ toPage'[i] = toPage[i + 1]
    BY <1>2, <2>1
  <2>. QED BY <1>3, <2>1, <2>2 DEF Firsts
<1>5. \A i, j \in Firsts' : i = j
  <2>1. SUFFICES ASSUME NEW i \in Firsts', NEW j \in Firsts' PROVE i = j
    OBVIOUS
  <2>2. i + 1 = j + 1 /\ i \in Nat /\ j \in Nat
    BY <1>4 DEF Loading
  <2>. QED BY <2>2
<1>6. Firsts = {} => Firsts' = {}
  BY <1>4
<1>7. ASSUME First(Head(toPage))
      PROVE  Firsts # {} /\ Firsts' = {}
  <2>1. 1 \in Firsts
    BY <1>2, <1>3, <1>7 DEF Firsts
  <2>2. ASSUME NEW i \in Firsts' PROVE FALSE
    <3>1. i + 1 = 1 /\ i \in 1..Len(toPage')
      BY <1>4, <2>1 DEF Loading
    <3>. QED BY <3>1, <1>2
  <2>. QED BY <2>1, <2>2
<1>. QED BY <1>1, <1>2, <1>5, <1>6, <1>7 DEF Received

LEMMA PageTakesNone ==
    ASSUME toPage \in Seq(ToPage), Loading, UNCHANGED toPage
    PROVE  Received
<1>. QED BY DEF Received, Firsts, Loading

\* A step of a page that is there afterwards, and was not waiting for its first snapshot
\* or has just taken it.
LEMMA PageStep ==
    ASSUME IInv, UNCHANGED hostVars, PageTypes', Counted, Received,
           NEW messages, Sends(messages),
           \A message \in messages : message.type = "applied" => Known(message.delivery),
           page'.up, page.up \/ (Firsts # {} /\ Firsts' = {}),
           Owed'
    PROVE  IInv'
<1>1. Types'
  BY DEF IInv, Types, HostTypes, WireTypes, hostVars, Counted, Received, Sends
<1>2. Exclusive' /\ Spent' /\ Awaited'
  BY DEF IInv, Exclusive, Spent, Awaited, hostVars, Counted, live
<1>3. Deliveries'
  BY DEF IInv, Deliveries, Known, hostVars, Received, Sends
<1>4. Loading'
  <2>1. Announcements = {} /\ ~host.readying
    BY DEF IInv, Loading
  <2>2. Firsts' = {} /\ Announcements' = {}
    BY <2>1 DEF IInv, Loading, Received, Sends
  <2>. QED BY <2>1, <2>2 DEF Loading, hostVars
<1>. QED BY <1>1, <1>2, <1>3, <1>4 DEF IInv

\* What the page waits for after a step that takes one message, or none.
LEMMA PageOwed ==
    ASSUME IInv, UNCHANGED hostVars, Counted,
           NEW taken, taken.type \notin {"session", "discard", "discarded", "prepare", "commit"}
                      \/ taken \in ToPage,
           \A message \in OnTheWay : message \in OnTheWay' \/ message = taken,
           page'.session = "requested" =>
              SessionComing' \/ (page.session = "requested" /\ taken.type # "session"),
           page'.session = "discarding" =>
              DiscardComing' \/ (page.session = "discarding" /\ taken.type # "discarded"),
           slot'.phase = "preparing" =>
              \/ PrepareComing(slot.request)'
              \/ /\ slot' = slot
                 /\ ~(taken.type \in {"prepared", "prepareRefused"} /\ taken.request = slot.request),
           slot'.phase = "committing" =>
              \/ CommitComing(slot.lease)'
              \/ /\ slot' = slot
                 /\ ~(taken.type \in {"committed", "commitRefused"} /\ taken.lease = slot.lease)
    PROVE  Owed'
<1>. SUFFICES ASSUME ~count'.lost
              PROVE  /\ page'.session = "requested" => SessionComing'
                     /\ page'.session = "discarding" => DiscardComing'
                     /\ slot'.phase = "preparing" => PrepareComing(slot.request)'
                     /\ slot'.phase = "committing" => CommitComing(slot.lease)'
  BY DEF Owed
<1>1. ~count.lost
  BY DEF Counted
<1>2. host' = host /\ preparing' = preparing /\ committing' = committing
  BY DEF hostVars
<1>3. taken.type \notin {"discard", "prepare", "commit"}
  BY DEF ToPage
<1>4. page'.session = "requested" => SessionComing'
  BY <1>1, <1>2 DEF IInv, Owed, SessionComing
<1>5. page'.session = "discarding" => DiscardComing'
  BY <1>1, <1>3 DEF IInv, Owed, DiscardComing
<1>6. ASSUME slot' = slot, slot.phase = "preparing",
             ~(taken.type \in {"prepared", "prepareRefused"} /\ taken.request = slot.request)
      PROVE  PrepareComing(slot.request)'
  BY <1>1, <1>2, <1>3, <1>6 DEF IInv, Owed, PrepareComing
<1>7. ASSUME slot' = slot, slot.phase = "committing",
             ~(taken.type \in {"committed", "commitRefused"} /\ taken.lease = slot.lease)
      PROVE  CommitComing(slot.lease)'
  BY <1>1, <1>2, <1>3, <1>7 DEF IInv, Owed, CommitComing
<1>. QED BY <1>4, <1>5, <1>6, <1>7

\* Taken by a step that takes nothing.
NoMessage == [type |-> "saved"]

LEMMA NoMessageType == NoMessage.type = "saved"
<1>. QED BY DEF NoMessage

LEMMA PublishType ==
    ASSUME NEW w \in Page
    PROVE  /\ publish(w) \in Page /\ publish(w).up = w.up /\ publish(w).session = w.session
           /\ publish(w).undo = w.undo /\ publish(w).redo = w.redo
           /\ Edits(publish(w)) \in ToHost /\ Edits(publish(w)).type = "edits"
<1>1. ASSUME NEW n \in Nat, NEW v \in Page,
             v = [w EXCEPT !.published = w.cell, !.sequence = n, !.acknowledged = FALSE]
      PROVE  /\ v.up = w.up /\ v.session = w.session /\ v.undo = w.undo /\ v.redo = w.redo
             /\ Edits(v) \in ToHost /\ Edits(v).type = "edits"
  BY <1>1 DEF Page, Edits, ToHost
<1>2. ASSUME NEW n \in Nat
      PROVE  [w EXCEPT !.published = w.cell, !.sequence = n, !.acknowledged = FALSE] \in Page
  BY DEF Page
<1>3. w.sequence + 1 \in Nat
  BY DEF Page
<1>. QED BY <1>1, <1>2, <1>3 DEF publish

LEMMA ShowEffect ==
    ASSUME toHost \in Seq(ToHost), NEW w \in Page, NEW messages \in Seq(ToHost),
           \A message \in Range(messages) : message.type # "ready",
           Show(w, messages)
    PROVE  /\ page' \in Page /\ page'.up = w.up /\ page'.session = w.session
           /\ page'.undo = w.undo /\ page'.redo = w.redo
           /\ Sends(Range(messages) \cup {Edits(publish(w))})
<1>1. CASE page' = w /\ toHost' = toHost \o messages
  BY <1>1, SendsMany
<1>2. CASE page' = publish(w) /\ toHost' = toHost \o messages \o <<Edits(publish(w))>>
  <2>. DEFINE edits == Edits(publish(w))
  <2>1. /\ <<edits>> \in Seq(ToHost) /\ Range(<<edits>>) = {edits}
        /\ edits.type = "edits"
    BY PublishType, SingletonSeq
  <2>2. ASSUME NEW last \in Seq(ToHost), Range(last) = {edits},
               toHost' = toHost \o messages \o last
        PROVE  Sends(Range(messages) \cup {edits})
    <3>1. /\ messages \o last \in Seq(ToHost)
          /\ Range(messages \o last) = Range(messages) \cup Range(last)
          /\ toHost' = toHost \o (messages \o last)
      <4>1. messages \o last \in Seq(ToHost)
        BY <2>2, AfterConcat
      <4>2. Range(messages \o last) = Range(messages) \cup Range(last)
        BY <2>2, RangeConcatenation
      <4>3. toHost' = toHost \o (messages \o last)
        BY <2>2, ConcatAssociative
      <4>. QED BY <4>1, <4>2, <4>3
    <3>2. ASSUME NEW t \in Seq(ToHost), Range(t) = Range(messages) \cup {edits},
                 toHost' = toHost \o t
          PROVE  Sends(Range(messages) \cup {edits})
      BY <2>1, <3>2, SendsMany
    <3>. QED BY <2>2, <3>1, <3>2
  <2>3. Sends(Range(messages) \cup {edits})
    BY <1>2, <2>1, <2>2
  <2>. QED BY <1>2, <2>3, PublishType
<1>. QED BY <1>1, <1>2 DEF Show

LEMMA ShowNothingElse ==
    ASSUME toHost \in Seq(ToHost), NEW w \in Page, Show(w, <<>>)
    PROVE  /\ page' \in Page /\ page'.up = w.up /\ page'.session = w.session
           /\ page'.undo = w.undo /\ page'.redo = w.redo
           /\ Sends({Edits(publish(w))}) /\ Edits(publish(w)).type = "edits"
<1>1. <<>> \in Seq(ToHost) /\ Range(<<>>) = {}
  BY EmptySeq DEF Range
<1>2. ASSUME NEW messages \in Seq(ToHost), Range(messages) = {}, Show(w, messages)
      PROVE  /\ page' \in Page /\ page'.up = w.up /\ page'.session = w.session
             /\ page'.undo = w.undo /\ page'.redo = w.redo
             /\ Sends({Edits(publish(w))})
  <2>1. /\ page' \in Page /\ page'.up = w.up /\ page'.session = w.session
        /\ page'.undo = w.undo /\ page'.redo = w.redo
        /\ Sends(Range(messages) \cup {Edits(publish(w))})
    BY <1>2, ShowEffect
  <2>. QED BY <1>2, <2>1 DEF Sends
<1>. QED BY <1>1, <1>2, PublishType

-----------------------------------------------------------------------------
(* The steps of the page *)

LEMMA StackTypes ==
    ASSUME NEW w \in Page, NEW direction \in Directions
    PROVE  /\ stack_for(w, direction) \in Seq(Entry)
           /\ stack_for(w, direction) # <<>> => Last(stack_for(w, direction)) \in Entry
<1>1. stack_for(w, direction) \in Seq(Entry)
  BY DEF Page, stack_for
<1>2. ASSUME NEW s \in Seq(Entry), s # <<>>
      PROVE  Last(s) \in Entry
  <2>1. Len(s) \in 1..Len(s)
    BY <1>2, EmptySeq
  <2>. QED BY <2>1, ElementOfSeq DEF Last
<1>. QED BY <1>1, <1>2

LEMMA RecordType ==
    ASSUME NEW w \in Page, NEW after \in Nat
    PROVE  LET v == record_history_action(w, after)
           IN  v \in Page /\ v.up = w.up /\ v.session = w.session
<1>. DEFINE entry == [before |-> w.cell, after |-> after]
<1>1. entry \in Entry /\ w.undo \in Seq(Entry) /\ <<>> \in Seq(Entry)
  BY EmptySeq DEF Entry, Page
<1>2. Append(w.undo, entry) \in Seq(Entry)
  BY <1>1, AfterAppend
<1>3. ASSUME NEW undo \in Seq(Entry)
      PROVE  LET v == [w EXCEPT !.undo = undo, !.redo = <<>>, !.cell = after]
             IN  v \in Page /\ v.up = w.up /\ v.session = w.session
  BY <1>1 DEF Page
<1>. QED BY <1>2, <1>3 DEF record_history_action

LEMMA SlotTypes ==
    ASSUME slot \in Slot
    PROVE  /\ slot.phase = "acquiring" => slot.direction \in Directions
           /\ slot.phase = "preparing" =>
                 /\ slot.direction \in Directions /\ slot.entry \in Entry /\ slot.request \in Nat
           /\ slot.phase = "committing" =>
                 /\ slot.direction \in Directions /\ slot.entry \in Entry /\ slot.lease \in Nat
           /\ slot.phase \in {"idle", "acquiring", "preparing", "committing"}
           /\ Idle \in Slot /\ Idle.phase = "idle"
<1>. QED BY DEF Slot, Idle

LEMMA StateTypes ==
    ASSUME IInv
    PROVE  /\ page \in Page /\ slot \in Slot /\ toHost \in Seq(ToHost) /\ toPage \in Seq(ToPage)
           /\ count \in Count /\ host \in Host /\ Loading
<1>. QED BY DEF IInv, Types, PageTypes, HostTypes, WireTypes

\* A step of the page that is not waiting for a replay, and takes no message.
LEMMA IdleStep ==
    ASSUME IInv, UNCHANGED hostVars, UNCHANGED toPage, Counted,
           slot.phase # "acquiring", slot' = slot, page' \in Page, page.up, page'.up,
           NEW messages, Sends(messages), \A message \in messages : message.type # "applied",
           page'.session = "requested" => SessionComing' \/ page.session = "requested",
           page'.session = "discarding" => DiscardComing' \/ page.session = "discarding"
    PROVE  IInv'
<1>1. Received
  BY StateTypes, PageTakesNone
<1>2. PageTypes'
  BY StateTypes DEF PageTypes
<1>3. Owed'
  <2>1. \A message \in OnTheWay : message \in OnTheWay'
    BY DEF OnTheWay, Sends
  <2>2. ASSUME NEW taken, taken.type = "saved"
        PROVE  Owed'
    BY <2>1, <2>2, PageOwed
  <2>. QED BY <2>2, NoMessageType
<1>. QED BY <1>1, <1>2, <1>3, PageStep

LEMMA EditKeeps == ASSUME IInv, Edit PROVE IInv'
<1>. DEFINE w == record_history_action(page, count.edits + 1)
<1>1. /\ page \in Page /\ slot \in Slot /\ toHost \in Seq(ToHost) /\ count \in Count
  BY StateTypes
<1>2. count.edits + 1 \in Nat
  BY <1>1 DEF Count
<1>3. w \in Page /\ w.up = page.up /\ w.session = page.session
  BY <1>1, <1>2, RecordType
<1>4. /\ page.up /\ slot.phase = "idle" /\ Show(w, <<>>)
      /\ slot' = slot /\ UNCHANGED hostVars /\ UNCHANGED toPage
      /\ count' = [count EXCEPT !.edits = count.edits + 1]
  BY DEF Edit, is_busy
<1>. HIDE DEF w
<1>5. /\ page' \in Page /\ page'.up = w.up /\ page'.session = w.session
      /\ Sends({Edits(publish(w))}) /\ Edits(publish(w)).type = "edits"
  BY <1>1, <1>3, <1>4, ShowNothingElse
<1>6. Counted
  BY <1>1, <1>2, <1>4 DEF Counted, Count
<1>. QED BY <1>3, <1>4, <1>5, <1>6, IdleStep

LEMMA DiscardKeeps == ASSUME IInv, Discard PROVE IInv'
<1>. DEFINE v == record_history_action(page, 0)
            w == [v EXCEPT !.session = "discarding", !.published = Nothing, !.acknowledged = TRUE]
            message == [type |-> "discard"]
<1>1. /\ page \in Page /\ slot \in Slot /\ toHost \in Seq(ToHost) /\ count \in Count
  BY StateTypes
<1>2. v \in Page /\ v.up = page.up
  BY <1>1, RecordType
<1>3. Nothing \in Nat
  BY HistoryReplayAssumption DEF Nothing
<1>4. /\ page.up /\ slot.phase = "idle" /\ page' = w /\ Send(message)
      /\ slot' = slot /\ UNCHANGED hostVars /\ UNCHANGED toPage /\ count' = count
  BY DEF Discard, is_busy
<1>. HIDE DEF v
<1>5. w \in Page /\ w.up = v.up /\ w.session = "discarding"
  BY <1>2, <1>3 DEF Page
<1>6. message \in ToHost /\ message.type = "discard"
  BY DEF ToHost
<1>. HIDE DEF w, message
<1>7. Sends({message}) /\ message \in Range(toHost')
  BY <1>1, <1>4, <1>6, SendsOne
<1>8. Counted /\ DiscardComing'
  BY <1>1, <1>4, <1>6, <1>7, CountedSame DEF DiscardComing, OnTheWay
<1>. QED BY <1>2, <1>4, <1>5, <1>6, <1>7, <1>8, IdleStep

LEMMA RequestSaveKeeps == ASSUME IInv, RequestSave PROVE IInv'
<1>. DEFINE w == [page EXCEPT !.saving = TRUE]
            message == [type |-> "save"]
<1>1. /\ page \in Page /\ slot \in Slot /\ toHost \in Seq(ToHost) /\ count \in Count
  BY StateTypes
<1>2. /\ page.up /\ page' = w /\ Send(message)
      /\ slot' = slot /\ UNCHANGED hostVars /\ UNCHANGED toPage
      /\ count' = [count EXCEPT !.saves = count.saves + 1]
  BY DEF RequestSave
<1>3. w \in Page /\ w.up = page.up /\ w.session = page.session
      /\ w.undo = page.undo /\ w.redo = page.redo
  BY <1>1 DEF Page
<1>4. message \in ToHost /\ message.type = "save"
  BY DEF ToHost
<1>. HIDE DEF w, message
<1>5. Sends({message})
  BY <1>1, <1>2, <1>4, SendsOne
<1>6. Counted
  <2>1. count.saves + 1 \in Nat
    BY <1>1 DEF Count
  <2>. QED BY <1>1, <1>2, <2>1 DEF Counted, Count
<1>7. PageTypes'
  BY <1>1, <1>2, <1>3 DEF IInv, Types, PageTypes, stack_for
<1>8. Received
  BY <1>2, StateTypes, PageTakesNone
<1>9. Owed'
  <2>1. \A other \in OnTheWay : other \in OnTheWay'
    BY <1>2, <1>5 DEF OnTheWay, Sends
  <2>2. ASSUME NEW taken, taken.type = "saved"
        PROVE  Owed'
    BY <1>2, <1>3, <1>6, <2>1, <2>2, PageOwed
  <2>. QED BY <2>2, NoMessageType
<1>. QED BY <1>2, <1>3, <1>4, <1>5, <1>6, <1>7, <1>8, <1>9, PageStep

LEMMA RequestSessionKeeps == ASSUME IInv, RequestSession PROVE IInv'
<1>. DEFINE w == [page EXCEPT !.session = "requested"]
            message == [type |-> "session"]
<1>1. /\ page \in Page /\ slot \in Slot /\ toHost \in Seq(ToHost) /\ count \in Count
  BY StateTypes
<1>2. /\ page.up /\ page' = w /\ Send(message)
      /\ slot' = slot /\ UNCHANGED hostVars /\ UNCHANGED toPage /\ count' = count
  BY DEF RequestSession
<1>3. w \in Page /\ w.up = page.up /\ w.session = "requested"
      /\ w.undo = page.undo /\ w.redo = page.redo
  BY <1>1 DEF Page
<1>4. message \in ToHost /\ message.type = "session"
  BY DEF ToHost
<1>. HIDE DEF w, message
<1>5. Sends({message}) /\ message \in Range(toHost')
  BY <1>1, <1>2, <1>4, SendsOne
<1>6. Counted /\ SessionComing'
  BY <1>1, <1>2, <1>4, <1>5, CountedSame DEF SessionComing, OnTheWay
<1>7. PageTypes'
  BY <1>1, <1>2, <1>3 DEF IInv, Types, PageTypes, stack_for
<1>8. Received
  BY <1>2, StateTypes, PageTakesNone
<1>9. Owed'
  <2>1. \A other \in OnTheWay : other \in OnTheWay'
    BY <1>2, <1>5 DEF OnTheWay, Sends
  <2>2. ASSUME NEW taken, taken.type = "saved"
        PROVE  Owed'
    BY <1>2, <1>3, <1>6, <2>1, <2>2, PageOwed
  <2>. QED BY <2>2, NoMessageType
<1>. QED BY <1>2, <1>3, <1>4, <1>5, <1>6, <1>7, <1>8, <1>9, PageStep

LEMMA BeginKeeps ==
    ASSUME IInv, NEW direction \in Directions, Begin(direction)
    PROVE  IInv'
<1>. DEFINE next == [phase |-> "acquiring", direction |-> direction]
<1>1. /\ page \in Page /\ slot \in Slot /\ toHost \in Seq(ToHost) /\ count \in Count
  BY StateTypes
<1>2. /\ page.up /\ page' = page /\ stack_for(page, direction) # <<>>
      /\ slot' = next /\ UNCHANGED hostVars /\ UNCHANGED toPage /\ UNCHANGED toHost
      /\ count' = [count EXCEPT !.replays = count.replays + 1]
  BY DEF Begin
<1>3. next \in Slot /\ next.phase = "acquiring" /\ next.direction = direction
  BY DEF Slot
<1>. HIDE DEF next
<1>4. Sends({})
  BY <1>1, <1>2, SendsNothing
<1>5. Counted
  <2>1. count.replays + 1 \in Nat
    BY <1>1 DEF Count
  <2>. QED BY <1>1, <1>2, <2>1 DEF Counted, Count
<1>6. PageTypes'
  BY <1>1, <1>2, <1>3 DEF PageTypes
<1>7. Received
  BY <1>2, StateTypes, PageTakesNone
<1>8. Owed'
  <2>1. \A other \in OnTheWay : other \in OnTheWay'
    BY <1>2 DEF OnTheWay
  <2>2. ASSUME NEW taken, taken.type = "saved"
        PROVE  Owed'
    BY <1>2, <1>3, <1>5, <2>1, <2>2, PageOwed
  <2>. QED BY <2>2, NoMessageType
<1>. QED BY <1>2, <1>4, <1>5, <1>6, <1>7, <1>8, PageStep

LEMMA PrepareKeeps == ASSUME IInv, Prepare PROVE IInv'
<1>. DEFINE request == page.request + 1
            w == [page EXCEPT !.request = request]
            entry == Last(stack_for(page, slot.direction))
            next == [phase |-> "preparing", direction |-> slot.direction,
                     entry |-> entry, request |-> request]
            message == [type |-> "prepare", request |-> request, cell |-> page.cell]
<1>1. /\ page \in Page /\ slot \in Slot /\ toHost \in Seq(ToHost) /\ count \in Count
  BY StateTypes
<1>2. request \in Nat /\ page.cell \in Nat
  BY <1>1 DEF Page
<1>3. slot.phase = "acquiring" /\ slot.direction \in Directions
  BY <1>1, SlotTypes DEF Prepare
<1>4. entry \in Entry
  BY <1>1, <1>3, StackTypes DEF IInv, Types, PageTypes
<1>5. page' = [page EXCEPT !.request = @ + 1]
  BY DEF Prepare
<1>6. page'.request = request
  BY <1>1, <1>5 DEF Page
<1>7. /\ page' = w /\ slot' = next /\ Send(message)
      /\ UNCHANGED hostVars /\ UNCHANGED toPage /\ count' = count
  BY <1>1, <1>5, <1>6 DEF Prepare
<1>8. page.up
  BY <1>3 DEF IInv, Loading, Idle
<1>. HIDE DEF request, entry
<1>9. w \in Page /\ w.up = page.up /\ w.session = page.session
  BY <1>1, <1>2 DEF Page
<1>10. next \in Slot /\ next.phase = "preparing" /\ next.request = request
  BY <1>2, <1>3, <1>4 DEF Slot
<1>11. message \in ToHost /\ message.type = "prepare" /\ message.request = request
  BY <1>2 DEF ToHost
<1>. HIDE DEF w, next, message
<1>12. Sends({message}) /\ message \in Range(toHost')
  BY <1>1, <1>7, <1>11, SendsOne
<1>13. Counted
  BY <1>1, <1>7, CountedSame
<1>14. PageTypes'
  BY <1>7, <1>9, <1>10 DEF PageTypes
<1>15. Received
  BY <1>7, StateTypes, PageTakesNone
<1>16. Owed'
  <2>1. \A other \in OnTheWay : other \in OnTheWay'
    BY <1>7, <1>12 DEF OnTheWay, Sends
  <2>2. PrepareComing(slot.request)'
    BY <1>7, <1>10, <1>11, <1>12 DEF PrepareComing, OnTheWay
  <2>3. ASSUME NEW taken, taken.type = "saved"
        PROVE  Owed'
    BY <1>7, <1>9, <1>10, <1>13, <2>1, <2>2, <2>3, PageOwed
  <2>. QED BY <2>3, NoMessageType
<1>. QED BY <1>7, <1>8, <1>9, <1>11, <1>12, <1>13, <1>14, <1>15, <1>16, PageStep

-----------------------------------------------------------------------------
(* Messages to the page *)

LEMMA TakingStep ==
    ASSUME IInv, page.up, NEW type, AtPage(type),
           UNCHANGED hostVars, UNCHANGED count, PageTypes', page'.up,
           NEW messages, Sends(messages),
           \A message \in messages : message.type = "applied" => Known(message.delivery),
           page'.session = "requested" => page.session = "requested" /\ type # "session",
           page'.session = "discarding" => page.session = "discarding" /\ type # "discarded",
           slot'.phase = "preparing" =>
              /\ slot' = slot
              /\ type \in {"prepared", "prepareRefused"} => Head(toPage).request # slot.request,
           slot'.phase = "committing" =>
              \/ CommitComing(slot.lease)'
              \/ /\ slot' = slot
                 /\ type \in {"committed", "commitRefused"} => Head(toPage).lease # slot.lease
    PROVE  IInv'
<1>1. /\ Received /\ Head(toPage) \in ToPage /\ Head(toPage).type = type
      /\ Range(toPage) = Range(toPage') \cup {Head(toPage)}
  BY StateTypes, PageTakes
<1>2. Counted
  BY StateTypes, CountedSame
<1>3. Owed'
  <2>1. \A message \in OnTheWay : message \in OnTheWay' \/ message = Head(toPage)
    BY <1>1 DEF OnTheWay, Sends
  <2>2. ASSUME NEW taken \in ToPage, taken = Head(toPage)
        PROVE  Owed'
    BY <1>1, <1>2, <2>1, <2>2, PageOwed
  <2>. QED BY <1>1, <2>2
<1>. QED BY <1>1, <1>2, <1>3, PageStep

\* The stacks are as they were, and the slot too, or idle.
LEMMA SameStacks ==
    ASSUME IInv, page' \in Page, page'.undo = page.undo, page'.redo = page.redo,
           slot' = slot \/ slot' = Idle
    PROVE  PageTypes'
<1>. QED BY StateTypes, SlotTypes DEF IInv, Types, PageTypes, stack_for

LEMMA OnPrepareRefusedKeeps == ASSUME IInv, page.up, on_prepare_refused PROVE IInv'
<1>1. /\ AtPage("prepareRefused") /\ UNCHANGED hostVars /\ UNCHANGED count
      /\ page' = page /\ toHost' = toHost
      /\ slot' = IF running(Head(toPage).request) THEN Idle ELSE slot
  BY DEF on_prepare_refused
<1>2. Sends({}) /\ PageTypes'
  BY <1>1, StateTypes, SendsNothing, SameStacks
<1>3. slot'.phase = "preparing" => slot' = slot /\ Head(toPage).request # slot.request
  BY <1>1 DEF running, Idle
<1>4. slot'.phase = "committing" => slot' = slot
  BY <1>1 DEF Idle
<1>. QED BY <1>1, <1>2, <1>3, <1>4, TakingStep

LEMMA OnCommitRefusedKeeps == ASSUME IInv, page.up, on_commit_refused PROVE IInv'
<1>1. /\ AtPage("commitRefused") /\ UNCHANGED hostVars /\ UNCHANGED count
      /\ page' = page /\ toHost' = toHost
      /\ slot' = IF spent(Head(toPage).lease) THEN Idle ELSE slot
  BY DEF on_commit_refused
<1>2. Sends({}) /\ PageTypes'
  BY <1>1, StateTypes, SendsNothing, SameStacks
<1>3. slot'.phase = "preparing" => slot' = slot
  BY <1>1 DEF Idle
<1>4. slot'.phase = "committing" => slot' = slot /\ Head(toPage).lease # slot.lease
  BY <1>1 DEF spent, Idle
<1>. QED BY <1>1, <1>2, <1>3, <1>4, TakingStep

LEMMA OnPreparedKeeps == ASSUME IInv, page.up, on_prepared PROVE IInv'
<1>. DEFINE answer == Head(toPage)
            value == to_side(slot.entry, slot.direction)
            next == [phase |-> "committing", direction |-> slot.direction,
                     entry |-> slot.entry, lease |-> answer.lease]
            spend == [type |-> "commit", lease |-> answer.lease, value |-> value]
            giveback == [type |-> "abandon", lease |-> answer.lease]
<1>1. /\ page \in Page /\ slot \in Slot /\ toHost \in Seq(ToHost) /\ toPage \in Seq(ToPage)
  BY StateTypes
<1>2. /\ AtPage("prepared") /\ UNCHANGED hostVars /\ UNCHANGED count /\ page' = page
      /\ \/ ~running(answer.request) /\ slot' = slot /\ toHost' = toHost
         \/ running(answer.request) /\ slot' = next /\ Send(spend)
         \/ running(answer.request) /\ slot' = Idle /\ Send(giveback)
  BY DEF on_prepared
<1>3. answer \in ToPage /\ answer.type = "prepared"
  BY <1>2, StateTypes, PageTakes
<1>4. answer.lease \in Nat
  BY <1>3 DEF ToPage
<1>5. CASE ~running(answer.request) /\ slot' = slot /\ toHost' = toHost
  <2>1. Sends({}) /\ PageTypes'
    BY <1>1, <1>2, <1>5, SendsNothing, SameStacks
  <2>2. slot'.phase = "preparing" => slot' = slot /\ answer.request # slot.request
    BY <1>5 DEF running
  <2>. QED BY <1>2, <1>5, <2>1, <2>2, TakingStep
<1>6. CASE running(answer.request) /\ slot' = next /\ Send(spend)
  <2>1. slot.direction \in Directions /\ slot.entry \in Entry
    BY <1>1, <1>6, SlotTypes DEF running
  <2>2. value \in Nat
    BY <2>1 DEF to_side, Entry
  <2>. HIDE DEF value
  <2>3. next \in Slot /\ next.phase = "committing" /\ next.lease = answer.lease
    BY <1>4, <2>1 DEF Slot
  <2>4. spend \in ToHost /\ spend.type = "commit" /\ spend.lease = answer.lease
    BY <1>4, <2>2 DEF ToHost
  <2>. HIDE DEF next, spend
  <2>5. Sends({spend}) /\ spend \in Range(toHost')
    BY <1>1, <1>6, <2>4, SendsOne
  <2>6. PageTypes'
    BY <1>1, <1>2, <1>6, <2>3 DEF PageTypes
  <2>7. CommitComing(slot.lease)'
    BY <1>6, <2>3, <2>4, <2>5 DEF CommitComing, OnTheWay
  <2>8. slot'.phase = "committing"
    BY <1>6, <2>3
  <2>. QED BY <1>2, <2>4, <2>5, <2>6, <2>7, <2>8, TakingStep
<1>7. CASE running(answer.request) /\ slot' = Idle /\ Send(giveback)
  <2>1. giveback \in ToHost /\ giveback.type = "abandon"
    BY <1>4 DEF ToHost
  <2>. HIDE DEF giveback
  <2>2. Sends({giveback})
    BY <1>1, <1>7, <2>1, SendsOne
  <2>3. PageTypes' /\ slot'.phase = "idle"
    BY <1>1, <1>2, <1>7, SlotTypes, SameStacks
  <2>. QED BY <1>2, <2>1, <2>2, <2>3, TakingStep
<1>. QED BY <1>2, <1>5, <1>6, <1>7

LEMMA FrontType ==
    ASSUME NEW s \in Seq(Entry), s # <<>>
    PROVE  Front(s) \in Seq(Entry)
<1>1. Len(s) \in Nat /\ \A i \in 1..Len(s) : s[i] \in Entry
  BY RangeSeq
<1>2. \A i \in 1..(Len(s) - 1) : s[i] \in Entry
  BY <1>1
<1>. QED BY <1>1, <1>2, SubSeqProperties DEF Front

LEMMA MoveType ==
    ASSUME NEW w \in Page, NEW direction \in Directions, NEW entry \in Entry
    PROVE  LET v == commit_history_move(w, direction, entry)
           IN  v \in Page /\ v.up = w.up /\ v.session = w.session
<1>1. ASSUME NEW undo \in Seq(Entry), NEW redo \in Seq(Entry)
      PROVE  LET v == [w EXCEPT !.undo = undo, !.redo = redo]
             IN  v \in Page /\ v.up = w.up /\ v.session = w.session
  BY DEF Page
<1>2. w.undo \in Seq(Entry) /\ w.redo \in Seq(Entry)
  BY DEF Page
<1>3. Append(w.undo, entry) \in Seq(Entry) /\ Append(w.redo, entry) \in Seq(Entry)
  BY <1>2, AfterAppend
<1>4. \/ commit_history_move(w, direction, entry) = w
      \/ /\ w.undo # <<>>
         /\ commit_history_move(w, direction, entry) =
               [w EXCEPT !.undo = Front(w.undo), !.redo = Append(w.redo, entry)]
      \/ /\ w.redo # <<>>
         /\ commit_history_move(w, direction, entry) =
               [w EXCEPT !.undo = Append(w.undo, entry), !.redo = Front(w.redo)]
  <2>1. CASE stack_for(w, direction) = <<>> \/ Last(stack_for(w, direction)) # entry
    BY <2>1 DEF commit_history_move
  <2>2. CASE ~(stack_for(w, direction) = <<>> \/ Last(stack_for(w, direction)) # entry)
    <3>1. CASE direction = "undo"
      BY <2>2, <3>1 DEF commit_history_move, stack_for, Page
    <3>2. CASE direction # "undo"
      <4>1. [w EXCEPT !.redo = Front(w.redo), !.undo = Append(w.undo, entry)] =
               [w EXCEPT !.undo = Append(w.undo, entry), !.redo = Front(w.redo)]
        BY DEF Page
      <4>. QED BY <2>2, <3>2, <4>1 DEF commit_history_move, stack_for, Page
    <3>. QED BY <3>1, <3>2
  <2>. QED BY <2>1, <2>2
<1>5. /\ w.undo # <<>> => Front(w.undo) \in Seq(Entry)
      /\ w.redo # <<>> => Front(w.redo) \in Seq(Entry)
  BY <1>2, FrontType
<1>6. ASSUME NEW v, v = commit_history_move(w, direction, entry)
      PROVE  v \in Page /\ v.up = w.up /\ v.session = w.session
  <2>1. CASE v = w
    BY <2>1
  <2>2. CASE /\ w.undo # <<>>
             /\ v = [w EXCEPT !.undo = Front(w.undo), !.redo = Append(w.redo, entry)]
    BY <1>1, <1>3, <1>5, <2>2
  <2>3. CASE /\ w.redo # <<>>
             /\ v = [w EXCEPT !.undo = Append(w.undo, entry), !.redo = Front(w.redo)]
    BY <1>1, <1>3, <1>5, <2>3
  <2>. QED BY <1>4, <1>6, <2>1, <2>2, <2>3
<1>. QED BY <1>6

LEMMA OnCommittedKeeps == ASSUME IInv, page.up, on_committed PROVE IInv'
<1>. DEFINE w == IF page.session = "held" THEN apply_committed_replay(page) ELSE page
<1>1. /\ page \in Page /\ slot \in Slot /\ toHost \in Seq(ToHost)
  BY StateTypes
<1>2. /\ AtPage("committed") /\ UNCHANGED hostVars /\ UNCHANGED count
      /\ \/ spent(Head(toPage).lease) /\ Show(w, <<>>) /\ slot' = Idle
         \/ ~spent(Head(toPage).lease) /\ page' = page /\ slot' = slot /\ toHost' = toHost
  BY DEF on_committed, pageVars
<1>3. ASSUME spent(Head(toPage).lease)
      PROVE  w \in Page /\ w.up = page.up /\ w.session = page.session
  <2>1. slot.direction \in Directions /\ slot.entry \in Entry
    BY <1>1, <1>3, SlotTypes DEF spent
  <2>2. to_side(slot.entry, slot.direction) \in Nat
    BY <2>1 DEF to_side, Entry
  <2>3. ASSUME NEW v \in Page, NEW cell \in Nat, v.up = page.up, v.session = page.session
        PROVE  LET u == [v EXCEPT !.cell = cell]
               IN  u \in Page /\ u.up = page.up /\ u.session = page.session
    BY <2>3 DEF Page
  <2>. QED BY <1>1, <2>1, <2>2, <2>3, MoveType DEF apply_committed_replay
<1>. HIDE DEF w
<1>4. CASE spent(Head(toPage).lease) /\ Show(w, <<>>) /\ slot' = Idle
  <2>1. /\ page' \in Page /\ page'.up = page.up /\ page'.session = page.session
        /\ Sends({Edits(publish(w))}) /\ Edits(publish(w)).type = "edits"
    BY <1>1, <1>3, <1>4, ShowNothingElse
  <2>2. PageTypes' /\ slot'.phase = "idle"
    BY <1>1, <1>4, <2>1, SlotTypes DEF PageTypes
  <2>. QED BY <1>2, <2>1, <2>2, TakingStep
<1>5. CASE ~spent(Head(toPage).lease) /\ page' = page /\ slot' = slot /\ toHost' = toHost
  <2>1. Sends({}) /\ PageTypes'
    BY <1>1, <1>5, SendsNothing, SameStacks
  <2>2. slot'.phase = "committing" => slot' = slot /\ Head(toPage).lease # slot.lease
    BY <1>5 DEF spent
  <2>. QED BY <1>2, <1>5, <2>1, <2>2, TakingStep
<1>. QED BY <1>2, <1>4, <1>5

LEMMA OnAcknowledgedKeeps == ASSUME IInv, page.up, OnAcknowledged PROVE IInv'
<1>. DEFINE b == page.acknowledged \/ Head(toPage).sequence = page.sequence
<1>1. /\ page \in Page /\ slot \in Slot /\ toHost \in Seq(ToHost)
  BY StateTypes
<1>2. /\ AtPage("acknowledged") /\ UNCHANGED hostVars /\ UNCHANGED count
      /\ page' = [page EXCEPT !.acknowledged = b] /\ slot' = slot /\ toHost' = toHost
  BY DEF OnAcknowledged
<1>3. b \in BOOLEAN
  OBVIOUS
<1>. HIDE DEF b
<1>4. /\ page' \in Page /\ page'.up = page.up /\ page'.session = page.session
      /\ page'.undo = page.undo /\ page'.redo = page.redo
  BY <1>1, <1>2, <1>3 DEF Page
<1>5. Sends({}) /\ PageTypes'
  BY <1>1, <1>2, <1>4, SendsNothing, SameStacks
<1>. QED BY <1>2, <1>4, <1>5, TakingStep

LEMMA OnDiscardedKeeps == ASSUME IInv, page.up, OnDiscarded PROVE IInv'
<1>. DEFINE next == IF page.session = "discarding" THEN "none" ELSE page.session
<1>1. /\ page \in Page /\ slot \in Slot /\ toHost \in Seq(ToHost)
  BY StateTypes
<1>2. /\ AtPage("discarded") /\ UNCHANGED hostVars /\ UNCHANGED count
      /\ page' = [page EXCEPT !.session = next] /\ slot' = slot /\ toHost' = toHost
  BY DEF OnDiscarded
<1>3. next \in {"none", "requested", "held", "discarding"} /\ next # "discarding"
      /\ (next = "requested" => page.session = "requested")
  BY <1>1 DEF Page
<1>. HIDE DEF next
<1>4. /\ page' \in Page /\ page'.up = page.up /\ page'.session = next
      /\ page'.undo = page.undo /\ page'.redo = page.redo
  BY <1>1, <1>2, <1>3 DEF Page
<1>5. Sends({}) /\ PageTypes'
  BY <1>1, <1>2, <1>4, SendsNothing, SameStacks
<1>. QED BY <1>2, <1>3, <1>4, <1>5, TakingStep

LEMMA OnSessionKeeps == ASSUME IInv, page.up, OnSession PROVE IInv'
<1>. DEFINE answer == Head(toPage)
            held == [page EXCEPT !.session = "held", !.cell = answer.cell]
            none == [page EXCEPT !.session = "none"]
<1>1. /\ page \in Page /\ slot \in Slot /\ toHost \in Seq(ToHost) /\ toPage \in Seq(ToPage)
  BY StateTypes
<1>2. /\ AtPage("session") /\ UNCHANGED hostVars /\ UNCHANGED count
      /\ \/ page.session # "requested" /\ page' = page /\ slot' = slot /\ toHost' = toHost
         \/ answer.granted /\ Show(held, <<>>) /\ slot' = slot
         \/ page' = none /\ (slot' = slot \/ slot' = Idle) /\ toHost' = toHost
  BY DEF OnSession, pageVars
<1>3. answer \in ToPage /\ answer.type = "session"
  BY <1>2, StateTypes, PageTakes
<1>4. answer.granted => answer.cell \in Nat
  BY <1>3 DEF ToPage
<1>5. CASE page.session # "requested" /\ page' = page /\ slot' = slot /\ toHost' = toHost
  <2>1. Sends({}) /\ PageTypes'
    BY <1>1, <1>5, SendsNothing, SameStacks
  <2>. QED BY <1>2, <1>5, <2>1, TakingStep
<1>6. CASE answer.granted /\ Show(held, <<>>) /\ slot' = slot
  <2>1. /\ held \in Page /\ held.up = page.up /\ held.session = "held"
        /\ held.undo = page.undo /\ held.redo = page.redo
    BY <1>1, <1>4, <1>6 DEF Page
  <2>. HIDE DEF held
  <2>2. /\ page' \in Page /\ page'.up = page.up /\ page'.session = "held"
        /\ page'.undo = page.undo /\ page'.redo = page.redo
        /\ Sends({Edits(publish(held))}) /\ Edits(publish(held)).type = "edits"
    BY <1>1, <1>6, <2>1, ShowNothingElse
  <2>3. PageTypes'
    BY <1>6, <2>2, SameStacks
  <2>. QED BY <1>2, <1>6, <2>2, <2>3, TakingStep
<1>7. CASE page' = none /\ (slot' = slot \/ slot' = Idle) /\ toHost' = toHost
  <2>1. /\ none \in Page /\ none.up = page.up /\ none.session = "none"
        /\ none.undo = page.undo /\ none.redo = page.redo
    BY <1>1 DEF Page
  <2>. HIDE DEF none
  <2>2. Sends({}) /\ PageTypes'
    BY <1>1, <1>7, <2>1, SendsNothing, SameStacks
  <2>3. slot'.phase \in {"preparing", "committing"} => slot' = slot
    BY <1>7, SlotTypes, <1>1
  <2>. QED BY <1>2, <1>7, <2>1, <2>2, <2>3, TakingStep
<1>. QED BY <1>2, <1>5, <1>6, <1>7

LEMMA OnSavedKeeps == ASSUME IInv, page.up, OnSaved PROVE IInv'
<1>. DEFINE w == [page EXCEPT !.saving = FALSE]
<1>1. /\ page \in Page /\ slot \in Slot /\ toHost \in Seq(ToHost)
  BY StateTypes
<1>2. /\ AtPage("saved") /\ UNCHANGED hostVars /\ UNCHANGED count
      /\ Show(w, <<>>) /\ slot' = slot
  BY DEF OnSaved
<1>3. /\ w \in Page /\ w.up = page.up /\ w.session = page.session
      /\ w.undo = page.undo /\ w.redo = page.redo
  BY <1>1 DEF Page
<1>. HIDE DEF w
<1>4. /\ page' \in Page /\ page'.up = page.up /\ page'.session = page.session
      /\ page'.undo = page.undo /\ page'.redo = page.redo
      /\ Sends({Edits(publish(w))}) /\ Edits(publish(w)).type = "edits"
  BY <1>1, <1>2, <1>3, ShowNothingElse
<1>5. PageTypes'
  BY <1>2, <1>4, SameStacks
<1>. QED BY <1>2, <1>4, <1>5, TakingStep

LEMMA OnMessageKeeps == ASSUME IInv, OnMessage PROVE IInv'
<1>. QED
  BY OnPreparedKeeps, OnPrepareRefusedKeeps, OnCommittedKeeps, OnCommitRefusedKeeps,
     OnAcknowledgedKeeps, OnDiscardedKeeps, OnSessionKeeps, OnSavedKeeps DEF OnMessage

-----------------------------------------------------------------------------
(* Snapshots and loads of the page *)

LEMMA OnSnapshotKeeps == ASSUME IInv, OnSnapshot PROVE IInv'
<1>. DEFINE snapshot == Head(toPage)
            applied == [type |-> "applied", delivery |-> snapshot.delivery]
            install == [page EXCEPT !.cell = snapshot.cell]
            again == publish(page)
<1>1. /\ page \in Page /\ slot \in Slot /\ toHost \in Seq(ToHost) /\ toPage \in Seq(ToPage)
      /\ count \in Count
  BY StateTypes
<1>2. AtPage("snapshot") /\ UNCHANGED hostVars /\ UNCHANGED count
  BY DEF OnSnapshot
<1>3. /\ snapshot \in ToPage /\ snapshot.type = "snapshot" /\ snapshot \in Range(toPage)
      /\ First(snapshot) => Firsts # {} /\ Firsts' = {}
      /\ Received
  BY <1>2, StateTypes, PageTakes
<1>4. snapshot.delivery \in Nat /\ snapshot.cell \in Nat /\ snapshot.initial \in BOOLEAN
  BY <1>3 DEF ToPage
<1>5. /\ applied \in ToHost /\ applied.type = "applied" /\ applied.type # "ready"
      /\ applied.delivery = snapshot.delivery
  BY <1>4 DEF ToHost
<1>6. Known(applied.delivery)
  BY <1>3, <1>5 DEF IInv, Deliveries
<1>. HIDE DEF applied
<1>7. <<applied>> \in Seq(ToHost) /\ Range(<<applied>>) = {applied}
  BY <1>5, SingletonSeq
<1>8. /\ install \in Page /\ install.up = page.up /\ install.session = page.session
      /\ install.undo = page.undo /\ install.redo = page.redo
  BY <1>1, <1>4 DEF Page
<1>9. ASSUME NEW w \in Page, Show(w, <<applied>>)
      PROVE  /\ page' \in Page /\ page'.up = w.up /\ page'.session = w.session
             /\ page'.undo = w.undo /\ page'.redo = w.redo
             /\ Sends({applied, Edits(publish(w))}) /\ Edits(publish(w)).type = "edits"
  <2>1. ASSUME NEW messages \in Seq(ToHost), Range(messages) = {applied}, Show(w, messages)
        PROVE  /\ page' \in Page /\ page'.up = w.up /\ page'.session = w.session
               /\ page'.undo = w.undo /\ page'.redo = w.redo
               /\ Sends({applied, Edits(publish(w))})
    <3>1. /\ page' \in Page /\ page'.up = w.up /\ page'.session = w.session
          /\ page'.undo = w.undo /\ page'.redo = w.redo
          /\ Sends(Range(messages) \cup {Edits(publish(w))})
      BY <1>1, <1>5, <2>1, ShowEffect
    <3>. QED BY <2>1, <3>1 DEF Sends
  <2>. QED BY <1>7, <1>9, <2>1, PublishType
<1>10. CASE snapshot.initial
  <2>. DEFINE w == [install EXCEPT !.up = TRUE, !.undo = <<>>, !.redo = <<>>,
                                   !.session = IF snapshot.session THEN "held" ELSE "none"]
  <2>1. Show(w, <<applied>>) /\ slot' = Idle
    BY <1>10 DEF OnSnapshot, applied
  <2>2. <<>> \in Seq(Entry)
    BY EmptySeq
  <2>3. w \in Page /\ w.up = TRUE /\ w.session \in {"held", "none"}
    BY <1>8, <2>2 DEF Page
  <2>. HIDE DEF w, install
  <2>4. /\ page' \in Page /\ page'.up = TRUE /\ page'.session \in {"held", "none"}
        /\ Sends({applied, Edits(publish(w))}) /\ Edits(publish(w)).type = "edits"
    BY <1>9, <2>1, <2>3
  <2>5. PageTypes' /\ slot'.phase = "idle"
    BY <1>1, <2>1, <2>4, SlotTypes DEF PageTypes
  <2>6. Owed'
    BY <2>4, <2>5 DEF Owed
  <2>7. Firsts # {} /\ Firsts' = {}
    BY <1>3, <1>10 DEF First
  <2>8. Counted
    BY <1>1, <1>2, CountedSame
  <2>. QED BY <1>2, <1>3, <1>6, <2>4, <2>5, <2>6, <2>7, <2>8, PageStep
<1>11. CASE ~snapshot.initial
  <2>1. /\ page.up /\ slot' = slot
        /\ \/ Show(install, <<applied>>)
           \/ page' = again /\ toHost' = toHost \o <<Edits(again), applied>>
           \/ page' = page /\ Send(applied)
    BY <1>11 DEF OnSnapshot, applied
  <2>. HIDE DEF install
  <2>2. ASSUME NEW messages, Sends(messages),
               \A message \in messages : message.type = "applied" => Known(message.delivery),
               page' \in Page, page'.up = page.up, page'.session = page.session,
               page'.undo = page.undo, page'.redo = page.redo
        PROVE  IInv'
    <3>1. PageTypes'
      BY <2>1, <2>2, SameStacks
    <3>. QED BY <1>2, <2>1, <2>2, <3>1, TakingStep
  <2>3. CASE Show(install, <<applied>>)
    BY <1>6, <1>8, <1>9, <2>2, <2>3
  <2>4. CASE page' = again /\ toHost' = toHost \o <<Edits(again), applied>>
    <3>. DEFINE t == <<Edits(again), applied>>
    <3>1. /\ again \in Page /\ again.up = page.up /\ again.session = page.session
          /\ again.undo = page.undo /\ again.redo = page.redo
          /\ Edits(again) \in ToHost /\ Edits(again).type = "edits"
      BY <1>1, PublishType
    <3>. HIDE DEF again
    <3>2. t \in Seq(ToHost) /\ Range(t) = {Edits(again), applied}
      BY <1>5, <3>1 DEF Range
    <3>. HIDE DEF t
    <3>3. ASSUME NEW messages, messages = {Edits(again), applied}
          PROVE  Sends(messages)
      <4>1. \A message \in Range(t) : message.type # "ready"
        BY <1>5, <3>1, <3>2
      <4>2. toHost' = toHost \o t
        BY <2>4 DEF t
      <4>. QED BY <1>1, <3>2, <3>3, <4>1, <4>2, SendsMany
    <3>4. Sends({Edits(again), applied})
      BY <3>3
    <3>. QED BY <1>6, <2>2, <2>4, <3>1, <3>4
  <2>5. CASE page' = page /\ Send(applied)
    <3>1. Sends({applied})
      BY <1>1, <1>5, <2>5, SendsOne
    <3>. QED BY <1>1, <1>6, <2>2, <2>5, <3>1
  <2>. QED BY <2>1, <2>3, <2>4, <2>5
<1>. QED BY <1>4, <1>10, <1>11

LEMMA IgnoreKeeps == ASSUME IInv, Ignore PROVE IInv'
<1>1. /\ ~page.up /\ AtPage(Head(toPage).type)
      /\ UNCHANGED pageVars /\ UNCHANGED hostVars /\ toHost' = toHost /\ count' = count
  BY DEF Ignore, AtPage
<1>2. Received
  BY <1>1, StateTypes, PageTakes
<1>3. Types'
  BY <1>1, <1>2
     DEF IInv, Types, PageTypes, HostTypes, WireTypes, pageVars, hostVars, Received
<1>4. Exclusive' /\ Spent' /\ Awaited'
  BY <1>1 DEF IInv, Exclusive, Spent, Awaited, hostVars, live
<1>5. Deliveries'
  BY <1>1, <1>2 DEF IInv, Deliveries, Known, hostVars, Received
<1>6. Loading'
  BY <1>1, <1>2 DEF IInv, Loading, Announcements, pageVars, hostVars, Received
<1>7. Owed'
  <2>1. slot = Idle /\ page.session = "none"
    BY <1>1 DEF IInv, Loading
  <2>. QED BY <1>1, <2>1 DEF Owed, Idle, pageVars
<1>. QED BY <1>3, <1>4, <1>5, <1>6, <1>7 DEF IInv

LEMMA NewPageType ==
    NewPage \in Page /\ NewPage.up = FALSE /\ NewPage.session = "none"
<1>1. Nothing \in Nat /\ <<>> \in Seq(Entry)
  BY HistoryReplayAssumption, EmptySeq DEF Nothing
<1>. QED BY <1>1 DEF NewPage, Page

LEMMA LoadKeeps == ASSUME IInv, Load PROVE IInv'
<1>. DEFINE message == [type |-> "ready"]
<1>1. /\ page \in Page /\ slot \in Slot /\ toHost \in Seq(ToHost) /\ toPage \in Seq(ToPage)
      /\ count \in Count
  BY StateTypes
<1>2. /\ page.up /\ Fault /\ page' = NewPage /\ slot' = Idle /\ toPage' = <<>>
      /\ toHost' = Append(toHost, message) /\ UNCHANGED hostVars
  BY DEF Load, Send
<1>3. message \in ToHost /\ message.type = "ready"
  BY DEF ToHost
<1>. HIDE DEF message
<1>4. /\ toHost' \in Seq(ToHost) /\ Len(toHost') = Len(toHost) + 1
      /\ \A i \in 1..Len(toHost) : toHost'[i] = toHost[i]
      /\ Range(toHost') = Range(toHost) \cup {message}
      /\ DOMAIN toHost = 1..Len(toHost) /\ DOMAIN toHost' = 1..(Len(toHost) + 1)
      /\ Len(toHost) \in Nat
  BY <1>1, <1>2, <1>3, AfterAppend, LenProperties
<1>5. Counted
  BY <1>1, <1>2, FaultCounts
<1>6. toPage' \in Seq(ToPage) /\ Range(toPage') = {} /\ Firsts' = {}
  BY <1>2, EmptySeq DEF Range, Firsts
<1>7. PageTypes' /\ slot'.phase = "idle"
  BY <1>1, <1>2, NewPageType, SlotTypes DEF PageTypes
<1>8. Types'
  BY <1>2, <1>4, <1>5, <1>6, <1>7 DEF IInv, Types, HostTypes, WireTypes, hostVars, Counted
<1>9. Exclusive' /\ Spent' /\ Awaited'
  BY <1>2, <1>5 DEF IInv, Exclusive, Spent, Awaited, hostVars, live, Counted
<1>10. Deliveries'
  BY <1>2, <1>3, <1>4, <1>6 DEF IInv, Deliveries, Known, hostVars
<1>11. Loading'
  <2>1. Announcements = {} /\ ~host.readying
    BY <1>2 DEF IInv, Loading
  <2>2. Announcements' \subseteq {Len(toHost')}
    <3>1. ASSUME NEW i \in 1..Len(toHost)
          PROVE  toHost'[i].type # "ready"
      BY <1>4, <2>1 DEF Announcements
    <3>. QED BY <1>4, <3>1 DEF Announcements
  <2>. QED BY <1>2, <1>6, <2>1, <2>2, NewPageType DEF Loading, hostVars
<1>12. Owed'
  BY <1>2, <1>7, NewPageType DEF Owed
<1>. QED BY <1>8, <1>9, <1>10, <1>11, <1>12 DEF IInv

-----------------------------------------------------------------------------
(* The theorems *)

LEMMA InitIInv == Init => IInv
<1>. SUFFICES ASSUME Init PROVE IInv
  OBVIOUS
<1>1. page \in Page /\ page.up = TRUE /\ page.session = "none"
  BY NewPageType DEF Init, Page
<1>2. slot = Idle /\ slot \in Slot /\ slot.phase = "idle"
  BY DEF Init, Idle, Slot
<1>3. host \in Host /\ host.readying = FALSE /\ host.acked = TRUE /\ host.posted = TRUE
      /\ host.saving = FALSE /\ host.delivery = 0
  BY DEF Init, Host
<1>4. count \in Count
  BY DEF Init, Count
<1>5. /\ lease \in Lease /\ lease.state = "none" /\ preparing = {}
      /\ committing \in Seq(Commit) /\ writes \in Seq(Write)
      /\ toHost \in Seq(ToHost) /\ toPage \in Seq(ToPage)
  BY EmptySeq DEF Init, Lease, NoLease
<1>6. Range(toHost) = {} /\ Range(toPage) = {} /\ Announcements = {} /\ Firsts = {}
  BY DEF Init, Range, Announcements, Firsts
<1>7. Types
  BY <1>1, <1>2, <1>3, <1>4, <1>5 DEF Types, PageTypes, HostTypes, WireTypes
<1>8. Exclusive /\ Spent /\ Awaited
  BY <1>3, <1>5 DEF Exclusive, Spent, Awaited
<1>9. Deliveries /\ Loading
  BY <1>1, <1>3, <1>6 DEF Deliveries, Loading
<1>10. Owed
  BY <1>1, <1>2 DEF Owed
<1>. QED BY <1>7, <1>8, <1>9, <1>10 DEF IInv

LEMMA NextIInv == IInv /\ [Next]_vars => IInv'
<1>. SUFFICES ASSUME IInv, [Next]_vars PROVE IInv'
  OBVIOUS
<1>1. CASE PageActs
  BY <1>1, EditKeeps, DiscardKeeps, RequestSaveKeeps, RequestSessionKeeps, BeginKeeps
     DEF PageActs
<1>2. CASE PageRuns
  BY <1>2, PrepareKeeps, OnMessageKeeps, OnSnapshotKeeps, IgnoreKeeps DEF PageRuns
<1>3. CASE HandleMessage
  BY <1>3, HandleEditsKeeps, HandleSessionKeeps, HandleDiscardKeeps, HandleSaveKeeps,
     HandlePrepareKeeps, HandleAbandonKeeps, HandleCommitKeeps, HandleAppliedKeeps,
     HandleReadyKeeps DEF HandleMessage
<1>4. CASE \E op \in preparing : Preparation(op)
  BY <1>4, BindPreparationKeeps, ComparePreparationKeeps, OutdatedKeeps, IssueLeaseKeeps
     DEF Preparation
<1>5. CASE \/ WriteLands \/ SaveEnds \/ GrantSession \/ StartCommit \/ VerifyCommit
           \/ CommitOutdated \/ commit_history_replay \/ AnswerCommit
           \/ CompleteReady \/ PostSnapshot \/ \E post \in host.posting : PostEnds(post)
  <2>1. CASE StartCommit \/ VerifyCommit
    BY <2>1, CheckCommitKeeps DEF StartCommit, VerifyCommit
  <2>. QED BY <1>5, <2>1, WriteLandsKeeps, SaveEndsKeeps, GrantSessionKeeps,
              CommitOutdatedKeeps, CommitHistoryReplayKeeps, AnswerCommitKeeps,
              CompleteReadyKeeps, PostSnapshotKeeps, PostEndsKeeps
<1>6. CASE Load \/ LeaseExpires \/ OtherPanelEdits \/ \E moved \in BOOLEAN : Refresh(moved)
  BY <1>6, LoadKeeps, LeaseExpiresKeeps, OtherPanelEditsKeeps, RefreshKeeps
<1>7. CASE UNCHANGED vars
  BY <1>7
     DEF vars, IInv, Types, PageTypes, HostTypes, WireTypes, Exclusive, live, Spent, Awaited,
         Deliveries, Known, Loading, Announcements, Firsts, Owed, OnTheWay, SessionComing,
         DiscardComing, PrepareComing, CommitComing
<1>. QED BY <1>1, <1>2, <1>3, <1>4, <1>5, <1>6, <1>7 DEF Next, HostRuns

\* The states of page, slot and leases are what they should be; a spent lease belongs to a
\* commit that runs, no preparation awaits edits that are not pending, and no snapshot is
\* acknowledged that was not posted.
THEOREM ReplayTypes == Spec => []TypeOK
<1>1. IInv => TypeOK
  <2>. SUFFICES ASSUME IInv PROVE TypeOK
    OBVIOUS
  <2>1. page.session \in {"none", "requested", "held", "discarding"}
    BY StateTypes DEF Page
  <2>2. slot.phase \in {"idle", "acquiring", "preparing", "committing"}
    BY StateTypes, SlotTypes
  <2>3. lease.state \in {"none", "issued", "committing"}
    BY DEF IInv, Types, HostTypes, Lease
  <2>4. \A op \in preparing : op.step \in {"draining", "comparing", "verifying"}
    BY DEF IInv, Types, HostTypes, Op
  <2>. QED BY <2>1, <2>2, <2>3, <2>4 DEF IInv, Spent, Awaited, Deliveries, TypeOK
<1>. QED BY <1>1, InitIInv, NextIInv, PTL DEF Spec

\* Unless a post was lost, the answer that a busy slot waits for is on its way or the host
\* is at work on it, through preparations, leases, commits, discards and loads of the page.
THEOREM AnswersAreOwed == Spec => []AnswerIsOwed
<1>1. ASSUME IInv PROVE AnswerIsOwed
  <2>1. Range(toHost \o toPage) = OnTheWay
    <3>1. ASSUME NEW S, NEW T, toHost \in Seq(S), toPage \in Seq(T)
          PROVE  Range(toHost \o toPage) = OnTheWay
      <4>1. toHost \in Seq(S \cup T) /\ toPage \in Seq(S \cup T)
        BY <3>1
      <4>. QED BY <4>1, RangeConcatenation DEF OnTheWay
    <3>2. toHost \in Seq(ToHost) /\ toPage \in Seq(ToPage)
      BY <1>1, StateTypes
    <3>. HIDE DEF ToHost, ToPage
    <3>. QED BY <3>1, <3>2
  <2>. SUFFICES ASSUME ~count.lost
                PROVE  /\ slot.phase = "acquiring" =>
                             \/ page.session \in {"none", "held"}
                             \/ page.session = "requested" /\ SessionComing
                             \/ page.session = "discarding" /\ DiscardComing
                       /\ slot.phase = "preparing" => PrepareComing(slot.request)
                       /\ slot.phase = "committing" => CommitComing(slot.lease)
    BY <2>1
       DEF AnswerIsOwed, Answers, SessionComing, DiscardComing, PrepareComing, CommitComing
  <2>2. page.session \in {"none", "requested", "held", "discarding"}
    BY <1>1, StateTypes DEF Page
  <2>. QED BY <1>1, <2>2 DEF IInv, Owed
<1>. QED BY <1>1, InitIInv, NextIInv, PTL DEF Spec

-----------------------------------------------------------------------------
(* The document: the invariant from which HistoryDescribesDocument follows.  It speaks of *)
(* what is on the two queues, and of its order: of the edits that are published, of the   *)
(* snapshots, of the replay under way and of the edit session.                            *)

\* No message of A is in the queue; none of B follows one of A.
NoneIn(q, A) == \A m \in Range(q) : m \notin A
NoneAfter(q, A, B) == \A i, j \in DOMAIN q : i < j /\ q[i] \in A => q[j] \notin B

\* Messages to the host, and to the page.
Edited     == {m \in ToHost : m.type = "edits"}
Saves      == {m \in ToHost : m.type = "save"}
Prepares   == {m \in ToHost : m.type = "prepare"}
Commits    == {m \in ToHost : m.type = "commit"}
Calls      == {m \in ToHost : m.type \in {"prepare", "commit"}}
Discards   == {m \in ToHost : m.type = "discard"}
Asks       == {m \in ToHost : m.type \in {"discard", "session"}}

Snapshots  == {m \in ToPage : m.type = "snapshot"}
FirstOnes  == {m \in ToPage : m.type = "snapshot" /\ m.initial}
Heralded   == {m \in ToPage : m.type \notin {"snapshot", "saved"} \/ m \in FirstOnes}
Saveds     == {m \in ToPage : m.type = "saved"}
Prepareds  == {m \in ToPage : m.type = "prepared"}
Committeds == {m \in ToPage : m.type = "committed"}
Verdicts   == {m \in ToPage : m.type \in {"prepared", "prepareRefused", "committed", "commitRefused"}}
Replies    == {m \in ToPage : m.type \in {"discarded", "session"}}
Granted    == {m \in ToPage : m.type = "session" /\ m.granted}

\* The preparations and the commits of the present load of the page.
CurOps     == {op \in preparing : op.epoch = host.epoch}
OfEpoch(e) == {c \in Commit : c.epoch = e}
Moved      == {c \in Commit : c.step # "starting"}
CurCommits == {c \in Range(committing) : c.epoch = host.epoch}
WrittenNow == \E c \in CurCommits : c.step = "written"

\* A commit awaits just the edits that are pending, only the first one has been started,
\* and the one of the present load, of which there is at most one, spends the lease.
CommitFits(c) ==
    /\ c.epoch <= host.epoch /\ c.op.epoch = c.epoch /\ c.lease <= host.leases
    /\ c.awaits = Len(writes)
    /\ c.step \notin {"starting", "draining"} => c.awaits = 0
    /\ c.epoch = host.epoch => lease.state = "committing" /\ lease.id = c.lease
    /\ live /\ c.lease = lease.id => c.epoch = host.epoch

Numbered ==
    /\ host.session <= host.sessions
    /\ \A w \in Range(writes) : w.epoch <= host.epoch /\ w.session <= host.sessions
    /\ live => lease.op.epoch = host.epoch /\ lease.id <= host.leases
    /\ \A c \in Range(committing) : CommitFits(c)
    /\ NoneAfter(committing, Commit, Moved)
    /\ NoneAfter(committing, OfEpoch(host.epoch), OfEpoch(host.epoch))
    /\ \A op \in preparing : op.step # "draining" => op.awaits = 0

\* The panel has heard of the durable edits, but for a load that waits for its first
\* snapshot and for a commit between its compare-and-set and its answer.
Heard == host.known = host.durable \/ host.readying \/ WrittenNow

\* Of a page that is down and has announced itself to the host nothing is left at the host,
\* and it is told nothing that matters before its first snapshot.
Arriving ==
    /\ ~page.up => page = NewPage
    /\ ~page.up /\ Announcements = {} =>
          /\ toHost = <<>> /\ CurOps = {} /\ CurCommits = {} /\ ~host.claiming
          /\ \A w \in Range(writes) : w.epoch # host.epoch
    /\ NoneAfter(toPage, FirstOnes, Heralded)
    /\ \A m \in Range(toPage) : m \in FirstOnes => m.session = (host.session # 0)

\* No snapshot follows the latest one, and none is on its way once that is acknowledged.
Latest(d)  == {m \in ToPage : m.type = "snapshot" /\ m.delivery = d}
Applied(d) == {m \in ToHost : m.type = "applied" /\ m.delivery = d}
Ordered ==
    /\ NoneAfter(toPage, Latest(host.delivery), Snapshots)
    /\ host.acked \/ ~NoneIn(toHost, Applied(host.delivery)) => NoneIn(toPage, Snapshots)
    /\ host.readying => ~host.acked /\ NoneIn(toPage, Latest(host.delivery))

\* The replay that the slot waits for is in one place at most: a call to the host, a
\* preparation or a commit there, or the verdict.  Each of them is about the request or the
\* lease of the slot, and a commit writes what the slot's entry leads to.
Target == to_side(slot.entry, slot.direction)
OfPrepare(m) == slot.phase = "preparing" /\ m.request = slot.request
OfCommit(m)  == slot.phase = "committing" /\ m.lease = slot.lease

Tokens ==
    page.up =>
    /\ \A m \in Range(toHost) : m \in Prepares => OfPrepare(m)
    /\ \A m \in Range(toHost) : m \in Commits => OfCommit(m) /\ m.value = Target
    /\ \A op \in CurOps : OfPrepare(op)
    /\ \A c \in CurCommits : OfCommit(c) /\ c.value = Target
    /\ \A m \in Range(toPage) :
          /\ m.type \in {"prepared", "prepareRefused"} => OfPrepare(m)
          /\ m.type \in {"committed", "commitRefused"} => OfCommit(m)
    /\ NoneAfter(toHost, Calls, Calls) /\ NoneAfter(toPage, Verdicts, Verdicts)
    /\ NoneIn(toHost, Calls) \/ (CurOps = {} /\ CurCommits = {} /\ NoneIn(toPage, Verdicts))
    /\ NoneIn(toPage, Verdicts) \/ (CurOps = {} /\ CurCommits = {})
    /\ \A op, other \in CurOps : op = other

\* The entry of the slot is the newest one of its stack: a busy page records nothing.
Bound ==
    slot.phase \in {"preparing", "committing"} =>
        /\ page.session = "held"
        /\ stack_for(page, slot.direction) # <<>>
        /\ slot.entry = Last(stack_for(page, slot.direction))

\* The page asks one thing about its edit session at a time, which is on the queue, with
\* the host, or answered.  One without a session has
\* published nothing in it, and once its discard is handled none of its edits is pending.
Sessions ==
    page.up =>
    /\ \A m \in Range(toHost) :
          /\ m.type = "discard" => page.session = "discarding"
          /\ m.type = "session" => page.session = "requested"
    /\ \A m \in Range(toPage) :
          /\ m.type = "discarded" => page.session = "discarding"
          /\ m.type = "session" => page.session = "requested"
    /\ NoneAfter(toHost, Asks, Asks) /\ NoneAfter(toPage, Replies, Replies)
    /\ NoneIn(toHost, Asks) \/ NoneIn(toPage, Replies)
    /\ host.claiming =>
          page.session = "requested" /\ NoneIn(toHost, Asks) /\ NoneIn(toPage, Replies)
    /\ page.session = "held" \/ ~NoneIn(toPage, Granted) => host.session # 0
    /\ NoneAfter(toHost, Discards, Edited)
    /\ page.session # "held" =>
          /\ ~page.saving /\ page.published = Nothing
          /\ NoneIn(toHost, Discards) =>
                NoneIn(toHost, Edited) /\ \A w \in Range(writes) : ~Owns(w.session)

\* What the page published last is behind its other edits, on the queue and among the
\* writes, and once it is acknowledged no edit is pending.
Newest(n)     == {m \in ToHost : m.type = "edits" /\ m.sequence = n}
NewestAcks(n) == {m \in ToPage : m.type = "acknowledged" /\ m.sequence = n}
NewestWrites(e, n) == {w \in Write : w.epoch = e /\ w.sequence = n}
AckComing  == ~NoneIn(toPage, NewestAcks(page.sequence))

Pipeline ==
    page.up =>
    /\ \A m \in Range(toHost) : m.type = "edits" => m.sequence <= page.sequence
    /\ \A w \in Range(writes) : w.epoch = host.epoch => w.sequence <= page.sequence
    /\ \A m \in Range(toPage) : m.type = "acknowledged" => m.sequence <= page.sequence
    /\ page.session = "held" =>
       /\ NoneAfter(toHost, Newest(page.sequence), Edited)
       /\ \A m \in Range(toHost) : m \in Newest(page.sequence) => m.value = page.published
       /\ \A w \in Range(writes) : w \in NewestWrites(host.epoch, page.sequence) =>
            w.value = page.published /\ NoneIn(toHost, Edited)
       /\ NoneAfter(writes, NewestWrites(host.epoch, page.sequence), Write)
       /\ page.acknowledged \/ AckComing => writes = <<>> /\ NoneIn(toHost, Edited)

\* The values that occur.  A page that holds its session and does not save has published
\* what it shows.
Val == 0..count.edits \cup {MaxEdits + 1}
Values ==
    /\ count.edits <= MaxEdits
    /\ page.cell \in Val /\ host.durable \in Val /\ host.known \in Val /\ host.shown \in Val
    /\ page.published \in Val \cup {Nothing}
    /\ \A e \in Range(page.undo) \cup Range(page.redo) : e.before \in Val /\ e.after \in Val
    /\ slot.phase \in {"preparing", "committing"} =>
          slot.entry.before \in Val /\ slot.entry.after \in Val
    /\ \A m \in Range(toHost) : m.type \in {"edits", "commit"} => m.value \in Val
    /\ \A m \in Range(toPage) : m \in Snapshots \cup Granted => m.cell \in Val
    /\ \A w \in Range(writes) : w.value \in Val
    /\ \A c \in Range(committing) : c.value \in Val
    /\ page.session = "held" =>
          page.published # Nothing /\ (page.saving \/ page.cell = page.published)

\* Edits and snapshots of another value.
EditsBut(v)     == {m \in ToHost : m.type = "edits" /\ m.value # v}
SnapshotsBut(v) == {m \in ToPage : m.type = "snapshot" /\ m.cell # v}
\* The page is about to hear that its replay is committed.
Committed == ~NoneIn(toPage, Committeds)
\* The commit of the slot is somewhere.  Where it is not, its answer was lost, and the page
\* stays busy until it is loaded again.
CommitToken ==
    \/ ~NoneIn(toHost, Commits) \/ CurCommits # {}
    \/ \E m \in Range(toPage) : m.type \in {"committed", "commitRefused"}
Stuck == slot.phase = "committing" /\ ~CommitToken
\* A replay under way that has compared its snapshot with the durable edits.
Settled ==
    \/ \E op \in CurOps : op.step = "verifying"
    \/ ~NoneIn(toPage, Prepareds)
    \/ ~NoneIn(toHost, Commits)
    \/ CurCommits # {}
\* No edit of the page is on its way that would change the durable edits.
Firm == Settled \/ Committed \/ page.acknowledged
Truth == IF Committed THEN Target ELSE page.cell

\* What the host knows, and shows, is what the page will show when it has heard of its
\* replay.
Agreement ==
    /\ Firm => NoneIn(toPage, SnapshotsBut(Truth))
    /\ NoneAfter(toPage, NewestAcks(page.sequence), SnapshotsBut(Truth))
    /\ Firm \/ AckComing => host.known = Truth /\ (~host.posted => host.shown = Truth)
    /\ WrittenNow => host.durable = Target
    /\ NoneAfter(toPage, Snapshots, Committeds)

\* The edits on their way say what the page shows: those behind a replay that is under
\* way, and all of them once it has compared its snapshot.
InFlight ==
    /\ Settled => NoneIn(toHost, EditsBut(page.cell)) /\ \A w \in Range(writes) : w.value = page.cell
    /\ NoneAfter(toHost, Commits, Edited)
    /\ CurCommits # {} \/ Committed => NoneIn(toHost, Edited)
    /\ Committed => writes = <<>>
    /\ ~NoneIn(toHost, Newest(page.sequence)) \/ ~NoneIn(writes, NewestWrites(host.epoch, page.sequence))
          => page.published = page.cell
    /\ \A m \in Range(toHost) : m \in Prepares => m.cell = page.cell
    /\ NoneAfter(toHost, Prepares, EditsBut(page.cell))
    /\ \A op \in CurOps :
          /\ op.cell = page.cell /\ NoneIn(toHost, EditsBut(page.cell))
          /\ \A i \in DOMAIN writes : i > op.awaits => writes[i].value = page.cell

\* A page that saves holds back what it shows; before the save has ended no replay of it
\* passes a preparation.
Saving ==
    page.cell # page.published =>
       /\ NoneAfter(toHost, Prepares, Saves)
       /\ CurOps # {} \/ ~NoneIn(toPage, Prepareds) \/ ~NoneIn(toHost, Commits) \/ CurCommits # {} =>
            NoneIn(toHost, Saves) /\ ~host.saving
       /\ NoneAfter(toPage, Prepareds, Saveds)
       /\ ~NoneIn(toHost, Commits) \/ CurCommits # {} => NoneIn(toPage, Saveds)
       /\ NoneAfter(toPage, Saveds, Committeds)

\* No replay was refused after it had been written, and none has lost its answer.
Whole == page.up /\ ~host.overtaken /\ ~Stuck
Document == Whole /\ page.session = "held" => Agreement /\ InFlight /\ Saving

\* The history is a chain through the cell.  Without an edit session it leads to the
\* document without edits, which is what a discard leaves and a grant installs.
Linked ==
    Whole /\ ~count.others =>
    /\ \A i \in 1..(Len(page.undo) - 1) : page.undo[i].after = page.undo[i + 1].before
    /\ \A i \in 1..(Len(page.redo) - 1) : page.redo[i].before = page.redo[i + 1].after
    /\ page.undo # <<>> => Last(page.undo).after = page.cell
    /\ page.redo # <<>> => Last(page.redo).before = page.cell
    /\ page.session # "held" /\ (page.undo # <<>> \/ page.redo # <<>>) =>
         /\ page.cell = 0
         /\ NoneIn(toHost, Discards) => host.durable = 0
         /\ \A m \in Range(toPage) : m \in Granted => m.cell = 0

DocInv ==
    /\ Numbered /\ Heard /\ Arriving /\ Ordered /\ Tokens /\ Bound /\ Sessions
    /\ Pipeline /\ Values /\ Document /\ Linked

-----------------------------------------------------------------------------
(* Order in a queue *)

LEMMA OrderTail ==
    ASSUME NEW S, NEW q \in Seq(S), q # <<>>, NEW A, NEW B, NoneAfter(q, A, B)
    PROVE  /\ NoneAfter(Tail(q), A, B)
           /\ Head(q) \in A => NoneIn(Tail(q), B)
<1>1. /\ Tail(q) \in Seq(S) /\ Len(q) \in Nat \ {0} /\ Len(Tail(q)) = Len(q) - 1
      /\ \A i \in 1..Len(Tail(q)) : Tail(q)[i] = q[i + 1]
      /\ Head(q) = q[1]
  BY AfterTail
<1>2. DOMAIN q = 1..Len(q) /\ DOMAIN Tail(q) = 1..Len(Tail(q))
  BY <1>1, LenProperties
<1>3. NoneAfter(Tail(q), A, B)
  <2>1. SUFFICES ASSUME NEW i \in DOMAIN Tail(q), NEW j \in DOMAIN Tail(q),
                        i < j, Tail(q)[i] \in A
                 PROVE  Tail(q)[j] \notin B
    BY DEF NoneAfter
  <2>2. /\ i + 1 \in DOMAIN q /\ j + 1 \in DOMAIN q /\ i + 1 < j + 1
        /\ Tail(q)[i] = q[i + 1] /\ Tail(q)[j] = q[j + 1]
    BY <1>1, <1>2, <2>1
  <2>. QED BY <2>1, <2>2 DEF NoneAfter
<1>4. ASSUME Head(q) \in A
      PROVE  NoneIn(Tail(q), B)
  <2>1. ASSUME NEW i \in DOMAIN Tail(q)
        PROVE  Tail(q)[i] \notin B
    <3>1. 1 \in DOMAIN q /\ i + 1 \in DOMAIN q /\ 1 < i + 1 /\ Tail(q)[i] = q[i + 1]
      BY <1>1, <1>2
    <3>. QED BY <1>1, <1>4, <3>1 DEF NoneAfter
  <2>. QED BY <2>1 DEF NoneIn, Range
<1>. QED BY <1>3, <1>4

LEMMA OrderGrow ==
    ASSUME NEW S, NEW q \in Seq(S), NEW m \in S, NEW p, p = q \/ p = Append(q, m),
           NEW A, NEW B, NoneAfter(q, A, B), m \notin B \/ NoneIn(q, A)
    PROVE  NoneAfter(p, A, B)
<1>1. CASE p = Append(q, m)
  <2>1. /\ Append(q, m) \in Seq(S) /\ Len(Append(q, m)) = Len(q) + 1 /\ Len(q) \in Nat
        /\ \A i \in 1..Len(q) : Append(q, m)[i] = q[i]
        /\ Append(q, m)[Len(q) + 1] = m
    BY AfterAppend, LenProperties
  <2>2. DOMAIN q = 1..Len(q) /\ DOMAIN p = 1..(Len(q) + 1)
    BY <1>1, <2>1, LenProperties
  <2>3. SUFFICES ASSUME NEW i \in DOMAIN p, NEW j \in DOMAIN p, i < j, p[i] \in A
                 PROVE  p[j] \notin B
    BY DEF NoneAfter
  <2>4. i \in DOMAIN q /\ p[i] = q[i]
    BY <1>1, <2>1, <2>2, <2>3
  <2>5. CASE j \in DOMAIN q
    BY <1>1, <2>1, <2>2, <2>3, <2>4, <2>5 DEF NoneAfter
  <2>6. CASE j \notin DOMAIN q
    <3>1. p[j] = m
      <4>1. j = Len(q) + 1
        BY <2>1, <2>2, <2>6
      <4>. QED BY <4>1, <1>1, <2>1
    <3>2. ~NoneIn(q, A)
      BY <2>3, <2>4 DEF NoneIn, Range
    <3>. QED BY <3>1, <3>2
  <2>. QED BY <2>5, <2>6
<1>. QED BY <1>1

\* Sets of which the queue sees less.
LEMMA OrderLess ==
    ASSUME NEW q, NEW A, NEW B, NEW C, NEW D, NoneAfter(q, A, B),
           \A m \in Range(q) : (m \in C => m \in A) /\ (m \in D => m \in B)
    PROVE  NoneAfter(q, C, D)
<1>. QED BY DEF NoneAfter, Range

LEMMA OrderNone ==
    ASSUME NEW q, NEW A, NEW B, NoneIn(q, A) \/ NoneIn(q, B)
    PROVE  NoneAfter(q, A, B)
<1>. QED BY DEF NoneAfter, NoneIn, Range

LEMMA RangeTail ==
    ASSUME NEW S, NEW q \in Seq(S), q # <<>>
    PROVE  /\ Tail(q) \in Seq(S) /\ Head(q) \in S /\ Head(q) \in Range(q)
           /\ Range(q) = Range(Tail(q)) \cup {Head(q)}
<1>. QED BY AfterTail

LEMMA RangeGrow ==
    ASSUME NEW S, NEW q \in Seq(S), NEW m \in S, NEW p, p = q \/ p = Append(q, m)
    PROVE  /\ p \in Seq(S) /\ Range(q) \subseteq Range(p) /\ Range(p) \subseteq Range(q) \cup {m}
           /\ p = Append(q, m) => Range(p) = Range(q) \cup {m}
<1>1. Append(q, m) \in Seq(S) /\ Range(Append(q, m)) = Range(q) \cup {m}
  BY AfterAppend
<1>2. CASE p = q
  BY <1>1, <1>2
<1>3. CASE p = Append(q, m)
  BY <1>1, <1>3
<1>. QED BY <1>2, <1>3

-----------------------------------------------------------------------------
(* How a queue changes *)

\* p is q without its first message m; q with m behind it; q or that.
Popped(q, p, m) ==
    /\ Range(q) = Range(p) \cup {m}
    /\ \A A : NoneIn(q, A) <=> NoneIn(p, A) /\ m \notin A
    /\ \A A, B : NoneAfter(q, A, B) => NoneAfter(p, A, B) /\ (m \in A => NoneIn(p, B))

Pushed(q, p, m) ==
    /\ Range(p) = Range(q) \cup {m}
    /\ \A A : NoneIn(p, A) <=> NoneIn(q, A) /\ m \notin A
    /\ \A A, B : NoneAfter(q, A, B) /\ (m \notin B \/ NoneIn(q, A)) => NoneAfter(p, A, B)

Grows(q, p, m) == p = q \/ Pushed(q, p, m)

\* Of the messages in K, p has none that q does not have, and no other order.
Less(q, p, K) ==
    /\ \A m \in Range(p) : m \in K => m \in Range(q)
    /\ \A A : A \subseteq K /\ NoneIn(q, A) => NoneIn(p, A)
    /\ \A A, B : A \subseteq K /\ B \subseteq K /\ NoneAfter(q, A, B) => NoneAfter(p, A, B)

LEMMA PoppedTail ==
    ASSUME NEW S, NEW q \in Seq(S), q # <<>>
    PROVE  Popped(q, Tail(q), Head(q)) /\ Head(q) \in Range(q)
<1>1. Range(q) = Range(Tail(q)) \cup {Head(q)}
  BY RangeTail
<1>2. ASSUME NEW A PROVE NoneIn(q, A) <=> NoneIn(Tail(q), A) /\ Head(q) \notin A
  BY <1>1 DEF NoneIn
<1>3. ASSUME NEW A, NEW B, NoneAfter(q, A, B)
      PROVE  NoneAfter(Tail(q), A, B) /\ (Head(q) \in A => NoneIn(Tail(q), B))
  BY <1>3, OrderTail
<1>. QED BY <1>1, <1>2, <1>3 DEF Popped

LEMMA PushedAppend ==
    ASSUME NEW S, NEW q \in Seq(S), NEW m \in S
    PROVE  Pushed(q, Append(q, m), m) /\ Append(q, m) \in Seq(S)
<1>1. Range(Append(q, m)) = Range(q) \cup {m} /\ Append(q, m) \in Seq(S)
  BY AfterAppend
<1>2. ASSUME NEW A PROVE NoneIn(Append(q, m), A) <=> NoneIn(q, A) /\ m \notin A
  BY <1>1 DEF NoneIn
<1>3. ASSUME NEW A, NEW B, NoneAfter(q, A, B), m \notin B \/ NoneIn(q, A)
      PROVE  NoneAfter(Append(q, m), A, B)
  BY <1>3, OrderGrow
<1>. QED BY <1>1, <1>2, <1>3 DEF Pushed

LEMMA GrowsAppend ==
    ASSUME NEW S, NEW q \in Seq(S), NEW m \in S, NEW p, p = q \/ p = Append(q, m)
    PROVE  Grows(q, p, m) /\ p \in Seq(S)
<1>. QED BY PushedAppend DEF Grows

LEMMA LessSame == ASSUME NEW q, NEW K PROVE Less(q, q, K)
<1>. QED BY DEF Less

LEMMA LessPopped == ASSUME NEW q, NEW p, NEW m, Popped(q, p, m), NEW K PROVE Less(q, p, K)
<1>. QED BY DEF Less, Popped

LEMMA LessGrows == ASSUME NEW q, NEW p, NEW m, Grows(q, p, m), NEW K, m \notin K PROVE Less(q, p, K)
<1>1. ASSUME Pushed(q, p, m) PROVE Less(q, p, K)
  <2>1. \A A : A \subseteq K => m \notin A
    OBVIOUS
  <2>. QED BY <1>1, <2>1 DEF Less, Pushed
<1>. QED BY <1>1, LessSame DEF Grows

LEMMA LessTrans ==
    ASSUME NEW q, NEW p, NEW r, NEW K, Less(q, p, K), Less(p, r, K)
    PROVE  Less(q, r, K)
<1>. QED BY DEF Less

LEMMA LessOf ==
    ASSUME NEW q, NEW p, NEW K, NEW L, Less(q, p, K), L \subseteq K
    PROVE  Less(q, p, L)
<1>. QED BY DEF Less

-----------------------------------------------------------------------------
(* What the host shows and answers *)

\* The host is h, or h with a new snapshot, posted or not; q is the queue to the page
\* with that snapshot.
Drawn(h, q) ==
    /\ host' \in Host
    /\ host'.durable = h.durable /\ host'.known = h.known /\ host'.overtaken = h.overtaken
    /\ host'.epoch = h.epoch /\ host'.readying = h.readying /\ host'.saving = h.saving
    /\ host'.session = h.session /\ host'.sessions = h.sessions /\ host'.leases = h.leases
    /\ \/ /\ q = toPage
          /\ host'.delivery = h.delivery /\ host'.shown = h.shown
          /\ host'.posted = h.posted /\ host'.acked = h.acked
       \/ /\ ~h.readying
          /\ host'.delivery = h.delivery + 1 /\ host'.shown = h.known /\ ~host'.acked
          /\ \/ host'.posted /\ q = Append(toPage, Snapshot(host'))
             \/ ~host'.posted /\ q = toPage

Answered(q, a) == toPage' = q \/ toPage' = Append(q, a)

Kept == count' \in Count /\ count'.edits = count.edits /\ count'.others = count.others

LEMMA KeptSame == ASSUME count \in Count, UNCHANGED count PROVE Kept
<1>. QED BY DEF Kept

LEMMA KeptFault == ASSUME count \in Count, Fault PROVE Kept
<1>. QED BY DEF Kept, Fault, Count

LEMMA KeptLost == ASSUME count \in Count, Lost PROVE Kept
<1>1. count' = [count EXCEPT !.faults = count.faults + 1, !.lost = TRUE] /\ count.faults + 1 \in Nat
  BY DEF Lost, Count
<1>2. ASSUME NEW n \in Nat, count' = [count EXCEPT !.faults = n, !.lost = TRUE] PROVE Kept
  BY <1>2 DEF Kept, Count
<1>. QED BY <1>1, <1>2

LEMMA DrawnSame == ASSUME NEW h \in Host, host' = h PROVE Drawn(h, toPage)
<1>. QED BY DEF Drawn

LEMMA DrawnShown ==
    ASSUME NEW h \in Host, ~h.readying, host' = shown(h)
    PROVE  Drawn(h, Append(toPage, Snapshot(shown(h))))
<1>1. host' \in Host
  BY SnapshotType
<1>2. /\ host'.delivery = h.delivery + 1 /\ host'.shown = h.known /\ ~host'.acked /\ host'.posted
      /\ host'.durable = h.durable /\ host'.known = h.known /\ host'.overtaken = h.overtaken
      /\ host'.epoch = h.epoch /\ host'.readying = h.readying /\ host'.saving = h.saving
      /\ host'.session = h.session /\ host'.sessions = h.sessions /\ host'.leases = h.leases
  BY DEF shown, Host
<1>. QED BY <1>1, <1>2 DEF Drawn

LEMMA DrawnLate ==
    ASSUME NEW h \in Host, ~h.readying, Late(h)
    PROVE  Drawn(h, toPage)
<1>1. host' \in Host
  BY SnapshotType DEF Late
<1>2. /\ host'.delivery = h.delivery + 1 /\ host'.shown = h.known /\ ~host'.acked /\ ~host'.posted
      /\ host'.durable = h.durable /\ host'.known = h.known /\ host'.overtaken = h.overtaken
      /\ host'.epoch = h.epoch /\ host'.readying = h.readying /\ host'.saving = h.saving
      /\ host'.session = h.session /\ host'.sessions = h.sessions /\ host'.leases = h.leases
  BY DEF Late, shown, Host
<1>. QED BY <1>1, <1>2 DEF Drawn

LEMMA ConcatOne ==
    ASSUME NEW S, NEW s \in Seq(S), NEW a \in S
    PROVE  s \o <<a>> = Append(s, a) /\ s \o <<>> = s
<1>. QED BY AppendIsConcat, ConcatEmptySeq

\* answers is <<>> or <<a>>.
LEMMA DeliverDrawn ==
    ASSUME toPage \in Seq(ToPage), count \in Count, NEW h \in Host, NEW a \in ToPage,
           NEW answers, answers = <<>> \/ answers = <<a>>, Deliver(h, answers)
    PROVE  /\ Kept
           /\ \E q : /\ Drawn(h, q) /\ Answered(q, a)
                     /\ answers = <<>> => toPage' = q
                     /\ q = toPage \/ q = Append(toPage, Snapshot(host'))
<1>. DEFINE s == Snapshot(shown(h))
<1>1. s \in ToPage
  BY SnapshotType
<1>2. \A q \in Seq(ToPage) : /\ q \o answers = q \/ q \o answers = Append(q, a)
                             /\ answers = <<>> => q \o answers = q
  BY ConcatOne
<1>3. /\ toPage \o <<>> = toPage /\ toPage \o <<s>> = Append(toPage, s)
      /\ Append(toPage, s) \in Seq(ToPage)
  BY <1>1, ConcatOne, AfterAppend
<1>4. CASE h.readying
  <2>1. /\ host' = h
        /\ \/ toPage' = toPage \o <<>> \o answers /\ UNCHANGED count
           \/ Lost /\ toPage' = toPage \o <<>>
    BY <1>4 DEF Deliver
  <2>2. Drawn(h, toPage) /\ Answered(toPage, a) /\ (answers = <<>> => toPage' = toPage)
    BY <2>1, <1>2, <1>3, DrawnSame DEF Answered
  <2>. QED BY <2>1, <2>2, KeptSame, KeptLost
<1>5. CASE ~h.readying
  <2>1. \/ host' = shown(h) /\ toPage' = toPage \o <<s>> \o answers /\ UNCHANGED count
        \/ Fault /\ Late(h) /\ toPage' = toPage \o answers
        \/ Lost /\ host' = shown(h) /\ toPage' = toPage \o <<s>>
    BY <1>5 DEF Deliver
  <2>2. CASE host' = shown(h) /\ toPage' = toPage \o <<s>> \o answers /\ UNCHANGED count
    <3>1. /\ Drawn(h, Append(toPage, s)) /\ Answered(Append(toPage, s), a)
          /\ answers = <<>> => toPage' = Append(toPage, s)
      BY <1>5, <2>2, <1>2, <1>3, DrawnShown DEF Answered
    <3>. QED BY <2>2, <3>1, KeptSame
  <2>3. CASE Fault /\ Late(h) /\ toPage' = toPage \o answers
    <3>1. Drawn(h, toPage) /\ Answered(toPage, a) /\ (answers = <<>> => toPage' = toPage)
      BY <1>5, <2>3, <1>2, <1>3, DrawnLate DEF Answered
    <3>. QED BY <2>3, <3>1, KeptFault
  <2>4. CASE Lost /\ host' = shown(h) /\ toPage' = toPage \o <<s>>
    <3>1. /\ Drawn(h, Append(toPage, s)) /\ Answered(Append(toPage, s), a)
          /\ answers = <<>> => toPage' = Append(toPage, s)
      BY <1>5, <2>4, <1>3, DrawnShown DEF Answered
    <3>. QED BY <2>4, <3>1, KeptLost
  <2>. QED BY <2>1, <2>2, <2>3, <2>4
<1>. QED BY <1>4, <1>5

LEMMA RedrawDrawn ==
    ASSUME toPage \in Seq(ToPage), NEW h \in Host, ~h.readying, Redraw(h)
    PROVE  Drawn(h, toPage')
<1>. QED BY DrawnShown, DrawnLate DEF Redraw

LEMMA PostDrawn ==
    ASSUME toPage \in Seq(ToPage), count \in Count, NEW epoch, NEW a \in ToPage, Post(epoch, a)
    PROVE  /\ Kept /\ Answered(toPage, a)
           /\ toPage' # toPage => epoch = host.epoch
<1>1. toPage \o <<>> = toPage /\ toPage \o <<a>> = Append(toPage, a)
  BY ConcatOne
<1>. QED BY <1>1, KeptSame, KeptLost DEF Post, For, Answered

\* The snapshot that is drawn.
LEMMA DrawnSnapshot ==
    ASSUME NEW h, NEW q, Drawn(h, q), toPage \in Seq(ToPage)
    PROVE  /\ Snapshot(host') \in ToPage
           /\ Snapshot(host').type = "snapshot" /\ ~Snapshot(host').initial
           /\ Snapshot(host').delivery = host'.delivery /\ Snapshot(host').cell = host'.shown
           /\ q = toPage \/ q = Append(toPage, Snapshot(host'))
           /\ q \in Seq(ToPage)
<1>1. Snapshot(host') \in ToPage
  BY SnapshotType DEF Drawn
<1>2. /\ Snapshot(host').type = "snapshot" /\ ~Snapshot(host').initial
      /\ Snapshot(host').delivery = host'.delivery /\ Snapshot(host').cell = host'.shown
  BY DEF Snapshot
<1>3. q = toPage \/ q = Append(toPage, Snapshot(host'))
  BY DEF Drawn
<1>. QED BY <1>1, <1>2, <1>3, AfterAppend

LEMMA ShownClaims ==
    ASSUME NEW h \in Host, host' = shown(h) \/ Late(h)
    PROVE  host'.claiming = h.claiming
<1>. QED BY DEF shown, Late, Host

LEMMA DeliverClaims ==
    ASSUME NEW h \in Host, NEW answers, Deliver(h, answers)
    PROVE  host'.claiming = h.claiming
<1>1. host' = h \/ host' = shown(h) \/ Late(h)
  BY DEF Deliver
<1>. QED BY <1>1, ShownClaims

LEMMA StoredFields ==
    ASSUME host \in Host, NEW value \in Nat
    PROVE  /\ stored(value) \in Host
           /\ stored(value).durable = value /\ stored(value).known = value
           /\ stored(value).overtaken = host.overtaken
           /\ stored(value).epoch = host.epoch /\ stored(value).readying = host.readying
           /\ stored(value).saving = host.saving
           /\ stored(value).session = host.session /\ stored(value).sessions = host.sessions
           /\ stored(value).leases = host.leases
           /\ stored(value).delivery = host.delivery /\ stored(value).shown = host.shown
           /\ stored(value).posted = host.posted /\ stored(value).acked = host.acked
           /\ stored(value).claiming = host.claiming
<1>. QED BY DEF stored, Host

-----------------------------------------------------------------------------
(* What each step of the host does *)

\* The snapshot of the host, drawn or not.
Draws(q) ==
    /\ host' \in Host
    /\ host'.epoch = host.epoch /\ host'.readying = host.readying
    /\ Snapshot(host') \in ToPage
    /\ Snapshot(host').type = "snapshot" /\ ~Snapshot(host').initial
    /\ Snapshot(host').delivery = host'.delivery /\ Snapshot(host').cell = host'.shown
    /\ \/ /\ q = toPage
          /\ host'.delivery = host.delivery /\ host'.shown = host.shown
          /\ host'.posted = host.posted /\ host'.acked = host.acked
       \/ /\ ~host.readying
          /\ host'.delivery = host.delivery + 1 /\ host'.shown = host'.known /\ ~host'.acked
          /\ \/ host'.posted /\ Pushed(toPage, q, Snapshot(host'))
             \/ ~host'.posted /\ q = toPage

Becomes(durable, known, session, sessions, saving, leases, overtaken) ==
    /\ host'.durable = durable /\ host'.known = known
    /\ host'.session = session /\ host'.sessions = sessions
    /\ host'.saving = saving /\ host'.leases = leases /\ host'.overtaken = overtaken

\* What the host knows of the document, and its edit session, stay.
Calm(saving) ==
    Becomes(host.durable, host.known, host.session, host.sessions, saving, host.leases,
            host.overtaken)

PageStays == page' = page /\ slot' = slot

\* The answer a follows a snapshot, unless one of them or both are not posted.
Answers1(a) == \E q : Draws(q) /\ Grows(q, toPage', a)

LEMMA DrawnDraws ==
    ASSUME toPage \in Seq(ToPage), NEW h, NEW q, Drawn(h, q),
           h.epoch = host.epoch, h.readying = host.readying,
           h.delivery = host.delivery, h.shown = host.shown,
           h.posted = host.posted, h.acked = host.acked
    PROVE  /\ Draws(q) /\ q \in Seq(ToPage)
           /\ Becomes(h.durable, h.known, h.session, h.sessions, h.saving, h.leases, h.overtaken)
<1>. DEFINE s == Snapshot(host')
<1>1. /\ s \in ToPage /\ s.type = "snapshot" /\ ~s.initial
      /\ s.delivery = host'.delivery /\ s.cell = host'.shown /\ q \in Seq(ToPage)
  BY DrawnSnapshot
<1>2. Pushed(toPage, Append(toPage, s), s)
  BY <1>1, PushedAppend
<1>. HIDE DEF s
<1>3. Draws(q)
  BY <1>1, <1>2 DEF Drawn, Draws, s
<1>4. Becomes(h.durable, h.known, h.session, h.sessions, h.saving, h.leases, h.overtaken)
  BY DEF Drawn, Becomes
<1>. QED BY <1>1, <1>3, <1>4

\* The step delivers what the host h knows, and the answer a or none.
LEMMA DeliverDoes ==
    ASSUME toPage \in Seq(ToPage), count \in Count, NEW h \in Host, NEW a \in ToPage,
           NEW answers, answers = <<>> \/ answers = <<a>>, Deliver(h, answers),
           h.epoch = host.epoch, h.readying = host.readying,
           h.delivery = host.delivery, h.shown = host.shown,
           h.posted = host.posted, h.acked = host.acked
    PROVE  /\ Kept
           /\ answers = <<>> => Draws(toPage')
           /\ Answers1(a)
           /\ Becomes(h.durable, h.known, h.session, h.sessions, h.saving, h.leases, h.overtaken)
<1>1. Kept /\ \E q : /\ Drawn(h, q) /\ Answered(q, a)
                     /\ answers = <<>> => toPage' = q
  BY DeliverDrawn
<1>2. PICK q : /\ Drawn(h, q) /\ Answered(q, a)
               /\ answers = <<>> => toPage' = q
  BY <1>1
<1>3. /\ Draws(q) /\ q \in Seq(ToPage)
      /\ Becomes(h.durable, h.known, h.session, h.sessions, h.saving, h.leases, h.overtaken)
  BY <1>2, DrawnDraws
<1>4. Grows(q, toPage', a)
  BY <1>2, <1>3, GrowsAppend DEF Answered
<1>. QED BY <1>1, <1>2, <1>3, <1>4 DEF Answers1

LEMMA StaysDraws ==
    ASSUME host \in Host, toPage \in Seq(ToPage), host' = host
    PROVE  Draws(toPage) /\ Calm(host.saving)
<1>1. Drawn(host, toPage)
  BY DrawnSame
<1>. QED BY <1>1, DrawnDraws DEF Calm

LEMMA PostDoes ==
    ASSUME toPage \in Seq(ToPage), count \in Count, NEW epoch, NEW a \in ToPage, Post(epoch, a)
    PROVE  /\ Kept /\ Grows(toPage, toPage', a)
           /\ epoch # host.epoch => toPage' = toPage
<1>. QED BY PostDrawn, GrowsAppend DEF Answered

\* The host takes its next message.
Takes(m) == m \in ToHost /\ m \in Range(toHost) /\ Popped(toHost, toHost', m)

LEMMA AtHostTakes ==
    ASSUME toHost \in Seq(ToHost), NEW type, AtHost(type)
    PROVE  Takes(Head(toHost)) /\ Head(toHost).type = type
<1>1. toHost # <<>> /\ toHost' = Tail(toHost) /\ Head(toHost).type = type
  BY DEF AtHost
<1>2. Head(toHost) \in ToHost
  BY <1>1, AfterTail
<1>. QED BY <1>1, <1>2, PoppedTail DEF Takes

LEMMA HostState ==
    ASSUME IInv
    PROVE  /\ host \in Host /\ toPage \in Seq(ToPage) /\ toHost \in Seq(ToHost)
           /\ writes \in Seq(Write) /\ count \in Count /\ lease \in Lease
           /\ preparing \subseteq Op /\ committing \in Seq(Commit)
           /\ page \in Page /\ slot \in Slot
<1>. QED BY DEF IInv, Types, HostTypes, WireTypes, PageTypes

Rest == UNCHANGED <<preparing, committing, writes>>

LEMMA HandleEditsDoes ==
    ASSUME IInv, HandleEdits
    PROVE  /\ PageStays /\ UNCHANGED <<host, lease, preparing, committing, toPage, count>> /\ Kept
           /\ \E m : /\ Takes(m) /\ m.type = "edits"
                     /\ \/ UNCHANGED writes
                        \/ \E w \in Write :
                              /\ w.value = m.value /\ w.epoch = host.epoch
                              /\ w.sequence = m.sequence /\ w.session = host.session
                              /\ writes' = Append(writes, w)
                              /\ host.session # 0 /\ committing = <<>> /\ ~host.saving
<1>. DEFINE m == Head(toHost)
            w == [value |-> m.value, epoch |-> host.epoch, sequence |-> m.sequence,
                  session |-> host.session]
<1>1. /\ host \in Host /\ toHost \in Seq(ToHost) /\ count \in Count
  BY HostState
<1>2. /\ AtHost("edits") /\ PageStays
      /\ UNCHANGED <<host, lease, preparing, committing, toPage, count>>
      /\ \/ UNCHANGED writes
         \/ writes' = Append(writes, w) /\ host.session # 0 /\ committing = <<>> /\ ~host.saving
  BY DEF HandleEdits, pageVars, PageStays
<1>3. Takes(m) /\ m.type = "edits"
  BY <1>1, <1>2, AtHostTakes
<1>4. m.value \in Nat /\ m.sequence \in Nat
  BY <1>3 DEF Takes, ToHost
<1>5. host.epoch \in Nat /\ host.session \in Nat
  BY <1>1 DEF Host
<1>. HIDE DEF m
<1>6. /\ w \in Write /\ w.value = m.value /\ w.epoch = host.epoch /\ w.sequence = m.sequence
      /\ w.session = host.session
  BY <1>4, <1>5 DEF Write
<1>. HIDE DEF w
<1>. QED BY <1>1, <1>2, <1>3, <1>6, KeptSame

\* A write lands; it is acknowledged to the page that made it.
Acknowledges(w) == [type |-> "acknowledged", sequence |-> w.sequence]

LEMMA WriteLandsDoes ==
    ASSUME IInv, WriteLands
    PROVE  /\ PageStays /\ UNCHANGED <<toHost, lease>> /\ Kept
           /\ writes # <<>> /\ writes' = Tail(writes)
           /\ preparing' = {ahead(op) : op \in preparing}
           /\ committing' = [i \in DOMAIN committing |-> ahead(committing[i])]
           /\ \E w \in Write :
                 /\ w = Head(writes) /\ w \in Range(writes) /\ Popped(writes, writes', w)
                 /\ \/ ~Owns(w.session) /\ host' = host /\ toPage' = toPage
                    \/ /\ Owns(w.session)
                       /\ Becomes(w.value, w.value, host.session, host.sessions, host.saving,
                                  host.leases, host.overtaken)
                       /\ Acknowledges(w) \in ToPage /\ Acknowledges(w).type = "acknowledged"
                       /\ Acknowledges(w).sequence = w.sequence
                       /\ Answers1(Acknowledges(w))
                       /\ w.epoch # host.epoch => Draws(toPage')
<1>. DEFINE w == Head(writes)
            a == Acknowledges(w)
<1>1. /\ host \in Host /\ toPage \in Seq(ToPage) /\ writes \in Seq(Write)
      /\ count \in Count /\ writes # <<>>
  BY HostState DEF WriteLands
<1>2. w \in Write /\ Popped(writes, Tail(writes), w) /\ w \in Range(writes)
  BY <1>1, AfterTail, PoppedTail
<1>3. /\ writes' = Tail(writes)
      /\ preparing' = {ahead(op) : op \in preparing}
      /\ committing' = [i \in DOMAIN committing |-> ahead(committing[i])]
      /\ PageStays /\ UNCHANGED <<lease, toHost>>
  BY DEF WriteLands, ahead, pageVars, PageStays
<1>4. a \in ToPage /\ w.value \in Nat /\ a.type = "acknowledged" /\ a.sequence = w.sequence
  BY <1>2 DEF ToPage, Write, Acknowledges
<1>5. CASE ~Owns(w.session)
  <2>1. UNCHANGED <<host, toPage, count>>
    BY <1>5 DEF WriteLands
  <2>. HIDE DEF w, a
  <2>. QED BY <1>1, <1>2, <1>3, <1>5, <2>1, KeptSame DEF w
<1>6. CASE Owns(w.session)
  <2>1. Deliver(stored(w.value), For(w.epoch, a))
    BY <1>6 DEF WriteLands, Acknowledges
  <2>2. For(w.epoch, a) = IF w.epoch = host.epoch THEN <<a>> ELSE <<>>
    BY DEF For
  <2>. DEFINE h == stored(w.value)
  <2>3. /\ h \in Host
        /\ h.durable = w.value /\ h.known = w.value /\ h.overtaken = host.overtaken
        /\ h.epoch = host.epoch /\ h.readying = host.readying /\ h.saving = host.saving
        /\ h.session = host.session /\ h.sessions = host.sessions /\ h.leases = host.leases
        /\ h.delivery = host.delivery /\ h.shown = host.shown
        /\ h.posted = host.posted /\ h.acked = host.acked
    BY <1>1, <1>4, StoredFields
  <2>. HIDE DEF a, h
  <2>4. Deliver(h, For(w.epoch, a))
    BY <2>1 DEF h
  <2>5. /\ Kept /\ Answers1(a) /\ (For(w.epoch, a) = <<>> => Draws(toPage'))
        /\ Becomes(h.durable, h.known, h.session, h.sessions, h.saving, h.leases, h.overtaken)
    BY <1>1, <1>4, <2>2, <2>3, <2>4, DeliverDoes
  <2>6. /\ Becomes(w.value, w.value, host.session, host.sessions, host.saving, host.leases,
                   host.overtaken)
        /\ w.epoch # host.epoch => Draws(toPage')
    BY <2>2, <2>3, <2>5
  <2>. HIDE DEF w
  <2>. QED BY <1>1, <1>2, <1>3, <1>4, <1>6, <2>5, <2>6 DEF a, w
<1>. QED BY <1>5, <1>6

LEMMA HandleDiscardDoes ==
    ASSUME IInv, HandleDiscard
    PROVE  /\ PageStays /\ Kept /\ UNCHANGED <<lease, preparing, committing, writes>>
           /\ \E m : Takes(m) /\ m.type = "discard"
           /\ \E a \in ToPage : a.type = "discarded" /\ Answers1(a)
           /\ Becomes(0, 0, 0, host.sessions, host.saving, host.leases, host.overtaken)
<1>. DEFINE g == stored(0)
            h == [stored(0) EXCEPT !.session = 0]
            a == [type |-> "discarded"]
<1>1. host \in Host /\ toPage \in Seq(ToPage) /\ toHost \in Seq(ToHost) /\ count \in Count
  BY HostState
<1>2. a \in ToPage /\ a.type = "discarded"
  BY DEF ToPage
<1>3. /\ PageStays /\ UNCHANGED <<lease, preparing, committing, writes>> /\ AtHost("discard")
      /\ Deliver(h, <<a>>)
  BY DEF HandleDiscard, pageVars, PageStays
<1>4. /\ g \in Host
      /\ g.durable = 0 /\ g.known = 0 /\ g.overtaken = host.overtaken
      /\ g.epoch = host.epoch /\ g.readying = host.readying /\ g.saving = host.saving
      /\ g.sessions = host.sessions /\ g.leases = host.leases
      /\ g.delivery = host.delivery /\ g.shown = host.shown
      /\ g.posted = host.posted /\ g.acked = host.acked
  BY <1>1, StoredFields
<1>5. ASSUME NEW k \in Host, NEW j, j = [k EXCEPT !.session = 0]
      PROVE  /\ j \in Host
             /\ j.durable = k.durable /\ j.known = k.known /\ j.overtaken = k.overtaken
             /\ j.epoch = k.epoch /\ j.readying = k.readying /\ j.saving = k.saving
             /\ j.sessions = k.sessions /\ j.session = 0 /\ j.leases = k.leases
             /\ j.delivery = k.delivery /\ j.shown = k.shown
             /\ j.posted = k.posted /\ j.acked = k.acked
  BY <1>5 DEF Host
<1>6. h = [g EXCEPT !.session = 0]
  OBVIOUS
<1>. HIDE DEF g, h, a
<1>7. /\ h \in Host
      /\ h.durable = 0 /\ h.known = 0 /\ h.overtaken = host.overtaken
      /\ h.epoch = host.epoch /\ h.readying = host.readying /\ h.saving = host.saving
      /\ h.sessions = host.sessions /\ h.session = 0 /\ h.leases = host.leases
      /\ h.delivery = host.delivery /\ h.shown = host.shown
      /\ h.posted = host.posted /\ h.acked = host.acked
  BY <1>4, <1>5, <1>6
<1>8. /\ Kept /\ Answers1(a)
      /\ Becomes(h.durable, h.known, h.session, h.sessions, h.saving, h.leases, h.overtaken)
  BY <1>1, <1>2, <1>3, <1>7, DeliverDoes
<1>9. \E m : Takes(m) /\ m.type = "discard"
  BY <1>1, <1>3, AtHostTakes
<1>. QED BY <1>2, <1>3, <1>7, <1>8, <1>9

LEMMA OtherPanelEditsDoes ==
    ASSUME IInv, OtherPanelEdits
    PROVE  /\ PageStays /\ UNCHANGED <<toHost, lease, preparing, committing, writes>>
           /\ host.session = 0 /\ ~host.claiming /\ ~host.readying
           /\ count' \in Count /\ count'.edits = count.edits /\ count'.others
           /\ Draws(toPage')
           /\ Becomes(MaxEdits + 1, MaxEdits + 1, host.session, host.sessions, host.saving,
                      host.leases, host.overtaken)
<1>. DEFINE h == stored(MaxEdits + 1)
<1>1. host \in Host /\ toPage \in Seq(ToPage) /\ count \in Count
  BY HostState
<1>2. MaxEdits + 1 \in Nat
  BY HistoryReplayAssumption
<1>3. /\ PageStays /\ UNCHANGED <<toHost, lease, preparing, committing, writes>>
      /\ host.session = 0 /\ ~host.claiming /\ ~host.readying /\ Redraw(h)
  BY DEF OtherPanelEdits, pageVars, PageStays
<1>4. count' \in Count /\ count'.edits = count.edits /\ count'.others
  <2>1. count' = [count EXCEPT !.faults = count.faults + 1, !.others = TRUE]
        /\ count.faults + 1 \in Nat
    BY <1>1 DEF OtherPanelEdits, Count
  <2>2. ASSUME NEW n \in Nat, count' = [count EXCEPT !.faults = n, !.others = TRUE]
        PROVE  count' \in Count /\ count'.edits = count.edits /\ count'.others
    BY <1>1, <2>2 DEF Count
  <2>. QED BY <2>1, <2>2
<1>5. /\ h \in Host
      /\ h.durable = MaxEdits + 1 /\ h.known = MaxEdits + 1 /\ h.overtaken = host.overtaken
      /\ h.epoch = host.epoch /\ h.readying = host.readying /\ h.saving = host.saving
      /\ h.session = host.session /\ h.sessions = host.sessions /\ h.leases = host.leases
      /\ h.delivery = host.delivery /\ h.shown = host.shown
      /\ h.posted = host.posted /\ h.acked = host.acked
  BY <1>1, <1>2, StoredFields
<1>. HIDE DEF h
<1>6. Drawn(h, toPage')
  BY <1>1, <1>3, <1>5, RedrawDrawn
<1>7. /\ Draws(toPage')
      /\ Becomes(h.durable, h.known, h.session, h.sessions, h.saving, h.leases, h.overtaken)
  BY <1>1, <1>5, <1>6, DrawnDraws
<1>. QED BY <1>3, <1>4, <1>5, <1>7

\* Setting the flag of a save.
LEMMA SavingFields ==
    ASSUME host \in Host, NEW saving \in BOOLEAN, NEW h, h = [host EXCEPT !.saving = saving]
    PROVE  /\ h \in Host
           /\ h.durable = host.durable /\ h.known = host.known /\ h.overtaken = host.overtaken
           /\ h.epoch = host.epoch /\ h.readying = host.readying /\ h.saving = saving
           /\ h.session = host.session /\ h.sessions = host.sessions /\ h.leases = host.leases
           /\ h.delivery = host.delivery /\ h.shown = host.shown
           /\ h.posted = host.posted /\ h.acked = host.acked
<1>. QED BY DEF Host

LEMMA HandleSaveDoes ==
    ASSUME IInv, handle_save
    PROVE  /\ PageStays /\ Kept /\ UNCHANGED <<lease, preparing, committing, writes>>
           /\ \E m : Takes(m) /\ m.type = "save"
           /\ \/ /\ host' = host
                 /\ \E a \in ToPage : a.type = "saved" /\ Grows(toPage, toPage', a)
              \/ Draws(toPage') /\ Calm(TRUE) /\ host.session # 0 /\ ~live
<1>. DEFINE h == [host EXCEPT !.saving = TRUE]
            a == [type |-> "saved"]
<1>1. host \in Host /\ toPage \in Seq(ToPage) /\ toHost \in Seq(ToHost) /\ count \in Count
  BY HostState
<1>2. a \in ToPage /\ a.type = "saved"
  BY DEF ToPage
<1>3. /\ PageStays /\ UNCHANGED <<lease, preparing, committing, writes>> /\ AtHost("save")
      /\ \/ host' = host /\ Post(host.epoch, a)
         \/ Deliver(h, <<>>) /\ host.session # 0 /\ ~live
  BY DEF handle_save, pageVars, PageStays, history_replay_blocks_save
<1>4. \E m : Takes(m) /\ m.type = "save"
  BY <1>1, <1>3, AtHostTakes
<1>5. /\ h \in Host
      /\ h.durable = host.durable /\ h.known = host.known /\ h.overtaken = host.overtaken
      /\ h.epoch = host.epoch /\ h.readying = host.readying /\ h.saving = TRUE
      /\ h.session = host.session /\ h.sessions = host.sessions /\ h.leases = host.leases
      /\ h.delivery = host.delivery /\ h.shown = host.shown
      /\ h.posted = host.posted /\ h.acked = host.acked
  BY <1>1, SavingFields
<1>. HIDE DEF h, a
<1>6. CASE host' = host /\ Post(host.epoch, a)
  BY <1>1, <1>2, <1>3, <1>4, <1>6, PostDoes
<1>7. CASE Deliver(h, <<>>) /\ host.session # 0 /\ ~live
  <2>1. Kept /\ Draws(toPage')
        /\ Becomes(h.durable, h.known, h.session, h.sessions, h.saving, h.leases, h.overtaken)
    <3>1. ASSUME NEW t, t = <<>>, Deliver(h, t)
          PROVE  Kept /\ Draws(toPage')
                 /\ Becomes(h.durable, h.known, h.session, h.sessions, h.saving, h.leases,
                            h.overtaken)
      BY <1>1, <1>2, <1>5, <3>1, DeliverDoes
    <3>. QED BY <1>7, <3>1
  <2>. QED BY <1>3, <1>4, <1>5, <1>7, <2>1 DEF Calm
<1>. QED BY <1>3, <1>6, <1>7

LEMMA SaveEndsDoes ==
    ASSUME IInv, SaveEnds
    PROVE  /\ PageStays /\ Kept /\ UNCHANGED <<toHost, lease, preparing, committing, writes>>
           /\ host.saving /\ Calm(FALSE)
           /\ \E a \in ToPage : a.type = "saved" /\ Answers1(a)
<1>. DEFINE h == [host EXCEPT !.saving = FALSE]
            a == [type |-> "saved"]
<1>1. host \in Host /\ toPage \in Seq(ToPage) /\ toHost \in Seq(ToHost) /\ count \in Count
  BY HostState
<1>2. a \in ToPage /\ a.type = "saved"
  BY DEF ToPage
<1>3. /\ PageStays /\ UNCHANGED <<toHost, lease, preparing, committing, writes>>
      /\ host.saving /\ Deliver(h, <<a>>)
  BY DEF SaveEnds, pageVars, PageStays
<1>5. /\ h \in Host
      /\ h.durable = host.durable /\ h.known = host.known /\ h.overtaken = host.overtaken
      /\ h.epoch = host.epoch /\ h.readying = host.readying /\ h.saving = FALSE
      /\ h.session = host.session /\ h.sessions = host.sessions /\ h.leases = host.leases
      /\ h.delivery = host.delivery /\ h.shown = host.shown
      /\ h.posted = host.posted /\ h.acked = host.acked
  BY <1>1, SavingFields
<1>. HIDE DEF h, a
<1>6. /\ Kept /\ Answers1(a)
      /\ Becomes(h.durable, h.known, h.session, h.sessions, h.saving, h.leases, h.overtaken)
  BY <1>1, <1>2, <1>3, <1>5, DeliverDoes
<1>. QED BY <1>2, <1>3, <1>5, <1>6 DEF Calm

\* The host stays, but for the flag and the number of leases.
HostRests(leases) ==
    /\ host' \in Host
    /\ host'.epoch = host.epoch /\ host'.readying = host.readying
    /\ host'.delivery = host.delivery /\ host'.shown = host.shown
    /\ host'.posted = host.posted /\ host'.acked = host.acked
    /\ Becomes(host.durable, host.known, host.session, host.sessions, host.saving, leases,
               host.overtaken)

LEMMA HostSame ==
    ASSUME host \in Host, host' = host PROVE HostRests(host.leases)
<1>. QED BY DEF HostRests, Becomes

LEMMA HostFlag ==
    ASSUME host \in Host, NEW flag \in BOOLEAN, host' = [host EXCEPT !.flag = flag]
    PROVE  HostRests(host.leases)
<1>. QED BY DEF HostRests, Becomes, Host

LEMMA RestsDraws ==
    ASSUME toPage \in Seq(ToPage), NEW leases, HostRests(leases)
    PROVE  Draws(toPage)
<1>1. host' \in Host /\ Snapshot(host') \in ToPage
  BY SnapshotType DEF HostRests
<1>2. /\ Snapshot(host').type = "snapshot" /\ ~Snapshot(host').initial
      /\ Snapshot(host').delivery = host'.delivery /\ Snapshot(host').cell = host'.shown
  BY DEF Snapshot
<1>. QED BY <1>1, <1>2 DEF HostRests, Draws

LEMMA HandleSessionDoes ==
    ASSUME IInv, HandleSession
    PROVE  /\ PageStays /\ Kept /\ UNCHANGED <<lease, preparing, committing, writes, toPage>>
           /\ \E m : Takes(m) /\ m.type = "session"
           /\ HostRests(host.leases) /\ host'.claiming
<1>1. host \in Host /\ toHost \in Seq(ToHost) /\ count \in Count
  BY HostState
<1>2. /\ PageStays /\ UNCHANGED <<lease, preparing, committing, writes, toPage, count>>
      /\ AtHost("session") /\ host' = [host EXCEPT !.claiming = TRUE]
  BY DEF HandleSession, pageVars, PageStays
<1>3. \E m : Takes(m) /\ m.type = "session"
  BY <1>1, <1>2, AtHostTakes
<1>4. HostRests(host.leases) /\ host'.claiming
  BY <1>1, <1>2 DEF HostRests, Becomes, Host
<1>. QED BY <1>1, <1>2, <1>3, <1>4, KeptSame

\* The number of the session that is granted, and of the latest one: the panel keeps the
\* one it has.
GrantedIds(id, ids) ==
    \/ host.session # 0 /\ id = host.session /\ ids = host.sessions
    \/ host.session = 0 /\ id = host.sessions + 1 /\ ids = host.sessions + 1

LEMMA GrantSessionDoes ==
    ASSUME IInv, GrantSession
    PROVE  /\ PageStays /\ Kept /\ UNCHANGED <<toHost, lease, preparing, committing, writes>>
           /\ host.claiming /\ ~host'.claiming
           /\ \E a \in ToPage :
                 /\ a.type = "session" /\ Answers1(a)
                 /\ \/ /\ a.granted /\ a.cell = host.durable
                       /\ \E id, ids \in Nat :
                             /\ GrantedIds(id, ids)
                             /\ Becomes(host.durable, host.durable, id, ids, host.saving,
                                        host.leases, host.overtaken)
                    \/ ~a.granted /\ HostRests(host.leases) /\ Grows(toPage, toPage', a)
<1>. DEFINE id == IF host.session # 0 THEN host.session ELSE host.sessions + 1
            ids == IF host.session # 0 THEN host.sessions ELSE id
            g == stored(host.durable)
            h == [stored(host.durable) EXCEPT !.claiming = FALSE, !.session = id,
                     !.sessions = IF host.session # 0 THEN @ ELSE id]
            a == [type |-> "session", granted |-> TRUE, cell |-> host.durable]
            b == [type |-> "session", granted |-> FALSE]
<1>1. host \in Host /\ toPage \in Seq(ToPage) /\ toHost \in Seq(ToHost) /\ count \in Count
  BY HostState
<1>2. host.durable \in Nat /\ id \in Nat /\ ids \in Nat /\ GrantedIds(id, ids)
  BY <1>1 DEF Host, GrantedIds
<1>3. a \in ToPage /\ a.type = "session" /\ a.granted /\ a.cell = host.durable
  BY <1>2 DEF ToPage
<1>4. b \in ToPage /\ b.type = "session" /\ ~b.granted
  BY DEF ToPage
<1>5. /\ PageStays /\ UNCHANGED <<toHost, lease, preparing, committing, writes>> /\ host.claiming
      /\ \/ Deliver(h, <<a>>)
         \/ Fault /\ toPage' = Append(toPage, b) /\ host' = [host EXCEPT !.claiming = FALSE]
  BY DEF GrantSession, pageVars, PageStays
<1>7. CASE Deliver(h, <<a>>)
  <2>1. /\ g \in Host
        /\ g.durable = host.durable /\ g.known = host.durable /\ g.overtaken = host.overtaken
        /\ g.epoch = host.epoch /\ g.readying = host.readying /\ g.saving = host.saving
        /\ g.sessions = host.sessions /\ g.leases = host.leases
        /\ g.delivery = host.delivery /\ g.shown = host.shown
        /\ g.posted = host.posted /\ g.acked = host.acked
    BY <1>1, <1>2, StoredFields
  <2>3. h = [g EXCEPT !.claiming = FALSE, !.session = id, !.sessions = ids]
    BY <2>1
  <2>. HIDE DEF g, h, id, ids
  <2>4. /\ h \in Host /\ ~h.claiming
        /\ h.durable = host.durable /\ h.known = host.durable /\ h.overtaken = host.overtaken
        /\ h.epoch = host.epoch /\ h.readying = host.readying /\ h.saving = host.saving
        /\ h.sessions = ids /\ h.session = id
        /\ h.leases = host.leases
        /\ h.delivery = host.delivery /\ h.shown = host.shown
        /\ h.posted = host.posted /\ h.acked = host.acked
    <3>1. ASSUME g \in Host, NEW n \in Nat, NEW k \in Nat,
                 h = [g EXCEPT !.claiming = FALSE, !.session = n, !.sessions = k]
          PROVE  /\ h \in Host /\ ~h.claiming /\ h.durable = g.durable /\ h.known = g.known
                 /\ h.overtaken = g.overtaken /\ h.epoch = g.epoch /\ h.readying = g.readying
                 /\ h.saving = g.saving /\ h.sessions = k /\ h.session = n /\ h.leases = g.leases
                 /\ h.delivery = g.delivery /\ h.shown = g.shown
                 /\ h.posted = g.posted /\ h.acked = g.acked
      BY <3>1 DEF Host
    <3>. QED BY <1>2, <2>1, <2>3, <3>1
  <2>. HIDE DEF a
  <2>5. /\ Kept /\ Answers1(a)
        /\ Becomes(h.durable, h.known, h.session, h.sessions, h.saving, h.leases, h.overtaken)
    BY <1>1, <1>3, <1>7, <2>4, DeliverDoes
  <2>6. ~host'.claiming
    BY <1>7, <2>4, DeliverClaims
  <2>. QED BY <1>2, <1>3, <1>5, <2>4, <2>5, <2>6
<1>8. CASE Fault /\ toPage' = Append(toPage, b) /\ host' = [host EXCEPT !.claiming = FALSE]
  <2>1. HostRests(host.leases) /\ ~host'.claiming
    BY <1>1, <1>8 DEF HostRests, Becomes, Host
  <2>2. Draws(toPage) /\ Grows(toPage, toPage', b) /\ Kept
    BY <1>1, <1>4, <1>8, <2>1, RestsDraws, KeptFault, GrowsAppend
  <2>3. Answers1(b)
    BY <2>2 DEF Answers1
  <2>. HIDE DEF b
  <2>. QED BY <1>4, <1>5, <1>8, <2>1, <2>2, <2>3
<1>. QED BY <1>5, <1>7, <1>8

\* The preparation ends, and the page that asked for it may hear that it is refused.
Refuses(op) ==
    /\ PageStays /\ Kept /\ UNCHANGED <<lease, committing, writes, toHost>>
    /\ HostRests(host.leases)
    /\ preparing' = preparing \ {op}
    /\ op.epoch # host.epoch => toPage' = toPage
    /\ \E a \in ToPage : /\ a.type = "prepareRefused" /\ a.request = op.request
                         /\ Grows(toPage, toPage', a)

LEMMA RefuseDoes ==
    ASSUME IInv, NEW op \in preparing, RefusePreparation(op)
    PROVE  Refuses(op)
<1>. DEFINE a == [type |-> "prepareRefused", request |-> op.request]
<1>1. host \in Host /\ toPage \in Seq(ToPage) /\ count \in Count /\ op \in Op
  BY HostState
<1>2. a \in ToPage /\ a.type = "prepareRefused" /\ a.request = op.request
  BY <1>1 DEF ToPage, Op
<1>3. /\ PageStays /\ UNCHANGED <<lease, committing, writes, toHost>>
      /\ preparing' = preparing \ {op} /\ host' = [host EXCEPT !.flag = FALSE]
      /\ Post(op.epoch, a)
  BY DEF RefusePreparation, EndPreparation, pageVars, PageStays
<1>. HIDE DEF a
<1>4. HostRests(host.leases)
  BY <1>1, <1>3, HostFlag
<1>5. /\ Kept /\ Grows(toPage, toPage', a)
      /\ op.epoch # host.epoch => toPage' = toPage
  BY <1>1, <1>2, <1>3, PostDoes
<1>. QED BY <1>2, <1>3, <1>4, <1>5 DEF Refuses

LEMMA OutdatedDoes ==
    ASSUME IInv, NEW op \in preparing, PreparationOutdated(op)
    PROVE  Refuses(op)
<1>. DEFINE a == [type |-> "prepareRefused", request |-> op.request]
<1>1. host \in Host /\ toPage \in Seq(ToPage) /\ count \in Count /\ op \in Op
  BY HostState
<1>2. a \in ToPage /\ a.type = "prepareRefused" /\ a.request = op.request
  BY <1>1 DEF ToPage, Op
<1>3. /\ PageStays /\ UNCHANGED <<lease, committing, writes, toHost>>
      /\ preparing' = preparing \ {op} /\ host' = [host EXCEPT !.flag = FALSE] /\ Fault
      /\ toPage' = toPage \/ toPage' = Append(toPage, a)
      /\ op.epoch # host.epoch => toPage' = toPage
  BY DEF PreparationOutdated, EndPreparation, pageVars, PageStays
<1>. HIDE DEF a
<1>4. HostRests(host.leases)
  BY <1>1, <1>3, HostFlag
<1>5. Kept /\ Grows(toPage, toPage', a)
  BY <1>1, <1>2, <1>3, KeptFault, GrowsAppend
<1>. QED BY <1>2, <1>3, <1>4, <1>5 DEF Refuses

\* A preparation of the present page goes on, when it is current.
Moves(op, step) ==
    /\ UNCHANGED <<page, slot, host, lease, committing, writes, toHost, toPage, count>>
    /\ op.epoch = host.epoch /\ host.acked /\ host.session # 0
    /\ \E next \in Op :
          /\ next.request = op.request /\ next.epoch = op.epoch /\ next.cell = op.cell
          /\ next.awaits = op.awaits /\ next.step = step
          /\ preparing' = (preparing \ {op}) \cup {next}

LEMMA BindDoes ==
    ASSUME IInv, NEW op \in preparing, BindPreparation(op)
    PROVE  Refuses(op) \/ (op.awaits = 0 /\ Moves(op, "comparing"))
<1>. DEFINE bound == [op EXCEPT !.step = "comparing", !.basis = host.basis,
                                !.session = host.session]
<1>1. host \in Host /\ op \in Op
  BY HostState
<1>2. /\ bound \in Op /\ bound.request = op.request /\ bound.epoch = op.epoch
      /\ bound.cell = op.cell /\ bound.awaits = op.awaits /\ bound.step = "comparing"
      /\ bound.session = host.session
  BY <1>1 DEF Op, Host
<1>3. /\ op.awaits = 0
      /\ \/ /\ replay_is_current(bound)
            /\ preparing' = (preparing \ {op}) \cup {bound}
            /\ UNCHANGED <<page, slot, host, lease, committing, writes, toHost, toPage, count>>
         \/ RefusePreparation(op)
  BY DEF BindPreparation, pageVars
<1>. HIDE DEF bound
<1>4. CASE RefusePreparation(op)
  BY <1>4, RefuseDoes
<1>5. CASE /\ replay_is_current(bound)
           /\ preparing' = (preparing \ {op}) \cup {bound}
           /\ UNCHANGED <<page, slot, host, lease, committing, writes, toHost, toPage, count>>
  <2>1. op.epoch = host.epoch /\ host.acked /\ host.session # 0
    BY <1>2, <1>5 DEF replay_is_current, Owns
  <2>. QED BY <1>2, <1>3, <1>5, <2>1 DEF Moves
<1>. QED BY <1>3, <1>4, <1>5

LEMMA CompareDoes ==
    ASSUME IInv, NEW op \in preparing, ComparePreparation(op)
    PROVE  \/ Refuses(op)
           \/ op.step = "comparing" /\ op.cell = host.durable /\ Moves(op, "verifying")
<1>. DEFINE next == [op EXCEPT !.step = "verifying"]
<1>1. op \in Op
  BY HostState
<1>2. /\ next \in Op /\ next.request = op.request /\ next.epoch = op.epoch
      /\ next.cell = op.cell /\ next.awaits = op.awaits /\ next.step = "verifying"
  BY <1>1 DEF Op
<1>3. /\ op.step = "comparing"
      /\ \/ /\ replay_is_current(op) /\ op.cell = host.durable
            /\ preparing' = (preparing \ {op}) \cup {next}
            /\ UNCHANGED <<page, slot, host, lease, committing, writes, toHost, toPage, count>>
         \/ RefusePreparation(op)
  BY DEF ComparePreparation, pageVars
<1>. HIDE DEF next
<1>4. CASE RefusePreparation(op)
  BY <1>4, RefuseDoes
<1>5. CASE /\ replay_is_current(op) /\ op.cell = host.durable
           /\ preparing' = (preparing \ {op}) \cup {next}
           /\ UNCHANGED <<page, slot, host, lease, committing, writes, toHost, toPage, count>>
  <2>1. op.epoch = host.epoch /\ host.acked /\ host.session # 0
    BY <1>5 DEF replay_is_current, Owns
  <2>. QED BY <1>2, <1>3, <1>5, <2>1 DEF Moves
<1>. QED BY <1>3, <1>4, <1>5

\* A lease is issued, of which the page may be told.
Issues(op) ==
    /\ PageStays /\ Kept /\ UNCHANGED <<committing, writes, toHost>>
    /\ HostRests(host.leases + 1)
    /\ op.step = "verifying" /\ op.epoch = host.epoch /\ ~live
    /\ preparing' = preparing \ {op}
    /\ \E a \in ToPage :
          /\ a.type = "prepared" /\ a.request = op.request /\ a.lease = host.leases + 1
          /\ a.cell = op.cell /\ Grows(toPage, toPage', a)
    /\ lease' = [state |-> "issued", id |-> host.leases + 1, op |-> op]

LEMMA IssueDoes ==
    ASSUME IInv, NEW op \in preparing, IssueLease(op)
    PROVE  Refuses(op) \/ Issues(op)
<1>. DEFINE a == [type |-> "prepared", request |-> op.request, lease |-> host.leases + 1,
                  cell |-> op.cell]
<1>1. host \in Host /\ toPage \in Seq(ToPage) /\ count \in Count /\ op \in Op
  BY HostState
<1>2. /\ a \in ToPage /\ a.type = "prepared" /\ a.request = op.request
      /\ a.lease = host.leases + 1 /\ a.cell = op.cell
  <2>1. op.request \in Nat /\ op.cell \in Nat /\ host.leases + 1 \in Nat
    BY <1>1 DEF Op, Host
  <2>. QED BY ZenonT(60), <2>1 DEF ToPage
<1>3. CASE RefusePreparation(op)
  BY <1>3, RefuseDoes
<1>4. CASE ~RefusePreparation(op)
  <2>1. /\ PageStays /\ UNCHANGED <<committing, writes, toHost>>
        /\ preparing' = preparing \ {op}
        /\ host' = [host EXCEPT !.leases = host.leases + 1,
                       !.posting = @ \cup {[lease |-> host.leases + 1,
                                            heard |-> toPage' # toPage]}]
        /\ op.step = "verifying" /\ replay_is_current(op) /\ ~live
        /\ Post(op.epoch, a)
        /\ lease' = [state |-> "issued", id |-> host.leases + 1, op |-> op]
    BY <1>4 DEF IssueLease, pageVars, PageStays
  <2>2. /\ host.leases + 1 \in Nat
        /\ host.posting \cup {[lease |-> host.leases + 1, heard |-> toPage' # toPage]}
              \in SUBSET [lease : Nat, heard : BOOLEAN]
    <3>1. ASSUME NEW n \in Nat, NEW b \in BOOLEAN
          PROVE  host.posting \cup {[lease |-> n, heard |-> b]} \in SUBSET [lease : Nat, heard : BOOLEAN]
      BY <1>1 DEF Host
    <3>2. host.leases + 1 \in Nat /\ (toPage' # toPage) \in BOOLEAN
      BY <1>1 DEF Host
    <3>. QED BY <3>1, <3>2
  <2>3. ASSUME NEW n \in Nat, NEW posts \in SUBSET [lease : Nat, heard : BOOLEAN],
               host' = [host EXCEPT !.leases = n, !.posting = posts]
        PROVE  HostRests(n)
    BY <1>1, <2>3 DEF HostRests, Becomes, Host
  <2>4. HostRests(host.leases + 1)
    BY <2>1, <2>2, <2>3
  <2>. HIDE DEF a
  <2>5. Kept /\ Grows(toPage, toPage', a)
    BY <1>1, <1>2, <2>1, PostDoes
  <2>6. op.epoch = host.epoch
    BY <2>1 DEF replay_is_current
  <2>7. Issues(op)
    BY <1>2, <2>1, <2>4, <2>5, <2>6 DEF Issues
  <2>. QED BY <2>7
<1>. QED BY <1>3, <1>4

\* An unspent lease may end.
LeaseEnds == lease' = lease \/ (lease.state = "issued" /\ lease' = NoLease)

LEMMA PostEndsDoes ==
    ASSUME IInv, NEW post \in host.posting, PostEnds(post)
    PROVE  /\ PageStays /\ Kept
           /\ UNCHANGED <<preparing, committing, writes, toHost, toPage>>
           /\ HostRests(host.leases) /\ LeaseEnds
<1>1. host \in Host /\ count \in Count
  BY HostState
<1>2. /\ PageStays /\ UNCHANGED <<preparing, committing, writes, toHost, toPage, count>>
      /\ host' = [host EXCEPT !.flag = FALSE, !.posting = host.posting \ {post}]
      /\ LeaseEnds
  BY DEF PostEnds, abandon, LeaseEnds, pageVars, PageStays
<1>3. ASSUME NEW posts \in SUBSET [lease : Nat, heard : BOOLEAN],
             host' = [host EXCEPT !.flag = FALSE, !.posting = posts]
      PROVE  HostRests(host.leases)
  BY <1>1, <1>3 DEF HostRests, Becomes, Host
<1>4. host.posting \ {post} \in SUBSET [lease : Nat, heard : BOOLEAN]
  BY <1>1 DEF Host
<1>. QED BY <1>1, <1>2, <1>3, <1>4, KeptSame

LEMMA HandlePrepareDoes ==
    ASSUME IInv, HandlePrepare
    PROVE  /\ PageStays /\ Kept /\ UNCHANGED <<lease, committing, writes>>
           /\ HostRests(host.leases)
           /\ \E m : /\ Takes(m) /\ m.type = "prepare"
                     /\ \/ /\ UNCHANGED preparing
                           /\ \E a \in ToPage : /\ a.type = "prepareRefused"
                                                /\ a.request = m.request
                                                /\ Grows(toPage, toPage', a)
                        \/ /\ ~host.saving /\ ~live /\ ~host.flag /\ host.session # 0 /\ toPage' = toPage
                           /\ \E op \in Op :
                                 /\ op.request = m.request /\ op.epoch = host.epoch
                                 /\ op.cell = m.cell /\ op.awaits = Len(writes)
                                 /\ op.step = "draining"
                                 /\ preparing' = preparing \cup {op}
<1>. DEFINE m == Head(toHost)
            a == [type |-> "prepareRefused", request |-> m.request]
            op == [request |-> m.request, epoch |-> host.epoch, cell |-> m.cell,
                   awaits |-> Len(writes), step |-> "draining", basis |-> 0, session |-> 0]
<1>1. /\ host \in Host /\ toPage \in Seq(ToPage) /\ toHost \in Seq(ToHost) /\ count \in Count
      /\ writes \in Seq(Write)
  BY HostState
<1>2. /\ AtHost("prepare") /\ PageStays /\ UNCHANGED <<lease, committing, writes>>
      /\ \/ Post(host.epoch, a) /\ UNCHANGED <<host, preparing>>
         \/ /\ ~host.saving /\ ~live /\ ~host.flag /\ host.session # 0 /\ toPage' = toPage
            /\ host' = [host EXCEPT !.flag = TRUE] /\ preparing' = preparing \cup {op}
            /\ count' = [count EXCEPT !.overlap = @ \/ preparing # {} \/ host.posting # {}]
  BY DEF HandlePrepare, pageVars, PageStays, history_replay_blocks_save
<1>3. Takes(m) /\ m.type = "prepare"
  BY <1>1, <1>2, AtHostTakes
<1>4. m.request \in Nat /\ m.cell \in Nat
  BY <1>3 DEF Takes, ToHost
<1>. HIDE DEF m
<1>5. a \in ToPage /\ a.type = "prepareRefused" /\ a.request = m.request
  BY <1>4 DEF ToPage
<1>6. /\ op \in Op /\ op.request = m.request /\ op.epoch = host.epoch /\ op.cell = m.cell
      /\ op.awaits = Len(writes) /\ op.step = "draining"
  <2>1. host.epoch \in Nat /\ Len(writes) \in Nat
    BY <1>1, LenProperties DEF Host
  <2>. QED BY <1>4, <2>1 DEF Op
<1>. HIDE DEF a, op
<1>7. CASE Post(host.epoch, a) /\ UNCHANGED <<host, preparing>>
  <2>1. Kept /\ Grows(toPage, toPage', a) /\ HostRests(host.leases)
    BY <1>1, <1>5, <1>7, PostDoes, HostSame
  <2>. QED BY <1>2, <1>3, <1>5, <1>7, <2>1
<1>8. CASE /\ ~host.saving /\ ~live /\ ~host.flag /\ host.session # 0 /\ toPage' = toPage
           /\ host' = [host EXCEPT !.flag = TRUE] /\ preparing' = preparing \cup {op}
           /\ count' = [count EXCEPT !.overlap = @ \/ preparing # {} \/ host.posting # {}]
  <2>1. Kept
    BY <1>1, <1>8 DEF Kept, Count
  <2>2. HostRests(host.leases)
    BY <1>1, <1>8, HostFlag
  <2>. QED BY <1>2, <1>3, <1>6, <1>8, <2>1, <2>2
<1>. QED BY <1>2, <1>7, <1>8

\* A commit that ends is answered, if the page that made it is still there.
EndsCommit(c) ==
    /\ PageStays /\ Kept /\ UNCHANGED <<preparing, writes, toHost>>
    /\ c \in Commit /\ c \in Range(committing) /\ committing # <<>> /\ c = committing[1]
    /\ committing' = Tail(committing) /\ Popped(committing, committing', c)
    /\ lease' = settle(c.lease)
    /\ c.epoch # host.epoch => toPage' = toPage

AnsweredBy(c, type) ==
    \E a \in ToPage : a.type = type /\ a.lease = c.lease /\ Grows(toPage, toPage', a)

LEMMA SettleDoes ==
    ASSUME IInv, committing # <<>>, NEW type \in {"committed", "commitRefused"}, EndCommit(type)
    PROVE  \E c : c = Head(committing) /\ EndsCommit(c) /\ AnsweredBy(c, type)
<1>. DEFINE c == Head(committing)
            a == [type |-> type, lease |-> c.lease]
<1>1. toPage \in Seq(ToPage) /\ count \in Count /\ committing \in Seq(Commit)
  BY HostState
<1>2. c \in Commit /\ c = committing[1] /\ Popped(committing, Tail(committing), c)
      /\ c \in Range(committing)
  BY <1>1, AfterTail, PoppedTail
<1>3. /\ PageStays /\ UNCHANGED <<preparing, writes, toHost>>
      /\ committing' = Tail(committing) /\ lease' = settle(c.lease)
      /\ Post(c.epoch, a)
  BY DEF EndCommit, CommitEnded, pageVars, PageStays
<1>4. a \in ToPage /\ a.type = type /\ a.lease = c.lease
  BY <1>2 DEF ToPage, Commit
<1>. HIDE DEF a, c
<1>5. /\ Kept /\ Grows(toPage, toPage', a)
      /\ c.epoch # host.epoch => toPage' = toPage
  BY <1>1, <1>3, <1>4, PostDoes
<1>6. EndsCommit(c)
  BY <1>2, <1>3, <1>5 DEF EndsCommit
<1>7. AnsweredBy(c, type)
  BY <1>4, <1>5 DEF AnsweredBy
<1>. QED BY <1>6, <1>7 DEF c

LEMMA RefuseCommitDoes ==
    ASSUME IInv, committing # <<>>, RefuseCommit
    PROVE  \E c : c = Head(committing) /\ EndsCommit(c) /\ AnsweredBy(c, "commitRefused")
<1>. DEFINE c == Head(committing)
            a == [type |-> "commitRefused", lease |-> c.lease]
<1>1. toPage \in Seq(ToPage) /\ count \in Count /\ committing \in Seq(Commit)
  BY HostState
<1>2. c \in Commit /\ c = committing[1] /\ Popped(committing, Tail(committing), c)
      /\ c \in Range(committing)
  BY <1>1, AfterTail, PoppedTail
<1>3. /\ PageStays /\ UNCHANGED <<preparing, writes, toHost>>
      /\ committing' = Tail(committing) /\ lease' = settle(c.lease)
      /\ Fault /\ toPage' = toPage \o For(c.epoch, a)
  BY DEF RefuseCommit, CommitEnded, pageVars, PageStays
<1>4. a \in ToPage /\ a.type = "commitRefused" /\ a.lease = c.lease
  BY <1>2 DEF ToPage, Commit
<1>. HIDE DEF a, c
<1>5. /\ toPage \o <<>> = toPage /\ toPage \o <<a>> = Append(toPage, a)
  BY <1>1, <1>4, ConcatOne
<1>6. /\ toPage' = toPage \/ toPage' = Append(toPage, a)
      /\ c.epoch # host.epoch => toPage' = toPage
  BY <1>3, <1>5 DEF For
<1>7. Kept /\ Grows(toPage, toPage', a)
  BY <1>1, <1>3, <1>4, <1>6, KeptFault, GrowsAppend
<1>8. EndsCommit(c)
  BY <1>2, <1>3, <1>6, <1>7 DEF EndsCommit
<1>9. AnsweredBy(c, "commitRefused")
  BY <1>4, <1>7 DEF AnsweredBy
<1>. QED BY <1>8, <1>9 DEF c

\* The commit at the head goes to its next step.
Steps(c, step) ==
    /\ UNCHANGED <<page, slot, lease, preparing, writes, toHost, toPage, count>>
    /\ c \in Commit /\ c \in Range(committing) /\ committing # <<>> /\ c = committing[1]
    /\ c.op.epoch = host.epoch /\ host.acked /\ host.session # 0
    /\ \E d \in Commit :
          /\ d.lease = c.lease /\ d.op = c.op /\ d.value = c.value
          /\ d.awaits = c.awaits /\ d.epoch = c.epoch /\ d.step = step
          /\ committing' \in Seq(Commit) /\ Len(committing') = Len(committing)
          /\ \A i \in 1..Len(committing) : committing'[i] = IF i = 1 THEN d ELSE committing[i]
          /\ Range(committing') = {d} \cup Range(Tail(committing))
          /\ Range(committing) = {c} \cup Range(Tail(committing))

LEMMA StepDoes ==
    ASSUME IInv, committing # <<>>, NEW step \in {"draining", "verified", "written"},
           replay_is_current(Head(committing).op),
           committing' = <<[Head(committing) EXCEPT !.step = step]>> \o Tail(committing),
           UNCHANGED <<page, slot, lease, preparing, writes, toHost, toPage, count>>
    PROVE  \E c : c = Head(committing) /\ Steps(c, step)
<1>. DEFINE c == Head(committing)
            d == [c EXCEPT !.step = step]
<1>1. committing \in Seq(Commit)
  BY HostState
<1>2. c \in Commit /\ c = committing[1] /\ c \in Range(committing)
      /\ Range(committing) = {c} \cup Range(Tail(committing))
  BY <1>1, AfterTail
<1>3. /\ d \in Commit /\ d.lease = c.lease /\ d.op = c.op /\ d.value = c.value
      /\ d.awaits = c.awaits /\ d.epoch = c.epoch /\ d.step = step
  BY <1>2 DEF Commit
<1>4. committing' = <<d>> \o Tail(committing)
  OBVIOUS
<1>5. c.op.epoch = host.epoch /\ host.acked /\ host.session # 0
  BY DEF replay_is_current, Owns
<1>. HIDE DEF d, c
<1>6. /\ committing' \in Seq(Commit) /\ Len(committing') = Len(committing)
      /\ \A i \in 1..Len(committing) : committing'[i] = IF i = 1 THEN d ELSE committing[i]
      /\ Range(committing') = {d} \cup Range(Tail(committing))
  <2>1. ASSUME NEW e \in Commit, NEW p, p = <<e>> \o Tail(committing)
        PROVE  /\ p \in Seq(Commit) /\ Len(p) = Len(committing)
               /\ \A i \in 1..Len(committing) : p[i] = IF i = 1 THEN e ELSE committing[i]
               /\ Range(p) = {e} \cup Range(Tail(committing))
    BY <1>1, <2>1, NewHead
  <2>. QED BY <1>3, <1>4, <2>1
<1>7. Steps(c, step)
  BY <1>2, <1>3, <1>5, <1>6 DEF Steps
<1>. QED BY <1>7 DEF c

LEMMA CheckDoes ==
    ASSUME IInv, NEW step, NEW next \in {"draining", "verified"}, CheckCommit(step, next)
    PROVE  \E c : /\ c = Head(committing) /\ c.step = step
                  /\ \/ host' = host /\ Steps(c, next)
                     \/ /\ host' = host /\ HostRests(host.leases) /\ EndsCommit(c)
                        /\ AnsweredBy(c, "commitRefused")
<1>. DEFINE c == Head(committing)
<1>1. /\ committing # <<>> /\ c.step = step /\ host' = host
      /\ \/ /\ replay_is_current(c.op)
            /\ committing' = <<[c EXCEPT !.step = next]>> \o Tail(committing)
            /\ UNCHANGED <<page, slot, lease, preparing, writes, toHost, toPage, count>>
         \/ EndCommit("commitRefused")
  BY DEF CheckCommit, pageVars
<1>2. CASE EndCommit("commitRefused")
  <2>1. EndsCommit(c) /\ AnsweredBy(c, "commitRefused")
    BY <1>1, <1>2, SettleDoes
  <2>2. HostRests(host.leases)
    BY <1>1, HostState, HostSame
  <2>. QED BY <1>1, <2>1, <2>2
<1>3. CASE /\ replay_is_current(c.op)
           /\ committing' = <<[c EXCEPT !.step = next]>> \o Tail(committing)
           /\ UNCHANGED <<page, slot, lease, preparing, writes, toHost, toPage, count>>
  <2>1. Steps(c, next)
    BY <1>1, <1>3, StepDoes
  <2>. QED BY <1>1, <2>1
<1>. QED BY <1>1, <1>2, <1>3

LEMMA StartDoes ==
    ASSUME IInv, StartCommit
    PROVE  \E c : /\ c.step = "starting"
                  /\ \/ host' = host /\ Steps(c, "draining")
                     \/ /\ host' = host /\ HostRests(host.leases) /\ EndsCommit(c)
                        /\ AnsweredBy(c, "commitRefused")
<1>1. CheckCommit("starting", "draining")
  BY DEF StartCommit
<1>. QED BY <1>1, CheckDoes

LEMMA VerifyDoes ==
    ASSUME IInv, VerifyCommit
    PROVE  \E c : /\ c.step = "draining" /\ c.awaits = 0
                  /\ \/ host' = host /\ Steps(c, "verified")
                     \/ /\ host' = host /\ HostRests(host.leases) /\ EndsCommit(c)
                        /\ AnsweredBy(c, "commitRefused")
<1>1. CheckCommit("draining", "verified") /\ Head(committing).awaits = 0
  BY DEF VerifyCommit
<1>2. PICK c : /\ c = Head(committing) /\ c.step = "draining"
               /\ \/ host' = host /\ Steps(c, "verified")
                  \/ /\ host' = host /\ HostRests(host.leases) /\ EndsCommit(c)
                     /\ AnsweredBy(c, "commitRefused")
  BY <1>1, CheckDoes
<1>. QED BY <1>1, <1>2

LEMMA CommitOutdatedDoes ==
    ASSUME IInv, CommitOutdated
    PROVE  \E c : /\ c.step = "verified" /\ host' = host /\ HostRests(host.leases)
                  /\ EndsCommit(c) /\ AnsweredBy(c, "commitRefused")
<1>1. committing # <<>> /\ Head(committing).step = "verified" /\ RefuseCommit /\ host' = host
  BY DEF CommitOutdated
<1>2. HostRests(host.leases)
  BY <1>1, HostState, HostSame
<1>. QED BY <1>1, <1>2, RefuseCommitDoes

\* host' but for the durable edits.
Writes(value) ==
    /\ host' \in Host
    /\ host'.epoch = host.epoch /\ host'.readying = host.readying
    /\ host'.delivery = host.delivery /\ host'.shown = host.shown
    /\ host'.posted = host.posted /\ host'.acked = host.acked
    /\ Becomes(value, host.known, host.session, host.sessions, host.saving, host.leases,
               host.overtaken)

LEMMA CommitDoes ==
    ASSUME IInv, commit_history_replay
    PROVE  \E c : /\ c.step = "verified"
                  /\ \/ /\ c.op.cell = host.durable /\ Writes(c.value)
                        /\ Steps(c, "written")
                     \/ /\ host' = host /\ HostRests(host.leases) /\ EndsCommit(c)
                        /\ AnsweredBy(c, "commitRefused")
<1>. DEFINE c == Head(committing)
<1>1. /\ committing # <<>> /\ c.step = "verified"
      /\ \/ /\ replay_is_current(c.op) /\ c.op.cell = host.durable
            /\ host' = [host EXCEPT !.durable = c.value]
            /\ committing' = <<[c EXCEPT !.step = "written"]>> \o Tail(committing)
            /\ UNCHANGED <<page, slot, lease, preparing, writes, toHost, toPage, count>>
         \/ EndCommit("commitRefused") /\ host' = host
  BY DEF commit_history_replay, pageVars
<1>2. CASE EndCommit("commitRefused") /\ host' = host
  <2>1. EndsCommit(c) /\ AnsweredBy(c, "commitRefused")
    BY <1>1, <1>2, SettleDoes
  <2>2. HostRests(host.leases)
    BY <1>2, HostState, HostSame
  <2>. QED BY <1>1, <1>2, <2>1, <2>2
<1>3. CASE /\ replay_is_current(c.op) /\ c.op.cell = host.durable
           /\ host' = [host EXCEPT !.durable = c.value]
           /\ committing' = <<[c EXCEPT !.step = "written"]>> \o Tail(committing)
           /\ UNCHANGED <<page, slot, lease, preparing, writes, toHost, toPage, count>>
  <2>1. Steps(c, "written")
    BY <1>1, <1>3, StepDoes
  <2>2. c.value \in Nat
    BY <2>1 DEF Steps, Commit
  <2>3. ASSUME NEW n \in Nat, host' = [host EXCEPT !.durable = n]
        PROVE  Writes(n)
    <3>1. host \in Host
      BY HostState
    <3>. QED BY <2>3, <3>1 DEF Host, Writes, Becomes
  <2>. HIDE DEF c
  <2>4. Writes(c.value)
    BY <1>3, <2>2, <2>3
  <2>. QED BY <1>1, <1>3, <2>1, <2>4
<1>. QED BY <1>1, <1>2, <1>3

LEMMA AnswerDoes ==
    ASSUME IInv, AnswerCommit
    PROVE  \E c :
              /\ c.step = "written" /\ EndsCommit(c)
              /\ host' \in Host
              /\ host'.epoch = host.epoch /\ host'.readying = host.readying
              /\ host'.delivery = host.delivery /\ host'.shown = host.shown
              /\ host'.posted = host.posted /\ host'.acked = host.acked
              /\ host'.durable = host.durable /\ host'.known = host.durable
              /\ host'.session = host.session /\ host'.sessions = host.sessions
              /\ host'.saving = host.saving /\ host'.leases = host.leases
              /\ \/ /\ host.acked /\ host.session # 0 /\ c.op.epoch = host.epoch
                    /\ host'.overtaken = host.overtaken /\ AnsweredBy(c, "committed")
                 \/ /\ host'.overtaken = (host.overtaken \/ c.epoch = host.epoch)
                    /\ AnsweredBy(c, "commitRefused")
<1>. DEFINE c == Head(committing)
            over == host.overtaken \/ c.epoch = host.epoch
            current == replay_is_current(c.op)
<1>1. /\ committing # <<>> /\ c.step = "written"
      /\ \/ /\ current /\ EndCommit("committed")
            /\ host' = [host EXCEPT !.known = host.durable]
         \/ /\ EndCommit("commitRefused") \/ RefuseCommit
            /\ host' = [[host EXCEPT !.known = host.durable] EXCEPT !.overtaken = @ \/ c.epoch = host.epoch]
  BY DEF AnswerCommit
<1>2. host \in Host
  BY HostState
<1>3. ASSUME NEW b \in BOOLEAN,
             host' = [[host EXCEPT !.known = host.durable] EXCEPT !.overtaken = b]
      PROVE  /\ host' \in Host
             /\ host'.epoch = host.epoch /\ host'.readying = host.readying
             /\ host'.delivery = host.delivery /\ host'.shown = host.shown
             /\ host'.posted = host.posted /\ host'.acked = host.acked
             /\ host'.durable = host.durable /\ host'.known = host.durable
             /\ host'.session = host.session /\ host'.sessions = host.sessions
             /\ host'.saving = host.saving /\ host'.leases = host.leases
             /\ host'.overtaken = b
  BY <1>2, <1>3 DEF Host
<1>4. /\ host.overtaken \in BOOLEAN /\ over \in BOOLEAN
      /\ [host EXCEPT !.known = host.durable]
            = [[host EXCEPT !.known = host.durable] EXCEPT !.overtaken = host.overtaken]
      /\ [host EXCEPT !.known = host.durable].overtaken = host.overtaken
  BY <1>2 DEF Host
<1>5. CASE /\ current /\ EndCommit("committed")
           /\ host' = [host EXCEPT !.known = host.durable]
  <2>1. EndsCommit(c) /\ AnsweredBy(c, "committed")
    BY <1>1, <1>5, SettleDoes
  <2>2. host.acked /\ host.session # 0 /\ c.op.epoch = host.epoch
    BY <1>5 DEF replay_is_current, Owns
  <2>3. host' = [[host EXCEPT !.known = host.durable] EXCEPT !.overtaken = host.overtaken]
    BY <1>4, <1>5
  <2>. HIDE DEF current, c
  <2>. QED BY <1>1, <1>3, <1>4, <2>1, <2>2, <2>3
<1>6. CASE /\ EndCommit("commitRefused") \/ RefuseCommit
           /\ host' = [[host EXCEPT !.known = host.durable] EXCEPT !.overtaken = @ \/ c.epoch = host.epoch]
  <2>1. EndsCommit(c) /\ AnsweredBy(c, "commitRefused")
    BY <1>1, <1>6, SettleDoes, RefuseCommitDoes
  <2>2. host' = [[host EXCEPT !.known = host.durable] EXCEPT !.overtaken = over]
    BY <1>4, <1>6
  <2>3. over = (host.overtaken \/ c.epoch = host.epoch)
    OBVIOUS
  <2>. HIDE DEF current, c, over
  <2>4. /\ host' \in Host
        /\ host'.epoch = host.epoch /\ host'.readying = host.readying
        /\ host'.delivery = host.delivery /\ host'.shown = host.shown
        /\ host'.posted = host.posted /\ host'.acked = host.acked
        /\ host'.durable = host.durable /\ host'.known = host.durable
        /\ host'.session = host.session /\ host'.sessions = host.sessions
        /\ host'.saving = host.saving /\ host'.leases = host.leases
        /\ host'.overtaken = over
    BY <1>3, <1>4, <2>2
  <2>. QED BY <1>1, <2>1, <2>3, <2>4
<1>. QED BY <1>1, <1>5, <1>6

LEMMA HandleCommitDoes ==
    ASSUME IInv, HandleCommit
    PROVE  /\ PageStays /\ Kept /\ UNCHANGED <<host, preparing, writes>>
           /\ \E m : /\ Takes(m) /\ m.type = "commit"
                     /\ \/ /\ lease.state = "issued" /\ lease.id = m.lease /\ toPage' = toPage
                           /\ lease'.state = "committing" /\ lease'.id = lease.id
                           /\ lease'.op = lease.op
                           /\ \E c \in Commit :
                                 /\ c.lease = m.lease /\ c.op = lease.op /\ c.value = m.value
                                 /\ c.awaits = Len(writes) /\ c.epoch = host.epoch
                                 /\ c.step = "starting"
                                 /\ committing' = Append(committing, c)
                        \/ /\ UNCHANGED <<lease, committing>>
                           /\ ~(lease.state = "issued" /\ lease.id = m.lease)
                           /\ \E a \in ToPage : /\ a.type = "commitRefused" /\ a.lease = m.lease
                                                /\ Grows(toPage, toPage', a)
<1>. DEFINE m == Head(toHost)
            a == [type |-> "commitRefused", lease |-> m.lease]
            c == [lease |-> m.lease, op |-> lease.op, value |-> m.value,
                  awaits |-> Len(writes), epoch |-> host.epoch, step |-> "starting"]
<1>1. /\ host \in Host /\ toPage \in Seq(ToPage) /\ toHost \in Seq(ToHost) /\ count \in Count
      /\ writes \in Seq(Write) /\ lease \in Lease
  BY HostState
<1>2. /\ AtHost("commit") /\ PageStays /\ UNCHANGED <<host, preparing, writes>>
      /\ \/ /\ lease.state = "issued" /\ lease.id = m.lease /\ UNCHANGED <<toPage, count>>
            /\ lease' = [lease EXCEPT !.state = "committing"]
            /\ committing' = Append(committing, c)
         \/ /\ UNCHANGED <<lease, committing>> /\ ~(lease.state = "issued" /\ lease.id = m.lease)
            /\ Post(host.epoch, a)
  BY DEF HandleCommit, pageVars, PageStays
<1>3. Takes(m) /\ m.type = "commit"
  BY <1>1, <1>2, AtHostTakes
<1>4. m.lease \in Nat /\ m.value \in Nat
  BY <1>3 DEF Takes, ToHost
<1>. HIDE DEF m
<1>5. a \in ToPage /\ a.type = "commitRefused" /\ a.lease = m.lease
  BY <1>4 DEF ToPage
<1>6. CASE /\ lease.state = "issued" /\ lease.id = m.lease /\ UNCHANGED <<toPage, count>>
           /\ lease' = [lease EXCEPT !.state = "committing"]
           /\ committing' = Append(committing, c)
  <2>1. lease.op \in Op /\ host.epoch \in Nat /\ Len(writes) \in Nat
    BY <1>1, <1>6, LenProperties DEF Lease, Host
  <2>2. /\ c \in Commit /\ c.lease = m.lease /\ c.op = lease.op /\ c.value = m.value
        /\ c.awaits = Len(writes) /\ c.epoch = host.epoch /\ c.step = "starting"
    BY <1>4, <2>1 DEF Commit
  <2>. HIDE DEF c, a
  <2>3. lease'.state = "committing" /\ lease'.id = lease.id /\ lease'.op = lease.op
    BY <1>1, <1>6 DEF Lease
  <2>4. Kept
    BY <1>1, <1>6, KeptSame
  <2>. QED BY <1>2, <1>3, <1>6, <2>2, <2>3, <2>4
<1>7. CASE /\ UNCHANGED <<lease, committing>> /\ ~(lease.state = "issued" /\ lease.id = m.lease)
           /\ Post(host.epoch, a)
  <2>. HIDE DEF c, a
  <2>1. Kept /\ Grows(toPage, toPage', a)
    BY <1>1, <1>5, <1>7, PostDoes
  <2>. QED BY <1>2, <1>3, <1>5, <1>7, <2>1
<1>. QED BY <1>2, <1>6, <1>7

LEMMA RefreshDoes ==
    ASSUME IInv, NEW moved \in BOOLEAN, Refresh(moved)
    PROVE  /\ PageStays /\ Kept /\ UNCHANGED <<toHost, preparing, committing, writes>>
           /\ Draws(toPage') /\ Calm(host.saving)
           /\ lease' = lease \/ (lease.state = "issued" /\ lease' = NoLease)
<1>. DEFINE h == [host EXCEPT !.basis = IF moved THEN @ + 1 ELSE @]
<1>1. host \in Host /\ toPage \in Seq(ToPage) /\ count \in Count
  BY HostState
<1>2. /\ PageStays /\ UNCHANGED <<toHost, preparing, committing, writes>> /\ Fault
      /\ lease' = lease \/ (lease.state = "issued" /\ lease' = NoLease)
      /\ ~host.readying /\ Redraw(h)
  BY DEF Refresh, pageVars, PageStays
<1>3. ASSUME NEW n \in Nat, NEW j, j = [host EXCEPT !.basis = n]
      PROVE  /\ j \in Host
             /\ j.durable = host.durable /\ j.known = host.known /\ j.overtaken = host.overtaken
             /\ j.epoch = host.epoch /\ j.readying = host.readying /\ j.saving = host.saving
             /\ j.session = host.session /\ j.sessions = host.sessions /\ j.leases = host.leases
             /\ j.delivery = host.delivery /\ j.shown = host.shown
             /\ j.posted = host.posted /\ j.acked = host.acked
  BY <1>1, <1>3 DEF Host
<1>4. (IF moved THEN host.basis + 1 ELSE host.basis) \in Nat
  BY <1>1 DEF Host
<1>5. /\ h \in Host
      /\ h.durable = host.durable /\ h.known = host.known /\ h.overtaken = host.overtaken
      /\ h.epoch = host.epoch /\ h.readying = host.readying /\ h.saving = host.saving
      /\ h.session = host.session /\ h.sessions = host.sessions /\ h.leases = host.leases
      /\ h.delivery = host.delivery /\ h.shown = host.shown
      /\ h.posted = host.posted /\ h.acked = host.acked
  BY <1>3, <1>4
<1>. HIDE DEF h
<1>6. Drawn(h, toPage')
  BY <1>1, <1>2, <1>5, RedrawDrawn
<1>7. /\ Draws(toPage')
      /\ Becomes(h.durable, h.known, h.session, h.sessions, h.saving, h.leases, h.overtaken)
  BY <1>1, <1>5, <1>6, DrawnDraws
<1>. QED BY <1>1, <1>2, <1>5, <1>7, KeptFault DEF Calm

LEMMA HandleAppliedDoes ==
    ASSUME IInv, HandleApplied
    PROVE  /\ PageStays /\ Kept /\ UNCHANGED <<lease, preparing, committing, writes, toPage>>
           /\ \E m : /\ Takes(m) /\ m.type = "applied"
                     /\ host'.acked = (host.acked \/ m.delivery = host.delivery)
           /\ host' \in Host
           /\ host'.epoch = host.epoch /\ host'.readying = host.readying
           /\ host'.delivery = host.delivery /\ host'.shown = host.shown
           /\ host'.posted = host.posted
           /\ Calm(host.saving)
<1>. DEFINE m == Head(toHost)
<1>1. host \in Host /\ toPage \in Seq(ToPage) /\ toHost \in Seq(ToHost) /\ count \in Count
  BY HostState
<1>2. /\ AtHost("applied") /\ PageStays
      /\ UNCHANGED <<lease, preparing, committing, writes, toPage, count>>
      /\ host' = [host EXCEPT !.acked = @ \/ m.delivery = host.delivery]
  BY DEF HandleApplied, pageVars, PageStays
<1>3. Takes(m) /\ m.type = "applied" /\ Kept
  BY <1>1, <1>2, AtHostTakes, KeptSame
<1>. HIDE DEF m
<1>4. /\ host'.acked = (host.acked \/ m.delivery = host.delivery)
      /\ host' \in Host
      /\ host'.epoch = host.epoch /\ host'.readying = host.readying
      /\ host'.delivery = host.delivery /\ host'.shown = host.shown
      /\ host'.posted = host.posted /\ Calm(host.saving)
  <2>1. ASSUME NEW b \in BOOLEAN, host' = [host EXCEPT !.acked = b]
        PROVE  /\ host'.acked = b
               /\ host' \in Host
               /\ host'.epoch = host.epoch /\ host'.readying = host.readying
               /\ host'.delivery = host.delivery /\ host'.shown = host.shown
               /\ host'.posted = host.posted /\ Calm(host.saving)
    BY <1>1, <2>1 DEF Host, Calm, Becomes
  <2>2. host.acked \in BOOLEAN
    BY <1>1 DEF Host
  <2>. QED BY <1>2, <2>1, <2>2
<1>. QED BY <1>2, <1>3, <1>4

LEMMA HandleReadyDoes ==
    ASSUME IInv, HandleReady
    PROVE  /\ PageStays /\ Kept /\ UNCHANGED <<preparing, committing, writes, toPage>>
           /\ lease' = NoLease
           /\ \E m : Takes(m) /\ m.type = "ready"
           /\ host' \in Host
           /\ host'.epoch = host.epoch + 1 /\ host'.readying
           /\ host'.delivery = host.delivery + 1 /\ host'.shown = host.shown
           /\ host'.posted /\ ~host'.acked /\ ~host'.claiming
           /\ Becomes(host.durable, host.known, host.session, host.sessions, host.saving,
                      host.leases, FALSE)
<1>1. host \in Host /\ toPage \in Seq(ToPage) /\ toHost \in Seq(ToHost) /\ count \in Count
  BY HostState
<1>2. /\ AtHost("ready") /\ PageStays /\ lease' = NoLease
      /\ UNCHANGED <<preparing, committing, writes, toPage, count>>
      /\ host' = [host EXCEPT !.epoch = @ + 1, !.flag = FALSE, !.claiming = FALSE,
                            !.readying = TRUE, !.overtaken = FALSE,
                            !.delivery = @ + 1, !.posted = TRUE, !.acked = FALSE]
  BY DEF HandleReady, pageVars, PageStays
<1>3. Takes(Head(toHost)) /\ Head(toHost).type = "ready" /\ Kept
  BY <1>1, <1>2, AtHostTakes, KeptSame
<1>4. /\ host' \in Host
      /\ host'.epoch = host.epoch + 1 /\ host'.readying
      /\ host'.delivery = host.delivery + 1 /\ host'.shown = host.shown
      /\ host'.posted /\ ~host'.acked /\ ~host'.claiming
      /\ Becomes(host.durable, host.known, host.session, host.sessions, host.saving,
                 host.leases, FALSE)
  <2>1. ASSUME NEW e \in Nat, NEW d \in Nat,
               host' = [host EXCEPT !.epoch = e, !.flag = FALSE, !.claiming = FALSE,
                            !.readying = TRUE, !.overtaken = FALSE, !.delivery = d,
                            !.posted = TRUE, !.acked = FALSE]
        PROVE  /\ host' \in Host
               /\ host'.epoch = e /\ host'.readying /\ host'.delivery = d
               /\ host'.shown = host.shown /\ host'.posted /\ ~host'.acked /\ ~host'.claiming
               /\ Becomes(host.durable, host.known, host.session, host.sessions, host.saving,
                          host.leases, FALSE)
    BY <1>1, <2>1 DEF Host, Becomes
  <2>2. host.epoch + 1 \in Nat /\ host.delivery + 1 \in Nat
    BY <1>1 DEF Host
  <2>. QED BY <1>2, <2>1, <2>2
<1>. QED BY <1>2, <1>3, <1>4

LEMMA CompleteReadyDoes ==
    ASSUME IInv, CompleteReady
    PROVE  /\ PageStays /\ Kept /\ UNCHANGED <<toHost, lease, preparing, committing, writes>>
           /\ host.readying
           /\ host' \in Host
           /\ host'.epoch = host.epoch /\ ~host'.readying
           /\ host'.delivery = host.delivery /\ host'.shown = host.shown
           /\ host'.posted = host.posted /\ host'.acked = host.acked
           /\ Becomes(host.durable, host.durable, host.session, host.sessions, host.saving,
                      host.leases, host.overtaken)
           /\ \E a \in ToPage : /\ a.type = "snapshot" /\ a.initial
                                /\ a.delivery = host.delivery /\ a.cell = host.durable
                                /\ a.session = (host.session # 0)
                                /\ Pushed(toPage, toPage', a)
<1>. DEFINE a == [type |-> "snapshot", initial |-> TRUE, delivery |-> host.delivery,
                  cell |-> host.durable, session |-> host.session # 0]
<1>1. host \in Host /\ toPage \in Seq(ToPage) /\ toHost \in Seq(ToHost) /\ count \in Count
  BY HostState
<1>2. /\ PageStays /\ UNCHANGED <<toHost, lease, preparing, committing, writes, count>>
      /\ host' = [host EXCEPT !.readying = FALSE, !.known = host.durable]
      /\ toPage' = Append(toPage, a) /\ host.readying
  BY DEF CompleteReady, pageVars, PageStays
<1>3. /\ a \in ToPage /\ a.type = "snapshot" /\ a.initial
      /\ a.delivery = host.delivery /\ a.cell = host.durable /\ a.session = (host.session # 0)
  <2>1. host.delivery \in Nat /\ host.durable \in Nat
    BY <1>1 DEF Host
  <2>. QED BY <2>1 DEF ToPage
<1>4. /\ host' \in Host
      /\ host'.epoch = host.epoch /\ ~host'.readying
      /\ host'.delivery = host.delivery /\ host'.shown = host.shown
      /\ host'.posted = host.posted /\ host'.acked = host.acked
      /\ Becomes(host.durable, host.durable, host.session, host.sessions, host.saving,
                 host.leases, host.overtaken)
  BY <1>1, <1>2 DEF Host, Becomes
<1>. HIDE DEF a
<1>5. Pushed(toPage, toPage', a) /\ Kept
  BY <1>1, <1>2, <1>3, PushedAppend, KeptSame
<1>. QED BY <1>2, <1>3, <1>4, <1>5

LEMMA PostSnapshotDoes ==
    ASSUME IInv, PostSnapshot
    PROVE  /\ PageStays /\ Kept /\ UNCHANGED <<toHost, lease, preparing, committing, writes>>
           /\ ~host.posted /\ ~host.acked /\ ~host.readying
           /\ host' \in Host
           /\ host'.epoch = host.epoch /\ host'.readying = host.readying
           /\ host'.delivery = host.delivery /\ host'.shown = host.shown
           /\ host'.posted /\ host'.acked = host.acked
           /\ Calm(host.saving)
           /\ \E a \in ToPage : /\ a.type = "snapshot" /\ ~a.initial
                                /\ a.delivery = host.delivery /\ a.cell = host.shown
                                /\ Pushed(toPage, toPage', a)
<1>. DEFINE a == Snapshot(host)
<1>1. host \in Host /\ toPage \in Seq(ToPage) /\ toHost \in Seq(ToHost) /\ count \in Count
  BY HostState
<1>2. /\ PageStays /\ UNCHANGED <<toHost, lease, preparing, committing, writes, count>>
      /\ host' = [host EXCEPT !.posted = TRUE]
      /\ toPage' = Append(toPage, a) /\ ~host.posted
  BY DEF PostSnapshot, pageVars, PageStays
<1>3. ~host.acked /\ ~host.readying
  BY <1>2 DEF IInv, Deliveries
<1>4. /\ a \in ToPage /\ a.type = "snapshot" /\ ~a.initial
      /\ a.delivery = host.delivery /\ a.cell = host.shown
  BY <1>1, SnapshotType DEF Snapshot
<1>5. /\ host' \in Host
      /\ host'.epoch = host.epoch /\ host'.readying = host.readying
      /\ host'.delivery = host.delivery /\ host'.shown = host.shown
      /\ host'.posted /\ host'.acked = host.acked
      /\ Calm(host.saving)
  BY <1>1, <1>2 DEF Host, Calm, Becomes
<1>. HIDE DEF a
<1>6. Pushed(toPage, toPage', a) /\ Kept
  BY <1>1, <1>2, <1>4, PushedAppend, KeptSame
<1>. QED BY <1>2, <1>3, <1>4, <1>5, <1>6

LEMMA HandleAbandonDoes ==
    ASSUME IInv, HandleAbandon
    PROVE  /\ PageStays /\ Kept /\ UNCHANGED <<host, preparing, committing, writes, toPage>>
           /\ \E m : Takes(m) /\ m.type = "abandon"
           /\ lease' = lease \/ (lease.state = "issued" /\ lease' = NoLease)
<1>1. toHost \in Seq(ToHost) /\ count \in Count
  BY HostState
<1>2. /\ PageStays /\ UNCHANGED <<host, preparing, committing, writes, toPage, count>>
      /\ AtHost("abandon")
      /\ lease' = lease \/ (lease.state = "issued" /\ lease' = NoLease)
  BY DEF HandleAbandon, abandon, pageVars, PageStays
<1>. QED BY <1>1, <1>2, AtHostTakes, KeptSame

LEMMA LeaseExpiresDoes ==
    ASSUME IInv, LeaseExpires
    PROVE  /\ PageStays /\ Kept
           /\ UNCHANGED <<host, preparing, committing, writes, toHost, toPage>>
           /\ lease.state = "issued" /\ lease' = NoLease
<1>. QED BY HostState, KeptSame DEF LeaseExpires, pageVars, PageStays

-----------------------------------------------------------------------------
(* What each step of the page does *)

HostStays == UNCHANGED <<host, lease, preparing, committing, writes>>

PageTakes1(m) == m \in ToPage /\ m \in Range(toPage) /\ Popped(toPage, toPage', m)

LEMMA AtPageTakes ==
    ASSUME toPage \in Seq(ToPage), NEW type, AtPage(type)
    PROVE  PageTakes1(Head(toPage)) /\ Head(toPage).type = type
<1>1. toPage # <<>> /\ toPage' = Tail(toPage) /\ Head(toPage).type = type
  BY DEF AtPage
<1>2. Head(toPage) \in ToPage
  BY <1>1, AfterTail
<1>. QED BY <1>1, <1>2, PoppedTail DEF PageTakes1

\* The page is w, with its cell published if that is not what it published last.
Unpublished(w) == w.session = "held" /\ ~w.saving /\ w.cell # w.published

ShownAs(w, q) ==
    /\ page' \in Page
    /\ page'.up = w.up /\ page'.cell = w.cell /\ page'.session = w.session
    /\ page'.saving = w.saving /\ page'.undo = w.undo /\ page'.redo = w.redo
    /\ \/ /\ Unpublished(w)
          /\ page'.published = w.cell /\ page'.sequence = w.sequence + 1
          /\ ~page'.acknowledged
          /\ \E e \in ToHost : /\ e.type = "edits" /\ e.value = w.cell
                               /\ e.sequence = w.sequence + 1
                               /\ Pushed(q, toHost', e)
       \/ /\ ~Unpublished(w)
          /\ page'.published = w.published /\ page'.sequence = w.sequence
          /\ page'.acknowledged = w.acknowledged
          /\ toHost' = q

LEMMA Publishes ==
    ASSUME NEW w \in Page
    PROVE  /\ publish(w) \in Page
           /\ publish(w).up = w.up /\ publish(w).cell = w.cell /\ publish(w).session = w.session
           /\ publish(w).saving = w.saving /\ publish(w).undo = w.undo
           /\ publish(w).redo = w.redo
           /\ publish(w).published = w.cell /\ publish(w).sequence = w.sequence + 1
           /\ ~publish(w).acknowledged
           /\ Edits(publish(w)) \in ToHost /\ Edits(publish(w)).type = "edits"
           /\ Edits(publish(w)).value = w.cell /\ Edits(publish(w)).sequence = w.sequence + 1
<1>2. w.sequence + 1 \in Nat
  BY DEF Page
<1>3. ASSUME NEW v, v = publish(w)
      PROVE  /\ v \in Page
             /\ v.up = w.up /\ v.cell = w.cell /\ v.session = w.session
             /\ v.saving = w.saving /\ v.undo = w.undo /\ v.redo = w.redo
             /\ v.published = w.cell /\ v.sequence = w.sequence + 1 /\ ~v.acknowledged
  <2>1. ASSUME NEW n \in Nat,
               v = [w EXCEPT !.published = w.cell, !.sequence = n, !.acknowledged = FALSE]
        PROVE  /\ v \in Page
               /\ v.up = w.up /\ v.cell = w.cell /\ v.session = w.session
               /\ v.saving = w.saving /\ v.undo = w.undo /\ v.redo = w.redo
               /\ v.published = w.cell /\ v.sequence = n /\ ~v.acknowledged
    BY <2>1 DEF Page
  <2>2. v = [w EXCEPT !.published = w.cell, !.sequence = w.sequence + 1, !.acknowledged = FALSE]
    BY <1>3 DEF publish
  <2>. QED BY <1>2, <2>1, <2>2
<1>4. w.cell \in Nat
  BY DEF Page
<1>5. ASSUME NEW v, v.published = w.cell, v.sequence = w.sequence + 1
      PROVE  /\ Edits(v) \in ToHost /\ Edits(v).type = "edits"
             /\ Edits(v).value = w.cell /\ Edits(v).sequence = w.sequence + 1
  BY <1>2, <1>4, <1>5 DEF Edits, ToHost
<1>. QED BY <1>3, <1>5

LEMMA ShowDoes ==
    ASSUME NEW w \in Page, NEW messages, NEW q \in Seq(ToHost), q = toHost \o messages,
           Show(w, messages)
    PROVE  ShownAs(w, q)
<1>1. CASE Unpublished(w)
  <2>. DEFINE v == publish(w)
              e == Edits(v)
  <2>1. page' = v /\ toHost' = q \o <<e>>
    BY <1>1 DEF Show, Unpublished
  <2>2. /\ v \in Page /\ v.up = w.up /\ v.cell = w.cell /\ v.session = w.session
        /\ v.saving = w.saving /\ v.undo = w.undo /\ v.redo = w.redo
        /\ v.published = w.cell /\ v.sequence = w.sequence + 1
        /\ ~v.acknowledged
        /\ e \in ToHost /\ e.type = "edits" /\ e.value = w.cell /\ e.sequence = w.sequence + 1
    BY Publishes
  <2>. HIDE DEF v, e
  <2>3. Pushed(q, toHost', e)
    <3>1. q \o <<e>> = Append(q, e)
      BY <2>2, ConcatOne
    <3>. QED BY <2>1, <2>2, <3>1, PushedAppend
  <2>. QED BY <1>1, <2>1, <2>2, <2>3 DEF ShownAs
<1>2. CASE ~Unpublished(w)
  <2>1. page' = w /\ toHost' = q
    BY <1>2 DEF Show, Unpublished
  <2>. QED BY <1>2, <2>1 DEF ShownAs
<1>. QED BY <1>1, <1>2

LEMMA ShowAlone ==
    ASSUME toHost \in Seq(ToHost), NEW w \in Page, Show(w, <<>>)
    PROVE  ShownAs(w, toHost)
<1>1. toHost = toHost \o <<>>
  BY ConcatEmptySeq
<1>. QED BY <1>1, ShowDoes

\* The rest of the page stays.
PageLike(w) ==
    /\ w \in Page /\ w.up = page.up
    /\ w.published = page.published /\ w.sequence = page.sequence

EditDoes1(w, value) ==
    /\ PageLike(w) /\ w.acknowledged = page.acknowledged
    /\ w.session = page.session /\ w.saving = page.saving
    /\ w.cell = value /\ w.redo = <<>>
    /\ \E e \in Entry : /\ e.before = page.cell /\ e.after = value
                        /\ w.undo = Append(page.undo, e)

LEMMA RecordDoes ==
    ASSUME page \in Page, NEW value \in Nat
    PROVE  EditDoes1(record_history_action(page, value), value)
<1>. DEFINE e == [before |-> page.cell, after |-> value]
<1>1. e \in Entry /\ e.before = page.cell /\ e.after = value
  BY DEF Entry, Page
<1>. HIDE DEF e
<1>2. page.undo \in Seq(Entry) /\ <<>> \in Seq(Entry)
  BY EmptySeq DEF Page
<1>3. Append(page.undo, e) \in Seq(Entry)
  BY <1>1, <1>2, AfterAppend
<1>5. record_history_action(page, value) =
         [page EXCEPT !.undo = Append(page.undo, e), !.redo = <<>>, !.cell = value]
  BY DEF record_history_action, e
<1>6. ASSUME NEW w, w = record_history_action(page, value)
      PROVE  EditDoes1(w, value)
  <2>1. /\ PageLike(w) /\ w.acknowledged = page.acknowledged
        /\ w.session = page.session /\ w.saving = page.saving
        /\ w.cell = value /\ w.redo = <<>> /\ w.undo = Append(page.undo, e)
    <3>1. ASSUME NEW undo \in Seq(Entry), w = [page EXCEPT !.undo = undo, !.redo = <<>>, !.cell = value]
          PROVE  /\ PageLike(w) /\ w.acknowledged = page.acknowledged
                 /\ w.session = page.session /\ w.saving = page.saving
                 /\ w.cell = value /\ w.redo = <<>> /\ w.undo = undo
      BY <1>2, <3>1 DEF Page, PageLike
    <3>. QED BY <1>3, <1>5, <1>6, <3>1
  <2>. QED BY <1>1, <2>1 DEF EditDoes1
<1>. QED BY <1>6

LEMMA EditDoes ==
    ASSUME IInv, Edit
    PROVE  /\ HostStays /\ UNCHANGED <<slot, toPage>>
           /\ page.up /\ page.session = "held" /\ slot.phase = "idle" /\ ~page.saving
           /\ count.edits < MaxEdits
           /\ count' \in Count /\ count'.edits = count.edits + 1 /\ count'.others = count.others
           /\ \E w : EditDoes1(w, count.edits + 1) /\ ShownAs(w, toHost)
<1>. DEFINE w == record_history_action(page, count.edits + 1)
<1>1. page \in Page /\ toHost \in Seq(ToHost) /\ count \in Count
  BY StateTypes
<1>2. count.edits + 1 \in Nat
  BY <1>1 DEF Count
<1>3. /\ HostStays /\ UNCHANGED <<slot, toPage>> /\ Show(w, <<>>)
      /\ page.up /\ page.session = "held" /\ slot.phase = "idle" /\ ~page.saving
      /\ count.edits < MaxEdits /\ count' = [count EXCEPT !.edits = @ + 1]
  BY DEF Edit, hostVars, HostStays, is_busy
<1>4. count' \in Count /\ count'.edits = count.edits + 1 /\ count'.others = count.others
  <2>1. ASSUME NEW n \in Nat, count' = [count EXCEPT !.edits = n]
        PROVE  count' \in Count /\ count'.edits = n /\ count'.others = count.others
    BY <1>1, <2>1 DEF Count
  <2>. QED BY <1>2, <1>3, <2>1
<1>5. EditDoes1(w, count.edits + 1)
  BY <1>1, <1>2, RecordDoes
<1>. HIDE DEF w
<1>6. ShownAs(w, toHost)
  BY <1>1, <1>3, <1>5, ShowAlone DEF EditDoes1, PageLike
<1>. QED BY <1>3, <1>4, <1>5, <1>6

LEMMA DiscardDoes ==
    ASSUME IInv, Discard
    PROVE  /\ HostStays /\ UNCHANGED <<slot, toPage, count>> /\ Kept
           /\ page.up /\ page.session = "held" /\ slot.phase = "idle" /\ ~page.saving
           /\ page'.up /\ page' \in Page /\ page'.session = "discarding" /\ page'.published = Nothing
           /\ page'.acknowledged /\ ~page'.saving /\ page'.sequence = page.sequence
           /\ page'.cell = 0 /\ page'.redo = <<>>
           /\ \E e \in Entry : /\ e.before = page.cell /\ e.after = 0
                               /\ page'.undo = Append(page.undo, e)
           /\ \E m \in ToHost : m.type = "discard" /\ Pushed(toHost, toHost', m)
<1>. DEFINE w == record_history_action(page, 0)
            m == [type |-> "discard"]
<1>1. page \in Page /\ toHost \in Seq(ToHost) /\ count \in Count
  BY StateTypes
<1>2. /\ HostStays /\ UNCHANGED <<slot, toPage, count>>
      /\ page.up /\ page.session = "held" /\ slot.phase = "idle" /\ ~page.saving
      /\ page' = [w EXCEPT !.session = "discarding", !.published = Nothing, !.acknowledged = TRUE]
      /\ toHost' = Append(toHost, m)
  BY DEF Discard, hostVars, HostStays, is_busy, Send
<1>3. EditDoes1(w, 0)
  BY <1>1, RecordDoes
<1>4. m \in ToHost /\ m.type = "discard"
  BY DEF ToHost
<1>. HIDE DEF w, m
<1>5. Pushed(toHost, toHost', m) /\ Kept
  BY <1>1, <1>2, <1>4, PushedAppend, KeptSame
<1>6. /\ page'.session = "discarding" /\ page'.published = Nothing
      /\ page'.acknowledged /\ page'.saving = w.saving /\ page'.sequence = w.sequence
      /\ page'.cell = w.cell /\ page'.redo = w.redo /\ page'.undo = w.undo /\ page'.up = w.up
      /\ page' \in Page
  <2>1. Nothing \in Nat /\ w \in Page
    BY <1>3, HistoryReplayAssumption DEF Nothing, EditDoes1, PageLike
  <2>. QED BY <1>2, <2>1 DEF Page
<1>. QED BY <1>2, <1>3, <1>4, <1>5, <1>6 DEF EditDoes1, PageLike

\* The cell, what was published and the history stay.
Quietly ==
    /\ PageLike(page') /\ page'.cell = page.cell
    /\ page'.undo = page.undo /\ page'.redo = page.redo

LEMMA RequestSessionDoes ==
    ASSUME IInv, RequestSession
    PROVE  /\ HostStays /\ UNCHANGED <<slot, toPage, count>> /\ Kept
           /\ page.up /\ page.session = "none" /\ page'.session = "requested"
           /\ Quietly /\ page'.acknowledged = page.acknowledged /\ page'.saving = page.saving
           /\ \E m \in ToHost : m.type = "session" /\ Pushed(toHost, toHost', m)
<1>. DEFINE m == [type |-> "session"]
<1>1. page \in Page /\ toHost \in Seq(ToHost) /\ count \in Count
  BY StateTypes
<1>2. /\ HostStays /\ UNCHANGED <<slot, toPage, count>> /\ page.up /\ page.session = "none"
      /\ page' = [page EXCEPT !.session = "requested"] /\ toHost' = Append(toHost, m)
  BY DEF RequestSession, hostVars, HostStays, Send
<1>3. m \in ToHost /\ m.type = "session"
  BY DEF ToHost
<1>. HIDE DEF m
<1>4. Pushed(toHost, toHost', m) /\ Kept
  BY <1>1, <1>2, <1>3, PushedAppend, KeptSame
<1>5. /\ page'.session = "requested"
      /\ Quietly /\ page'.acknowledged = page.acknowledged /\ page'.saving = page.saving
  BY <1>1, <1>2 DEF Page, Quietly, PageLike
<1>. QED BY <1>2, <1>3, <1>4, <1>5

LEMMA RequestSaveDoes ==
    ASSUME IInv, RequestSave
    PROVE  /\ HostStays /\ UNCHANGED <<slot, toPage>> /\ Kept
           /\ page.up /\ page.session = "held" /\ page'.session = "held" /\ page'.saving
           /\ page.cell = page.published
           /\ Quietly /\ page'.acknowledged = page.acknowledged
           /\ \E m \in ToHost : m.type = "save" /\ Pushed(toHost, toHost', m)
<1>. DEFINE m == [type |-> "save"]
<1>1. page \in Page /\ toHost \in Seq(ToHost) /\ count \in Count
  BY StateTypes
<1>2. /\ HostStays /\ UNCHANGED <<slot, toPage>> /\ page.up /\ page.session = "held"
      /\ page.cell = page.published /\ count' = [count EXCEPT !.saves = @ + 1]
      /\ page' = [page EXCEPT !.saving = TRUE] /\ toHost' = Append(toHost, m)
  BY DEF RequestSave, hostVars, HostStays, Send
<1>3. m \in ToHost /\ m.type = "save"
  BY DEF ToHost
<1>. HIDE DEF m
<1>4. Pushed(toHost, toHost', m)
  BY <1>1, <1>2, <1>3, PushedAppend
<1>5. Kept
  BY <1>1, <1>2 DEF Kept, Count
<1>6. /\ page'.session = page.session /\ page'.saving
      /\ Quietly /\ page'.acknowledged = page.acknowledged
  BY <1>1, <1>2 DEF Page, Quietly, PageLike
<1>. QED BY <1>2, <1>3, <1>4, <1>5, <1>6

LEMMA BeginDoes ==
    ASSUME IInv, NEW direction \in Directions, Begin(direction)
    PROVE  /\ HostStays /\ UNCHANGED <<page, toHost, toPage>> /\ Kept
           /\ page.up /\ slot.phase = "idle" /\ slot'.phase = "acquiring"
           /\ slot'.direction = direction
<1>1. count \in Count
  BY StateTypes
<1>2. /\ HostStays /\ UNCHANGED <<page, toHost, toPage>> /\ page.up /\ slot.phase = "idle"
      /\ slot' = [phase |-> "acquiring", direction |-> direction]
      /\ count' = [count EXCEPT !.replays = @ + 1]
  BY DEF Begin, hostVars, HostStays, is_busy
<1>3. Kept
  BY <1>1, <1>2 DEF Kept, Count
<1>. QED BY <1>2, <1>3

LEMMA PrepareDoes ==
    ASSUME IInv, Prepare
    PROVE  /\ HostStays /\ UNCHANGED <<toPage, count>> /\ Kept
           /\ page.session = "held" /\ slot.phase = "acquiring"
           /\ Quietly /\ page'.acknowledged = page.acknowledged /\ page'.saving = page.saving
           /\ page'.session = page.session
           /\ slot'.phase = "preparing" /\ slot'.direction = slot.direction
           /\ slot'.direction \in Directions /\ slot'.entry \in Entry
           /\ stack_for(page', slot.direction) # <<>>
           /\ slot'.entry = Last(stack_for(page', slot.direction))
           /\ \E m \in ToHost : /\ m.type = "prepare" /\ m.request = slot'.request
                                /\ m.cell = page.cell /\ Pushed(toHost, toHost', m)
<1>. DEFINE m == [type |-> "prepare", request |-> page.request + 1, cell |-> page.cell]
            entry == Last(stack_for(page, slot.direction))
<1>1. page \in Page /\ slot \in Slot /\ toHost \in Seq(ToHost) /\ count \in Count
  BY StateTypes
<1>2. page.request + 1 \in Nat /\ page.cell \in Nat
  BY <1>1 DEF Page
<1>3. ASSUME NEW n \in Nat, page' = [page EXCEPT !.request = n]
      PROVE  /\ Quietly /\ page'.acknowledged = page.acknowledged /\ page'.saving = page.saving
             /\ page'.session = page.session /\ page'.request = n
  BY <1>1, <1>3 DEF Page, Quietly, PageLike
<1>4. page' = [page EXCEPT !.request = page.request + 1]
  BY DEF Prepare
<1>5. /\ Quietly /\ page'.acknowledged = page.acknowledged /\ page'.saving = page.saving
      /\ page'.session = page.session /\ page'.request = page.request + 1
  BY <1>2, <1>3, <1>4
<1>6. /\ HostStays /\ UNCHANGED <<toPage, count>>
      /\ page.session = "held" /\ slot.phase = "acquiring"
      /\ slot' = [phase |-> "preparing", direction |-> slot.direction,
                  entry |-> entry, request |-> page.request + 1]
      /\ toHost' = Append(toHost, m)
  BY <1>5 DEF Prepare, hostVars, HostStays, Send
<1>7. /\ slot.direction \in Directions /\ entry \in Entry
      /\ stack_for(page, slot.direction) # <<>>
  BY <1>1, <1>6, SlotTypes, StackTypes DEF IInv, Types, PageTypes
<1>8. stack_for(page', slot.direction) = stack_for(page, slot.direction)
  BY <1>5 DEF stack_for, Quietly
<1>9. m \in ToHost /\ m.type = "prepare" /\ m.request = page.request + 1 /\ m.cell = page.cell
  BY <1>2 DEF ToHost
<1>10. /\ slot'.phase = "preparing" /\ slot'.direction = slot.direction
       /\ slot'.entry = entry /\ slot'.request = page.request + 1
  BY <1>6
<1>. HIDE DEF m
<1>11. Pushed(toHost, toHost', m) /\ Kept
  BY <1>1, <1>6, <1>9, PushedAppend, KeptSame
<1>. QED BY <1>5, <1>6, <1>7, <1>8, <1>9, <1>10, <1>11

LEMMA OnPreparedDoes ==
    ASSUME IInv, Tokens, page.up, on_prepared
    PROVE  /\ HostStays /\ UNCHANGED <<page, count>> /\ Kept
           /\ slot.phase = "preparing" /\ slot.entry \in Entry /\ slot.direction \in Directions
           /\ \E m : /\ PageTakes1(m) /\ m.type = "prepared" /\ m.request = slot.request
                     /\ \/ /\ m.cell = page.cell /\ m.cell = from_side(slot.entry, slot.direction)
                           /\ slot'.phase = "committing" /\ slot'.direction = slot.direction
                           /\ slot'.entry = slot.entry /\ slot'.lease = m.lease
                           /\ \E k \in ToHost : /\ k.type = "commit" /\ k.lease = m.lease
                                                /\ k.value = Target /\ Pushed(toHost, toHost', k)
                        \/ /\ slot'.phase = "idle"
                           /\ \E k \in ToHost : k.type = "abandon" /\ Pushed(toHost, toHost', k)
<1>. DEFINE m == Head(toPage)
            k == [type |-> "commit", lease |-> m.lease, value |-> Target]
            g == [type |-> "abandon", lease |-> m.lease]
<1>1. page \in Page /\ slot \in Slot /\ toHost \in Seq(ToHost) /\ toPage \in Seq(ToPage)
      /\ count \in Count
  BY StateTypes
<1>2. /\ AtPage("prepared") /\ HostStays /\ UNCHANGED <<page, count>>
      /\ running(m.request) =>
           \/ /\ m.cell = page.cell /\ m.cell = from_side(slot.entry, slot.direction)
              /\ slot' = [phase |-> "committing", direction |-> slot.direction,
                          entry |-> slot.entry, lease |-> m.lease]
              /\ toHost' = Append(toHost, k)
           \/ slot' = Idle /\ toHost' = Append(toHost, g)
  BY DEF on_prepared, hostVars, HostStays, Send, Target
<1>3. PageTakes1(m) /\ m.type = "prepared"
  BY <1>1, <1>2, AtPageTakes
<1>4. slot.phase = "preparing" /\ m.request = slot.request
  BY <1>3 DEF Tokens, PageTakes1, OfPrepare
<1>5. slot.direction \in Directions /\ slot.entry \in Entry
  BY <1>1, <1>4, SlotTypes
<1>6. Target \in Nat
  BY <1>5 DEF to_side, Entry, Target
<1>7. m.lease \in Nat
  BY <1>3 DEF PageTakes1, ToPage
<1>. HIDE DEF m
<1>8. k \in ToHost /\ k.type = "commit" /\ k.lease = m.lease /\ k.value = Target
  <2>1. ASSUME NEW v \in Nat
        PROVE  [type |-> "commit", lease |-> m.lease, value |-> v] \in ToHost
    BY <1>7 DEF ToHost
  <2>. QED BY <1>6, <2>1
<1>9. g \in ToHost /\ g.type = "abandon"
  BY <1>7 DEF ToHost
<1>10. running(m.request) /\ Kept
  BY <1>1, <1>2, <1>4, KeptSame DEF running
<1>. HIDE DEF k, g
<1>11. CASE /\ m.cell = page.cell /\ m.cell = from_side(slot.entry, slot.direction)
            /\ slot' = [phase |-> "committing", direction |-> slot.direction,
                        entry |-> slot.entry, lease |-> m.lease]
            /\ toHost' = Append(toHost, k)
  <2>1. Pushed(toHost, toHost', k)
    BY <1>1, <1>8, <1>11, PushedAppend
  <2>2. /\ slot'.phase = "committing" /\ slot'.direction = slot.direction
        /\ slot'.entry = slot.entry /\ slot'.lease = m.lease
    BY <1>11
  <2>. QED BY <1>2, <1>3, <1>4, <1>5, <1>8, <1>10, <1>11, <2>1, <2>2
<1>12. CASE slot' = Idle /\ toHost' = Append(toHost, g)
  <2>1. Pushed(toHost, toHost', g) /\ slot'.phase = "idle"
    BY <1>1, <1>9, <1>12, PushedAppend DEF Idle
  <2>. QED BY <1>2, <1>3, <1>4, <1>5, <1>9, <1>10, <2>1
<1>. QED BY <1>2, <1>10, <1>11, <1>12

LEMMA OnRefusedDoes ==
    ASSUME IInv, Tokens, page.up, on_prepare_refused \/ on_commit_refused
    PROVE  /\ HostStays /\ UNCHANGED <<page, toHost, count>> /\ Kept
           /\ slot'.phase = "idle"
           /\ \E m : /\ PageTakes1(m)
                     /\ \/ m.type = "prepareRefused" /\ slot.phase = "preparing"
                        \/ m.type = "commitRefused" /\ slot.phase = "committing"
<1>. DEFINE m == Head(toPage)
<1>1. toPage \in Seq(ToPage) /\ count \in Count
  BY StateTypes
<1>2. CASE on_prepare_refused
  <2>1. /\ AtPage("prepareRefused") /\ HostStays /\ UNCHANGED <<page, toHost, count>>
        /\ running(m.request) => slot' = Idle
    BY <1>2 DEF on_prepare_refused, hostVars, HostStays
  <2>2. PageTakes1(m) /\ m.type = "prepareRefused"
    BY <1>1, <2>1, AtPageTakes
  <2>3. slot.phase = "preparing" /\ m.request = slot.request
    BY <2>2 DEF Tokens, PageTakes1, OfPrepare
  <2>. QED BY <1>1, <2>1, <2>2, <2>3, KeptSame DEF running, Idle
<1>3. CASE on_commit_refused
  <2>1. /\ AtPage("commitRefused") /\ HostStays /\ UNCHANGED <<page, toHost, count>>
        /\ spent(m.lease) => slot' = Idle
    BY <1>3 DEF on_commit_refused, hostVars, HostStays
  <2>2. PageTakes1(m) /\ m.type = "commitRefused"
    BY <1>1, <2>1, AtPageTakes
  <2>3. slot.phase = "committing" /\ m.lease = slot.lease
    BY <2>2 DEF Tokens, PageTakes1, OfCommit
  <2>. QED BY <1>1, <2>1, <2>2, <2>3, KeptSame DEF spent, Idle
<1>. QED BY <1>2, <1>3

\* The entry of the slot has moved from one stack to the other.
Moved1(w) ==
    \/ /\ slot.direction = "undo"
       /\ w.undo = Front(page.undo) /\ w.redo = Append(page.redo, slot.entry)
    \/ /\ slot.direction = "redo"
       /\ w.redo = Front(page.redo) /\ w.undo = Append(page.undo, slot.entry)

LEMMA ApplyDoes ==
    ASSUME IInv, Bound, slot.phase = "committing"
    PROVE  LET w == apply_committed_replay(page) IN
           /\ PageLike(w) /\ w.acknowledged = page.acknowledged
           /\ w.session = page.session /\ w.saving = page.saving
           /\ w.cell = Target /\ Moved1(w)
<1>1. page \in Page /\ slot \in Slot
  BY StateTypes
<1>2. slot.direction \in Directions /\ slot.entry \in Entry
  BY <1>1, SlotTypes
<1>3. Target \in Nat
  BY <1>2 DEF to_side, Entry, Target
<1>4. /\ stack_for(page, slot.direction) # <<>>
      /\ slot.entry = Last(stack_for(page, slot.direction))
  BY DEF Bound
<1>5. page.undo \in Seq(Entry) /\ page.redo \in Seq(Entry)
  BY <1>1 DEF Page
<1>6. Append(page.undo, slot.entry) \in Seq(Entry) /\ Append(page.redo, slot.entry) \in Seq(Entry)
  BY <1>2, <1>5, AfterAppend
<1>8. ASSUME NEW w, w = apply_committed_replay(page)
      PROVE  /\ PageLike(w) /\ w.acknowledged = page.acknowledged
             /\ w.session = page.session /\ w.saving = page.saving
             /\ w.cell = Target /\ Moved1(w)
  <2>1. w = [commit_history_move(page, slot.direction, slot.entry) EXCEPT !.cell = Target]
    BY <1>8 DEF apply_committed_replay, Target
  <2>2. CASE slot.direction = "undo"
    <3>1. page.undo # <<>> /\ Front(page.undo) \in Seq(Entry)
      BY <1>4, <1>5, <2>2, FrontType DEF stack_for
    <3>2. commit_history_move(page, slot.direction, slot.entry) =
            [page EXCEPT !.undo = Front(page.undo), !.redo = Append(page.redo, slot.entry)]
      BY <1>1, <1>4, <2>2 DEF commit_history_move, Page
    <3>3. ASSUME NEW undo \in Seq(Entry), NEW redo \in Seq(Entry), NEW cell \in Nat,
                 w = [[page EXCEPT !.undo = undo, !.redo = redo] EXCEPT !.cell = cell]
          PROVE  /\ PageLike(w) /\ w.acknowledged = page.acknowledged
                 /\ w.session = page.session /\ w.saving = page.saving
                 /\ w.cell = cell /\ w.undo = undo /\ w.redo = redo
      BY <1>1, <3>3 DEF Page, PageLike
    <3>4. w = [[page EXCEPT !.undo = Front(page.undo), !.redo = Append(page.redo, slot.entry)]
                  EXCEPT !.cell = Target]
      BY <2>1, <3>2
    <3>. QED BY <1>3, <1>6, <2>2, <3>1, <3>3, <3>4 DEF Moved1
  <2>3. CASE slot.direction = "redo"
    <3>1. page.redo # <<>> /\ Front(page.redo) \in Seq(Entry)
      BY <1>4, <1>5, <2>3, FrontType DEF stack_for
    <3>2. commit_history_move(page, slot.direction, slot.entry) =
            [page EXCEPT !.undo = Append(page.undo, slot.entry), !.redo = Front(page.redo)]
      <4>1. [page EXCEPT !.redo = Front(page.redo), !.undo = Append(page.undo, slot.entry)] =
               [page EXCEPT !.undo = Append(page.undo, slot.entry), !.redo = Front(page.redo)]
        BY <1>1 DEF Page
      <4>. QED BY <1>1, <1>4, <2>3, <4>1 DEF commit_history_move, Page
    <3>3. ASSUME NEW undo \in Seq(Entry), NEW redo \in Seq(Entry), NEW cell \in Nat,
                 w = [[page EXCEPT !.undo = undo, !.redo = redo] EXCEPT !.cell = cell]
          PROVE  /\ PageLike(w) /\ w.acknowledged = page.acknowledged
                 /\ w.session = page.session /\ w.saving = page.saving
                 /\ w.cell = cell /\ w.undo = undo /\ w.redo = redo
      BY <1>1, <3>3 DEF Page, PageLike
    <3>4. w = [[page EXCEPT !.undo = Append(page.undo, slot.entry), !.redo = Front(page.redo)]
                  EXCEPT !.cell = Target]
      BY <2>1, <3>2
    <3>. QED BY <1>3, <1>6, <2>3, <3>1, <3>3, <3>4 DEF Moved1
  <2>. QED BY <1>2, <2>2, <2>3 DEF Directions
<1>. QED BY <1>8

LEMMA OnCommittedDoes ==
    ASSUME IInv, Tokens, Bound, page.up, on_committed
    PROVE  /\ HostStays /\ UNCHANGED count /\ Kept
           /\ slot.phase = "committing" /\ slot'.phase = "idle" /\ page.session = "held"
           /\ \E m : PageTakes1(m) /\ m.type = "committed"
           /\ \E w : /\ PageLike(w) /\ w.acknowledged = page.acknowledged
                     /\ w.session = page.session /\ w.saving = page.saving
                     /\ w.cell = Target /\ Moved1(w) /\ ShownAs(w, toHost)
<1>. DEFINE m == Head(toPage)
            w == apply_committed_replay(page)
<1>1. page \in Page /\ slot \in Slot /\ toHost \in Seq(ToHost) /\ toPage \in Seq(ToPage)
      /\ count \in Count
  BY StateTypes
<1>2. AtPage("committed")
  BY DEF on_committed
<1>3. PageTakes1(m) /\ m.type = "committed"
  BY <1>1, <1>2, AtPageTakes
<1>4. slot.phase = "committing" /\ m.lease = slot.lease
  BY <1>3 DEF Tokens, PageTakes1, OfCommit
<1>5. page.session = "held"
  BY <1>4 DEF Bound
<1>6. HostStays /\ UNCHANGED count /\ Show(w, <<>>) /\ slot' = Idle
  BY <1>4, <1>5 DEF on_committed, hostVars, HostStays, spent
<1>7. /\ PageLike(w) /\ w.acknowledged = page.acknowledged
      /\ w.session = page.session /\ w.saving = page.saving
      /\ w.cell = Target /\ Moved1(w)
  BY <1>4, ApplyDoes
<1>. HIDE DEF w
<1>8. ShownAs(w, toHost)
  BY <1>1, <1>6, <1>7, ShowAlone DEF PageLike
<1>. QED BY <1>1, <1>3, <1>4, <1>5, <1>6, <1>7, <1>8, KeptSame DEF Idle

LEMMA OnAcknowledgedDoes ==
    ASSUME IInv, OnAcknowledged
    PROVE  /\ HostStays /\ UNCHANGED <<slot, toHost, count>> /\ Kept
           /\ Quietly /\ page'.session = page.session /\ page'.saving = page.saving
           /\ \E m : /\ PageTakes1(m) /\ m.type = "acknowledged"
                     /\ page'.acknowledged = (page.acknowledged \/ m.sequence = page.sequence)
<1>. DEFINE m == Head(toPage)
            b == page.acknowledged \/ m.sequence = page.sequence
<1>1. page \in Page /\ toPage \in Seq(ToPage) /\ count \in Count
  BY StateTypes
<1>2. /\ AtPage("acknowledged") /\ HostStays /\ UNCHANGED <<slot, toHost, count>>
      /\ page' = [page EXCEPT !.acknowledged = b]
  BY DEF OnAcknowledged, hostVars, HostStays
<1>3. PageTakes1(m) /\ m.type = "acknowledged" /\ Kept
  BY <1>1, <1>2, AtPageTakes, KeptSame
<1>4. b \in BOOLEAN
  BY <1>1 DEF Page
<1>. HIDE DEF b, m
<1>5. /\ Quietly /\ page'.session = page.session /\ page'.saving = page.saving
      /\ page'.acknowledged = b
  BY <1>1, <1>2, <1>4 DEF Page, Quietly, PageLike
<1>. QED BY <1>2, <1>3, <1>5 DEF b

LEMMA OnDiscardedDoes ==
    ASSUME IInv, Sessions, page.up, OnDiscarded
    PROVE  /\ HostStays /\ UNCHANGED <<slot, toHost, count>> /\ Kept
           /\ page.session = "discarding" /\ page'.session = "none"
           /\ Quietly /\ page'.acknowledged = page.acknowledged /\ page'.saving = page.saving
           /\ \E m : PageTakes1(m) /\ m.type = "discarded"
<1>. DEFINE m == Head(toPage)
<1>1. page \in Page /\ toPage \in Seq(ToPage) /\ count \in Count
  BY StateTypes
<1>2. /\ AtPage("discarded") /\ HostStays /\ UNCHANGED <<slot, toHost, count>>
      /\ page.session = "discarding" => page' = [page EXCEPT !.session = "none"]
  BY DEF OnDiscarded, hostVars, HostStays
<1>3. PageTakes1(m) /\ m.type = "discarded" /\ Kept
  BY <1>1, <1>2, AtPageTakes, KeptSame
<1>4. page.session = "discarding"
  BY <1>3 DEF Sessions, PageTakes1
<1>5. /\ Quietly /\ page'.session = "none" /\ page'.saving = page.saving
      /\ page'.acknowledged = page.acknowledged
  BY <1>1, <1>2, <1>4 DEF Page, Quietly, PageLike
<1>. QED BY <1>2, <1>3, <1>4, <1>5

LEMMA OnSessionDoes ==
    ASSUME IInv, Sessions, page.up, OnSession
    PROVE  /\ HostStays /\ UNCHANGED count /\ Kept
           /\ page.session = "requested"
           /\ \E m : /\ PageTakes1(m) /\ m.type = "session"
                     /\ \/ /\ m.granted /\ slot' = slot
                           /\ \E w : /\ PageLike(w) /\ w.acknowledged = page.acknowledged
                                     /\ w.session = "held" /\ w.saving = page.saving
                                     /\ w.undo = page.undo /\ w.redo = page.redo
                                     /\ w.cell = m.cell /\ ShownAs(w, toHost)
                        \/ /\ ~m.granted /\ Quietly /\ page'.session = "none"
                           /\ page'.saving = page.saving
                           /\ page'.acknowledged = page.acknowledged /\ toHost' = toHost
                           /\ \/ slot' = slot /\ slot.phase # "acquiring"
                              \/ slot.phase = "acquiring" /\ slot'.phase = "idle"
<1>. DEFINE m == Head(toPage)
            held == [page EXCEPT !.session = "held", !.cell = m.cell]
<1>1. page \in Page /\ toPage \in Seq(ToPage) /\ toHost \in Seq(ToHost) /\ count \in Count
  BY StateTypes
<1>2. AtPage("session") /\ HostStays /\ UNCHANGED count
  BY DEF OnSession, hostVars, HostStays
<1>3. PageTakes1(m) /\ m.type = "session" /\ Kept
  BY <1>1, <1>2, AtPageTakes, KeptSame
<1>4. page.session = "requested"
  BY <1>3 DEF Sessions, PageTakes1
<1>5. \/ m.granted /\ Show(held, <<>>) /\ slot' = slot
      \/ /\ ~m.granted /\ page' = [page EXCEPT !.session = "none"] /\ toHost' = toHost
         /\ \/ slot' = slot /\ slot.phase # "acquiring"
            \/ slot.phase = "acquiring" /\ slot' = Idle
  BY <1>4 DEF OnSession
<1>6. m.granted => m.cell \in Nat
  BY <1>3 DEF PageTakes1, ToPage
<1>. HIDE DEF m
<1>7. CASE m.granted /\ Show(held, <<>>) /\ slot' = slot
  <2>1. /\ PageLike(held) /\ held.acknowledged = page.acknowledged
        /\ held.session = "held" /\ held.saving = page.saving
        /\ held.undo = page.undo /\ held.redo = page.redo /\ held.cell = m.cell
    BY <1>1, <1>6, <1>7 DEF Page, PageLike
  <2>. HIDE DEF held
  <2>2. ShownAs(held, toHost)
    BY <1>1, <1>7, <2>1, ShowAlone DEF PageLike
  <2>. QED BY <1>2, <1>3, <1>4, <1>7, <2>1, <2>2
<1>8. CASE /\ ~m.granted /\ page' = [page EXCEPT !.session = "none"] /\ toHost' = toHost
           /\ \/ slot' = slot /\ slot.phase # "acquiring"
              \/ slot.phase = "acquiring" /\ slot' = Idle
  <2>1. /\ Quietly /\ page'.session = "none" /\ page'.saving = page.saving
        /\ page'.acknowledged = page.acknowledged
    BY <1>1, <1>8 DEF Page, Quietly, PageLike
  <2>. QED BY <1>2, <1>3, <1>4, <1>8, <2>1 DEF Idle
<1>. QED BY <1>5, <1>7, <1>8

LEMMA OnSavedDoes ==
    ASSUME IInv, OnSaved
    PROVE  /\ HostStays /\ UNCHANGED <<slot, count>> /\ Kept
           /\ \E m : PageTakes1(m) /\ m.type = "saved"
           /\ \E w : /\ PageLike(w) /\ w.acknowledged = page.acknowledged
                     /\ w.session = page.session /\ w.saving = FALSE
                     /\ w.undo = page.undo /\ w.redo = page.redo
                     /\ w.cell = page.cell /\ ShownAs(w, toHost)
<1>. DEFINE w == [page EXCEPT !.saving = FALSE]
<1>1. page \in Page /\ toPage \in Seq(ToPage) /\ toHost \in Seq(ToHost) /\ count \in Count
  BY StateTypes
<1>2. AtPage("saved") /\ HostStays /\ UNCHANGED <<slot, count>> /\ Show(w, <<>>)
  BY DEF OnSaved, hostVars, HostStays
<1>3. PageTakes1(Head(toPage)) /\ Head(toPage).type = "saved" /\ Kept
  BY <1>1, <1>2, AtPageTakes, KeptSame
<1>4. /\ PageLike(w) /\ w.acknowledged = page.acknowledged
      /\ w.session = page.session /\ w.saving = FALSE
      /\ w.undo = page.undo /\ w.redo = page.redo /\ w.cell = page.cell
  BY <1>1 DEF Page, PageLike
<1>. HIDE DEF w
<1>5. ShownAs(w, toHost)
  BY <1>1, <1>2, <1>4, ShowAlone DEF PageLike
<1>. QED BY <1>2, <1>3, <1>4, <1>5

AppliedTo(m, k) == k \in ToHost /\ k.type = "applied" /\ k.delivery = m.delivery

\* The first snapshot of a load.
ShowsFirst(m) ==
    /\ m.initial /\ ~page.up /\ page = NewPage /\ slot'.phase = "idle"
    /\ \E k, q, w : /\ AppliedTo(m, k) /\ Pushed(toHost, q, k)
                    /\ w \in Page /\ w.up
                    /\ w.session = IF m.session THEN "held" ELSE "none"
                    /\ w.saving = FALSE /\ w.acknowledged = TRUE
                    /\ w.published = Nothing /\ w.sequence = 0
                    /\ w.undo = <<>> /\ w.redo = <<>> /\ w.cell = m.cell
                    /\ ShownAs(w, q)

\* A later one: the page takes its cell, publishes its own again, or does neither.
ShowsAgain(m) ==
    /\ ~m.initial /\ page.up /\ slot' = slot
    /\ page.session = "held" /\ page.acknowledged
    /\ \E k, q, w : /\ AppliedTo(m, k) /\ Pushed(toHost, q, k)
                    /\ PageLike(w) /\ w.acknowledged = page.acknowledged
                    /\ w.session = page.session /\ w.saving = page.saving
                    /\ w.undo = page.undo /\ w.redo = page.redo /\ w.cell = m.cell
                    /\ ShownAs(w, q)

Republishes(m) ==
    /\ ~m.initial /\ page.up /\ slot' = slot
    /\ page.session = "held" /\ ~page.acknowledged /\ m.cell # page.cell
    /\ page' \in Page
    /\ page'.up = page.up /\ page'.cell = page.cell /\ page'.session = page.session
    /\ page'.saving = page.saving /\ page'.undo = page.undo /\ page'.redo = page.redo
    /\ page'.published = page.cell /\ page'.sequence = page.sequence + 1
    /\ ~page'.acknowledged
    /\ \E k, q : \E e \in ToHost :
          /\ AppliedTo(m, k) /\ Pushed(toHost, q, e) /\ Pushed(q, toHost', k)
          /\ e.type = "edits" /\ e.value = page.cell /\ e.sequence = page.sequence + 1

Leaves(m) ==
    /\ ~m.initial /\ page.up /\ slot' = slot /\ page' = page
    /\ page.session = "held" => ~page.acknowledged /\ m.cell = page.cell
    /\ \E k : AppliedTo(m, k) /\ Pushed(toHost, toHost', k)

LEMMA OnSnapshotDoes ==
    ASSUME IInv, Arriving, OnSnapshot
    PROVE  /\ HostStays /\ UNCHANGED count /\ Kept
           /\ \E m : /\ PageTakes1(m) /\ m.type = "snapshot"
                     /\ \/ ShowsFirst(m) \/ ShowsAgain(m) \/ Republishes(m) \/ Leaves(m)
<1>. DEFINE m == Head(toPage)
            install == [page EXCEPT !.cell = m.cell]
            again == publish(page)
            k == [type |-> "applied", delivery |-> m.delivery]
            q == Append(toHost, k)
<1>1. page \in Page /\ toPage \in Seq(ToPage) /\ toHost \in Seq(ToHost) /\ count \in Count
  BY StateTypes
<1>2. AtPage("snapshot") /\ HostStays /\ UNCHANGED count
  BY DEF OnSnapshot, hostVars, HostStays
<1>3. PageTakes1(m) /\ m.type = "snapshot" /\ Kept
  BY <1>1, <1>2, AtPageTakes, KeptSame
<1>4. /\ m.delivery \in Nat /\ m.cell \in Nat /\ m.initial \in BOOLEAN
      /\ m.initial => m.session \in BOOLEAN
  BY <1>3 DEF PageTakes1, ToPage
<1>5. k \in ToHost /\ AppliedTo(m, k)
  BY <1>4 DEF ToHost, AppliedTo
<1>6. q \in Seq(ToHost) /\ Pushed(toHost, q, k) /\ toHost \o <<k>> = q
  BY <1>1, <1>5, PushedAppend, ConcatOne
<1>7. CASE m.initial
  <2>. DEFINE w == [install EXCEPT !.up = TRUE, !.undo = <<>>, !.redo = <<>>,
                                   !.session = IF m.session THEN "held" ELSE "none"]
  <2>1. Show(w, <<k>>) /\ slot' = Idle
    BY <1>7 DEF OnSnapshot
  <2>2. ~page.up
    <3>1. First(m) /\ toPage # <<>> /\ m = toPage[1] /\ 1 \in DOMAIN toPage
      <4>1. Len(toPage) \in Nat \ {0} /\ m = toPage[1]
        BY <1>1, <1>2, AfterTail DEF AtPage
      <4>. QED BY <1>1, <1>2, <1>3, <1>7, <4>1, LenProperties DEF First, AtPage
    <3>2. Firsts # {}
      BY <3>1 DEF Firsts
    <3>. QED BY <3>2 DEF IInv, Loading
  <2>3. page = NewPage
    BY <2>2 DEF Arriving
  <2>4. /\ page.saving = FALSE /\ page.acknowledged = TRUE /\ page.published = Nothing
        /\ page.sequence = 0
    BY <2>3 DEF NewPage
  <2>5. ASSUME NEW s \in {"held", "none"},
               w = [install EXCEPT !.up = TRUE, !.undo = <<>>, !.redo = <<>>, !.session = s]
        PROVE  /\ w \in Page /\ w.up /\ w.session = s /\ w.saving = page.saving
               /\ w.acknowledged = page.acknowledged /\ w.published = page.published
               /\ w.sequence = page.sequence
               /\ w.undo = <<>> /\ w.redo = <<>> /\ w.cell = m.cell
    <3>1. <<>> \in Seq(Entry)
      BY EmptySeq
    <3>2. w = [[page EXCEPT !.cell = m.cell] EXCEPT !.up = TRUE, !.undo = <<>>, !.redo = <<>>,
                                                   !.session = s]
      BY <2>5
    <3>. HIDE DEF w, m
    <3>. QED BY <1>1, <1>4, <3>1, <3>2 DEF Page
  <2>. DEFINE s == IF m.session THEN "held" ELSE "none"
  <2>6. /\ s \in {"held", "none"}
        /\ w = [install EXCEPT !.up = TRUE, !.undo = <<>>, !.redo = <<>>, !.session = s]
    OBVIOUS
  <2>. HIDE DEF s
  <2>7. /\ w \in Page /\ w.up /\ w.session = s /\ w.saving = page.saving
        /\ w.acknowledged = page.acknowledged /\ w.published = page.published
        /\ w.sequence = page.sequence
        /\ w.undo = <<>> /\ w.redo = <<>> /\ w.cell = m.cell
    BY <2>5, <2>6
  <2>. HIDE DEF w, q, k, m
  <2>8. ShownAs(w, q)
    BY <1>6, <2>1, <2>7, ShowDoes
  <2>9. ShowsFirst(m)
    BY <1>5, <1>6, <1>7, <2>1, <2>2, <2>3, <2>4, <2>7, <2>8 DEF ShowsFirst, Idle, s
  <2>. QED BY <1>2, <1>3, <2>9
<1>8. CASE ~m.initial
  <2>1. /\ page.up /\ slot' = slot
        /\ \/ page.session = "held" /\ page.acknowledged /\ Show(install, <<k>>)
           \/ /\ page.session = "held" /\ ~page.acknowledged /\ m.cell # page.cell
              /\ page' = again /\ toHost' = toHost \o <<Edits(again), k>>
           \/ /\ page.session = "held" => ~page.acknowledged /\ m.cell = page.cell
              /\ page' = page /\ toHost' = q
    BY <1>8 DEF OnSnapshot, Send
  <2>2. CASE page.session = "held" /\ page.acknowledged /\ Show(install, <<k>>)
    <3>1. /\ PageLike(install) /\ install.acknowledged = page.acknowledged
          /\ install.session = page.session /\ install.saving = page.saving
          /\ install.undo = page.undo /\ install.redo = page.redo /\ install.cell = m.cell
      BY <1>1, <1>4 DEF Page, PageLike
    <3>. HIDE DEF install, q, k, m
    <3>2. ShownAs(install, q)
      BY <1>6, <2>2, <3>1, ShowDoes DEF PageLike
    <3>3. ShowsAgain(m)
      BY <1>5, <1>6, <1>8, <2>1, <2>2, <3>1, <3>2 DEF ShowsAgain
    <3>. QED BY <1>2, <1>3, <3>3
  <2>3. CASE /\ page.session = "held" /\ ~page.acknowledged /\ m.cell # page.cell
             /\ page' = again /\ toHost' = toHost \o <<Edits(again), k>>
    <3>. DEFINE e == Edits(again)
                r == Append(toHost, e)
    <3>1. /\ again \in Page
          /\ again.up = page.up /\ again.cell = page.cell /\ again.session = page.session
          /\ again.saving = page.saving /\ again.undo = page.undo /\ again.redo = page.redo
          /\ again.published = page.cell /\ again.sequence = page.sequence + 1
          /\ ~again.acknowledged
          /\ e \in ToHost /\ e.type = "edits" /\ e.value = page.cell
          /\ e.sequence = page.sequence + 1
      BY <1>1, Publishes
    <3>2. toHost' = toHost \o <<e, k>>
      BY <2>3
    <3>. HIDE DEF again, e, k, m, q
    <3>3. r \in Seq(ToHost) /\ Pushed(toHost, r, e)
      BY <1>1, <3>1, PushedAppend
    <3>4. toHost' = Append(r, k)
      <4>1. <<e, k>> = <<e>> \o <<k>>
        OBVIOUS
      <4>2. <<e>> \in Seq(ToHost) /\ <<k>> \in Seq(ToHost)
        BY <1>5, <3>1, SingletonSeq
      <4>3. toHost \o (<<e>> \o <<k>>) = (toHost \o <<e>>) \o <<k>>
        BY <1>1, <4>2, ConcatAssociative
      <4>4. toHost \o <<e>> = r /\ r \o <<k>> = Append(r, k)
        BY <1>1, <1>5, <3>1, <3>3, ConcatOne
      <4>. QED BY <3>2, <4>1, <4>3, <4>4
    <3>5. Pushed(r, toHost', k)
      BY <1>5, <3>3, <3>4, PushedAppend
    <3>. HIDE DEF r
    <3>6. Republishes(m)
      BY <1>5, <1>8, <2>1, <2>3, <3>1, <3>3, <3>5 DEF Republishes
    <3>. QED BY <1>2, <1>3, <3>6
  <2>4. CASE /\ page.session = "held" => ~page.acknowledged /\ m.cell = page.cell
             /\ page' = page /\ toHost' = q
    <3>. HIDE DEF q, k, m
    <3>1. Leaves(m)
      BY <1>5, <1>6, <1>8, <2>1, <2>4 DEF Leaves
    <3>. QED BY <1>2, <1>3, <3>1
  <2>. QED BY <2>1, <2>2, <2>3, <2>4
<1>. QED BY <1>7, <1>8

LEMMA IgnoreDoes ==
    ASSUME IInv, Ignore
    PROVE  /\ HostStays /\ UNCHANGED <<page, slot, toHost, count>> /\ Kept
           /\ ~page.up
           /\ \E m : PageTakes1(m) /\ (m.type = "snapshot" => ~m.initial)
<1>1. toPage \in Seq(ToPage) /\ count \in Count
  BY StateTypes
<1>2. /\ AtPage(Head(toPage).type) /\ HostStays /\ UNCHANGED <<page, slot, toHost, count>>
      /\ ~page.up /\ (Head(toPage).type = "snapshot" => ~Head(toPage).initial)
  BY DEF Ignore, AtPage, hostVars, pageVars, HostStays
<1>. QED BY <1>1, <1>2, AtPageTakes, KeptSame

LEMMA LoadDoes ==
    ASSUME IInv, Load
    PROVE  /\ HostStays /\ Kept /\ page.up
           /\ page' = NewPage /\ slot' = Idle /\ toPage' = <<>>
           /\ \E m \in ToHost : m.type = "ready" /\ Pushed(toHost, toHost', m)
<1>. DEFINE m == [type |-> "ready"]
<1>1. toHost \in Seq(ToHost) /\ count \in Count
  BY StateTypes
<1>2. /\ HostStays /\ page.up /\ page' = NewPage /\ slot' = Idle /\ toPage' = <<>>
      /\ toHost' = Append(toHost, m) /\ Fault
  BY DEF Load, hostVars, HostStays, Send
<1>3. m \in ToHost /\ m.type = "ready"
  BY DEF ToHost
<1>. HIDE DEF m
<1>. QED BY <1>1, <1>2, <1>3, PushedAppend, KeptFault

-----------------------------------------------------------------------------
(* Epochs, leases and what is awaited *)

LEMMA PageStepsRest ==
    ASSUME PageActs \/ PageRuns \/ Load PROVE HostStays
<1>. QED
  BY DEF PageActs, PageRuns, Load, hostVars, Edit, Discard, RequestSave, RequestSession, Begin,
         Prepare, OnMessage, on_prepared, on_prepare_refused, on_committed, on_commit_refused,
         OnAcknowledged, OnDiscarded, OnSession, OnSaved, OnSnapshot, Ignore, HostStays

\* The commits of the queue have types.
LEMMA CommitTypes ==
    ASSUME IInv
    PROVE  /\ \A c \in Range(committing) :
                 /\ c \in Commit /\ c.op \in Op /\ c.lease \in Nat /\ c.awaits \in Nat
                 /\ c.epoch \in Nat /\ c.op.epoch \in Nat /\ c.value \in Nat
           /\ DOMAIN committing = 1..Len(committing) /\ Len(committing) \in Nat
           /\ \A i \in DOMAIN committing : committing[i] \in Range(committing)
           /\ committing # <<>> => 1 \in DOMAIN committing /\ Head(committing) = committing[1]
<1>1. committing \in Seq(Commit)
  BY HostState
<1>2. \A c \in Range(committing) : c \in Commit
  BY <1>1 DEF Range
<1>3. DOMAIN committing = 1..Len(committing) /\ Len(committing) \in Nat
  BY <1>1, LenProperties
<1>4. ASSUME NEW S, NEW s \in Seq(S), s # <<>> PROVE Head(s) = s[1] /\ Len(s) \in Nat \ {0}
  BY <1>4, AfterTail
<1>5. \A c \in Commit : /\ c.op \in Op /\ c.lease \in Nat /\ c.awaits \in Nat
                       /\ c.epoch \in Nat /\ c.value \in Nat
  BY DEF Commit
<1>6. \A op \in Op : op.epoch \in Nat
  BY DEF Op
<1>7. \A i \in DOMAIN committing : committing[i] \in Range(committing)
  BY DEF Range
<1>8. committing # <<>> => 1 \in DOMAIN committing /\ Head(committing) = committing[1]
  BY <1>1, <1>3, <1>4
<1>. QED BY <1>2, <1>3, <1>5, <1>6, <1>7, <1>8

LEMMA WriteTypes ==
    ASSUME IInv
    PROVE  /\ \A w \in Range(writes) : /\ w \in Write /\ w.epoch \in Nat /\ w.session \in Nat
                                       /\ w.sequence \in Nat /\ w.value \in Nat
           /\ DOMAIN writes = 1..Len(writes) /\ Len(writes) \in Nat
           /\ \A i \in DOMAIN writes : writes[i] \in Range(writes)
<1>1. writes \in Seq(Write)
  BY HostState
<1>2. \A w \in Range(writes) : w \in Write
  BY <1>1 DEF Range
<1>3. \A w \in Write : /\ w.epoch \in Nat /\ w.session \in Nat
                      /\ w.sequence \in Nat /\ w.value \in Nat
  BY DEF Write
<1>4. DOMAIN writes = 1..Len(writes) /\ Len(writes) \in Nat
  BY <1>1, LenProperties
<1>5. \A i \in DOMAIN writes : writes[i] \in Range(writes)
  BY DEF Range
<1>. QED BY <1>2, <1>3, <1>4, <1>5

LEMMA HostFields ==
    ASSUME IInv
    PROVE  /\ host.epoch \in Nat /\ host.leases \in Nat /\ host.session \in Nat
           /\ host.sessions \in Nat /\ host.delivery \in Nat
           /\ host.durable \in Nat /\ host.known \in Nat /\ host.shown \in Nat
           /\ host.readying \in BOOLEAN /\ host.acked \in BOOLEAN /\ host.posted \in BOOLEAN
           /\ host.saving \in BOOLEAN /\ host.overtaken \in BOOLEAN
           /\ \A op \in preparing : op \in Op /\ op.awaits \in Nat /\ op.epoch \in Nat
           /\ live => lease.state \in {"issued", "committing"} /\ lease.id \in Nat /\ lease.op \in Op
           /\ lease.state \in {"none", "issued", "committing"}
<1>. QED BY HostState DEF Host, Op, Lease, live

\* Only the first commit has been started, and what it awaited is durable after its drain.
LEMMA MovedFirst ==
    ASSUME IInv, Numbered, NEW c \in Range(committing), c.step # "starting"
    PROVE  /\ c = committing[1] /\ committing # <<>>
           /\ c.step # "draining" => c.awaits = 0 /\ writes = <<>>
<1>1. PICK i \in DOMAIN committing : committing[i] = c
  BY DEF Range
<1>2. i \in 1..Len(committing) /\ 1 \in DOMAIN committing /\ c \in Moved /\ committing[1] \in Commit
  BY <1>1, CommitTypes DEF Moved
<1>3. c = committing[1]
  <2>1. NoneAfter(committing, Commit, Moved)
    BY DEF Numbered
  <2>2. CASE i # 1
    BY <1>1, <1>2, <2>1, <2>2, CommitTypes DEF NoneAfter
  <2>. QED BY <1>1, <2>2
<1>4. c.step # "draining" => c.awaits = 0 /\ Len(writes) = 0
  BY DEF Numbered, CommitFits
<1>. QED BY <1>1, <1>3, <1>4, HostState, EmptySeq

\* The host's own fields, and what a commit fits.
Leads ==
    /\ host'.epoch = host.epoch /\ host'.session <= host'.sessions
    /\ host.sessions <= host'.sessions /\ host'.sessions \in Nat
    /\ host.leases <= host'.leases /\ host'.leases \in Nat

LEMMA NumberedQuiet ==
    ASSUME IInv, Numbered, Leads, UNCHANGED <<committing, writes>>,
           lease' = lease \/ (lease.state # "committing" /\ lease' = NoLease),
           \A op \in preparing' : op.step # "draining" => op.awaits = 0
    PROVE  Numbered'
<1>1. \A c \in Range(committing) : CommitFits(c)'
  BY CommitTypes, HostFields DEF Numbered, CommitFits, Leads, live, NoLease
<1>2. live' => lease'.op.epoch = host'.epoch /\ lease'.id <= host'.leases
  BY HostFields DEF Numbered, Leads, live, NoLease
<1>3. \A w \in Range(writes) : w.epoch <= host'.epoch /\ w.session <= host'.sessions
  BY WriteTypes, HostFields DEF Numbered, Leads
<1>. QED BY <1>1, <1>2, <1>3 DEF Numbered, Leads

LEMMA NumberedPage ==
    ASSUME IInv, Numbered, HostStays PROVE Numbered'
<1>. QED BY DEF HostStays, Numbered, CommitFits, live

LEMMA NumberedHandleEdits ==
    ASSUME IInv, Numbered, HandleEdits PROVE Numbered'
<1>1. UNCHANGED <<host, lease, preparing, committing>>
  BY HandleEditsDoes
<1>2. CASE UNCHANGED writes
  BY <1>1, <1>2 DEF Numbered, CommitFits, live
<1>3. ASSUME NEW w \in Write, w.epoch = host.epoch, w.session = host.session,
             writes' = Append(writes, w), committing = <<>>
      PROVE  Numbered'
  <2>1. Range(writes') = Range(writes) \cup {w}
    BY <1>3, HostState, AfterAppend
  <2>2. Range(committing) = {}
    BY <1>3 DEF Range
  <2>. QED BY <1>1, <1>3, <2>1, <2>2, HostFields DEF Numbered, live
<1>. QED BY <1>2, <1>3, HandleEditsDoes

LEMMA NumberedSteps ==
    ASSUME IInv, Numbered, NEW c, NEW step, Steps(c, step), Leads,
           step = "draining" \/ c.awaits = 0
    PROVE  Numbered'
<1>1. PICK d \in Commit :
          /\ d.lease = c.lease /\ d.op = c.op /\ d.value = c.value
          /\ d.awaits = c.awaits /\ d.epoch = c.epoch /\ d.step = step
          /\ committing' \in Seq(Commit) /\ Len(committing') = Len(committing)
          /\ \A i \in 1..Len(committing) : committing'[i] = IF i = 1 THEN d ELSE committing[i]
          /\ Range(committing') = {d} \cup Range(Tail(committing))
          /\ Range(committing) = {c} \cup Range(Tail(committing))
  BY DEF Steps
<1>2. /\ UNCHANGED <<lease, preparing, writes>> /\ c \in Range(committing)
      /\ committing # <<>> /\ c = committing[1]
  BY DEF Steps
<1>3. \A e \in Range(committing') : CommitFits(e)'
  <2>1. CommitFits(c)
    BY <1>2 DEF Numbered
  <2>2. CommitFits(d)'
    BY <1>1, <1>2, <2>1, HostFields, CommitTypes DEF CommitFits, Leads, live
  <2>3. ASSUME NEW e \in Range(Tail(committing)) PROVE CommitFits(e)'
    <3>1. e \in Range(committing) /\ CommitFits(e)
      BY <1>1 DEF Numbered
    <3>. QED BY SMTT(30), <1>2, <3>1, HostFields, CommitTypes DEF CommitFits, Leads, live
  <2>. QED BY <1>1, <2>2, <2>3
<1>4. DOMAIN committing' = DOMAIN committing /\ DOMAIN committing = 1..Len(committing)
  BY <1>1, CommitTypes, LenProperties
<1>5. NoneAfter(committing', Commit, Moved)
  <2>1. ASSUME NEW i \in DOMAIN committing, NEW j \in DOMAIN committing, i < j
        PROVE  committing'[j] \notin Moved
    <3>1. committing'[j] = committing[j] /\ 1 \in DOMAIN committing /\ 1 < j
      BY <1>1, <1>4, <2>1, CommitTypes
    <3>2. committing[1] \in Commit
      BY <3>1, CommitTypes
    <3>. QED BY <3>1, <3>2 DEF Numbered, NoneAfter
  <2>. QED BY <1>4, <2>1 DEF NoneAfter
<1>6. NoneAfter(committing', OfEpoch(host'.epoch), OfEpoch(host'.epoch))
  <2>1. \A i \in DOMAIN committing : committing'[i].epoch = committing[i].epoch
    BY <1>1, <1>2, <1>4
  <2>2. \A i \in DOMAIN committing : committing'[i] \in OfEpoch(host'.epoch)
                                       <=> committing[i] \in OfEpoch(host.epoch)
    <3>1. \A i \in DOMAIN committing : committing[i] \in Commit /\ committing'[i] \in Commit
      BY <1>1, <1>4, CommitTypes
    <3>. QED BY <2>1, <3>1 DEF OfEpoch, Leads
  <2>. QED BY <1>4, <2>2 DEF NoneAfter, Numbered
<1>7. \A w \in Range(writes) : w.epoch <= host'.epoch /\ w.session <= host'.sessions
  BY WriteTypes, HostFields DEF Numbered, Leads
<1>8. live' => lease'.op.epoch = host'.epoch /\ lease'.id <= host'.leases
  BY <1>2, HostFields DEF Numbered, Leads, live
<1>. QED BY <1>2, <1>3, <1>5, <1>6, <1>7, <1>8 DEF Numbered, Leads

LEMMA NumberedSettles ==
    ASSUME IInv, Numbered, NEW c, EndsCommit(c), Leads
    PROVE  Numbered'
<1>1. /\ UNCHANGED <<preparing, writes>> /\ c \in Range(committing) /\ committing # <<>>
      /\ committing' = Tail(committing) /\ Popped(committing, committing', c)
      /\ lease' = settle(c.lease)
  BY DEF EndsCommit
<1>2. Range(committing) = Range(committing') \cup {c}
  BY <1>1 DEF Popped
<1>3. NoneAfter(committing', Commit, Moved)
  BY <1>1 DEF Popped, Numbered
<1>4. /\ NoneAfter(committing', OfEpoch(host.epoch), OfEpoch(host.epoch))
      /\ c \in OfEpoch(host.epoch) => NoneIn(committing', OfEpoch(host.epoch))
  BY <1>1 DEF Popped, Numbered
<1>5. CASE c.epoch = host.epoch
  <2>1. lease.state = "committing" /\ lease.id = c.lease
    BY <1>1, <1>5 DEF Numbered, CommitFits
  <2>2. lease' = NoLease /\ lease'.state = "none"
    BY <1>1, <2>1 DEF settle, NoLease
  <2>3. \A d \in Range(committing') : CommitFits(d)'
    <3>1. ASSUME NEW d \in Range(committing') PROVE CommitFits(d)'
      <4>1. d \in Commit /\ d \in Range(committing) /\ CommitFits(d)
        BY <1>2, CommitTypes DEF Numbered
      <4>2. d.epoch # host.epoch
        BY <1>1, <1>4, <1>5, <4>1, CommitTypes DEF OfEpoch, NoneIn
      <4>. QED BY SMTT(30), <1>1, <2>2, <4>1, <4>2, HostFields, CommitTypes DEF CommitFits, Leads, live
    <3>. QED BY <3>1
  <2>4. \A w \in Range(writes) : w.epoch <= host'.epoch /\ w.session <= host'.sessions
    BY WriteTypes, HostFields DEF Numbered, Leads
  <2>. QED BY <1>1, <1>3, <1>4, <2>2, <2>3, <2>4 DEF Numbered, Leads, live
<1>6. CASE c.epoch # host.epoch
  <2>1. ~(live /\ c.lease = lease.id)
    BY <1>1, <1>6 DEF Numbered, CommitFits
  <2>2. lease' = lease
    BY <1>1, <2>1 DEF settle, live
  <2>3. \A d \in Range(committing') : CommitFits(d)'
    <3>1. ASSUME NEW d \in Range(committing') PROVE CommitFits(d)'
      <4>1. d \in Range(committing) /\ CommitFits(d)
        BY <1>2 DEF Numbered
      <4>. QED BY SMTT(30), <1>1, <2>2, <4>1, HostFields, CommitTypes DEF CommitFits, Leads, live
    <3>. QED BY <3>1
  <2>4. \A w \in Range(writes) : w.epoch <= host'.epoch /\ w.session <= host'.sessions
    BY WriteTypes, HostFields DEF Numbered, Leads
  <2>5. live' => lease'.op.epoch = host'.epoch /\ lease'.id <= host'.leases
    BY <2>2, HostFields DEF Numbered, Leads, live
  <2>. QED BY <1>1, <1>3, <1>4, <2>3, <2>4, <2>5 DEF Numbered, Leads
<1>. QED BY <1>5, <1>6

LEMMA NumberedHandleCommit ==
    ASSUME IInv, Numbered, HandleCommit PROVE Numbered'
<1>1. UNCHANGED <<host, preparing, writes>>
  BY HandleCommitDoes
<1>2. CASE UNCHANGED <<lease, committing>>
  BY <1>1, <1>2 DEF Numbered, CommitFits, live
<1>3. ASSUME NEW m, lease.state = "issued", lease.id = m.lease,
             lease'.state = "committing", lease'.id = lease.id, lease'.op = lease.op,
             NEW c \in Commit, c.lease = m.lease, c.op = lease.op, c.awaits = Len(writes),
             c.epoch = host.epoch, c.step = "starting", committing' = Append(committing, c)
      PROVE  Numbered'
  <2>1. live /\ live'
    BY <1>3 DEF live
  <2>2. Range(committing') = Range(committing) \cup {c} /\ Pushed(committing, committing', c)
    <3>1. committing \in Seq(Commit)
      BY HostState
    <3>2. Range(Append(committing, c)) = Range(committing) \cup {c}
      BY <3>1, <1>3, AfterAppend
    <3>3. Pushed(committing, Append(committing, c), c)
      BY <3>1, <1>3, PushedAppend
    <3>. QED BY <1>3, <3>2, <3>3
  <2>3. CommitFits(c)'
    BY <1>1, <1>3, <2>1, HostFields DEF CommitFits, Numbered, live
  <2>4. ASSUME NEW d \in Range(committing) PROVE CommitFits(d)' /\ d.epoch # host.epoch
    <3>1. CommitFits(d) /\ d.epoch # host.epoch
      BY <1>3 DEF Numbered, CommitFits
    <3>. QED BY <1>1, <1>3, <2>1, <3>1, CommitTypes, HostFields DEF CommitFits
  <2>5. NoneIn(committing, OfEpoch(host.epoch)) /\ c \notin Moved
    BY <1>3, <2>4 DEF NoneIn, OfEpoch, Moved
  <2>6. NoneAfter(committing', Commit, Moved)
    BY <2>2, <2>5 DEF Pushed, Numbered
  <2>7. NoneAfter(committing', OfEpoch(host.epoch), OfEpoch(host.epoch))
    BY <2>2, <2>5 DEF Pushed, Numbered
  <2>. QED BY <1>1, <1>3, <2>1, <2>2, <2>3, <2>4, <2>6, <2>7 DEF Numbered
<1>. QED BY <1>2, <1>3, HandleCommitDoes

LEMMA NumberedIssues ==
    ASSUME IInv, Numbered, NEW op \in preparing, Issues(op)
    PROVE  Numbered'
<1>1. /\ UNCHANGED <<committing, writes>> /\ HostRests(host.leases + 1)
      /\ op.epoch = host.epoch /\ ~live /\ preparing' = preparing \ {op}
      /\ lease' = [state |-> "issued", id |-> host.leases + 1, op |-> op]
  BY DEF Issues
<1>2. Leads /\ host'.leases = host.leases + 1
  BY <1>1, HostFields DEF Leads, HostRests, Becomes, Numbered
<1>3. lease'.state = "issued" /\ lease'.id = host.leases + 1 /\ lease'.op = op
  BY <1>1
<1>4. \A c \in Range(committing) : CommitFits(c)'
  <2>1. ASSUME NEW c \in Range(committing) PROVE CommitFits(c)'
    <3>1. CommitFits(c) /\ c.epoch # host.epoch
      BY <1>1 DEF Numbered, CommitFits, live
    <3>. QED BY <1>1, <1>2, <1>3, <3>1, CommitTypes, HostFields DEF CommitFits, Leads
  <2>. QED BY <2>1
<1>5. \A w \in Range(writes) : w.epoch <= host'.epoch /\ w.session <= host'.sessions
  BY <1>2, WriteTypes, HostFields DEF Numbered, Leads
<1>6. NoneAfter(committing', OfEpoch(host'.epoch), OfEpoch(host'.epoch))
  BY <1>1, <1>2 DEF Numbered, Leads
<1>. QED BY <1>1, <1>2, <1>3, <1>4, <1>5, <1>6 DEF Numbered, Leads

LEMMA NumberedHandleReady ==
    ASSUME IInv, Numbered, HandleReady PROVE Numbered'
<1>1. /\ UNCHANGED <<preparing, committing, writes>> /\ lease' = NoLease
      /\ host'.epoch = host.epoch + 1 /\ host'.session = host.session
      /\ host'.sessions = host.sessions /\ host'.leases = host.leases
  BY HandleReadyDoes DEF Becomes
<1>2. ~live'
  BY <1>1 DEF live, NoLease
<1>3. ASSUME NEW c \in Range(committing) PROVE CommitFits(c)' /\ c.epoch # host'.epoch
  <2>1. CommitFits(c)
    BY DEF Numbered
  <2>. QED BY <1>1, <1>2, <2>1, CommitTypes, HostFields DEF CommitFits
<1>4. NoneAfter(committing', OfEpoch(host'.epoch), OfEpoch(host'.epoch))
  <2>1. NoneIn(committing', OfEpoch(host'.epoch))
    BY <1>1, <1>3 DEF NoneIn, OfEpoch
  <2>. QED BY <2>1, OrderNone
<1>5. \A w \in Range(writes) : w.epoch <= host'.epoch /\ w.session <= host'.sessions
  BY <1>1, WriteTypes, HostFields DEF Numbered
<1>. QED BY <1>1, <1>2, <1>3, <1>4, <1>5 DEF Numbered

LEMMA AheadFields ==
    /\ \A op \in Op : /\ ahead(op) \in Op /\ ahead(op).request = op.request
                      /\ ahead(op).epoch = op.epoch /\ ahead(op).cell = op.cell
                      /\ ahead(op).step = op.step
                      /\ ahead(op).awaits = IF op.awaits = 0 THEN 0 ELSE op.awaits - 1
    /\ \A c \in Commit : /\ ahead(c) \in Commit /\ ahead(c).lease = c.lease
                         /\ ahead(c).op = c.op /\ ahead(c).value = c.value
                         /\ ahead(c).epoch = c.epoch /\ ahead(c).step = c.step
                         /\ ahead(c).awaits = IF c.awaits = 0 THEN 0 ELSE c.awaits - 1
<1>1. ASSUME NEW op \in Op
      PROVE  /\ ahead(op).cell = op.cell /\ ahead(op).step = op.step
  BY DEF ahead, Op
<1>2. ASSUME NEW c \in Commit
      PROVE  /\ ahead(c).op = c.op /\ ahead(c).value = c.value
             /\ ahead(c).step = c.step
             /\ ahead(c).awaits = IF c.awaits = 0 THEN 0 ELSE c.awaits - 1
  BY DEF ahead, Commit
<1>. QED BY <1>1, <1>2, AheadKeeps

LEMMA NumberedWriteLands ==
    ASSUME IInv, Numbered, WriteLands PROVE Numbered'
<1>1. /\ UNCHANGED lease /\ writes # <<>> /\ writes' = Tail(writes)
      /\ preparing' = {ahead(op) : op \in preparing}
      /\ committing' = [i \in DOMAIN committing |-> ahead(committing[i])]
  BY WriteLandsDoes
<1>2. host'.epoch = host.epoch /\ host'.session = host.session /\ host'.sessions = host.sessions
      /\ host'.leases = host.leases
  <2>1. CASE host' = host
    BY <2>1
  <2>2. ASSUME NEW w, Becomes(w.value, w.value, host.session, host.sessions, host.saving,
                              host.leases, host.overtaken), Answers1(Acknowledges(w))
        PROVE  host'.epoch = host.epoch /\ host'.session = host.session
               /\ host'.sessions = host.sessions /\ host'.leases = host.leases
    BY <2>2 DEF Becomes, Answers1, Draws
  <2>. QED BY <2>1, <2>2, WriteLandsDoes
<1>3. writes \in Seq(Write) /\ Len(writes') = Len(writes) - 1 /\ Len(writes) \in Nat \ {0}
      /\ Range(writes') \subseteq Range(writes)
  BY <1>1, HostState, AfterTail
<1>5. ASSUME NEW i \in DOMAIN committing
      PROVE  /\ committing[i].awaits = Len(writes)
             /\ committing[i].step \in {"starting", "draining"}
             /\ committing'[i].awaits = Len(writes')
             /\ committing'[i].lease = committing[i].lease
             /\ committing'[i].op = committing[i].op
             /\ committing'[i].epoch = committing[i].epoch
             /\ committing'[i].step = committing[i].step
             /\ committing'[i] \in Commit /\ committing[i] \in Commit
  <2>1. committing[i] \in Range(committing) /\ committing[i] \in Commit
    BY CommitTypes
  <2>2. committing[i].awaits = Len(writes) /\ committing[i].step \in {"starting", "draining"}
    BY <1>3, <2>1, CommitTypes DEF Numbered, CommitFits
  <2>3. committing'[i] = ahead(committing[i])
    BY <1>1
  <2>. QED BY SMTT(30), <1>3, <2>1, <2>2, <2>3, AheadFields
<1>6. DOMAIN committing' = DOMAIN committing
  BY <1>1
<1>7. ASSUME NEW c \in Range(committing') PROVE CommitFits(c)'
  <2>1. PICK i \in DOMAIN committing : c = committing'[i]
    BY <1>6 DEF Range
  <2>2. CommitFits(committing[i])
    BY CommitTypes DEF Numbered
  <2>. QED BY <1>1, <1>2, <1>5, <2>1, <2>2 DEF CommitFits, live
<1>8. NoneAfter(committing', Commit, Moved)
  BY <1>5, <1>6 DEF NoneAfter, Moved, Numbered
<1>9. NoneAfter(committing', OfEpoch(host'.epoch), OfEpoch(host'.epoch))
  BY <1>2, <1>5, <1>6 DEF NoneAfter, OfEpoch, Numbered
<1>10. \A op \in preparing' : op.step # "draining" => op.awaits = 0
  <2>1. ASSUME NEW op \in preparing, ahead(op).step # "draining" PROVE ahead(op).awaits = 0
    <3>1. op \in Op
      BY HostState
    <3>. QED BY <2>1, <3>1, AheadFields DEF Numbered
  <2>. QED BY <1>1, <2>1
<1>11. \A w \in Range(writes') : w.epoch <= host'.epoch /\ w.session <= host'.sessions
  BY <1>2, <1>3 DEF Numbered
<1>12. live' => lease'.op.epoch = host'.epoch /\ lease'.id <= host'.leases
  BY <1>1, <1>2 DEF Numbered, live
<1>. QED BY <1>1, <1>2, <1>7, <1>8, <1>9, <1>10, <1>11, <1>12 DEF Numbered

LEMMA LeadsOf ==
    ASSUME IInv, Numbered, host'.epoch = host.epoch,
           NEW d, NEW k, NEW saving, NEW overtaken, NEW leases \in Nat, host.leases <= leases,
           Becomes(d, k, host.session, host.sessions, saving, leases, overtaken)
    PROVE  Leads
<1>. QED BY HostFields DEF Leads, Becomes, Numbered

LEMMA NumberedPreparation ==
    ASSUME IInv, Numbered, NEW op \in preparing, Preparation(op) PROVE Numbered'
<1>1. CASE Refuses(op)
  <2>1. Leads
    BY <1>1, HostFields, LeadsOf DEF Refuses, HostRests
  <2>. QED BY <1>1, <2>1, NumberedQuiet DEF Refuses, Numbered
<1>2. ASSUME NEW step, Moves(op, step), op.awaits = 0 PROVE Numbered'
  <2>1. Leads
    BY <1>2, HostFields DEF Moves, Leads, Numbered
  <2>2. \A o \in preparing' : o.step # "draining" => o.awaits = 0
    BY <1>2 DEF Moves, Numbered
  <2>. QED BY <1>2, <2>1, <2>2, NumberedQuiet DEF Moves
<1>3. CASE Issues(op)
  BY <1>3, NumberedIssues
<1>4. op.step = "comparing" => op.awaits = 0
  BY DEF Numbered
<1>. QED BY <1>1, <1>2, <1>3, <1>4, BindDoes, CompareDoes, OutdatedDoes, IssueDoes DEF Preparation

LEMMA NumberedMessage ==
    ASSUME IInv, Numbered, HandleMessage PROVE Numbered'
<1>0. \A op \in preparing : op.step # "draining" => op.awaits = 0
  BY DEF Numbered
<1>1. CASE HandleSession
  <2>1. UNCHANGED <<lease, preparing, committing, writes>> /\ HostRests(host.leases)
    BY <1>1, HandleSessionDoes
  <2>2. Leads
    BY <2>1, HostFields, LeadsOf DEF HostRests
  <2>. QED BY <1>0, <2>1, <2>2, NumberedQuiet
<1>2. CASE HandleDiscard
  <2>1. /\ UNCHANGED <<lease, preparing, committing, writes>> /\ \E a : Answers1(a)
        /\ Becomes(0, 0, 0, host.sessions, host.saving, host.leases, host.overtaken)
    BY <1>2, HandleDiscardDoes
  <2>2. Leads
    BY <2>1, HostFields DEF Leads, Becomes, Answers1, Draws, Numbered
  <2>. QED BY <1>0, <2>1, <2>2, NumberedQuiet
<1>3. CASE handle_save
  <2>1. /\ UNCHANGED <<lease, preparing, committing, writes>>
        /\ host' = host \/ (Calm(TRUE) /\ Draws(toPage'))
    BY <1>3, HandleSaveDoes
  <2>2. Leads
    BY <2>1, HostFields DEF Leads, Calm, Becomes, Draws, Numbered
  <2>. QED BY <1>0, <2>1, <2>2, NumberedQuiet
<1>4. CASE HandlePrepare
  <2>1. /\ UNCHANGED <<lease, committing, writes>> /\ HostRests(host.leases)
        /\ \A op \in preparing' : op \in preparing \/ op.step = "draining"
    BY <1>4, HandlePrepareDoes
  <2>2. Leads
    BY <2>1, HostFields, LeadsOf DEF HostRests
  <2>. QED BY <1>0, <2>1, <2>2, NumberedQuiet
<1>5. CASE HandleAbandon
  <2>1. UNCHANGED <<host, preparing, committing, writes>> /\ LeaseEnds
    BY <1>5, HandleAbandonDoes DEF LeaseEnds
  <2>2. Leads
    BY <2>1, HostFields DEF Leads, Numbered
  <2>. QED BY <1>0, <2>1, <2>2, NumberedQuiet DEF LeaseEnds
<1>6. CASE HandleApplied
  <2>1. /\ UNCHANGED <<lease, preparing, committing, writes>> /\ host'.epoch = host.epoch
        /\ Calm(host.saving)
    BY <1>6, HandleAppliedDoes
  <2>2. Leads
    BY <2>1, HostFields, LeadsOf DEF Calm
  <2>. QED BY <1>0, <2>1, <2>2, NumberedQuiet
<1>. QED BY <1>1, <1>2, <1>3, <1>4, <1>5, <1>6, NumberedHandleEdits, NumberedHandleCommit,
           NumberedHandleReady DEF HandleMessage

LEMMA NumberedCommits ==
    ASSUME IInv, Numbered,
           StartCommit \/ VerifyCommit \/ CommitOutdated \/ commit_history_replay \/ AnswerCommit
    PROVE  Numbered'
<1>1. CASE VerifyCommit
  <2>1. PICK c : /\ c.awaits = 0 /\ host' = host /\ (Steps(c, "verified") \/ EndsCommit(c))
    BY <1>1, VerifyDoes
  <2>2. Leads
    BY <2>1, HostFields DEF Leads, Numbered
  <2>. QED BY <2>1, <2>2, NumberedSteps, NumberedSettles
<1>2. CASE commit_history_replay
  <2>1. PICK c : /\ c.step = "verified"
                 /\ \/ Writes(c.value) /\ Steps(c, "written")
                    \/ host' = host /\ EndsCommit(c)
    BY <1>2, CommitDoes
  <2>2. Leads
    BY <2>1, HostFields DEF Leads, Writes, Becomes, Numbered
  <2>3. c.awaits = 0
    BY <2>1, MovedFirst DEF Steps, EndsCommit
  <2>. QED BY <2>1, <2>2, <2>3, NumberedSteps, NumberedSettles
<1>3. CASE AnswerCommit
  <2>1. PICK c : /\ EndsCommit(c) /\ host'.epoch = host.epoch /\ host'.session = host.session
                 /\ host'.sessions = host.sessions /\ host'.leases = host.leases
    BY <1>3, AnswerDoes
  <2>2. Leads
    BY <2>1, HostFields DEF Leads, Numbered
  <2>. QED BY <2>1, <2>2, NumberedSettles
<1>4. CASE StartCommit
  <2>1. PICK c : host' = host /\ (Steps(c, "draining") \/ EndsCommit(c))
    BY <1>4, StartDoes
  <2>2. Leads
    BY <2>1, HostFields DEF Leads, Numbered
  <2>. QED BY <2>1, <2>2, NumberedSteps, NumberedSettles
<1>5. CASE CommitOutdated
  <2>1. PICK c : host' = host /\ EndsCommit(c)
    BY <1>5, CommitOutdatedDoes
  <2>2. Leads
    BY <2>1, HostFields DEF Leads, Numbered
  <2>. QED BY <2>1, <2>2, NumberedSettles
<1>. QED BY <1>1, <1>2, <1>3, <1>4, <1>5

LEMMA NumberedRest ==
    ASSUME IInv, Numbered,
           \/ SaveEnds \/ GrantSession \/ CompleteReady \/ PostSnapshot \/ LeaseExpires
           \/ OtherPanelEdits \/ \E moved \in BOOLEAN : Refresh(moved)
           \/ \E post \in host.posting : PostEnds(post)
    PROVE  Numbered'
<1>0. \A op \in preparing : op.step # "draining" => op.awaits = 0
  BY DEF Numbered
<1>1. CASE SaveEnds
  <2>1. /\ UNCHANGED <<lease, preparing, committing, writes>> /\ Calm(FALSE) /\ \E a : Answers1(a)
    BY <1>1, SaveEndsDoes
  <2>2. Leads
    BY <2>1, HostFields DEF Leads, Calm, Becomes, Answers1, Draws, Numbered
  <2>. QED BY <1>0, <2>1, <2>2, NumberedQuiet
<1>2. CASE CompleteReady
  <2>1. /\ UNCHANGED <<lease, preparing, committing, writes>> /\ host'.epoch = host.epoch
        /\ Becomes(host.durable, host.durable, host.session, host.sessions, host.saving,
                   host.leases, host.overtaken)
    BY <1>2, CompleteReadyDoes
  <2>2. Leads
    BY <2>1, HostFields, LeadsOf
  <2>. QED BY <1>0, <2>1, <2>2, NumberedQuiet
<1>3. CASE PostSnapshot
  <2>1. /\ UNCHANGED <<lease, preparing, committing, writes>> /\ host'.epoch = host.epoch
        /\ Calm(host.saving)
    BY <1>3, PostSnapshotDoes
  <2>2. Leads
    BY <2>1, HostFields, LeadsOf DEF Calm
  <2>. QED BY <1>0, <2>1, <2>2, NumberedQuiet
<1>4. CASE LeaseExpires
  <2>1. UNCHANGED <<host, preparing, committing, writes>> /\ LeaseEnds
    BY <1>4, LeaseExpiresDoes DEF LeaseEnds
  <2>2. Leads
    BY <2>1, HostFields DEF Leads, Numbered
  <2>. QED BY <1>0, <2>1, <2>2, NumberedQuiet DEF LeaseEnds
<1>5. CASE OtherPanelEdits
  <2>1. /\ UNCHANGED <<lease, preparing, committing, writes>> /\ host'.epoch = host.epoch
        /\ Becomes(MaxEdits + 1, MaxEdits + 1, host.session, host.sessions, host.saving,
                   host.leases, host.overtaken)
    BY <1>5, OtherPanelEditsDoes DEF Draws
  <2>2. Leads
    BY <2>1, HostFields, LeadsOf
  <2>. QED BY <1>0, <2>1, <2>2, NumberedQuiet
<1>6. CASE \E moved \in BOOLEAN : Refresh(moved)
  <2>1. /\ UNCHANGED <<preparing, committing, writes>> /\ host'.epoch = host.epoch
        /\ Calm(host.saving) /\ LeaseEnds
    BY <1>6, RefreshDoes DEF Draws, LeaseEnds
  <2>2. Leads
    BY <2>1, HostFields, LeadsOf DEF Calm
  <2>. QED BY <1>0, <2>1, <2>2, NumberedQuiet DEF LeaseEnds
<1>7. CASE GrantSession
  <2>1. /\ UNCHANGED <<lease, preparing, committing, writes>>
        /\ \E a : Answers1(a)
        /\ \/ \E id, ids \in Nat :
                 /\ GrantedIds(id, ids)
                 /\ Becomes(host.durable, host.durable, id, ids, host.saving, host.leases,
                            host.overtaken)
           \/ HostRests(host.leases)
    BY <1>7, GrantSessionDoes
  <2>2. Leads
    BY <2>1, HostFields DEF Leads, Becomes, Answers1, Draws, HostRests, Numbered, GrantedIds
  <2>. QED BY <1>0, <2>1, <2>2, NumberedQuiet
<1>8. CASE \E post \in host.posting : PostEnds(post)
  <2>1. UNCHANGED <<preparing, committing, writes>> /\ HostRests(host.leases) /\ LeaseEnds
    BY <1>8, PostEndsDoes
  <2>2. Leads
    BY <2>1, HostFields, LeadsOf DEF HostRests
  <2>. QED BY <1>0, <2>1, <2>2, NumberedQuiet DEF LeaseEnds
<1>. QED BY <1>1, <1>2, <1>3, <1>4, <1>5, <1>6, <1>7, <1>8

LEMMA NextNumbered ==
    ASSUME IInv, Numbered, [Next]_vars PROVE Numbered'
<1>1. CASE PageActs \/ PageRuns \/ Load
  BY <1>1, PageStepsRest, NumberedPage
<1>2. CASE UNCHANGED vars
  BY <1>2, NumberedPage DEF vars, HostStays
<1>. QED BY <1>1, <1>2, NumberedMessage, NumberedPreparation, NumberedCommits, NumberedRest,
         NumberedWriteLands DEF Next, HostRuns

-----------------------------------------------------------------------------
(* What follows for leases and saves *)

LEMMA InitNumbered == Init => IInv /\ Numbered
<1>. SUFFICES ASSUME Init PROVE Numbered
  BY InitIInv
<1>1. /\ host.session = 0 /\ host.sessions = 0 /\ lease.state = "none" /\ preparing = {}
      /\ committing = <<>> /\ writes = <<>>
  BY DEF Init, NoLease
<1>2. Range(<<>>) = {}
  BY EmptySeq DEF Range
<1>3. \A A, B : NoneAfter(<<>>, A, B)
  BY EmptySeq DEF NoneAfter
<1>. QED BY <1>1, <1>2, <1>3 DEF Numbered, live

\* A commit for the page that is there keeps its lease until it is answered, whatever
\* expires, moves, is given back or is prepared meanwhile.
THEOREM LeasesAreKept == Spec => []CommitKeepsLease
<1>1. IInv /\ Numbered /\ [Next]_vars => (IInv /\ Numbered)'
  BY NextIInv, NextNumbered
<1>2. IInv /\ Numbered => CommitKeepsLease
  BY DEF Numbered, CommitFits, CommitKeepsLease
<1>. QED BY <1>1, <1>2, InitNumbered, PTL DEF Spec

\* While a save runs the commits that run are of earlier loads of the page, and the lease
\* is not issued, so that none is taken.
SaveAlone ==
    /\ lease.state = "none"
    /\ \A c \in Range(committing) : c.op.epoch # host.epoch

LEMMA AloneInSave ==
    ASSUME IInv, Numbered, host.saving, ~count.overlap PROVE SaveAlone
<1>1. lease.state = "none"
  BY DEF IInv, Exclusive, live
<1>. QED BY <1>1 DEF SaveAlone, Numbered, CommitFits

\* None of them is written: the check before the compare-and-set ends it.
LEMMA AloneEnds ==
    ASSUME IInv, Numbered, SaveAlone,
           StartCommit \/ VerifyCommit \/ CommitOutdated \/ commit_history_replay \/ AnswerCommit
    PROVE  lease'.state # "committing" /\ ~Written'
<1>1. \E c : EndsCommit(c)
  BY StartDoes, VerifyDoes, CommitOutdatedDoes, CommitDoes, AnswerDoes DEF Steps, SaveAlone
<1>2. PICK c : EndsCommit(c)
  BY <1>1
<1>3. lease' = lease
  BY <1>2 DEF EndsCommit, settle, SaveAlone
<1>4. NoneIn(committing', Moved)
  BY <1>2 DEF EndsCommit, Popped, Numbered
<1>5. committing' \in Seq(Commit)
  BY <1>2, HostState, AfterTail DEF EndsCommit
<1>6. ASSUME committing' # <<>> PROVE Head(committing').step # "written"
  <2>1. Head(committing') \in Range(committing') /\ Head(committing') \in Commit
    BY <1>5, <1>6, AfterTail
  <2>. QED BY <1>4, <2>1 DEF NoneIn, Moved
<1>. QED BY <1>3, <1>6 DEF Written, SaveAlone

\* An edit that lands ahead of the commits leaves their steps alone.
LEMMA LandedWritten ==
    ASSUME IInv, WriteLands, Written' PROVE Written
<1>1. /\ committing \in Seq(Commit)
      /\ committing' = [i \in DOMAIN committing |-> ahead(committing[i])]
  BY HostState, WriteLandsDoes
<1>2. CASE committing = <<>>
  <2>1. committing' = <<>>
    BY <1>1, <1>2
  <2>. QED BY <2>1 DEF Written
<1>3. CASE committing # <<>>
  <2>1. 1 \in DOMAIN committing /\ committing[1] \in Commit
    BY <1>1, <1>3, LenProperties
  <2>2. committing'[1] = ahead(committing[1])
    BY <1>1, <2>1
  <2>3. committing'[1].step = committing[1].step
    BY <2>1, <2>2, AheadFields
  <2>. QED BY <1>3, <2>3 DEF Written
<1>. QED BY <1>2, <1>3

\* While a save runs no replay takes its lease and none is written, unless the preparation
\* of an earlier page has run next to one of the present page.
THEOREM SavesAndReplaysExclude == Spec => SavesExcludeReplays
<1>1. ASSUME IInv, Numbered, [Next]_vars, host.saving, ~count.overlap
      PROVE  lease'.state # "committing" /\ (Written' => Written)
  <2>1. SaveAlone
    BY <1>1, AloneInSave
  <2>2. ASSUME UNCHANGED committing,
               \/ lease' = lease \/ lease' = NoLease
               \/ \E op \in preparing : Issues(op)
        PROVE  lease'.state # "committing" /\ (Written' => Written)
    BY <2>1, <2>2 DEF SaveAlone, Written, Issues, NoLease
  <2>3. CASE PageActs \/ PageRuns \/ Load \/ UNCHANGED vars
    BY <2>2, <2>3, PageStepsRest DEF HostStays, vars
  <2>4. CASE HandleCommit
    BY <1>1, <2>1, <2>2, <2>4, HandleCommitDoes DEF SaveAlone
  <2>5. CASE HandleMessage /\ ~HandleCommit
    BY <1>1, <2>2, <2>5, HandleEditsDoes, HandleSessionDoes, HandleDiscardDoes, HandleSaveDoes,
       HandlePrepareDoes, HandleAbandonDoes, HandleAppliedDoes, HandleReadyDoes
       DEF HandleMessage
  <2>6. CASE WriteLands
    BY <1>1, <2>1, <2>6, LandedWritten, WriteLandsDoes DEF SaveAlone
  <2>7. CASE StartCommit \/ VerifyCommit \/ CommitOutdated \/ commit_history_replay \/ AnswerCommit
    BY <1>1, <2>1, <2>7, AloneEnds
  <2>8. ASSUME NEW op \in preparing, Preparation(op)
        PROVE  UNCHANGED committing /\ (lease' = lease \/ Issues(op))
    BY <1>1, <2>8, BindDoes, CompareDoes, OutdatedDoes, IssueDoes
       DEF Preparation, Refuses, Moves, Issues
  <2>9. CASE \/ SaveEnds \/ GrantSession \/ CompleteReady \/ PostSnapshot
             \/ \E post \in host.posting : PostEnds(post)
             \/ LeaseExpires \/ OtherPanelEdits \/ \E moved \in BOOLEAN : Refresh(moved)
    BY <1>1, <2>2, <2>9, SaveEndsDoes, GrantSessionDoes, CompleteReadyDoes, PostSnapshotDoes,
       PostEndsDoes, LeaseExpiresDoes, OtherPanelEditsDoes, RefreshDoes DEF LeaseEnds
  <2>. QED BY <1>1, <2>2, <2>3, <2>4, <2>5, <2>6, <2>7, <2>8, <2>9 DEF Next, HostRuns
<1>2. IInv /\ Numbered /\ [Next]_vars =>
         [host.saving /\ ~count.overlap =>
             lease'.state # "committing" /\ (Written' => Written)]_vars
  BY <1>1
<1>3. IInv /\ Numbered /\ [Next]_vars => (IInv /\ Numbered)'
  BY NextIInv, NextNumbered
<1>. QED BY <1>2, <1>3, InitNumbered, PTL DEF Spec, SavesExcludeReplays

-----------------------------------------------------------------------------
(* What the host has heard of the durable edits *)

LEMMA HeardSame ==
    ASSUME Heard, host'.known = host.known, host'.durable = host.durable,
           host'.readying = host.readying, host'.epoch = host.epoch,
           Range(committing) \subseteq Range(committing')
    PROVE  Heard'
<1>. QED BY DEF Heard, WrittenNow, CurCommits

\* The commit at the head is not yet written: none is.
LEMMA HeardUnwritten ==
    ASSUME IInv, Numbered, Heard, host' = host,
           committing # <<>>, committing[1].step # "written"
    PROVE  Heard'
<1>1. ~WrittenNow
  BY MovedFirst DEF WrittenNow, CurCommits
<1>. QED BY <1>1 DEF Heard

LEMMA HeardCommits ==
    ASSUME IInv, Numbered, Heard,
           StartCommit \/ VerifyCommit \/ CommitOutdated \/ commit_history_replay \/ AnswerCommit
    PROVE  Heard'
<1>1. CASE VerifyCommit
  <2>1. PICK c : c.step = "draining" /\ host' = host /\ (Steps(c, "verified") \/ EndsCommit(c))
    BY <1>1, VerifyDoes
  <2>. QED BY <2>1, HeardUnwritten DEF Steps, EndsCommit
<1>2. ASSUME NEW c, c.step = "verified", Writes(c.value), Steps(c, "written") PROVE Heard'
  <2>1. c.epoch = host.epoch
    BY <1>2 DEF Steps, Numbered, CommitFits
  <2>2. PICK d \in Range(committing') : d.epoch = c.epoch /\ d.step = "written"
    BY <1>2 DEF Steps
  <2>3. host'.epoch = host.epoch
    BY <1>2 DEF Writes
  <2>. QED BY <2>1, <2>2, <2>3 DEF Heard, WrittenNow, CurCommits
<1>3. ASSUME NEW c, c.step = "verified", host' = host, EndsCommit(c) PROVE Heard'
  BY <1>3, HeardUnwritten DEF EndsCommit
<1>4. CASE AnswerCommit
  BY <1>4, AnswerDoes DEF Heard
<1>5. CASE StartCommit
  <2>1. PICK c : c.step = "starting" /\ host' = host /\ (Steps(c, "draining") \/ EndsCommit(c))
    BY <1>5, StartDoes
  <2>. QED BY <2>1, HeardUnwritten DEF Steps, EndsCommit
<1>6. CASE CommitOutdated
  BY <1>6, CommitOutdatedDoes, HeardUnwritten DEF EndsCommit
<1>. QED BY <1>1, <1>2, <1>3, <1>4, <1>5, <1>6, CommitDoes

LEMMA NextHeard ==
    ASSUME IInv, Numbered, Heard, [Next]_vars PROVE Heard'
<1>1. CASE (PageActs \/ PageRuns \/ Load) \/ UNCHANGED vars
  BY <1>1, PageStepsRest, HeardSame DEF HostStays, vars
<1>2. CASE HandleEdits
  BY <1>2, HandleEditsDoes, HeardSame
<1>3. CASE WriteLands
  <2>1. ~WrittenNow
    BY <1>3, MovedFirst, WriteLandsDoes DEF WrittenNow, CurCommits
  <2>2. host' = host \/ host'.known = host'.durable
    BY <1>3, WriteLandsDoes DEF Becomes
  <2>. QED BY <2>1, <2>2 DEF Heard
<1>4. CASE HandleSession
  BY <1>4, HandleSessionDoes, HeardSame DEF HostRests, Becomes
<1>5. CASE HandleDiscard
  BY <1>5, HandleDiscardDoes DEF Becomes, Heard
<1>6. CASE handle_save
  <2>1. UNCHANGED committing /\ (host' = host \/ (Calm(TRUE) /\ Draws(toPage')))
    BY <1>6, HandleSaveDoes
  <2>. QED BY <2>1, HeardSame DEF Calm, Becomes, Draws
<1>7. CASE SaveEnds
  <2>1. UNCHANGED committing /\ Calm(FALSE) /\ \E a : Answers1(a)
    BY <1>7, SaveEndsDoes
  <2>. QED BY <2>1, HeardSame DEF Calm, Becomes, Answers1, Draws
<1>8. CASE HandlePrepare
  BY <1>8, HandlePrepareDoes, HeardSame DEF HostRests, Becomes
<1>9. ASSUME NEW op \in preparing, Preparation(op) PROVE Heard'
  <2>1. \/ Refuses(op) \/ Issues(op) \/ Moves(op, "comparing") \/ Moves(op, "verifying")
    BY <1>9, BindDoes, CompareDoes, OutdatedDoes, IssueDoes DEF Preparation
  <2>2. UNCHANGED committing /\ (host' = host \/ \E n : HostRests(n))
    BY <2>1 DEF Refuses, Issues, Moves
  <2>. QED BY <2>2, HeardSame DEF HostRests, Becomes
<1>10. CASE HandleAbandon
  BY <1>10, HandleAbandonDoes, HeardSame
<1>11. CASE HandleCommit
  <2>1. host' = host /\ (UNCHANGED committing \/ \E c \in Commit : committing' = Append(committing, c))
    BY <1>11, HandleCommitDoes
  <2>2. ASSUME NEW c \in Commit, committing' = Append(committing, c)
        PROVE  Range(committing) \subseteq Range(committing')
    <3>1. Range(Append(committing, c)) = Range(committing) \cup {c}
      BY HostState, AfterAppend
    <3>. QED BY <2>2, <3>1
  <2>. QED BY <2>1, <2>2, HeardSame
<1>12. CASE HandleApplied
  BY <1>12, HandleAppliedDoes, HeardSame DEF Calm, Becomes
<1>13. CASE HandleReady
  BY <1>13, HandleReadyDoes DEF Heard
<1>14. CASE CompleteReady
  BY <1>14, CompleteReadyDoes DEF Heard, Becomes
<1>15. CASE PostSnapshot
  BY <1>15, PostSnapshotDoes, HeardSame DEF Calm, Becomes
<1>16. CASE LeaseExpires
  BY <1>16, LeaseExpiresDoes, HeardSame
<1>17. CASE OtherPanelEdits
  BY <1>17, OtherPanelEditsDoes DEF Heard, Becomes
<1>18. ASSUME NEW moved \in BOOLEAN, Refresh(moved) PROVE Heard'
  BY <1>18, RefreshDoes, HeardSame DEF Calm, Becomes, Draws
<1>19. CASE GrantSession
  <2>1. UNCHANGED committing /\ (HostRests(host.leases) \/ host'.known = host'.durable)
    BY <1>19, GrantSessionDoes DEF Becomes
  <2>. QED BY <2>1, HeardSame DEF Heard, HostRests, Becomes
<1>20. ASSUME NEW post \in host.posting, PostEnds(post) PROVE Heard'
  BY <1>20, PostEndsDoes, HeardSame DEF HostRests, Becomes
<1>. QED BY <1>1, <1>2, <1>3, <1>4, <1>5, <1>6, <1>7, <1>8, <1>9, <1>10, <1>11, <1>12, <1>13,
            <1>14, <1>15, <1>16, <1>17, <1>18, <1>19, <1>20, HeardCommits DEF Next, HostRuns, HandleMessage

-----------------------------------------------------------------------------
(* Loads of the page *)

LEMMA ReadyIn ==
    ASSUME IInv
    PROVE  /\ Announcements = {} <=> \A m \in Range(toHost) : m.type # "ready"
           /\ Firsts = {} <=> NoneIn(toPage, FirstOnes)
<1>1. \A m \in Range(toPage) : m \in ToPage
  BY HostState DEF Range
<1>. QED BY <1>1 DEF Announcements, Firsts, First, FirstOnes, NoneIn, Range

LEMMA ReadyInNext ==
    ASSUME IInv'
    PROVE  /\ Announcements' = {} <=> \A m \in Range(toHost') : m.type # "ready"
           /\ Firsts' = {} <=> NoneIn(toPage', FirstOnes)
<1>1. toPage' \in Seq(ToPage)
  BY DEF IInv, Types, WireTypes
<1>2. \A m \in Range(toPage') : m \in ToPage
  BY <1>1 DEF Range
<1>. QED BY <1>2 DEF Announcements, Firsts, First, FirstOnes, NoneIn, Range

LEMMA ArrivingUp ==
    ASSUME IInv', page'.up PROVE Arriving'
<1>1. NoneIn(toPage', FirstOnes)
  BY ReadyInNext DEF IInv, Loading
<1>2. NoneAfter(toPage', FirstOnes, Heralded)
  BY <1>1, OrderNone
<1>. QED BY <1>1, <1>2 DEF Arriving, NoneIn

LEMMA ArrivingAnnounced ==
    ASSUME IInv', page' = NewPage, Announcements' # {} PROVE Arriving'
<1>1. NoneIn(toPage', FirstOnes)
  BY ReadyInNext DEF IInv, Loading
<1>2. NoneAfter(toPage', FirstOnes, Heralded)
  BY <1>1, OrderNone
<1>. QED BY <1>1, <1>2 DEF Arriving, NoneIn

\* The host's steps that take no message.
HostOwn ==
    \/ WriteLands \/ SaveEnds \/ GrantSession
    \/ StartCommit \/ VerifyCommit \/ CommitOutdated \/ commit_history_replay \/ AnswerCommit
    \/ CompleteReady \/ PostSnapshot \/ LeaseExpires \/ OtherPanelEdits
    \/ \E op \in preparing : Preparation(op)
    \/ \E post \in host.posting : PostEnds(post)
    \/ \E moved \in BOOLEAN : Refresh(moved)

LEMMA HostOwnStays ==
    ASSUME HostOwn PROVE UNCHANGED <<page, slot, toHost>>
<1>. QED
  BY DEF HostOwn, pageVars, WriteLands, SaveEnds, GrantSession, StartCommit, VerifyCommit,
         CheckCommit, CommitOutdated, commit_history_replay, AnswerCommit, EndCommit, RefuseCommit,
         CommitEnded, CompleteReady, PostSnapshot, LeaseExpires, OtherPanelEdits, Preparation,
         BindPreparation, ComparePreparation, PreparationOutdated, IssueLease, RefusePreparation,
         PostEnds, Refresh

\* These steps leave the claim of a session alone.
LEMMA ClaimRests ==
    ASSUME IInv,
           \/ HandleEdits \/ HandleDiscard \/ handle_save \/ HandlePrepare \/ HandleAbandon
           \/ HandleCommit \/ HandleApplied \/ (HostOwn /\ ~GrantSession)
    PROVE  host'.claiming = host.claiming
<1>1. host \in Host /\ writes \in Seq(Write)
  BY HostState
<1>2. ASSUME NEW h \in Host, h.claiming = host.claiming,
             \/ Redraw(h) \/ \E answers : Deliver(h, answers)
      PROVE  host'.claiming = host.claiming
  BY <1>2, ShownClaims, DeliverClaims DEF Redraw
<1>3. CASE LeaseExpires \/ HandleEdits \/ HandleAbandon \/ HandleCommit
  BY <1>3 DEF LeaseExpires, HandleEdits, HandleAbandon, HandleCommit
<1>4. CASE HandleDiscard
  <2>1. Deliver([stored(0) EXCEPT !.session = 0], <<[type |-> "discarded"]>>)
    BY <1>4 DEF HandleDiscard
  <2>2. stored(0) \in Host /\ stored(0).claiming = host.claiming
    BY <1>1, StoredFields
  <2>3. ASSUME NEW g \in Host
        PROVE  [g EXCEPT !.session = 0] \in Host /\ [g EXCEPT !.session = 0].claiming = g.claiming
    BY DEF Host
  <2>. QED BY <1>2, <2>1, <2>2, <2>3
<1>5. CASE handle_save \/ SaveEnds
  <2>1. ASSUME NEW saving \in BOOLEAN
        PROVE  /\ [host EXCEPT !.saving = saving] \in Host
               /\ [host EXCEPT !.saving = saving].claiming = host.claiming
    BY <1>1 DEF Host
  <2>2. \/ host' = host
        \/ \E saving \in BOOLEAN : \E answers : Deliver([host EXCEPT !.saving = saving], answers)
    BY <1>5 DEF handle_save, SaveEnds
  <2>. QED BY <1>2, <2>1, <2>2
<1>6. CASE WriteLands
  <2>1. host' = host \/ \E answers : Deliver(stored(Head(writes).value), answers)
    BY <1>6 DEF WriteLands
  <2>2. /\ stored(Head(writes).value) \in Host
        /\ stored(Head(writes).value).claiming = host.claiming
    <3>1. writes # <<>>
      BY <1>6 DEF WriteLands
    <3>2. Head(writes) \in Write
      BY <1>1, <3>1, AfterTail
    <3>3. Head(writes).value \in Nat
      BY <3>2 DEF Write
    <3>. QED BY <1>1, <3>3, StoredFields
  <2>. QED BY <1>2, <2>1, <2>2
<1>7. CASE OtherPanelEdits
  <2>1. stored(MaxEdits + 1) \in Host /\ stored(MaxEdits + 1).claiming = host.claiming
    BY <1>1, HistoryReplayAssumption, StoredFields
  <2>. QED BY <1>2, <1>7, <2>1 DEF OtherPanelEdits
<1>8. CASE \E moved \in BOOLEAN : Refresh(moved)
  <2>1. ASSUME NEW n \in Nat
        PROVE  /\ [host EXCEPT !.basis = n] \in Host
               /\ [host EXCEPT !.basis = n].claiming = host.claiming
    BY <1>1 DEF Host
  <2>2. \E n \in Nat : Redraw([host EXCEPT !.basis = n])
    <3>1. PICK moved \in BOOLEAN : Redraw([host EXCEPT !.basis = IF moved THEN @ + 1 ELSE @])
      BY <1>8 DEF Refresh
    <3>2. (IF moved THEN host.basis + 1 ELSE host.basis) \in Nat
      BY <1>1 DEF Host
    <3>. QED BY <3>1, <3>2
  <2>. QED BY <1>2, <2>1, <2>2
<1>9. CASE HandlePrepare \/ (\E op \in preparing : Preparation(op))
  BY <1>1, <1>9 DEF HandlePrepare, Preparation, BindPreparation, ComparePreparation,
                    PreparationOutdated, IssueLease, RefusePreparation, EndPreparation, Host
<1>10. CASE StartCommit \/ VerifyCommit \/ CommitOutdated \/ commit_history_replay \/ AnswerCommit
  BY <1>1, <1>10 DEF StartCommit, VerifyCommit, CheckCommit, CommitOutdated, commit_history_replay,
                     AnswerCommit, Host
<1>11. CASE CompleteReady \/ PostSnapshot \/ HandleApplied \/ \E post \in host.posting : PostEnds(post)
  BY <1>1, <1>11 DEF CompleteReady, PostSnapshot, HandleApplied, PostEnds, Host
<1>. QED BY <1>3, <1>4, <1>5, <1>6, <1>7, <1>8, <1>9, <1>10, <1>11 DEF HostOwn

LEMMA MessageTakes ==
    ASSUME IInv, HandleMessage, ~HandleReady
    PROVE  /\ PageStays /\ \E m : Takes(m) /\ m.type # "ready"
<1>. QED BY HandleEditsDoes, HandleSessionDoes, HandleDiscardDoes, HandleSaveDoes, HandlePrepareDoes,
            HandleAbandonDoes, HandleCommitDoes, HandleAppliedDoes DEF HandleMessage

\* While the page is down only a snapshot and announcements are new to it.
LEMMA DownSteps ==
    ASSUME IInv, ~page.up, PageActs \/ PageRuns \/ Load
    PROVE  OnSnapshot \/ Ignore
<1>1. slot = Idle
  BY DEF IInv, Loading
<1>. QED BY <1>1 DEF PageActs, PageRuns, Load, Edit, Discard, RequestSave, RequestSession, Begin,
                     Prepare, OnMessage, Idle

Waiting ==
    /\ ~page.up /\ toHost = <<>> /\ CurOps = {} /\ CurCommits = {} /\ ~host.claiming
    /\ \A w \in Range(writes) : w.epoch # host.epoch

\* What comes to such a page: nothing that a first snapshot would have to precede.
Silent == \E q, s, a : /\ Grows(toPage, q, s) /\ s \notin Heralded
                       /\ Grows(q, toPage', a) /\ a \notin Heralded

LEMMA SilentNothing == ASSUME UNCHANGED toPage PROVE Silent
<1>1. 0 \notin Heralded \/ TRUE
  OBVIOUS
<1>2. \E x : x \notin Heralded
  <2>1. ASSUME \A x : x \in Heralded PROVE FALSE
    <3>1. [type |-> "saved"] \in ToPage
      BY <2>1 DEF Heralded
    <3>2. [type |-> "saved"].type = "saved"
      OBVIOUS
    <3>3. [type |-> "saved"] \in Heralded
      BY <2>1
    <3>. QED BY <3>2, <3>3 DEF Heralded, FirstOnes
  <2>. QED BY <2>1
<1>. QED BY <1>2 DEF Silent, Grows

LEMMA SilentOne == ASSUME NEW a, Grows(toPage, toPage', a), a \notin Heralded PROVE Silent
<1>. QED BY DEF Silent, Grows

LEMMA DrawsGrows ==
    ASSUME NEW q, Draws(q)
    PROVE  Grows(toPage, q, Snapshot(host')) /\ Snapshot(host') \notin Heralded
<1>. QED BY DEF Draws, Grows, Heralded, FirstOnes

LEMMA SilentDraws ==
    ASSUME Draws(toPage') \/ \E a : Answers1(a) /\ a \notin Heralded PROVE Silent
<1>1. CASE Draws(toPage')
  BY <1>1, DrawsGrows, SilentOne
<1>2. ASSUME NEW a, a \notin Heralded, NEW q, Draws(q), Grows(q, toPage', a) PROVE Silent
  BY <1>2, DrawsGrows DEF Silent
<1>. QED BY <1>1, <1>2 DEF Answers1

\* Nobody is at work for the page; the messages say so.
NoneAtWork ==
    /\ host'.epoch = host.epoch /\ host'.session = host.session
    /\ CurOps' = {} /\ CurCommits' = {} /\ \A w \in Range(writes') : w.epoch # host.epoch

LEMMA WaitingPreparation ==
    ASSUME IInv, Waiting, NEW op \in preparing, Preparation(op)
    PROVE  NoneAtWork /\ Silent
<1>1. op.epoch # host.epoch
  BY DEF Waiting, CurOps
<1>2. Refuses(op)
  BY <1>1, BindDoes, CompareDoes, OutdatedDoes, IssueDoes DEF Preparation, Moves, Issues
<1>3. Silent
  BY <1>1, <1>2, SilentNothing DEF Refuses
<1>4. NoneAtWork
  BY <1>2 DEF Refuses, HostRests, Becomes, NoneAtWork, Waiting, CurOps, CurCommits
<1>. QED BY <1>3, <1>4

LEMMA WaitingCommits ==
    ASSUME IInv, Numbered, Waiting,
           StartCommit \/ VerifyCommit \/ CommitOutdated \/ commit_history_replay \/ AnswerCommit
    PROVE  NoneAtWork /\ Silent
<1>1. ASSUME NEW c, NEW step PROVE ~Steps(c, step)
  BY DEF Steps, Numbered, CommitFits, Waiting, CurCommits
<1>2. ASSUME NEW c, EndsCommit(c), host'.epoch = host.epoch, host'.session = host.session
      PROVE  NoneAtWork /\ Silent
  <2>1. c.epoch # host.epoch
    BY <1>2 DEF EndsCommit, Waiting, CurCommits
  <2>2. Silent
    BY <1>2, <2>1, SilentNothing DEF EndsCommit
  <2>3. Range(committing') \subseteq Range(committing)
    BY <1>2 DEF EndsCommit, Popped
  <2>4. UNCHANGED <<preparing, writes>>
    BY <1>2 DEF EndsCommit
  <2>. QED BY <1>2, <2>2, <2>3, <2>4 DEF NoneAtWork, Waiting, CurOps, CurCommits
<1>. QED BY <1>1, <1>2, StartDoes, VerifyDoes, CommitOutdatedDoes, CommitDoes, AnswerDoes

LEMMA WaitingLands ==
    ASSUME IInv, Waiting, WriteLands
    PROVE  NoneAtWork /\ Silent
<1>1. PICK w \in Write :
         /\ w \in Range(writes) /\ Popped(writes, writes', w)
         /\ \/ ~Owns(w.session) /\ host' = host /\ toPage' = toPage
            \/ /\ Becomes(w.value, w.value, host.session, host.sessions, host.saving,
                          host.leases, host.overtaken)
               /\ w.epoch # host.epoch => Draws(toPage')
  BY WriteLandsDoes
<1>2. w.epoch # host.epoch
  BY <1>1 DEF Waiting
<1>3. Silent
  BY <1>1, <1>2, SilentDraws, SilentNothing
<1>4. host'.epoch = host.epoch /\ host'.session = host.session
  BY <1>1, <1>2 DEF Becomes, Draws
<1>5. Range(writes') \subseteq Range(writes)
  BY <1>1 DEF Popped
<1>6. CurOps' = {}
  <2>1. ASSUME NEW op \in preparing PROVE ahead(op).epoch # host.epoch
    BY HostFields, AheadFields DEF Waiting, CurOps
  <2>. QED BY <1>4, <2>1, WriteLandsDoes DEF CurOps
<1>7. CurCommits' = {}
  <2>1. committing' = [i \in DOMAIN committing |-> ahead(committing[i])]
    BY WriteLandsDoes
  <2>2. ASSUME NEW i \in DOMAIN committing PROVE ahead(committing[i]).epoch # host.epoch
    <3>1. committing[i] \in Range(committing) /\ committing[i] \in Commit
      BY CommitTypes
    <3>. QED BY <3>1, AheadFields DEF Waiting, CurCommits
  <2>. QED BY <1>4, <2>1, <2>2 DEF CurCommits, Range
<1>. QED BY <1>3, <1>4, <1>5, <1>6, <1>7 DEF NoneAtWork, Waiting

LEMMA SavedsQuiet == \A a \in ToPage : a.type = "saved" => a \notin Heralded
<1>. QED BY DEF Heralded, FirstOnes

LEMMA WaitingOwn ==
    ASSUME IInv, Numbered, Waiting, HostOwn, ~CompleteReady
    PROVE  NoneAtWork /\ Silent
<1>1. CASE SaveEnds
  <2>1. /\ UNCHANGED <<preparing, committing, writes>> /\ Calm(FALSE)
        /\ \E a : Answers1(a) /\ a \notin Heralded
    BY <1>1, SaveEndsDoes, SavedsQuiet
  <2>2. host'.epoch = host.epoch /\ host'.session = host.session
    BY <2>1 DEF Calm, Becomes, Answers1, Draws
  <2>. QED BY <2>1, <2>2, SilentDraws DEF NoneAtWork, Waiting, CurOps, CurCommits
<1>2. CASE PostSnapshot
  <2>1. PICK a \in ToPage : a.type = "snapshot" /\ ~a.initial /\ Pushed(toPage, toPage', a)
    BY <1>2, PostSnapshotDoes
  <2>2. a \notin Heralded
    BY <2>1 DEF Heralded, FirstOnes
  <2>3. Silent
    BY <2>1, <2>2, SilentOne DEF Grows
  <2>4. /\ UNCHANGED <<preparing, committing, writes>>
        /\ host'.epoch = host.epoch /\ host'.session = host.session
    BY <1>2, PostSnapshotDoes DEF Calm, Becomes
  <2>. QED BY <2>3, <2>4 DEF NoneAtWork, Waiting, CurOps, CurCommits
<1>3. CASE LeaseExpires
  BY <1>3, LeaseExpiresDoes, SilentNothing DEF NoneAtWork, Waiting, CurOps, CurCommits
<1>4. CASE OtherPanelEdits
  <2>1. /\ UNCHANGED <<preparing, committing, writes>> /\ Draws(toPage')
        /\ host'.session = host.session
    BY <1>4, OtherPanelEditsDoes DEF Becomes
  <2>. QED BY <2>1, SilentDraws DEF Draws, NoneAtWork, Waiting, CurOps, CurCommits
<1>5. ASSUME NEW moved \in BOOLEAN, Refresh(moved) PROVE NoneAtWork /\ Silent
  <2>1. /\ UNCHANGED <<preparing, committing, writes>> /\ Draws(toPage')
        /\ host'.session = host.session
    BY <1>5, RefreshDoes DEF Calm, Becomes
  <2>. QED BY <2>1, SilentDraws DEF Draws, NoneAtWork, Waiting, CurOps, CurCommits
<1>6. ASSUME NEW post \in host.posting, PostEnds(post) PROVE NoneAtWork /\ Silent
  BY <1>6, PostEndsDoes, SilentNothing
     DEF HostRests, Becomes, NoneAtWork, Waiting, CurOps, CurCommits
<1>7. ~GrantSession
  BY DEF Waiting, GrantSession
<1>. QED BY <1>1, <1>2, <1>3, <1>4, <1>5, <1>6, <1>7, WaitingLands, WaitingPreparation,
         WaitingCommits DEF HostOwn

LEMMA UnclaimedOwn == ASSUME IInv, ~host.claiming, HostOwn PROVE ~host'.claiming
<1>1. ~GrantSession
  BY DEF GrantSession
<1>. QED BY <1>1, ClaimRests

LEMMA SilentOrder ==
    ASSUME Silent, NoneAfter(toPage, FirstOnes, Heralded)
    PROVE  /\ NoneAfter(toPage', FirstOnes, Heralded)
           /\ \A m \in Range(toPage') : m \in FirstOnes => m \in Range(toPage)
<1>1. PICK q, s, a : /\ Grows(toPage, q, s) /\ s \notin Heralded
                     /\ Grows(q, toPage', a) /\ a \notin Heralded
  BY DEF Silent
<1>2. FirstOnes \subseteq Heralded
  BY DEF Heralded, FirstOnes
<1>3. NoneAfter(q, FirstOnes, Heralded) /\ \A m \in Range(q) : m \in FirstOnes => m \in Range(toPage)
  BY <1>1, <1>2 DEF Grows, Pushed
<1>. QED BY <1>1, <1>2, <1>3 DEF Grows, Pushed

\* Only a load takes the page down.
LEMMA PageRunsUp ==
    ASSUME IInv, Arriving, Tokens, Bound, Sessions, page.up, PageActs \/ PageRuns
    PROVE  page'.up
<1>1. CASE Edit \/ Discard \/ RequestSession \/ RequestSave
  BY <1>1, EditDoes, DiscardDoes, RequestSessionDoes, RequestSaveDoes
     DEF EditDoes1, Quietly, PageLike, ShownAs
<1>2. CASE Prepare \/ \E direction \in Directions : Begin(direction)
  BY <1>2, PrepareDoes, BeginDoes DEF Quietly, PageLike
<1>3. CASE OnSnapshot
  <2>1. PICK m : ShowsAgain(m) \/ Republishes(m) \/ Leaves(m)
    BY <1>3, OnSnapshotDoes DEF ShowsFirst
  <2>. QED BY <2>1 DEF ShowsAgain, Republishes, Leaves, PageLike, ShownAs
<1>4. CASE on_prepared \/ on_prepare_refused \/ on_commit_refused
  BY <1>4, OnPreparedDoes, OnRefusedDoes
<1>5. CASE on_committed
  BY <1>5, OnCommittedDoes DEF PageLike, ShownAs
<1>6. CASE OnSession
  BY <1>6, OnSessionDoes DEF Quietly, PageLike, ShownAs
<1>7. CASE OnAcknowledged \/ OnDiscarded
  BY <1>7, OnAcknowledgedDoes, OnDiscardedDoes DEF Quietly, PageLike
<1>8. CASE OnSaved
  BY <1>8, OnSavedDoes DEF PageLike, ShownAs
<1>9. CASE Ignore
  BY <1>9, IgnoreDoes
<1>. QED BY <1>1, <1>2, <1>3, <1>4, <1>5, <1>6, <1>7, <1>8, <1>9 DEF PageActs, PageRuns, OnMessage

LEMMA PageDown ==
    ASSUME IInv, Arriving, Tokens, Bound, Sessions, [Next]_vars, ~page'.up, ~Load
    PROVE  page' = NewPage /\ page = NewPage /\ ~page.up
<1>1. CASE HandleMessage \/ HostOwn
  <2>1. page' = page
    BY <1>1, HostOwnStays, MessageTakes, HandleReadyDoes DEF PageStays
  <2>. QED BY <2>1 DEF Arriving
<1>2. CASE UNCHANGED vars
  BY <1>2 DEF vars, Arriving
<1>3. CASE PageActs \/ PageRuns
  <2>1. CASE page.up
    <3>1. page'.up = page.up
      BY <1>3, <2>1, PageRunsUp
    <3>. QED BY <2>1, <3>1
  <2>2. CASE ~page.up
    <3>1. OnSnapshot \/ Ignore
      BY <1>3, <2>2, DownSteps
    <3>2. CASE OnSnapshot
      <4>1. PICK m : ShowsFirst(m)
        BY <2>2, <3>2, OnSnapshotDoes DEF ShowsAgain, Republishes, Leaves
      <4>. QED BY <4>1 DEF ShowsFirst, ShownAs
    <3>3. CASE Ignore
      BY <2>2, <3>3, IgnoreDoes DEF Arriving
    <3>. QED BY <3>1, <3>2, <3>3
  <2>. QED BY <2>1, <2>2
<1>. QED BY <1>1, <1>2, <1>3 DEF Next, HostRuns, HostOwn
\* A page that is down and has announced itself still does, until the host hears of it.
LEMMA StillAnnounced ==
    ASSUME IInv, IInv', Announcements # {}, ~page.up, ~page'.up,
           \/ toHost' = toHost
           \/ \E m : Takes(m) /\ m.type # "ready"
    PROVE  Announcements' # {}
<1>1. PICK k \in Range(toHost) : k.type = "ready"
  BY ReadyIn
<1>2. k \in Range(toHost')
  BY <1>1 DEF Takes, Popped
<1>. QED BY <1>1, <1>2, ReadyInNext

LEMMA WaitingIs ==
    ASSUME IInv, Arriving, ~page.up, Announcements = {} PROVE Waiting
<1>. QED BY DEF Arriving, Waiting

LEMMA ArrivingReady ==
    ASSUME IInv, IInv', Numbered, Arriving, HandleReady PROVE Arriving'
<1>1. PICK m : Takes(m) /\ m.type = "ready"
  BY HandleReadyDoes
<1>2. Announcements # {}
  BY <1>1, ReadyIn DEF Takes
<1>3. ~page.up /\ page = NewPage /\ page' = page
  BY <1>2, HandleReadyDoes DEF IInv, Loading, Arriving, PageStays
<1>4. /\ host'.readying /\ host'.epoch = host.epoch + 1 /\ ~host'.claiming
      /\ UNCHANGED <<preparing, committing, writes>>
  BY HandleReadyDoes
<1>5. Announcements' = {}
  BY <1>4 DEF IInv, Loading
<1>6. toHost' = <<>>
  <2>1. toHost' = Tail(toHost) /\ toHost # <<>> /\ Head(toHost).type = "ready"
    BY DEF HandleReady, AtHost
  <2>2. toHost \in Seq(ToHost)
    BY HostState
  <2>3. ASSUME NEW S, toHost \in Seq(S)
        PROVE  Len(toHost) \in Nat \ {0} /\ DOMAIN toHost = 1..Len(toHost) /\ Head(toHost) = toHost[1]
               /\ Len(Tail(toHost)) = Len(toHost) - 1 /\ Tail(toHost) \in Seq(S)
    BY <2>1, <2>3, AfterTail, LenProperties
  <2>4. 1 \in Announcements
    BY <2>1, <2>2, <2>3 DEF Announcements
  <2>5. Len(toHost) = 1
    BY <2>4 DEF IInv, Loading
  <2>6. ASSUME NEW S, NEW s \in Seq(S), Len(s) = 0 PROVE s = <<>>
    BY <2>6, EmptySeq
  <2>. QED BY <2>1, <2>2, <2>3, <2>5, <2>6
<1>7. CurOps' = {}
  BY <1>4, HostFields DEF CurOps, IInv, Exclusive
<1>8. CurCommits' = {}
  BY <1>4, HostFields, CommitTypes DEF CurCommits, Numbered, CommitFits
<1>9. \A w \in Range(writes') : w.epoch # host'.epoch
  BY <1>4, HostFields, WriteTypes DEF Numbered
<1>10. NoneIn(toPage', FirstOnes)
  BY <1>4, ReadyInNext DEF IInv, Loading
<1>11. NoneAfter(toPage', FirstOnes, Heralded)
  BY <1>10, OrderNone
<1>. QED BY <1>3, <1>4, <1>6, <1>7, <1>8, <1>9, <1>10, <1>11 DEF Arriving, NoneIn

LEMMA ArrivingFirst ==
    ASSUME IInv, IInv', Arriving, CompleteReady PROVE Arriving'
<1>1. PICK a \in ToPage : /\ a.session = (host.session # 0) /\ Pushed(toPage, toPage', a)
  BY CompleteReadyDoes
<1>2. /\ host.readying /\ PageStays /\ UNCHANGED <<toHost, preparing, committing, writes>>
      /\ host'.epoch = host.epoch /\ host'.session = host.session
  BY CompleteReadyDoes DEF Becomes
<1>3. Waiting /\ NoneIn(toPage, FirstOnes)
  BY <1>2, ReadyIn, WaitingIs DEF IInv, Loading
<1>4. NoneAfter(toPage', FirstOnes, Heralded)
  BY <1>1, <1>3 DEF Pushed, Arriving
<1>5. \A m \in Range(toPage') : m \in FirstOnes => m = a
  BY <1>1, <1>3 DEF Pushed, NoneIn
<1>6. a.session = (host'.session # 0)
  BY <1>1, <1>2
<1>7. page' = NewPage /\ ~host'.claiming
  BY <1>2, <1>3, UnclaimedOwn DEF Waiting, PageStays, Arriving, HostOwn
<1>. QED BY <1>2, <1>3, <1>4, <1>5, <1>6, <1>7 DEF Arriving, Waiting, CurOps, CurCommits

LEMMA ArrivingOwn ==
    ASSUME IInv, IInv', Numbered, Arriving, ~page.up, HostOwn, ~CompleteReady
    PROVE  Arriving'
<1>1. page' = NewPage /\ toHost' = toHost /\ ~page'.up
  BY HostOwnStays DEF Arriving
<1>2. CASE Announcements # {}
  BY <1>1, <1>2, StillAnnounced, ArrivingAnnounced
<1>3. CASE Announcements = {}
  <2>1. Waiting /\ NoneAtWork /\ Silent /\ ~host'.claiming
    BY <1>3, WaitingIs, WaitingOwn, UnclaimedOwn DEF Waiting
  <2>2. /\ NoneAfter(toPage', FirstOnes, Heralded)
        /\ \A m \in Range(toPage') : m \in FirstOnes => m \in Range(toPage)
    BY <2>1, SilentOrder DEF Arriving
  <2>. QED BY <1>1, <2>1, <2>2 DEF Arriving, NoneAtWork, Waiting
<1>. QED BY <1>2, <1>3

LEMMA NextArriving ==
    ASSUME IInv, IInv', Numbered, Arriving, Tokens, Bound, Sessions, [Next]_vars
    PROVE  Arriving'
<1>1. CASE page'.up
  BY <1>1, ArrivingUp
<1>2. CASE Load
  <2>1. PICK m \in ToHost : m.type = "ready" /\ Pushed(toHost, toHost', m)
    BY <1>2, LoadDoes
  <2>2. Announcements' # {}
    BY <2>1, ReadyInNext DEF Pushed
  <2>. QED BY <1>2, <2>2, LoadDoes, ArrivingAnnounced
<1>3. ASSUME ~page'.up, ~Load PROVE Arriving'
  <2>1. page' = NewPage /\ page = NewPage /\ ~page.up
    BY <1>3, PageDown
  <2>2. CASE HostOwn
    BY <2>1, <2>2, ArrivingOwn, ArrivingFirst
  <2>3. CASE HandleMessage
    <3>1. CASE HandleReady
      BY <3>1, ArrivingReady
    <3>2. CASE ~HandleReady
      <4>1. PICK m : Takes(m) /\ m.type # "ready"
        BY <2>3, <3>2, MessageTakes
      <4>2. Announcements # {}
        <5>1. Range(toHost) # {}
          BY <4>1 DEF Takes
        <5>2. toHost # <<>>
          BY <5>1 DEF Range
        <5>. QED BY <2>1, <5>2 DEF Arriving
      <4>3. Announcements' # {}
        BY <1>3, <2>1, <4>1, <4>2, StillAnnounced
      <4>. QED BY <2>1, <4>3, ArrivingAnnounced
    <3>. QED BY <3>1, <3>2
  <2>4. CASE UNCHANGED vars
    BY <2>4 DEF vars, Arriving, Announcements, CurOps, CurCommits
  <2>5. CASE PageActs \/ PageRuns
    <3>1. Ignore \/ OnSnapshot
      BY <2>1, <2>5, DownSteps
    <3>2. CASE OnSnapshot
      <4>1. PICK m : ShowsFirst(m)
        BY <2>1, <3>2, OnSnapshotDoes DEF ShowsAgain, Republishes, Leaves
      <4>. QED BY <1>3, <4>1 DEF ShowsFirst, ShownAs
    <3>3. CASE Ignore
      <4>1. PICK m : PageTakes1(m)
        BY <3>3, IgnoreDoes
      <4>2. NoneAfter(toPage', FirstOnes, Heralded) /\ Range(toPage') \subseteq Range(toPage)
        BY <4>1 DEF PageTakes1, Popped, Arriving
      <4>3. HostStays /\ toHost' = toHost
        BY <3>3, IgnoreDoes
      <4>. QED BY <2>1, <4>2, <4>3 DEF Arriving, Announcements, CurOps, CurCommits, HostStays
    <3>. QED BY <3>1, <3>2, <3>3
  <2>. QED BY <1>3, <2>2, <2>3, <2>4, <2>5 DEF Next, HostRuns, HostOwn
<1>. QED BY <1>1, <1>2, <1>3

-----------------------------------------------------------------------------
(* The order of the snapshots *)

Applieds == {m \in ToHost : m.type = "applied"}

LEMMA OrderedQuiet ==
    ASSUME Ordered, Less(toPage, toPage', Snapshots), Less(toHost, toHost', Applieds),
           host'.delivery = host.delivery, host'.acked = host.acked,
           host'.readying = host.readying
    PROVE  Ordered'
<1>1. \A d : Latest(d) \subseteq Snapshots /\ Applied(d) \subseteq Applieds
  BY DEF Latest, Applied, Snapshots, Applieds
<1>2. \A A : A \subseteq Snapshots /\ NoneIn(toPage, A) => NoneIn(toPage', A)
  BY DEF Less
<1>3. \A A : A \subseteq Applieds /\ NoneIn(toHost, A) => NoneIn(toHost', A)
  BY DEF Less
<1>4. NoneAfter(toPage', Latest(host.delivery), Snapshots)
  BY <1>1 DEF Less, Ordered
<1>. QED BY <1>1, <1>2, <1>3, <1>4 DEF Ordered

\* No snapshot has a number that is not yet given.
LEMMA Unnumbered ==
    ASSUME IInv
    PROVE  /\ \A d : d = host.delivery + 1 \/ (d = host.delivery /\ ~host.posted) =>
                 NoneIn(toPage, Latest(d)) /\ NoneIn(toHost, Applied(d))
<1>1. \A m \in Range(toPage) : m \in ToPage /\ (m.type = "snapshot" => Known(m.delivery))
  BY HostState DEF IInv, Deliveries, Range
<1>2. \A m \in Range(toHost) : m.type = "applied" => Known(m.delivery)
  BY DEF IInv, Deliveries
<1>3. \A x : x = host.delivery + 1 => ~(x <= host.delivery)
  BY HostFields
<1>. QED BY <1>1, <1>2, <1>3 DEF Known, NoneIn, Latest, Applied

LEMMA OrderedDraws ==
    ASSUME IInv, Ordered, NEW q, Draws(q), Less(q, toPage', Snapshots),
           Less(toHost, toHost', Applieds)
    PROVE  Ordered'
<1>. DEFINE s == Snapshot(host')
<1>1. CASE Pushed(toPage, q, s) /\ host'.delivery = host.delivery + 1 /\ ~host'.acked
           /\ ~host'.readying
  <2>1. NoneIn(toPage, Latest(host'.delivery)) /\ NoneIn(toHost, Applied(host'.delivery))
    BY <1>1, Unnumbered
  <2>2. NoneAfter(q, Latest(host'.delivery), Snapshots)
    <3>1. NoneAfter(toPage, Latest(host'.delivery), Snapshots)
      BY <2>1, OrderNone
    <3>. QED BY <1>1, <2>1, <3>1 DEF Pushed
  <2>3. NoneAfter(toPage', Latest(host'.delivery), Snapshots)
    <3>1. Latest(host'.delivery) \subseteq Snapshots
      BY DEF Latest, Snapshots
    <3>. QED BY <2>2, <3>1 DEF Less
  <2>4. NoneIn(toHost', Applied(host'.delivery))
    <3>1. Applied(host'.delivery) \subseteq Applieds
      BY DEF Applied, Applieds
    <3>. QED BY <2>1, <3>1 DEF Less
  <2>. QED BY <1>1, <2>3, <2>4 DEF Ordered
<1>2. CASE q = toPage /\ host'.delivery = host.delivery + 1 /\ ~host'.acked /\ ~host'.readying
  <2>1. NoneIn(toPage, Latest(host'.delivery)) /\ NoneIn(toHost, Applied(host'.delivery))
    BY <1>2, Unnumbered
  <2>2. NoneAfter(toPage, Latest(host'.delivery), Snapshots)
    BY <2>1, OrderNone
  <2>3. NoneAfter(toPage', Latest(host'.delivery), Snapshots)
    <3>1. Latest(host'.delivery) \subseteq Snapshots
      BY DEF Latest, Snapshots
    <3>. QED BY <1>2, <2>2, <3>1 DEF Less
  <2>4. NoneIn(toHost', Applied(host'.delivery))
    <3>1. Applied(host'.delivery) \subseteq Applieds
      BY DEF Applied, Applieds
    <3>. QED BY <2>1, <3>1 DEF Less
  <2>. QED BY <1>2, <2>3, <2>4 DEF Ordered
<1>3. CASE q = toPage /\ host'.delivery = host.delivery /\ host'.acked = host.acked
           /\ host'.readying = host.readying
  BY <1>3, OrderedQuiet
<1>. QED BY <1>1, <1>2, <1>3 DEF Draws

LEMMA OrderedAnswers ==
    ASSUME IInv, Ordered, Less(toHost, toHost', Applieds),
           Draws(toPage') \/ \E a : Answers1(a) /\ a \notin Snapshots
    PROVE  Ordered'
<1>1. CASE Draws(toPage')
  BY <1>1, LessSame, OrderedDraws
<1>2. ASSUME NEW a, a \notin Snapshots, NEW q, Draws(q), Grows(q, toPage', a) PROVE Ordered'
  BY <1>2, LessGrows, OrderedDraws
<1>. QED BY <1>1, <1>2 DEF Answers1

LEMMA TakesLess ==
    ASSUME NEW m, Takes(m), NEW K PROVE Less(toHost, toHost', K)
<1>. QED BY LessPopped DEF Takes

LEMMA PageTakesLess ==
    ASSUME NEW m, PageTakes1(m), NEW K PROVE Less(toPage, toPage', K)
<1>. QED BY LessPopped DEF PageTakes1

\* Not among the snapshots, not among the acknowledgements.
LEMMA OtherTypes ==
    /\ \A a \in ToPage : a.type # "snapshot" => a \notin Snapshots
    /\ \A m \in ToHost : m.type # "applied" => m \notin Applieds
<1>. QED BY DEF Snapshots, Applieds

LEMMA OrderedPreparation ==
    ASSUME IInv, Ordered, NEW op \in preparing, Preparation(op) PROVE Ordered'
<1>1. Less(toHost, toHost', Applieds)
  BY HostOwnStays, LessSame DEF HostOwn
<1>2. CASE Refuses(op)
  <2>1. PICK a \in ToPage : a.type = "prepareRefused" /\ Grows(toPage, toPage', a)
    BY <1>2 DEF Refuses
  <2>2. Less(toPage, toPage', Snapshots)
    BY <2>1, OtherTypes, LessGrows
  <2>. QED BY <1>1, <1>2, <2>2, OrderedQuiet DEF Refuses, HostRests
<1>3. CASE Issues(op)
  <2>1. PICK a \in ToPage : a.type = "prepared" /\ (toPage' = toPage \/ Grows(toPage, toPage', a))
    BY <1>3 DEF Issues
  <2>2. Less(toPage, toPage', Snapshots)
    BY <2>1, OtherTypes, LessGrows, LessSame
  <2>. QED BY <1>1, <1>3, <2>2, OrderedQuiet DEF Issues, HostRests
<1>4. ASSUME NEW step, Moves(op, step) PROVE Ordered'
  BY <1>1, <1>4, LessSame, OrderedQuiet DEF Moves
<1>. QED BY <1>2, <1>3, <1>4, BindDoes, CompareDoes, OutdatedDoes, IssueDoes DEF Preparation

LEMMA OrderedCommits ==
    ASSUME IInv, Ordered,
           StartCommit \/ VerifyCommit \/ CommitOutdated \/ commit_history_replay \/ AnswerCommit
    PROVE  Ordered'
<1>1. Less(toHost, toHost', Applieds)
  BY HostOwnStays, LessSame DEF HostOwn
<1>2. ASSUME NEW c, NEW step, Steps(c, step),
             host'.delivery = host.delivery, host'.acked = host.acked,
             host'.readying = host.readying
      PROVE  Ordered'
  BY <1>1, <1>2, LessSame, OrderedQuiet DEF Steps
<1>3. ASSUME NEW c, NEW type \in {"committed", "commitRefused"}, AnsweredBy(c, type),
             host'.delivery = host.delivery, host'.acked = host.acked,
             host'.readying = host.readying
      PROVE  Ordered'
  <2>1. PICK a \in ToPage : a.type = type /\ Grows(toPage, toPage', a)
    BY <1>3 DEF AnsweredBy
  <2>2. Less(toPage, toPage', Snapshots)
    BY <2>1, OtherTypes, LessGrows
  <2>. QED BY <1>1, <1>3, <2>2, OrderedQuiet
<1>4. CASE VerifyCommit
  BY <1>2, <1>3, <1>4, VerifyDoes
<1>5. CASE commit_history_replay
  BY <1>2, <1>3, <1>5, CommitDoes DEF Writes
<1>6. CASE AnswerCommit
  BY <1>3, <1>6, AnswerDoes
<1>7. CASE StartCommit \/ CommitOutdated
  BY <1>2, <1>3, <1>7, StartDoes, CommitOutdatedDoes
<1>. QED BY <1>4, <1>5, <1>6, <1>7

LEMMA OrderedApplied ==
    ASSUME IInv, Arriving, Ordered, HandleApplied PROVE Ordered'
<1>1. PICK m : /\ Takes(m) /\ m.type = "applied"
               /\ host'.acked = (host.acked \/ m.delivery = host.delivery)
  BY HandleAppliedDoes
<1>2. host'.delivery = host.delivery /\ host'.readying = host.readying /\ toPage' = toPage
  BY HandleAppliedDoes
<1>3. ~host.readying
  <2>1. Range(toHost) # {}
    BY <1>1 DEF Takes
  <2>2. toHost # <<>>
    BY <2>1 DEF Range
  <2>. QED BY <2>2 DEF IInv, Loading, Arriving
<1>4. m \in Applied(m.delivery) /\ ~NoneIn(toHost, Applied(m.delivery))
  BY <1>1 DEF Takes, NoneIn, Applied
<1>5. NoneIn(toHost, Applied(host.delivery)) => NoneIn(toHost', Applied(host.delivery))
  BY <1>1 DEF Takes, Popped
<1>6. host'.acked => host.acked \/ ~NoneIn(toHost, Applied(host.delivery))
  BY <1>1, <1>4
<1>. QED BY <1>2, <1>3, <1>5, <1>6 DEF Ordered

LEMMA OrderedReady ==
    ASSUME IInv, Ordered, HandleReady PROVE Ordered'
<1>1. /\ toPage' = toPage /\ host'.delivery = host.delivery + 1 /\ ~host'.acked
      /\ \E m : Takes(m)
  BY HandleReadyDoes
<1>2. NoneIn(toPage', Latest(host'.delivery)) /\ NoneIn(toHost, Applied(host'.delivery))
  BY <1>1, Unnumbered
<1>3. NoneIn(toHost', Applied(host'.delivery))
  BY <1>1, <1>2 DEF Takes, Popped
<1>4. NoneAfter(toPage', Latest(host'.delivery), Snapshots)
  BY <1>2, OrderNone
<1>. QED BY <1>1, <1>2, <1>3, <1>4 DEF Ordered

LEMMA OrderedFirst ==
    ASSUME IInv, Arriving, Ordered, CompleteReady PROVE Ordered'
<1>1. PICK a \in ToPage : Pushed(toPage, toPage', a)
  BY CompleteReadyDoes
<1>2. /\ toHost' = toHost /\ host'.delivery = host.delivery /\ host'.acked = host.acked
      /\ host.readying /\ ~host'.readying
  BY CompleteReadyDoes
<1>3. toHost = <<>>
  BY <1>2 DEF IInv, Loading, Arriving
<1>4. NoneIn(toHost', Applied(host'.delivery))
  BY <1>2, <1>3 DEF NoneIn, Range
<1>5. NoneAfter(toPage', Latest(host'.delivery), Snapshots)
  BY <1>1, <1>2 DEF Pushed, Ordered
<1>. QED BY <1>2, <1>4, <1>5 DEF Ordered

LEMMA OrderedPosts ==
    ASSUME IInv, Ordered, PostSnapshot PROVE Ordered'
<1>1. PICK a \in ToPage : Pushed(toPage, toPage', a)
  BY PostSnapshotDoes
<1>2. /\ toHost' = toHost /\ host'.delivery = host.delivery /\ host'.acked = host.acked
      /\ ~host.posted /\ ~host.acked /\ ~host'.readying
  BY PostSnapshotDoes
<1>3. NoneIn(toPage, Latest(host.delivery)) /\ NoneIn(toHost, Applied(host.delivery))
  BY <1>2, Unnumbered
<1>4. NoneAfter(toPage', Latest(host'.delivery), Snapshots)
  BY <1>1, <1>2, <1>3 DEF Pushed, Ordered
<1>. QED BY <1>2, <1>3, <1>4 DEF Ordered

LEMMA OrderedMessage ==
    ASSUME IInv, Arriving, Ordered, HandleMessage PROVE Ordered'
<1>1. ASSUME ~HandleReady PROVE Less(toHost, toHost', Applieds)
  BY <1>1, MessageTakes, TakesLess
<1>2. ASSUME NEW a \in ToPage, a.type # "snapshot", Grows(toPage, toPage', a), host' = host, ~HandleReady
      PROVE  Ordered'
  BY <1>1, <1>2, OtherTypes, LessGrows, OrderedQuiet
<1>3. ASSUME toPage' = toPage, host' = host, ~HandleReady PROVE Ordered'
  BY <1>1, <1>3, LessSame, OrderedQuiet
<1>4. CASE HandleEdits
  <2>1. host' = host /\ toPage' = toPage /\ ~HandleReady
    BY <1>4, HandleEditsDoes DEF HandleEdits, HandleReady, AtHost
  <2>. QED BY <1>3, <2>1
<1>5. CASE HandleSession
  <2>1. ~HandleReady
    BY <1>5 DEF HandleSession, HandleReady, AtHost
  <2>. QED BY <1>1, <1>5, <2>1, HandleSessionDoes, LessSame, OrderedQuiet DEF HostRests
<1>6. CASE HandleDiscard
  <2>1. ~HandleReady
    BY <1>6 DEF HandleDiscard, HandleReady, AtHost
  <2>. QED BY <1>1, <1>6, <2>1, HandleDiscardDoes, OtherTypes, OrderedAnswers
<1>7. CASE handle_save
  <2>1. ~HandleReady
    BY <1>7 DEF handle_save, HandleReady, AtHost
  <2>. QED BY <1>1, <1>2, <1>7, <2>1, HandleSaveDoes, OrderedAnswers
<1>8. CASE HandlePrepare
  <2>1. ~HandleReady
    BY <1>8 DEF HandlePrepare, HandleReady, AtHost
  <2>2. /\ HostRests(host.leases)
        /\ \/ \E a \in ToPage : a.type = "prepareRefused" /\ Grows(toPage, toPage', a)
           \/ toPage' = toPage
    BY <1>8, HandlePrepareDoes
  <2>3. Less(toPage, toPage', Snapshots)
    BY <2>2, OtherTypes, LessGrows, LessSame
  <2>. QED BY <1>1, <2>1, <2>2, <2>3, OrderedQuiet DEF HostRests
<1>9. CASE HandleAbandon
  <2>1. host' = host /\ toPage' = toPage /\ ~HandleReady
    BY <1>9, HandleAbandonDoes DEF HandleAbandon, HandleReady, AtHost
  <2>. QED BY <1>3, <2>1
<1>10. CASE HandleCommit
  <2>1. ~HandleReady
    BY <1>10 DEF HandleCommit, HandleReady, AtHost
  <2>. QED BY <1>2, <1>3, <1>10, <2>1, HandleCommitDoes
<1>. QED BY <1>4, <1>5, <1>6, <1>7, <1>8, <1>9, <1>10, OrderedApplied, OrderedReady
         DEF HandleMessage

LEMMA OrderedOwn ==
    ASSUME IInv, Arriving, Ordered, HostOwn PROVE Ordered'
<1>1. Less(toHost, toHost', Applieds)
  BY HostOwnStays, LessSame
<1>2. CASE WriteLands
  <2>1. PICK w : \/ host' = host /\ toPage' = toPage
                 \/ /\ Acknowledges(w) \in ToPage /\ Acknowledges(w).type = "acknowledged"
                    /\ Answers1(Acknowledges(w))
    BY <1>2, WriteLandsDoes
  <2>. QED BY <1>1, <2>1, OtherTypes, OrderedAnswers, LessSame, OrderedQuiet
<1>3. CASE SaveEnds
  BY <1>1, <1>3, SaveEndsDoes, OtherTypes, OrderedAnswers
<1>4. CASE LeaseExpires
  BY <1>1, <1>4, LeaseExpiresDoes, LessSame, OrderedQuiet
<1>5. CASE OtherPanelEdits
  BY <1>1, <1>5, OtherPanelEditsDoes, OrderedAnswers
<1>6. ASSUME NEW moved \in BOOLEAN, Refresh(moved) PROVE Ordered'
  BY <1>1, <1>6, RefreshDoes, OrderedAnswers
<1>7. CASE GrantSession
  BY <1>1, <1>7, GrantSessionDoes, OtherTypes, OrderedAnswers
<1>8. ASSUME NEW post \in host.posting, PostEnds(post) PROVE Ordered'
  BY <1>1, <1>8, PostEndsDoes, LessSame, OrderedQuiet DEF HostRests
<1>. QED BY <1>2, <1>3, <1>4, <1>5, <1>6, <1>7, <1>8, OrderedPreparation, OrderedCommits, OrderedFirst,
         OrderedPosts DEF HostOwn

\* The page publishes an edit at most.
LEMMA ShownLess ==
    ASSUME NEW w, NEW q, ShownAs(w, q), NEW K, Edited \cap K = {}
    PROVE  Less(q, toHost', K)
<1>1. CASE toHost' = q
  BY <1>1, LessSame
<1>2. ASSUME NEW e \in ToHost, e.type = "edits", Pushed(q, toHost', e) PROVE Less(q, toHost', K)
  <2>1. e \notin K
    BY <1>2 DEF Edited
  <2>. QED BY <1>2, <2>1, LessGrows DEF Grows
<1>. QED BY <1>1, <1>2 DEF ShownAs

LEMMA PushedLess ==
    ASSUME NEW q, NEW p, NEW m, Pushed(q, p, m), NEW K, m \notin K PROVE Less(q, p, K)
<1>. QED BY LessGrows DEF Grows

\* The page hears of a snapshot and says so.
LEMMA OrderedSaid ==
    ASSUME IInv, Ordered, NEW m, PageTakes1(m), m \in Snapshots, NEW k, AppliedTo(m, k),
           \A d : NoneIn(toHost, Applied(d)) /\ k \notin Applied(d) => NoneIn(toHost', Applied(d)),
           host' = host
    PROVE  Ordered'
<1>1. NoneAfter(toPage', Latest(host.delivery), Snapshots)
  BY DEF PageTakes1, Popped, Ordered
<1>2. \A A : NoneIn(toPage, A) => NoneIn(toPage', A)
  BY DEF PageTakes1, Popped
<1>3. CASE m.delivery = host.delivery
  <2>1. m \in Latest(host.delivery)
    BY <1>3 DEF PageTakes1, Snapshots, Latest
  <2>2. NoneIn(toPage', Snapshots)
    BY <2>1 DEF PageTakes1, Popped, Ordered
  <2>. QED BY <1>1, <1>2, <2>2 DEF Ordered
<1>4. CASE m.delivery # host.delivery
  <2>1. k \notin Applied(host.delivery)
    BY <1>4 DEF AppliedTo, Applied
  <2>. QED BY <1>1, <1>2, <2>1 DEF Ordered
<1>. QED BY <1>3, <1>4

LEMMA OrderedSnapshot ==
    ASSUME IInv, Arriving, Ordered, OnSnapshot PROVE Ordered'
<1>1. PICK m : /\ PageTakes1(m) /\ m.type = "snapshot"
               /\ ShowsFirst(m) \/ ShowsAgain(m) \/ Republishes(m) \/ Leaves(m)
  BY OnSnapshotDoes
<1>2. m \in Snapshots /\ host' = host
  BY <1>1, OnSnapshotDoes DEF PageTakes1, Snapshots, HostStays
<1>3. \A d : Edited \cap Applied(d) = {}
  BY DEF Edited, Applied
<1>4. ASSUME NEW k, NEW q, NEW w, AppliedTo(m, k), Pushed(toHost, q, k), ShownAs(w, q)
      PROVE  Ordered'
  <2>1. \A d : Less(q, toHost', Applied(d))
    BY <1>3, <1>4, ShownLess
  <2>2. \A d : NoneIn(toHost, Applied(d)) /\ k \notin Applied(d) => NoneIn(q, Applied(d))
    BY <1>4 DEF Pushed
  <2>3. \A d : NoneIn(q, Applied(d)) => NoneIn(toHost', Applied(d))
    BY <2>1 DEF Less
  <2>. QED BY <1>1, <1>2, <1>4, <2>2, <2>3, OrderedSaid
<1>5. ASSUME NEW k, NEW q, NEW e \in ToHost, AppliedTo(m, k), Pushed(toHost, q, e),
             Pushed(q, toHost', k), e.type = "edits"
      PROVE  Ordered'
  <2>1. \A d : e \notin Applied(d)
    BY <1>5 DEF Applied
  <2>2. \A d : NoneIn(toHost, Applied(d)) /\ k \notin Applied(d) => NoneIn(toHost', Applied(d))
    BY <1>5, <2>1 DEF Pushed
  <2>. QED BY <1>1, <1>2, <1>5, <2>2, OrderedSaid
<1>6. ASSUME NEW k, AppliedTo(m, k), Pushed(toHost, toHost', k) PROVE Ordered'
  <2>1. \A d : NoneIn(toHost, Applied(d)) /\ k \notin Applied(d) => NoneIn(toHost', Applied(d))
    BY <1>6 DEF Pushed
  <2>. QED BY <1>1, <1>2, <1>6, <2>1, OrderedSaid
<1>. QED BY <1>1, <1>4, <1>5, <1>6 DEF ShowsFirst, ShowsAgain, Republishes, Leaves

LEMMA OrderedPage ==
    ASSUME IInv, Arriving, Tokens, Bound, Sessions, Ordered, PageActs \/ PageRuns \/ Load
    PROVE  Ordered'
<1>1. HostStays
  BY PageStepsRest
<1>2. ASSUME Less(toPage, toPage', Snapshots), Less(toHost, toHost', Applieds) PROVE Ordered'
  BY <1>1, <1>2, OrderedQuiet DEF HostStays
<1>3. Less(toHost, toHost, Applieds) /\ Less(toPage, toPage, Snapshots)
  BY LessSame
<1>4. ASSUME NEW m \in ToHost, m.type # "applied", Pushed(toHost, toHost', m)
      PROVE  Less(toHost, toHost', Applieds)
  BY <1>4, PushedLess, OtherTypes
<1>5. ASSUME NEW w, ShownAs(w, toHost) PROVE Less(toHost, toHost', Applieds)
  BY <1>5, ShownLess DEF Edited, Applieds
<1>6. ASSUME NEW m, PageTakes1(m) PROVE Less(toPage, toPage', Snapshots)
  BY <1>6, PageTakesLess
<1>7. CASE Edit
  BY <1>2, <1>3, <1>5, <1>7, EditDoes
<1>8. CASE Discard \/ RequestSession \/ RequestSave \/ Prepare
  BY <1>2, <1>3, <1>4, <1>8, DiscardDoes, RequestSessionDoes, RequestSaveDoes, PrepareDoes
<1>9. ASSUME NEW direction \in Directions, Begin(direction) PROVE Ordered'
  BY <1>2, <1>3, <1>9, BeginDoes
<1>10. CASE page.up /\ on_prepared
  <2>1. Less(toHost, toHost', Applieds)
    BY <1>4, <1>10, OnPreparedDoes
  <2>. QED BY <1>2, <1>6, <1>10, <2>1, OnPreparedDoes
<1>11. CASE page.up /\ (on_prepare_refused \/ on_commit_refused)
  BY <1>2, <1>3, <1>6, <1>11, OnRefusedDoes
<1>12. CASE page.up /\ on_committed
  BY <1>2, <1>5, <1>6, <1>12, OnCommittedDoes
<1>13. CASE page.up /\ (OnAcknowledged \/ OnDiscarded)
  BY <1>2, <1>3, <1>6, <1>13, OnAcknowledgedDoes, OnDiscardedDoes
<1>14. CASE page.up /\ OnSession
  <2>1. Less(toHost, toHost', Applieds)
    BY <1>3, <1>5, <1>14, OnSessionDoes
  <2>. QED BY <1>2, <1>6, <1>14, <2>1, OnSessionDoes
<1>15. CASE page.up /\ OnSaved
  BY <1>2, <1>5, <1>6, <1>15, OnSavedDoes
<1>16. CASE Ignore
  BY <1>2, <1>3, <1>6, <1>16, IgnoreDoes
<1>17. CASE Load
  <2>1. Less(toHost, toHost', Applieds)
    BY <1>4, <1>17, LoadDoes
  <2>2. Less(toPage, <<>>, Snapshots)
    BY DEF Less, NoneIn, NoneAfter, Range
  <2>. QED BY <1>2, <1>17, <2>1, <2>2, LoadDoes
<1>. QED BY <1>7, <1>8, <1>9, <1>10, <1>11, <1>12, <1>13, <1>14, <1>15, <1>16, <1>17, OrderedSnapshot
         DEF PageActs, PageRuns, OnMessage

LEMMA NextOrdered ==
    ASSUME IInv, Arriving, Tokens, Bound, Sessions, Ordered, [Next]_vars
    PROVE  Ordered'
<1>1. CASE UNCHANGED vars
  BY <1>1, LessSame, OrderedQuiet DEF vars
<1>. QED BY <1>1, OrderedPage, OrderedMessage, OrderedOwn DEF Next, HostRuns, HostOwn

-----------------------------------------------------------------------------
(* The one replay that is under way *)

NoTokens ==
    /\ NoneIn(toHost, Calls) /\ CurOps = {} /\ CurCommits = {} /\ NoneIn(toPage, Verdicts)

LEMMA CallTypes ==
    ASSUME IInv
    PROVE  /\ \A m \in Range(toHost) : /\ m \in ToHost
                                       /\ m \in Calls <=> m.type \in {"prepare", "commit"}
                                       /\ m \in Prepares <=> m.type = "prepare"
                                       /\ m \in Commits <=> m.type = "commit"
           /\ \A m \in Range(toPage) :
                 /\ m \in ToPage
                 /\ m \in Verdicts <=> m.type \in {"prepared", "prepareRefused",
                                                   "committed", "commitRefused"}
           /\ Prepares \subseteq Calls /\ Commits \subseteq Calls
<1>1. \A m \in Range(toHost) : m \in ToHost
  BY HostState DEF Range
<1>2. \A m \in Range(toPage) : m \in ToPage
  BY HostState DEF Range
<1>. QED BY <1>1, <1>2 DEF Calls, Prepares, Commits, Verdicts

LEMMA CallTypesNext ==
    ASSUME IInv'
    PROVE  /\ \A m \in Range(toHost') : /\ m \in ToHost
                                        /\ m \in Calls <=> m.type \in {"prepare", "commit"}
                                        /\ m \in Prepares <=> m.type = "prepare"
                                        /\ m \in Commits <=> m.type = "commit"
           /\ \A m \in Range(toPage') :
                 /\ m \in ToPage
                 /\ m \in Verdicts <=> m.type \in {"prepared", "prepareRefused",
                                                   "committed", "commitRefused"}
<1>1. toHost' \in Seq(ToHost) /\ toPage' \in Seq(ToPage)
  BY DEF IInv, Types, WireTypes
<1>2. \A m \in Range(toHost') : m \in ToHost
  BY <1>1 DEF Range
<1>3. \A m \in Range(toPage') : m \in ToPage
  BY <1>1 DEF Range
<1>. QED BY <1>2, <1>3 DEF Calls, Prepares, Commits, Verdicts

LEMMA NoTokensIdle ==
    ASSUME IInv, Tokens, page.up, slot.phase \notin {"preparing", "committing"}
    PROVE  NoTokens
<1>1. NoneIn(toHost, Calls)
  BY CallTypes DEF Tokens, OfPrepare, OfCommit, NoneIn
<1>2. NoneIn(toPage, Verdicts)
  BY CallTypes DEF Tokens, OfPrepare, OfCommit, NoneIn
<1>3. CurOps = {} /\ CurCommits = {}
  BY DEF Tokens, OfPrepare, OfCommit
<1>. QED BY <1>1, <1>2, <1>3 DEF NoTokens

LEMMA TokensNone ==
    ASSUME IInv', NoTokens' PROVE Tokens'
<1>1. /\ NoneIn(toHost', Calls) /\ NoneIn(toPage', Verdicts) /\ CurOps' = {} /\ CurCommits' = {}
  BY DEF NoTokens
<1>2. NoneAfter(toHost', Calls, Calls) /\ NoneAfter(toPage', Verdicts, Verdicts)
  BY <1>1, OrderNone
<1>3. \A m \in Range(toHost') : m \notin Prepares /\ m \notin Commits
  BY <1>1 DEF NoneIn, Calls, Prepares, Commits
<1>4. \A m \in Range(toPage') : m.type \notin {"prepared", "prepareRefused",
                                               "committed", "commitRefused"}
  BY <1>1, CallTypesNext DEF NoneIn
<1>. QED BY <1>1, <1>2, <1>3, <1>4 DEF Tokens

\* A token in the queue to the host: none is elsewhere.
LEMMA CallTaken ==
    ASSUME IInv, Tokens, page.up, NEW m, Takes(m), m.type \in {"prepare", "commit"}
    PROVE  /\ NoneIn(toHost', Calls) /\ CurOps = {} /\ CurCommits = {} /\ NoneIn(toPage, Verdicts)
           /\ m.type = "prepare" => OfPrepare(m)
           /\ m.type = "commit" => OfCommit(m) /\ m.value = Target
<1>1. m \in Calls /\ m \in Range(toHost)
  BY DEF Takes, Calls
<1>2. ~NoneIn(toHost, Calls) /\ NoneIn(toHost', Calls)
  BY <1>1 DEF Takes, Popped, Tokens, NoneIn
<1>3. m.type = "prepare" => m \in Prepares
  BY DEF Takes, Prepares
<1>4. m.type = "commit" => m \in Commits
  BY DEF Takes, Commits
<1>. QED BY <1>1, <1>2, <1>3, <1>4 DEF Tokens

\* The verdict is taken: nothing else is under way.
LEMMA VerdictTaken ==
    ASSUME IInv, Tokens, page.up, NEW m, PageTakes1(m), m \in Verdicts
    PROVE  /\ NoneIn(toHost, Calls) /\ CurOps = {} /\ CurCommits = {} /\ NoneIn(toPage', Verdicts)
<1>1. ~NoneIn(toPage, Verdicts) /\ NoneIn(toPage', Verdicts)
  BY DEF PageTakes1, Popped, Tokens, NoneIn
<1>. QED BY <1>1 DEF Tokens

\* At the host: the messages that speak of the replay do not become more.
LEMMA TokensFrame ==
    ASSUME IInv, IInv', Tokens, page.up, slot' = slot,
           Less(toHost, toHost', Calls), Less(toPage, toPage', Verdicts),
           CurOps = {} => CurOps' = {},
           \A op \in CurOps' : op.request = slot.request /\ slot.phase = "preparing",
           \A op, other \in CurOps' : op = other,
           CurCommits = {} => CurCommits' = {},
           \A c \in CurCommits' : OfCommit(c) /\ c.value = Target
    PROVE  Tokens'
<1>1. /\ NoneAfter(toHost', Calls, Calls) /\ NoneAfter(toPage', Verdicts, Verdicts)
  BY DEF Less, Tokens
<1>2. /\ NoneIn(toHost, Calls) => NoneIn(toHost', Calls)
      /\ NoneIn(toPage, Verdicts) => NoneIn(toPage', Verdicts)
  BY DEF Less
<1>3. Target' = Target
  BY DEF Target, to_side
<1>4. \A m \in Range(toHost') :
         /\ m \in Prepares => OfPrepare(m)'
         /\ m \in Commits => OfCommit(m)' /\ m.value = Target'
  <2>1. Prepares \subseteq Calls /\ Commits \subseteq Calls
    BY CallTypes
  <2>2. \A m \in Range(toHost') : m \in Prepares \/ m \in Commits => m \in Range(toHost)
    BY <2>1 DEF Less
  <2>. QED BY <1>3, <2>2 DEF Tokens, OfPrepare, OfCommit
<1>5. \A m \in Range(toPage') :
         /\ m.type \in {"prepared", "prepareRefused"} => OfPrepare(m)'
         /\ m.type \in {"committed", "commitRefused"} => OfCommit(m)'
  <2>1. \A m \in Range(toPage') : m \in Verdicts => m \in Range(toPage)
    BY DEF Less
  <2>. QED BY <2>1, CallTypesNext DEF Tokens, OfPrepare, OfCommit
<1>6. /\ \A op \in CurOps' : OfPrepare(op)'
      /\ \A c \in CurCommits' : OfCommit(c)' /\ c.value = Target'
  BY <1>3 DEF OfPrepare, OfCommit
<1>. QED BY <1>1, <1>2, <1>4, <1>5, <1>6 DEF Tokens

\* Nobody at the host begins or ends its part of the replay.
WorkStays == UNCHANGED <<preparing, committing>> /\ host'.epoch = host.epoch

LEMMA TokensStill ==
    ASSUME IInv, IInv', Tokens, page.up, slot' = slot, WorkStays,
           Less(toHost, toHost', Calls), Less(toPage, toPage', Verdicts)
    PROVE  Tokens'
<1>1. CurOps' = CurOps /\ CurCommits' = CurCommits
  BY DEF WorkStays, CurOps, CurCommits
<1>2. /\ \A op \in CurOps' : op.request = slot.request /\ slot.phase = "preparing"
      /\ \A op, other \in CurOps' : op = other
      /\ \A c \in CurCommits' : OfCommit(c) /\ c.value = Target
  BY <1>1 DEF Tokens, OfPrepare
<1>. QED BY <1>1, <1>2, TokensFrame

\* The one token is a message to the host, or is at the host, or is the answer.
LEMMA TokensAsked ==
    ASSUME IInv', NEW m, Pushed(toHost, toHost', m), NoneIn(toHost, Calls),
           CurOps' = {}, CurCommits' = {}, NoneIn(toPage', Verdicts),
           m \in Prepares => OfPrepare(m)',
           m \in Commits => OfCommit(m)' /\ m.value = Target'
    PROVE  Tokens'
<1>1. NoneAfter(toHost', Calls, Calls)
  <2>1. NoneAfter(toHost, Calls, Calls)
    BY OrderNone
  <2>. QED BY <2>1 DEF Pushed
<1>2. NoneAfter(toPage', Verdicts, Verdicts)
  BY OrderNone
<1>3. \A k \in Range(toHost') : k \in Calls => k = m
  BY DEF Pushed, NoneIn
<1>4. \A k \in Range(toHost') : k \in Prepares \/ k \in Commits => k \in Calls
  BY CallTypesNext DEF Calls, Prepares, Commits
<1>5. \A k \in Range(toPage') : k.type \notin {"prepared", "prepareRefused",
                                               "committed", "commitRefused"}
  BY CallTypesNext DEF NoneIn
<1>. QED BY <1>1, <1>2, <1>3, <1>4, <1>5 DEF Tokens

LEMMA TokensWork ==
    ASSUME IInv', NoneIn(toHost', Calls), NoneIn(toPage', Verdicts),
           \A op \in CurOps' : OfPrepare(op)',
           \A op, other \in CurOps' : op = other,
           \A c \in CurCommits' : OfCommit(c)' /\ c.value = Target'
    PROVE  Tokens'
<1>1. NoneAfter(toHost', Calls, Calls) /\ NoneAfter(toPage', Verdicts, Verdicts)
  BY OrderNone
<1>2. \A k \in Range(toHost') : k \notin Prepares /\ k \notin Commits
  BY CallTypesNext DEF NoneIn, Calls, Prepares, Commits
<1>3. \A k \in Range(toPage') : k.type \notin {"prepared", "prepareRefused",
                                               "committed", "commitRefused"}
  BY CallTypesNext DEF NoneIn
<1>. QED BY <1>1, <1>2, <1>3 DEF Tokens

LEMMA TokensAnswered ==
    ASSUME IInv', NoneIn(toHost', Calls), CurOps' = {}, CurCommits' = {},
           NoneIn(toPage, Verdicts), NEW a, Grows(toPage, toPage', a),
           a.type \in {"prepared", "prepareRefused"} => OfPrepare(a)',
           a.type \in {"committed", "commitRefused"} => OfCommit(a)'
    PROVE  Tokens'
<1>1. NoneAfter(toHost', Calls, Calls)
  BY OrderNone
<1>2. NoneAfter(toPage, Verdicts, Verdicts)
  BY OrderNone
<1>3. NoneAfter(toPage', Verdicts, Verdicts)
  BY <1>2 DEF Grows, Pushed
<1>4. \A k \in Range(toHost') : k \notin Prepares /\ k \notin Commits
  BY CallTypesNext DEF NoneIn, Calls, Prepares, Commits
<1>5. \A k \in Range(toPage') : k \in Verdicts => k = a
  BY DEF Grows, Pushed, NoneIn
<1>6. \A k \in Range(toPage') :
        /\ k.type \in {"prepared", "prepareRefused"} => OfPrepare(k)'
        /\ k.type \in {"committed", "commitRefused"} => OfCommit(k)'
  BY <1>5, CallTypesNext
<1>. QED BY <1>1, <1>3, <1>4, <1>6 DEF Tokens

LEMMA TokensPrepare ==
    ASSUME IInv, IInv', Tokens, page.up, Prepare PROVE Tokens'
<1>1. PICK m \in ToHost : m.type = "prepare" /\ m.request = slot'.request /\ Pushed(toHost, toHost', m)
  BY PrepareDoes
<1>2. /\ HostStays /\ toPage' = toPage /\ slot.phase = "acquiring" /\ slot'.phase = "preparing"
  BY PrepareDoes
<1>3. NoTokens
  BY <1>2, NoTokensIdle
<1>4. CurOps' = {} /\ CurCommits' = {}
  BY <1>2, <1>3 DEF HostStays, CurOps, CurCommits, NoTokens
<1>5. m \notin Commits
  BY <1>1 DEF Commits
<1>. QED BY <1>1, <1>2, <1>3, <1>4, <1>5, TokensAsked DEF NoTokens, OfPrepare

LEMMA TokensHandlePrepare ==
    ASSUME IInv, IInv', Tokens, page.up, HandlePrepare PROVE Tokens'
<1>1. PICK m : /\ Takes(m) /\ m.type = "prepare"
               /\ \/ /\ UNCHANGED preparing
                     /\ \E a \in ToPage : /\ a.type = "prepareRefused"
                                          /\ a.request = m.request
                                          /\ Grows(toPage, toPage', a)
                  \/ /\ toPage' = toPage
                     /\ \E op \in Op : /\ op.request = m.request /\ op.epoch = host.epoch
                                       /\ preparing' = preparing \cup {op}
  BY HandlePrepareDoes
<1>2. PageStays /\ UNCHANGED committing /\ host'.epoch = host.epoch
  BY HandlePrepareDoes DEF HostRests
<1>3. /\ NoneIn(toHost', Calls) /\ CurOps = {} /\ CurCommits = {} /\ NoneIn(toPage, Verdicts)
      /\ OfPrepare(m)
  BY <1>1, CallTaken
<1>4. CurCommits' = {}
  BY <1>2, <1>3 DEF CurCommits
<1>5. ASSUME UNCHANGED preparing, NEW a \in ToPage, a.type = "prepareRefused",
             a.request = m.request, Grows(toPage, toPage', a)
      PROVE  Tokens'
  <2>1. CurOps' = {}
    BY <1>2, <1>3, <1>5 DEF CurOps
  <2>2. OfPrepare(a)'
    BY <1>2, <1>3, <1>5 DEF PageStays, OfPrepare
  <2>. QED BY <1>3, <1>4, <1>5, <2>1, <2>2, TokensAnswered
<1>6. ASSUME toPage' = toPage, NEW op \in Op, op.request = m.request, op.epoch = host.epoch,
             preparing' = preparing \cup {op}
      PROVE  Tokens'
  <2>1. CurOps' = {op}
    BY <1>2, <1>3, <1>6 DEF CurOps
  <2>2. OfPrepare(op)'
    BY <1>2, <1>3, <1>6 DEF PageStays, OfPrepare
  <2>. QED BY <1>3, <1>4, <1>6, <2>1, <2>2, TokensWork
<1>. QED BY <1>1, <1>5, <1>6

\* A preparation or a commit for the page is at work: nothing else is under way.
LEMMA OneWork ==
    ASSUME Tokens, page.up
    PROVE  /\ \A op \in CurOps : CurOps = {op} /\ OfPrepare(op) /\ CurCommits = {}
           /\ CurOps # {} \/ CurCommits # {} =>
                 NoneIn(toHost, Calls) /\ NoneIn(toPage, Verdicts)
           /\ \A c \in CurCommits : OfCommit(c) /\ c.value = Target /\ CurOps = {}
<1>. QED BY DEF Tokens, OfPrepare, OfCommit

LEMMA TokensPreparation ==
    ASSUME IInv, IInv', Tokens, page.up, NEW op \in preparing, Preparation(op) PROVE Tokens'
<1>1. Less(toHost, toHost', Calls) /\ toHost' = toHost /\ slot' = slot
  BY HostOwnStays, LessSame DEF HostOwn
<1>2. CASE op \notin CurOps
  <2>1. Refuses(op)
    BY <1>2, BindDoes, CompareDoes, OutdatedDoes, IssueDoes DEF Preparation, CurOps, Moves, Issues
  <2>2. toPage' = toPage /\ CurOps' = CurOps /\ CurCommits' = CurCommits
    BY <1>2, <2>1 DEF Refuses, HostRests, CurOps, CurCommits
  <2>3. /\ \A o \in CurOps' : o.request = slot.request /\ slot.phase = "preparing"
        /\ \A o, other \in CurOps' : o = other
        /\ \A c \in CurCommits' : OfCommit(c) /\ c.value = Target
    BY <2>2 DEF Tokens, OfPrepare
  <2>. QED BY <1>1, <2>2, <2>3, LessSame, TokensFrame
<1>3. CASE op \in CurOps
  <2>1. /\ CurOps = {op} /\ OfPrepare(op) /\ CurCommits = {}
        /\ NoneIn(toHost, Calls) /\ NoneIn(toPage, Verdicts)
    BY <1>3, OneWork
  <2>2. ASSUME host'.epoch = host.epoch, committing' = committing PROVE CurCommits' = {}
    BY <2>1, <2>2 DEF CurCommits
  <2>3. ASSUME host'.epoch = host.epoch, preparing' = preparing \ {op} PROVE CurOps' = {}
    BY <2>1, <2>3 DEF CurOps
  <2>4. CASE Refuses(op)
    <3>1. PICK a \in ToPage : /\ a.type = "prepareRefused" /\ a.request = op.request
                              /\ Grows(toPage, toPage', a)
      BY <2>4 DEF Refuses
    <3>2. OfPrepare(a)'
      BY <1>1, <2>1, <3>1 DEF OfPrepare
    <3>3. CurOps' = {} /\ CurCommits' = {}
      BY <2>2, <2>3, <2>4 DEF Refuses, HostRests
    <3>. QED BY <1>1, <2>1, <3>1, <3>2, <3>3, TokensAnswered
  <2>5. CASE Issues(op)
    <3>1. PICK a \in ToPage : /\ a.type = "prepared" /\ a.request = op.request
                              /\ toPage' = toPage \/ Grows(toPage, toPage', a)
      BY <2>5 DEF Issues
    <3>2. OfPrepare(a)'
      BY <1>1, <2>1, <3>1 DEF OfPrepare
    <3>3. CurOps' = {} /\ CurCommits' = {}
      BY <2>2, <2>3, <2>5 DEF Issues, HostRests
    <3>. QED BY <1>1, <2>1, <3>1, <3>2, <3>3, TokensAnswered DEF Grows
  <2>6. ASSUME NEW step, Moves(op, step) PROVE Tokens'
    <3>1. PICK next \in Op : next.request = op.request /\ preparing' = (preparing \ {op}) \cup {next}
      BY <2>6 DEF Moves
    <3>2. CurOps' \subseteq {next} /\ CurCommits' = {} /\ toPage' = toPage
      BY <2>1, <2>2, <2>6, <3>1 DEF Moves, CurOps
    <3>3. OfPrepare(next)'
      BY <1>1, <2>1, <3>1 DEF OfPrepare
    <3>. QED BY <1>1, <2>1, <3>2, <3>3, TokensWork
  <2>. QED BY <2>4, <2>5, <2>6, BindDoes, CompareDoes, OutdatedDoes, IssueDoes DEF Preparation
<1>. QED BY <1>2, <1>3

LEMMA TokensOnPrepared ==
    ASSUME IInv, IInv', Tokens, page.up, on_prepared PROVE Tokens'
<1>1. PICK m, k :
        /\ PageTakes1(m) /\ m.type = "prepared"
        /\ k \in ToHost /\ Pushed(toHost, toHost', k)
        /\ \/ /\ slot'.phase = "committing" /\ slot'.direction = slot.direction
              /\ slot'.entry = slot.entry /\ slot'.lease = m.lease
              /\ k.type = "commit" /\ k.lease = m.lease /\ k.value = Target
           \/ slot'.phase = "idle" /\ k.type = "abandon"
  BY OnPreparedDoes
<1>2. HostStays
  BY OnPreparedDoes
<1>3. m \in Verdicts
  BY <1>1 DEF PageTakes1, Verdicts
<1>4. NoneIn(toHost, Calls) /\ CurOps = {} /\ CurCommits = {} /\ NoneIn(toPage', Verdicts)
  BY <1>1, <1>3, VerdictTaken
<1>5. CurOps' = {} /\ CurCommits' = {}
  BY <1>2, <1>4 DEF HostStays, CurOps, CurCommits
<1>6. k \notin Prepares /\ (k \in Commits => k.type = "commit")
  BY <1>1 DEF Prepares, Commits
<1>7. k \in Commits => OfCommit(k)' /\ k.value = Target'
  BY <1>1, <1>6 DEF OfCommit, Target, to_side
<1>. QED BY <1>1, <1>4, <1>5, <1>6, <1>7, TokensAsked

LEMMA TokensHandleCommit ==
    ASSUME IInv, IInv', Tokens, page.up, HandleCommit PROVE Tokens'
<1>1. PICK m : /\ Takes(m) /\ m.type = "commit"
               /\ \/ /\ toPage' = toPage
                     /\ \E c \in Commit :
                           /\ c.lease = m.lease /\ c.value = m.value /\ c.epoch = host.epoch
                           /\ committing' = Append(committing, c)
                  \/ /\ UNCHANGED committing
                     /\ \E a \in ToPage : /\ a.type = "commitRefused" /\ a.lease = m.lease
                                          /\ Grows(toPage, toPage', a)
  BY HandleCommitDoes
<1>2. PageStays /\ UNCHANGED <<host, preparing>>
  BY HandleCommitDoes
<1>3. /\ NoneIn(toHost', Calls) /\ CurOps = {} /\ CurCommits = {} /\ NoneIn(toPage, Verdicts)
      /\ OfCommit(m) /\ m.value = Target
  BY <1>1, CallTaken
<1>4. CurOps' = {} /\ Target' = Target
  BY <1>2, <1>3 DEF CurOps, PageStays, Target, to_side
<1>5. ASSUME UNCHANGED committing, NEW a \in ToPage, a.type = "commitRefused",
             a.lease = m.lease, Grows(toPage, toPage', a)
      PROVE  Tokens'
  <2>1. CurCommits' = {}
    BY <1>2, <1>3, <1>5 DEF CurCommits
  <2>2. OfCommit(a)'
    BY <1>2, <1>3, <1>5 DEF PageStays, OfCommit
  <2>. QED BY <1>3, <1>4, <1>5, <2>1, <2>2, TokensAnswered
<1>6. ASSUME toPage' = toPage, NEW c \in Commit, c.lease = m.lease, c.value = m.value,
             committing' = Append(committing, c)
      PROVE  Tokens'
  <2>1. Range(Append(committing, c)) = Range(committing) \cup {c}
    BY HostState, AfterAppend
  <2>2. CurCommits' \subseteq {c}
    BY <1>2, <1>3, <1>6, <2>1 DEF CurCommits
  <2>3. OfCommit(c)' /\ c.value = Target'
    BY <1>2, <1>3, <1>4, <1>6 DEF PageStays, OfCommit
  <2>. QED BY <1>3, <1>4, <1>6, <2>2, <2>3, TokensWork
<1>. QED BY <1>1, <1>5, <1>6

\* The commit at the head is the one of the present page, or that page has none there.
LEMMA SettledCurrent ==
    ASSUME IInv, Numbered, NEW c, EndsCommit(c), host'.epoch = host.epoch
    PROVE  /\ c.epoch = host.epoch => c \in CurCommits /\ CurCommits' = {}
           /\ c.epoch # host.epoch => CurCommits' = CurCommits /\ toPage' = toPage
<1>1. /\ Range(committing) = Range(committing') \cup {c} /\ Popped(committing, committing', c)
      /\ c \in Commit /\ c \in Range(committing)
      /\ c.epoch # host.epoch => toPage' = toPage
  BY DEF EndsCommit, Popped
<1>2. CASE c.epoch = host.epoch
  <2>1. c \in OfEpoch(host.epoch)
    BY <1>1, <1>2 DEF OfEpoch
  <2>2. NoneIn(committing', OfEpoch(host.epoch))
    BY <1>1, <2>1 DEF Popped, Numbered
  <2>3. \A d \in Range(committing') : d \in Commit
    BY <1>1, CommitTypes
  <2>4. CurCommits' = {}
    BY <2>2, <2>3 DEF CurCommits, NoneIn, OfEpoch
  <2>. QED BY <1>1, <1>2, <2>4 DEF CurCommits
<1>3. CASE c.epoch # host.epoch
  BY <1>1, <1>3 DEF CurCommits
<1>. QED BY <1>2, <1>3

LEMMA TokensSettles ==
    ASSUME IInv, IInv', Numbered, Tokens, page.up, NEW c, EndsCommit(c),
           NEW type \in {"committed", "commitRefused"}, AnsweredBy(c, type),
           host'.epoch = host.epoch
    PROVE  Tokens'
<1>1. PageStays /\ UNCHANGED <<preparing, toHost>>
  BY DEF EndsCommit
<1>2. CurOps' = CurOps
  BY <1>1 DEF CurOps
<1>3. CASE c.epoch = host.epoch
  <2>1. c \in CurCommits /\ CurCommits' = {}
    BY <1>3, SettledCurrent
  <2>2. NoneIn(toHost, Calls) /\ NoneIn(toPage, Verdicts) /\ CurOps = {} /\ OfCommit(c)
    BY <2>1, OneWork
  <2>3. PICK a \in ToPage : a.type = type /\ a.lease = c.lease /\ Grows(toPage, toPage', a)
    BY DEF AnsweredBy
  <2>4. OfCommit(a)'
    BY <1>1, <2>2, <2>3 DEF OfCommit, PageStays
  <2>. QED BY <1>1, <1>2, <2>1, <2>2, <2>3, <2>4, TokensAnswered
<1>4. CASE c.epoch # host.epoch
  <2>1. CurCommits' = CurCommits /\ toPage' = toPage
    BY <1>4, SettledCurrent
  <2>2. /\ \A op \in CurOps' : op.request = slot.request /\ slot.phase = "preparing"
        /\ \A op, other \in CurOps' : op = other
        /\ \A d \in CurCommits' : OfCommit(d) /\ d.value = Target
    BY <1>2, <2>1 DEF Tokens, OfPrepare
  <2>. QED BY <1>1, <1>2, <2>1, <2>2, LessSame, TokensFrame DEF PageStays
<1>. QED BY <1>3, <1>4

\* The commit that takes its next step is of the present page.
LEMMA SteppedCurrent ==
    ASSUME IInv, Numbered, NEW c, NEW step, Steps(c, step), host'.epoch = host.epoch
    PROVE  /\ c \in CurCommits
           /\ \E d \in CurCommits' : d.step = step
           /\ \A e \in CurCommits' :
                 \/ e.lease = c.lease /\ e.value = c.value /\ e.op = c.op /\ e.step = step
                 \/ e \in CurCommits
<1>1. c \in Range(committing) /\ c.op.epoch = host.epoch
  BY DEF Steps
<1>2. c.epoch = host.epoch
  BY <1>1 DEF Numbered, CommitFits
<1>3. PICK d \in Commit :
          /\ d.lease = c.lease /\ d.op = c.op /\ d.value = c.value
          /\ d.epoch = c.epoch /\ d.step = step
          /\ Range(committing') = {d} \cup Range(Tail(committing))
          /\ Range(committing) = {c} \cup Range(Tail(committing))
  BY DEF Steps
<1>. QED BY <1>1, <1>2, <1>3 DEF CurCommits

LEMMA TokensSteps ==
    ASSUME IInv, IInv', Numbered, Tokens, page.up, NEW c, NEW step, Steps(c, step),
           host'.epoch = host.epoch
    PROVE  Tokens'
<1>1. UNCHANGED <<page, slot, preparing, toHost, toPage>>
  BY DEF Steps
<1>2. CurOps' = CurOps
  BY <1>1 DEF CurOps
<1>3. \A e \in CurCommits' : OfCommit(e) /\ e.value = Target
  BY SteppedCurrent, OneWork DEF OfCommit
<1>4. CurCommits # {}
  BY SteppedCurrent
<1>5. /\ \A op \in CurOps' : op.request = slot.request /\ slot.phase = "preparing"
      /\ \A op, other \in CurOps' : op = other
  BY <1>2 DEF Tokens, OfPrepare
<1>. QED BY <1>1, <1>2, <1>3, <1>4, <1>5, LessSame, TokensFrame

LEMMA TokensCommits ==
    ASSUME IInv, IInv', Numbered, Tokens, page.up,
           StartCommit \/ VerifyCommit \/ CommitOutdated \/ commit_history_replay \/ AnswerCommit
    PROVE  Tokens'
<1>1. CASE StartCommit \/ VerifyCommit
  BY <1>1, StartDoes, VerifyDoes, TokensSteps, TokensSettles
<1>2. CASE commit_history_replay
  BY <1>2, CommitDoes, TokensSteps, TokensSettles DEF Writes
<1>3. CASE AnswerCommit
  BY <1>3, AnswerDoes, TokensSettles
<1>4. CASE CommitOutdated
  BY <1>4, CommitOutdatedDoes, TokensSettles
<1>. QED BY <1>1, <1>2, <1>3, <1>4

\* What an edit that lands leaves of the work for the page.
LEMMA LandsWork ==
    ASSUME IInv, WriteLands
    PROVE  /\ host'.epoch = host.epoch /\ host'.readying = host.readying
           /\ CurOps' = {ahead(op) : op \in CurOps}
           /\ CurCommits' = {ahead(c) : c \in CurCommits}
           /\ CurOps \subseteq Op /\ CurCommits \subseteq Commit
<1>1. host'.epoch = host.epoch /\ host'.readying = host.readying
  <2>1. PICK w : host' = host \/ Answers1(Acknowledges(w))
    BY WriteLandsDoes
  <2>. QED BY <2>1 DEF Answers1, Draws
<1>2. /\ preparing' = {ahead(op) : op \in preparing}
      /\ committing' = [i \in DOMAIN committing |-> ahead(committing[i])]
  BY WriteLandsDoes
<1>3. preparing \subseteq Op /\ \A c \in Range(committing) : c \in Commit
  BY HostState, CommitTypes
<1>4. \A op \in preparing : ahead(op).epoch = op.epoch
  BY <1>3, AheadFields
<1>5. \A c \in Range(committing) : ahead(c).epoch = c.epoch
  BY <1>3, AheadFields
<1>6. CurOps' = {ahead(op) : op \in CurOps}
  BY <1>1, <1>2, <1>4 DEF CurOps
<1>7. Range(committing') = {ahead(c) : c \in Range(committing)}
  BY <1>2 DEF Range
<1>8. CurCommits' = {ahead(c) : c \in CurCommits}
  BY <1>1, <1>5, <1>7 DEF CurCommits
<1>. QED BY <1>1, <1>3, <1>6, <1>8 DEF CurOps, CurCommits

\* A snapshot and an answer that is none of K.
LEMMA DrawsLess ==
    ASSUME NEW q, Draws(q), NEW K, K \cap Snapshots = {} PROVE Less(toPage, q, K)
<1>1. CASE q = toPage
  BY <1>1, LessSame
<1>2. CASE Pushed(toPage, q, Snapshot(host'))
  <2>1. Snapshot(host') \notin K
    BY DEF Draws, Snapshots
  <2>. QED BY <1>2, <2>1, PushedLess
<1>. QED BY <1>1, <1>2 DEF Draws

LEMMA AnswersLess ==
    ASSUME NEW a, Answers1(a), NEW K, a \notin K, K \cap Snapshots = {}
    PROVE  Less(toPage, toPage', K)
<1>1. PICK q : Draws(q) /\ Grows(q, toPage', a)
  BY DEF Answers1
<1>. QED BY <1>1, DrawsLess, LessGrows, LessTrans

LEMMA TokensLands ==
    ASSUME IInv, IInv', Tokens, page.up, WriteLands PROVE Tokens'
<1>1. PageStays /\ toHost' = toHost
  BY WriteLandsDoes
<1>2. Less(toPage, toPage', Verdicts)
  <2>1. PICK w : \/ toPage' = toPage
                 \/ Acknowledges(w).type = "acknowledged" /\ Answers1(Acknowledges(w))
    BY WriteLandsDoes
  <2>2. Verdicts \cap Snapshots = {} /\ \A a : a.type = "acknowledged" => a \notin Verdicts
    BY DEF Verdicts, Snapshots
  <2>. QED BY <2>1, <2>2, LessSame, AnswersLess
<1>3. /\ \A op \in CurOps' : op.request = slot.request /\ slot.phase = "preparing"
      /\ \A op, other \in CurOps' : op = other
      /\ CurOps = {} => CurOps' = {}
  BY LandsWork, AheadFields DEF Tokens, OfPrepare
<1>4. /\ \A c \in CurCommits' : OfCommit(c) /\ c.value = Target
      /\ CurCommits = {} => CurCommits' = {}
  BY LandsWork, AheadFields DEF Tokens, OfCommit
<1>. QED BY <1>1, <1>2, <1>3, <1>4, LessSame, TokensFrame DEF PageStays

LEMMA VerdictTypes ==
    /\ Verdicts \cap Snapshots = {}
    /\ \A a \in ToPage : a.type \notin {"prepared", "prepareRefused", "committed", "commitRefused"}
                            => a \notin Verdicts
    /\ \A m \in ToHost : m.type \notin {"prepare", "commit"} => m \notin Calls
    /\ Edited \cap Calls = {}
<1>. QED BY DEF Verdicts, Snapshots, Calls, Edited

LEMMA TokensMessage ==
    ASSUME IInv, IInv', Numbered, Tokens, page.up, HandleMessage, ~HandleReady
    PROVE  Tokens'
<1>1. Less(toHost, toHost', Calls) /\ slot' = slot
  BY MessageTakes, TakesLess DEF PageStays
<1>2. CASE HandleEdits
  BY <1>1, <1>2, HandleEditsDoes, LessSame, TokensStill DEF WorkStays
<1>3. CASE HandleSession
  BY <1>1, <1>3, HandleSessionDoes, LessSame, TokensStill DEF WorkStays, HostRests
<1>4. CASE HandleDiscard
  <2>1. PICK a \in ToPage : /\ a.type = "discarded" /\ Answers1(a)
    BY <1>4, HandleDiscardDoes
  <2>2. WorkStays
    BY <1>4, <2>1, HandleDiscardDoes DEF Answers1, Draws, WorkStays
  <2>. QED BY <1>1, <2>1, <2>2, AnswersLess, VerdictTypes, TokensStill
<1>5. CASE handle_save
  <2>1. WorkStays
    BY <1>5, HandleSaveDoes DEF Draws, WorkStays
  <2>2. Less(toPage, toPage', Verdicts)
    BY <1>5, HandleSaveDoes, LessGrows, DrawsLess, VerdictTypes
  <2>. QED BY <1>1, <2>1, <2>2, TokensStill
<1>6. CASE HandleAbandon
  BY <1>1, <1>6, HandleAbandonDoes, LessSame, TokensStill DEF WorkStays
<1>7. CASE HandleApplied
  BY <1>1, <1>7, HandleAppliedDoes, LessSame, TokensStill DEF WorkStays
<1>. QED BY <1>2, <1>3, <1>4, <1>5, <1>6, <1>7, TokensHandlePrepare, TokensHandleCommit
         DEF HandleMessage

LEMMA TokensOwn ==
    ASSUME IInv, IInv', Numbered, Tokens, page.up, HostOwn
    PROVE  Tokens'
<1>1. Less(toHost, toHost', Calls) /\ slot' = slot
  BY HostOwnStays, LessSame
<1>2. CASE SaveEnds
  <2>1. PICK a \in ToPage : a.type = "saved" /\ Answers1(a)
    BY <1>2, SaveEndsDoes
  <2>2. WorkStays
    BY <1>2, <2>1, SaveEndsDoes DEF Answers1, Draws, WorkStays
  <2>. QED BY <1>1, <2>1, <2>2, AnswersLess, VerdictTypes, TokensStill
<1>3. CASE CompleteReady
  BY <1>3, CompleteReadyDoes DEF IInv, Loading
<1>4. CASE PostSnapshot
  <2>1. PICK a \in ToPage : a.type = "snapshot" /\ Pushed(toPage, toPage', a)
    BY <1>4, PostSnapshotDoes
  <2>2. Less(toPage, toPage', Verdicts)
    BY <2>1, PushedLess, VerdictTypes
  <2>. QED BY <1>1, <1>4, <2>2, PostSnapshotDoes, TokensStill DEF WorkStays
<1>5. CASE LeaseExpires
  BY <1>1, <1>5, LeaseExpiresDoes, LessSame, TokensStill DEF WorkStays
<1>6. CASE OtherPanelEdits
  <2>1. Less(toPage, toPage', Verdicts)
    BY <1>6, OtherPanelEditsDoes, DrawsLess, VerdictTypes
  <2>. QED BY <1>1, <1>6, <2>1, OtherPanelEditsDoes, TokensStill DEF WorkStays, Draws
<1>7. ASSUME NEW moved \in BOOLEAN, Refresh(moved) PROVE Tokens'
  <2>1. Less(toPage, toPage', Verdicts)
    BY <1>7, RefreshDoes, DrawsLess, VerdictTypes
  <2>. QED BY <1>1, <1>7, <2>1, RefreshDoes, TokensStill DEF WorkStays, Draws
<1>8. CASE GrantSession
  <2>1. PICK a \in ToPage : a.type = "session" /\ (Answers1(a) \/ Grows(toPage, toPage', a))
    BY <1>8, GrantSessionDoes
  <2>2. WorkStays
    BY <1>8, GrantSessionDoes DEF Answers1, Draws, WorkStays, HostRests
  <2>3. Less(toPage, toPage', Verdicts)
    BY <2>1, AnswersLess, LessGrows, VerdictTypes
  <2>. QED BY <1>1, <2>2, <2>3, TokensStill
<1>9. ASSUME NEW post \in host.posting, PostEnds(post) PROVE Tokens'
  BY <1>1, <1>9, PostEndsDoes, LessSame, TokensStill DEF WorkStays, HostRests
<1>. QED BY <1>2, <1>3, <1>4, <1>5, <1>6, <1>7, <1>8, <1>9, TokensLands, TokensCommits,
            TokensPreparation
         DEF HostOwn

\* The replay of the page has ended, or has not begun.
LEMMA NoTokensPage ==
    ASSUME IInv', HostStays, NoneIn(toHost, Calls), CurOps = {}, CurCommits = {},
           NoneIn(toPage', Verdicts), Less(toHost, toHost', Calls)
    PROVE  Tokens'
<1>1. CurOps' = {} /\ CurCommits' = {}
  BY DEF HostStays, CurOps, CurCommits
<1>2. NoneIn(toHost', Calls)
  BY DEF Less
<1>. QED BY <1>1, <1>2, TokensNone DEF NoTokens

LEMMA TokensPage ==
    ASSUME IInv, IInv', Tokens, Bound, Sessions, Arriving, page.up, PageActs \/ PageRuns
    PROVE  Tokens'
<1>1. HostStays /\ WorkStays
  BY PageStepsRest DEF HostStays, WorkStays
<1>2. ASSUME slot' = slot, Less(toPage, toPage', Verdicts), Less(toHost, toHost', Calls)
      PROVE  Tokens'
  BY <1>1, <1>2, TokensStill
<1>3. Less(toHost, toHost, Calls) /\ Less(toPage, toPage, Verdicts)
  BY LessSame
<1>4. ASSUME NEW m \in ToHost, m.type \notin {"prepare", "commit"}, Pushed(toHost, toHost', m)
      PROVE  Less(toHost, toHost', Calls)
  BY <1>4, PushedLess, VerdictTypes
<1>5. ASSUME NEW w, NEW q, ShownAs(w, q) PROVE Less(q, toHost', Calls)
  BY <1>5, ShownLess, VerdictTypes
<1>6. ASSUME NEW m, PageTakes1(m) PROVE Less(toPage, toPage', Verdicts)
  BY <1>6, PageTakesLess
<1>7. CASE Edit
  BY <1>2, <1>3, <1>5, <1>7, EditDoes
<1>8. CASE Discard \/ RequestSession \/ RequestSave
  BY <1>2, <1>3, <1>4, <1>8, DiscardDoes, RequestSessionDoes, RequestSaveDoes
<1>9. ASSUME NEW direction \in Directions, Begin(direction) PROVE Tokens'
  <2>1. NoTokens
    BY <1>9, BeginDoes, NoTokensIdle
  <2>. QED BY <1>1, <1>3, <1>9, <2>1, BeginDoes, NoTokensPage DEF NoTokens
<1>11. CASE on_prepare_refused \/ on_commit_refused
  <2>1. PICK m : PageTakes1(m) /\ m.type \in {"prepareRefused", "commitRefused"}
    BY <1>11, OnRefusedDoes
  <2>2. m \in Verdicts /\ toHost' = toHost
    BY <1>11, <2>1, OnRefusedDoes DEF PageTakes1, Verdicts
  <2>. QED BY <1>1, <1>3, <2>1, <2>2, VerdictTaken, NoTokensPage
<1>12. CASE on_committed
  <2>1. PICK m : PageTakes1(m) /\ m.type = "committed"
    BY <1>12, OnCommittedDoes
  <2>2. PICK w : ShownAs(w, toHost)
    BY <1>12, OnCommittedDoes
  <2>3. m \in Verdicts
    BY <2>1 DEF PageTakes1, Verdicts
  <2>. QED BY <1>1, <1>5, <2>1, <2>2, <2>3, VerdictTaken, NoTokensPage
<1>13. CASE OnAcknowledged \/ OnDiscarded
  BY <1>2, <1>3, <1>6, <1>13, OnAcknowledgedDoes, OnDiscardedDoes
<1>14. CASE OnSession
  <2>1. slot.phase \notin {"preparing", "committing"}
    BY <1>14, OnSessionDoes DEF Bound
  <2>2. NoTokens
    BY <2>1, NoTokensIdle
  <2>3. Less(toHost, toHost', Calls) /\ \E m : PageTakes1(m)
    BY <1>3, <1>5, <1>14, OnSessionDoes
  <2>4. NoneIn(toPage', Verdicts)
    BY <2>2, <2>3 DEF NoTokens, PageTakes1, Popped
  <2>. QED BY <1>1, <2>2, <2>3, <2>4, NoTokensPage DEF NoTokens
<1>15. CASE OnSaved
  BY <1>2, <1>5, <1>6, <1>15, OnSavedDoes
<1>16. CASE Ignore
  BY <1>16, IgnoreDoes
<1>17. CASE OnSnapshot
  <2>1. PICK m : PageTakes1(m) /\ (ShowsAgain(m) \/ Republishes(m) \/ Leaves(m))
    BY <1>17, OnSnapshotDoes DEF ShowsFirst
  <2>2. \A k : AppliedTo(m, k) => k \notin Calls
    BY DEF AppliedTo, Calls
  <2>3. CASE ShowsAgain(m)
    <3>1. PICK k, q, w : AppliedTo(m, k) /\ Pushed(toHost, q, k) /\ ShownAs(w, q)
      BY <2>3 DEF ShowsAgain
    <3>2. Less(toHost, toHost', Calls)
      BY <1>5, <2>2, <3>1, PushedLess, LessTrans
    <3>. QED BY <1>2, <1>6, <2>1, <2>3, <3>2 DEF ShowsAgain
  <2>4. CASE Republishes(m)
    <3>1. PICK k, q, e : /\ AppliedTo(m, k) /\ Pushed(toHost, q, e) /\ Pushed(q, toHost', k)
                         /\ e \in ToHost /\ e.type = "edits"
      BY <2>4 DEF Republishes
    <3>2. e \notin Calls
      BY <3>1 DEF Calls
    <3>3. Less(toHost, toHost', Calls)
      BY <2>2, <3>1, <3>2, PushedLess, LessTrans
    <3>. QED BY <1>2, <1>6, <2>1, <2>4, <3>3 DEF Republishes
  <2>5. CASE Leaves(m)
    <3>1. Less(toHost, toHost', Calls)
      BY <2>2, <2>5, PushedLess DEF Leaves
    <3>. QED BY <1>2, <1>6, <2>1, <2>5, <3>1 DEF Leaves
  <2>. QED BY <2>1, <2>3, <2>4, <2>5
<1>. QED BY <1>7, <1>8, <1>9, <1>11, <1>12, <1>13, <1>14, <1>15, <1>16, <1>17, TokensPrepare,
            TokensOnPrepared DEF PageActs, PageRuns, OnMessage

\* The page that is shown its first snapshot: nothing of an earlier load is left.
LEMMA FirstShown ==
    ASSUME IInv, Arriving, ~page.up, OnSnapshot
    PROVE  \E m : /\ PageTakes1(m) /\ ShowsFirst(m) /\ m \in FirstOnes /\ Waiting
                  /\ NoneIn(toPage', Heralded) /\ HostStays
<1>1. PICK m : PageTakes1(m) /\ m.type = "snapshot" /\ ShowsFirst(m)
  BY OnSnapshotDoes DEF ShowsAgain, Republishes, Leaves
<1>2. m \in FirstOnes /\ m \in Range(toPage)
  BY <1>1 DEF PageTakes1, ShowsFirst, FirstOnes
<1>3. NoneIn(toPage', Heralded)
  BY <1>1, <1>2 DEF PageTakes1, Popped, Arriving
<1>4. Firsts # {}
  BY <1>2, ReadyIn DEF NoneIn
<1>5. Waiting
  BY <1>4, WaitingIs DEF IInv, Loading
<1>. QED BY <1>1, <1>2, <1>3, <1>5, OnSnapshotDoes

LEMMA TokensFirst ==
    ASSUME IInv, IInv', Arriving, ~page.up, OnSnapshot PROVE Tokens'
<1>1. PICK m : ShowsFirst(m) /\ Waiting /\ NoneIn(toPage', Heralded) /\ HostStays
  BY FirstShown
<1>2. PICK k, q, w : AppliedTo(m, k) /\ Pushed(toHost, q, k) /\ ShownAs(w, q)
  BY <1>1 DEF ShowsFirst
<1>3. k \notin Calls
  BY <1>2 DEF AppliedTo, Calls
<1>4. Less(toHost, toHost', Calls)
  BY <1>2, <1>3, ShownLess, VerdictTypes, PushedLess, LessTrans
<1>5. NoneIn(toHost, Calls) /\ CurOps = {} /\ CurCommits = {}
  BY <1>1 DEF Waiting, NoneIn, Range
<1>6. NoneIn(toPage', Verdicts)
  <2>1. Verdicts \subseteq Heralded
    BY DEF Verdicts, Heralded
  <2>. QED BY <1>1, <2>1 DEF NoneIn
<1>. QED BY <1>1, <1>4, <1>5, <1>6, NoTokensPage

LEMMA LoadDown == NewPage.up = FALSE
<1>. QED BY DEF NewPage

LEMMA NextTokens ==
    ASSUME IInv, IInv', Numbered, Arriving, Tokens, Bound, Sessions, [Next]_vars
    PROVE  Tokens'
<1>1. CASE ~page'.up
  BY <1>1 DEF Tokens
<1>2. CASE UNCHANGED vars
  BY <1>2 DEF vars, Tokens, OfPrepare, OfCommit, CurOps, CurCommits, Target
<1>3. ASSUME page'.up, ~page.up, Next PROVE Tokens'
  <2>1. CASE PageActs \/ PageRuns \/ Load
    BY <1>3, <2>1, DownSteps, TokensFirst, IgnoreDoes
  <2>2. CASE HandleMessage \/ HostOwn
    <3>1. page' = page
      BY <2>2, HostOwnStays, MessageTakes, HandleReadyDoes DEF PageStays
    <3>. QED BY <1>3, <3>1
  <2>. QED BY <1>3, <2>1, <2>2 DEF Next, HostRuns, HostOwn
<1>4. ASSUME page'.up, page.up, Next PROVE Tokens'
  <2>1. CASE Load
    BY <1>4, <2>1, LoadDoes, LoadDown
  <2>2. CASE HandleReady
    <3>1. PICK m : Takes(m) /\ m.type = "ready"
      BY <2>2, HandleReadyDoes
    <3>. QED BY <1>4, <3>1, ReadyIn DEF Takes, IInv, Loading
  <2>. QED BY <1>4, <2>1, <2>2, TokensPage, TokensMessage, TokensOwn DEF Next, HostRuns, HostOwn
<1>. QED BY <1>1, <1>2, <1>3, <1>4

\* The host does not touch the page.
LEMMA HostSteps ==
    ASSUME IInv, HandleMessage \/ HostOwn PROVE PageStays
<1>. QED BY HostOwnStays, MessageTakes, HandleReadyDoes DEF PageStays

LEMMA BoundSame ==
    ASSUME Bound, slot' = slot, page'.session = page.session,
           page'.undo = page.undo, page'.redo = page.redo
    PROVE  Bound'
<1>1. \A direction : stack_for(page', direction) = stack_for(page, direction)
  BY DEF stack_for
<1>. QED BY <1>1 DEF Bound

LEMMA BoundFree ==
    ASSUME slot'.phase \notin {"preparing", "committing"} PROVE Bound'
<1>. QED BY DEF Bound

LEMMA NextBound ==
    ASSUME IInv, Arriving, Tokens, Bound, Sessions, [Next]_vars
    PROVE  Bound'
<1>1. CASE HandleMessage \/ HostOwn \/ UNCHANGED vars
  BY <1>1, HostSteps, BoundSame DEF PageStays, vars
<1>2. CASE Edit
  BY <1>2, EditDoes, BoundFree
<1>3. CASE Discard
  BY <1>3, DiscardDoes, BoundFree
<1>4. CASE RequestSession
  <2>1. slot.phase \notin {"preparing", "committing"}
    BY <1>4, RequestSessionDoes DEF Bound
  <2>. QED BY <1>4, <2>1, RequestSessionDoes, BoundFree
<1>5. CASE RequestSave
  BY <1>5, RequestSaveDoes, BoundSame DEF Quietly
<1>6. ASSUME NEW direction \in Directions, Begin(direction) PROVE Bound'
  BY <1>6, BeginDoes, BoundFree
<1>7. CASE Prepare
  BY <1>7, PrepareDoes DEF Bound
<1>8. CASE page.up /\ on_prepared
  BY <1>8, OnPreparedDoes, BoundFree DEF Bound
<1>9. CASE page.up /\ (on_prepare_refused \/ on_commit_refused)
  BY <1>9, OnRefusedDoes, BoundFree
<1>10. CASE page.up /\ on_committed
  BY <1>10, OnCommittedDoes, BoundFree
<1>11. CASE page.up /\ OnAcknowledged
  BY <1>11, OnAcknowledgedDoes, BoundSame DEF Quietly
<1>12. CASE page.up /\ OnDiscarded
  <2>1. slot.phase \notin {"preparing", "committing"}
    BY <1>12, OnDiscardedDoes DEF Bound
  <2>. QED BY <1>12, <2>1, OnDiscardedDoes, BoundFree
<1>13. CASE page.up /\ OnSession
  <2>1. slot.phase \notin {"preparing", "committing"}
    BY <1>13, OnSessionDoes DEF Bound
  <2>. QED BY <1>13, <2>1, OnSessionDoes, BoundFree
<1>14. CASE page.up /\ OnSaved
  BY <1>14, OnSavedDoes, BoundSame DEF ShownAs
<1>15. CASE OnSnapshot
  <2>1. PICK m : ShowsFirst(m) \/ ShowsAgain(m) \/ Republishes(m) \/ Leaves(m)
    BY <1>15, OnSnapshotDoes
  <2>2. CASE ShowsFirst(m)
    BY <2>2, BoundFree DEF ShowsFirst
  <2>3. CASE ShowsAgain(m)
    BY <2>3, BoundSame DEF ShowsAgain, ShownAs
  <2>4. CASE Republishes(m) \/ Leaves(m)
    BY <2>4, BoundSame DEF Republishes, Leaves
  <2>. QED BY <2>1, <2>2, <2>3, <2>4
<1>16. CASE Ignore
  BY <1>16, IgnoreDoes, BoundSame
<1>17. CASE Load
  BY <1>17, LoadDoes, BoundFree DEF Idle
<1>. QED BY <1>1, <1>2, <1>3, <1>4, <1>5, <1>6, <1>7, <1>8, <1>9, <1>10, <1>11, <1>12, <1>13, <1>14,
            <1>15, <1>16, <1>17
         DEF Next, PageActs, PageRuns, OnMessage, HostRuns, HostOwn
=============================================================================

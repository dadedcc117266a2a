----------------------- MODULE HistoryDocumentProofs -----------------------
(***************************************************************************)
(* When the page comes to rest it shows the durable document, and its      *)
(* history leads there, for any numbers of edits, replays, saves and       *)
(* faults.  The invariant is IInv /\ DocInv of HistoryReplayProofs, which  *)
(* also proves the parts of DocInv about loads, snapshots and the replay   *)
(* under way.  Here is the rest: what is asked of the edit session         *)
(* (Sessions), how edits are published and acknowledged (Pipeline), which  *)
(* values occur (Values), what cell, durable edits and snapshots have to   *)
(* do with each other (Document), and that the history is a chain through  *)
(* the cell (Linked).                                                      *)
(***************************************************************************)
EXTENDS HistoryReplayProofs

-----------------------------------------------------------------------------
(* The edit session of the page *)

SessionHost == Asks \cup Edited
NoneHeld == \A w \in Range(writes) : ~Owns(w.session)

LEMMA AskTypes ==
    /\ \A m \in ToHost : /\ m \in Asks <=> m.type \in {"discard", "session"}
                         /\ m \in Discards <=> m.type = "discard"
                         /\ m \in Edited <=> m.type = "edits"
    /\ \A m \in ToPage : /\ m \in Replies <=> m.type \in {"discarded", "session"}
                         /\ m \in Granted <=> m.type = "session" /\ m.granted
    /\ Discards \subseteq Asks /\ Granted \subseteq Replies /\ Edited \cap Asks = {}
    /\ Replies \cap Snapshots = {}
<1>. QED BY DEF Asks, Discards, Edited, Replies, Granted, Snapshots

LEMMA RangeTypes ==
    ASSUME IInv
    PROVE  (\A m \in Range(toHost) : m \in ToHost) /\ (\A m \in Range(toPage) : m \in ToPage)
<1>. QED BY HostState DEF Range

LEMMA RangeTypesNext ==
    ASSUME IInv'
    PROVE  (\A m \in Range(toHost') : m \in ToHost) /\ (\A m \in Range(toPage') : m \in ToPage)
<1>1. toHost' \in Seq(ToHost) /\ toPage' \in Seq(ToPage)
  BY DEF IInv, Types, WireTypes
<1>. QED BY <1>1 DEF Range

LEMMA SessionsSame ==
    ASSUME IInv, IInv', Sessions, page.up,
           page'.session = page.session,
           page'.session # "held" => ~page'.saving /\ page'.published = Nothing,
           host'.session = host.session, Range(writes') \subseteq Range(writes),
           Less(toHost, toHost', Asks), Less(toPage, toPage', Replies),
           NoneAfter(toHost', Discards, Edited),
           NoneIn(toHost', Discards) => NoneIn(toHost, Discards),
           page'.session # "held" => Less(toHost, toHost', Edited),
           host'.claiming => host.claiming
    PROVE  Sessions'
<1>1. \A m \in Range(toHost') :
        /\ m.type = "discard" => page'.session = "discarding"
        /\ m.type = "session" => page'.session = "requested"
  <2>1. \A m \in Range(toHost') : m.type \in {"discard", "session"} => m \in Range(toHost)
    BY RangeTypesNext, AskTypes DEF Less
  <2>. QED BY <2>1 DEF Sessions
<1>2. \A m \in Range(toPage') :
        /\ m.type = "discarded" => page'.session = "discarding"
        /\ m.type = "session" => page'.session = "requested"
  <2>1. \A m \in Range(toPage') : m.type \in {"discarded", "session"} => m \in Range(toPage)
    BY RangeTypesNext, AskTypes DEF Less
  <2>. QED BY <2>1 DEF Sessions
<1>3. /\ NoneAfter(toHost', Asks, Asks) /\ NoneAfter(toPage', Replies, Replies)
      /\ NoneIn(toHost', Asks) \/ NoneIn(toPage', Replies)
      /\ ~NoneIn(toPage', Granted) => ~NoneIn(toPage, Granted)
  BY AskTypes DEF Less, Sessions
<1>4. ASSUME page'.session # "held", NoneIn(toHost', Discards)
      PROVE  NoneIn(toHost', Edited) /\ NoneHeld'
  <2>1. NoneIn(toHost, Edited) /\ NoneHeld
    BY <1>4 DEF Sessions, NoneHeld
  <2>2. NoneIn(toHost', Edited)
    BY <1>4, <2>1 DEF Less
  <2>. QED BY <2>1, <2>2 DEF NoneHeld, Owns
<1>5. host'.claiming => page'.session = "requested" /\ NoneIn(toHost', Asks) /\ NoneIn(toPage', Replies)
  BY DEF Less, Sessions
<1>. QED BY <1>1, <1>2, <1>3, <1>4, <1>5 DEF Sessions, NoneHeld

\* While the session is held, nothing is asked about it.
LEMMA HeldQuiet ==
    ASSUME IInv, Sessions, page.up, page.session \in {"held", "none"}
    PROVE  /\ NoneIn(toHost, Asks) /\ NoneIn(toHost, Discards)
           /\ NoneIn(toPage, Replies) /\ NoneIn(toPage, Granted) /\ ~host.claiming
<1>. QED BY RangeTypes, AskTypes DEF Sessions, NoneIn

\* A page that holds its session, with nothing asked.
LEMMA SessionsHeld ==
    ASSUME IInv', page'.session = "held", host'.session # 0, ~host'.claiming,
           NoneIn(toHost', Asks), NoneIn(toPage', Replies)
    PROVE  Sessions'
<1>1. NoneAfter(toHost', Asks, Asks) /\ NoneAfter(toPage', Replies, Replies)
  BY OrderNone
<1>2. NoneIn(toHost', Discards) /\ NoneIn(toPage', Granted)
  BY RangeTypesNext, AskTypes DEF NoneIn
<1>3. NoneAfter(toHost', Discards, Edited)
  BY <1>2, OrderNone
<1>4. /\ \A m \in Range(toHost') : m.type \notin {"discard", "session"}
      /\ \A m \in Range(toPage') : m.type \notin {"discarded", "session"}
  BY RangeTypesNext, AskTypes DEF NoneIn
<1>. QED BY <1>1, <1>2, <1>3, <1>4 DEF Sessions

\* One without a session, which has asked for nothing, has asked, or is answered.
LEMMA SessionsAsked ==
    ASSUME IInv', page'.session # "held", ~page'.saving, page'.published = Nothing,
           ~host'.claiming,
           NEW q, NEW m, Pushed(q, toHost', m), NoneIn(q, Asks), NoneIn(toPage', Replies),
           m.type = "discard" => page'.session = "discarding",
           m.type = "session" => page'.session = "requested",
           m \notin Edited,
           m.type = "discard" \/ (NoneIn(q, Edited) /\ NoneHeld')
    PROVE  Sessions'
<1>1. NoneAfter(toHost', Asks, Asks)
  <2>1. NoneAfter(q, Asks, Asks)
    BY OrderNone
  <2>. QED BY <2>1 DEF Pushed
<1>2. NoneAfter(toPage', Replies, Replies)
  BY OrderNone
<1>3. NoneIn(toPage', Granted)
  BY RangeTypesNext, AskTypes DEF NoneIn
<1>4. NoneAfter(toHost', Discards, Edited)
  <2>1. NoneIn(q, Discards)
    BY AskTypes DEF NoneIn
  <2>2. NoneAfter(q, Discards, Edited)
    BY <2>1, OrderNone
  <2>. QED BY <2>2 DEF Pushed
<1>5. \A k \in Range(toHost') : k \in Asks => k = m
  BY DEF Pushed, NoneIn
<1>6. \A k \in Range(toHost') : /\ k.type = "discard" => page'.session = "discarding"
                                /\ k.type = "session" => page'.session = "requested"
  BY <1>5, RangeTypesNext, AskTypes
<1>7. \A k \in Range(toPage') : k.type \notin {"discarded", "session"}
  BY RangeTypesNext, AskTypes DEF NoneIn
<1>8. NoneIn(toHost', Discards) => NoneIn(toHost', Edited) /\ NoneHeld'
  <2>1. m \in Range(toHost') /\ m \in ToHost
    BY RangeTypesNext DEF Pushed
  <2>2. CASE m.type = "discard"
    BY <2>1, <2>2, AskTypes DEF NoneIn
  <2>3. CASE m.type # "discard"
    BY <2>3 DEF Pushed
  <2>. QED BY <2>2, <2>3
<1>. QED BY <1>1, <1>2, <1>3, <1>4, <1>6, <1>7, <1>8 DEF Sessions, NoneHeld

LEMMA SessionsAnswered ==
    ASSUME IInv', page'.session # "held", ~page'.saving, page'.published = Nothing,
           ~host'.claiming,
           NoneIn(toHost', Asks), NoneIn(toHost', Edited), NoneHeld',
           NEW q, NoneIn(q, Replies), NEW a, Grows(q, toPage', a),
           a.type = "discarded" => page'.session = "discarding",
           a.type = "session" => page'.session = "requested",
           a \in Granted => host'.session # 0
    PROVE  Sessions'
<1>1. NoneAfter(toPage', Replies, Replies)
  <2>1. NoneAfter(q, Replies, Replies)
    BY OrderNone
  <2>. QED BY <2>1 DEF Pushed, Grows
<1>2. NoneAfter(toHost', Asks, Asks) /\ NoneAfter(toHost', Discards, Edited)
  BY OrderNone
<1>3. \A k \in Range(toPage') : k \in Replies => k = a
  BY DEF Pushed, Grows, NoneIn
<1>4. \A k \in Range(toPage') : /\ k.type = "discarded" => page'.session = "discarding"
                                /\ k.type = "session" => page'.session = "requested"
  BY <1>3, RangeTypesNext, AskTypes
<1>5. ~NoneIn(toPage', Granted) => host'.session # 0
  <2>1. \A k \in Range(toPage') : k \in Granted => k = a
    BY <1>3, RangeTypesNext, AskTypes
  <2>. QED BY <2>1 DEF NoneIn
<1>6. \A k \in Range(toHost') : k.type \notin {"discard", "session"}
  BY RangeTypesNext, AskTypes DEF NoneIn
<1>. QED BY <1>1, <1>2, <1>4, <1>5, <1>6 DEF Sessions, NoneHeld

LEMMA HeldOn ==
    ASSUME IInv, IInv', Sessions, page.up, HostStays,
           page.session = "held", page'.session = "held",
           Less(toHost, toHost', Asks), Less(toPage, toPage', Replies)
    PROVE  Sessions'
<1>1. NoneIn(toHost, Asks) /\ NoneIn(toPage, Replies) /\ ~host.claiming
  BY HeldQuiet
<1>2. NoneIn(toHost', Asks) /\ NoneIn(toPage', Replies)
  BY <1>1 DEF Less
<1>3. host'.session # 0 /\ ~host'.claiming
  BY <1>1 DEF HostStays, Sessions
<1>. QED BY <1>2, <1>3, SessionsHeld

LEMMA LessAsks ==
    /\ \A w, q : ShownAs(w, q) => Less(q, toHost', Asks)
    /\ \A q, p, m : Pushed(q, p, m) /\ m \in ToHost /\ m.type \notin {"discard", "session"}
                      => Less(q, p, Asks)
    /\ Less(toHost, toHost, Asks) /\ Less(toPage, toPage, Replies)
    /\ \A m : PageTakes1(m) => Less(toPage, toPage', Replies)
<1>1. ASSUME NEW w, NEW q, ShownAs(w, q) PROVE Less(q, toHost', Asks)
  BY <1>1, ShownLess, AskTypes
<1>2. ASSUME NEW q, NEW p, NEW m, Pushed(q, p, m), m \in ToHost,
             m.type \notin {"discard", "session"}
      PROVE  Less(q, p, Asks)
  BY <1>2, PushedLess, AskTypes
<1>3. ASSUME NEW m, PageTakes1(m) PROVE Less(toPage, toPage', Replies)
  BY <1>3, PageTakesLess
<1>. QED BY <1>1, <1>2, <1>3, LessSame

\* What the page may send that says nothing of the session.
LEMMA SessionsOff ==
    ASSUME IInv, IInv', Sessions, page.up, HostStays,
           page.session # "held", page'.session = page.session,
           page'.saving = page.saving, page'.published = page.published,
           toHost' = toHost
               \/ \E m \in ToHost : /\ m.type \notin {"discard", "session", "edits"}
                                    /\ Pushed(toHost, toHost', m),
           Less(toPage, toPage', Replies)
    PROVE  Sessions'
<1>1. Less(toHost, toHost', Asks) /\ Less(toHost, toHost', Edited)
      /\ NoneAfter(toHost', Discards, Edited) /\ (NoneIn(toHost', Discards) => NoneIn(toHost, Discards))
  <2>1. CASE toHost' = toHost
    BY <2>1, LessSame DEF Sessions
  <2>2. ASSUME NEW m \in ToHost, m.type \notin {"discard", "session", "edits"},
               Pushed(toHost, toHost', m)
        PROVE  /\ Less(toHost, toHost', Asks) /\ Less(toHost, toHost', Edited)
               /\ NoneAfter(toHost', Discards, Edited)
               /\ NoneIn(toHost', Discards) => NoneIn(toHost, Discards)
    <3>1. m \notin Asks /\ m \notin Edited
      BY <2>2, AskTypes
    <3>2. Less(toHost, toHost', Asks) /\ Less(toHost, toHost', Edited)
      BY <2>2, <3>1, PushedLess
    <3>3. NoneAfter(toHost', Discards, Edited)
      BY <2>2, <3>1 DEF Pushed, Sessions
    <3>4. NoneIn(toHost', Discards) => NoneIn(toHost, Discards)
      BY <2>2 DEF Pushed
    <3>. QED BY <3>2, <3>3, <3>4
  <2>. QED BY <2>1, <2>2
<1>2. host'.session = host.session /\ Range(writes') = Range(writes) /\ host'.claiming = host.claiming
  BY DEF HostStays
<1>3. page'.session # "held" => ~page'.saving /\ page'.published = Nothing
  BY DEF Sessions
<1>. QED BY <1>1, <1>2, <1>3, SessionsSame

LEMMA SessionsDiscard ==
    ASSUME IInv, IInv', Sessions, Discard PROVE Sessions'
<1>1. PICK m \in ToHost : m.type = "discard" /\ Pushed(toHost, toHost', m)
  BY DiscardDoes
<1>2. /\ page.up /\ page.session = "held" /\ page'.session = "discarding" /\ toPage' = toPage
      /\ ~page'.saving /\ page'.published = Nothing /\ HostStays
  BY DiscardDoes, PageStepsRest DEF PageActs
<1>3. NoneIn(toHost, Asks) /\ NoneIn(toPage, Replies) /\ ~host'.claiming
  BY <1>2, HeldQuiet DEF HostStays
<1>4. m \notin Edited
  BY <1>1, AskTypes
<1>. QED BY <1>1, <1>2, <1>3, <1>4, SessionsAsked

LEMMA SessionsRequest ==
    ASSUME IInv, IInv', Sessions, RequestSession PROVE Sessions'
<1>1. PICK m \in ToHost : m.type = "session" /\ Pushed(toHost, toHost', m)
  BY RequestSessionDoes
<1>2. /\ page.up /\ page.session = "none" /\ page'.session = "requested" /\ toPage' = toPage
      /\ HostStays /\ page'.saving = page.saving /\ page'.published = page.published
  BY RequestSessionDoes DEF Quietly, PageLike
<1>3. /\ NoneIn(toHost, Asks) /\ NoneIn(toPage, Replies) /\ NoneIn(toHost, Discards)
      /\ ~host'.claiming
  BY <1>2, HeldQuiet DEF HostStays
<1>4. m \notin Edited
  BY <1>1, AskTypes
<1>5. ~page.saving /\ page.published = Nothing /\ NoneIn(toHost, Edited) /\ NoneHeld
  BY <1>2, <1>3 DEF Sessions, NoneHeld
<1>6. NoneHeld'
  BY <1>2, <1>5 DEF HostStays, NoneHeld, Owns
<1>. QED BY <1>1, <1>2, <1>3, <1>4, <1>5, <1>6, SessionsAsked

\* The page takes an answer about its session.
LEMMA ReplyTaken ==
    ASSUME IInv, Sessions, page.up, NEW m, PageTakes1(m), m.type \in {"discarded", "session"}
    PROVE  /\ NoneIn(toHost, Asks) /\ NoneIn(toHost, Discards) /\ NoneIn(toPage', Replies)
           /\ ~host.claiming
           /\ m.type = "session" /\ m.granted => host.session # 0
           /\ page.session # "held" => /\ ~page.saving /\ page.published = Nothing
                                       /\ NoneIn(toHost, Edited) /\ NoneHeld
<1>1. m \in Replies /\ m \in Range(toPage) /\ (m.type = "session" /\ m.granted => m \in Granted)
  BY AskTypes DEF PageTakes1
<1>2. NoneIn(toHost, Asks) /\ NoneIn(toPage', Replies) /\ ~host.claiming
  BY <1>1 DEF PageTakes1, Popped, Sessions, NoneIn
<1>3. NoneIn(toHost, Discards)
  BY <1>2, AskTypes DEF NoneIn
<1>4. m.type = "session" /\ m.granted => host.session # 0
  BY <1>1 DEF Sessions, NoneIn
<1>. QED BY <1>2, <1>3, <1>4 DEF Sessions, NoneHeld

LEMMA SessionsOnDiscarded ==
    ASSUME IInv, IInv', Sessions, page.up, OnDiscarded PROVE Sessions'
<1>1. PICK m : PageTakes1(m) /\ m.type = "discarded"
  BY OnDiscardedDoes
<1>2. /\ page.session = "discarding" /\ page'.session = "none" /\ toHost' = toHost
      /\ HostStays /\ page'.saving = page.saving /\ page'.published = page.published
  BY OnDiscardedDoes DEF Quietly, PageLike
<1>3. /\ NoneIn(toHost, Asks) /\ NoneIn(toPage', Replies) /\ NoneIn(toHost, Edited) /\ NoneHeld
      /\ ~page.saving /\ page.published = Nothing /\ ~host'.claiming
  BY <1>1, <1>2, ReplyTaken DEF HostStays
<1>4. NoneHeld'
  BY <1>2, <1>3 DEF HostStays, NoneHeld, Owns
<1>5. \E a : a \notin Granted /\ a.type # "discarded" /\ a.type # "session"
  <2>1. [type |-> "saved"].type = "saved"
    OBVIOUS
  <2>. QED BY <2>1 DEF Granted
<1>. QED BY <1>2, <1>3, <1>4, <1>5, SessionsAnswered DEF Grows

LEMMA SessionsOnSession ==
    ASSUME IInv, IInv', Sessions, page.up, OnSession PROVE Sessions'
<1>1. PICK m : /\ PageTakes1(m) /\ m.type = "session"
               /\ \/ /\ m.granted
                     /\ \E w : w.session = "held" /\ ShownAs(w, toHost)
                  \/ /\ ~m.granted /\ Quietly /\ page'.session = "none"
                     /\ page'.saving = page.saving /\ toHost' = toHost
  BY OnSessionDoes
<1>2. HostStays /\ page.session = "requested"
  BY OnSessionDoes
<1>3. /\ NoneIn(toHost, Asks) /\ NoneIn(toPage', Replies) /\ NoneIn(toHost, Edited) /\ NoneHeld
      /\ ~page.saving /\ page.published = Nothing /\ ~host'.claiming
      /\ m.granted => host.session # 0
  BY <1>1, <1>2, ReplyTaken DEF HostStays
<1>4. ASSUME m.granted, NEW w, w.session = "held", ShownAs(w, toHost) PROVE Sessions'
  <2>1. page'.session = "held"
    BY <1>4 DEF ShownAs
  <2>2. Less(toHost, toHost', Asks)
    BY <1>4, LessAsks
  <2>3. NoneIn(toHost', Asks) /\ host'.session # 0
    BY <1>2, <1>3, <1>4, <2>2 DEF Less, HostStays
  <2>. QED BY <1>3, <2>1, <2>3, SessionsHeld
<1>5. ASSUME Quietly, page'.session = "none", page'.saving = page.saving, toHost' = toHost
      PROVE  Sessions'
  <2>1. NoneHeld' /\ page'.published = page.published
    BY <1>2, <1>3, <1>5 DEF HostStays, NoneHeld, Owns, Quietly, PageLike
  <2>2. \E a : a \notin Granted /\ a.type # "discarded" /\ a.type # "session"
    <3>1. [type |-> "saved"].type = "saved"
      OBVIOUS
    <3>. QED BY <3>1 DEF Granted
  <2>. QED BY <1>3, <1>5, <2>1, <2>2, SessionsAnswered DEF Grows
<1>. QED BY <1>1, <1>4, <1>5

LEMMA SessionsFirst ==
    ASSUME IInv, IInv', Arriving, ~page.up, OnSnapshot PROVE Sessions'
<1>1. PICK m : /\ PageTakes1(m) /\ ShowsFirst(m) /\ m \in FirstOnes /\ Waiting
               /\ NoneIn(toPage', Heralded) /\ HostStays
  BY FirstShown
<1>2. PICK k, q, w : /\ AppliedTo(m, k) /\ Pushed(toHost, q, k)
                     /\ w.session = IF m.session THEN "held" ELSE "none"
                     /\ w.saving = FALSE /\ w.published = Nothing /\ ShownAs(w, q)
  BY <1>1 DEF ShowsFirst
<1>3. m.session = (host.session # 0)
  BY <1>1 DEF PageTakes1, Arriving
<1>4. NoneIn(toPage', Replies)
  <2>1. Replies \subseteq Heralded
    BY DEF Replies, Heralded
  <2>. QED BY <1>1, <2>1 DEF NoneIn
<1>5. NoneIn(toHost, Asks) /\ NoneIn(toHost, Edited) /\ ~host'.claiming
  BY <1>1 DEF Waiting, NoneIn, Range, HostStays
<1>6. k \in ToHost /\ k.type = "applied"
  BY <1>2 DEF AppliedTo
<1>7. page'.session = w.session
  BY <1>2 DEF ShownAs
<1>8. CASE m.session
  <2>1. Less(toHost, q, Asks) /\ Less(q, toHost', Asks)
    BY <1>2, <1>6, LessAsks
  <2>2. NoneIn(toHost', Asks)
    BY <1>5, <2>1 DEF Less
  <2>3. page'.session = "held" /\ host'.session # 0
    BY <1>1, <1>2, <1>3, <1>7, <1>8 DEF HostStays
  <2>. QED BY <1>4, <1>5, <2>2, <2>3, SessionsHeld
<1>9. CASE ~m.session
  <2>1. /\ ~Unpublished(w) /\ page'.session = "none"
        /\ ~page'.saving /\ page'.published = Nothing /\ toHost' = q
    BY <1>2, <1>9 DEF ShownAs, Unpublished
  <2>2. NoneHeld'
    BY <1>1, <1>3, <1>9 DEF NoneHeld, Owns, HostStays
  <2>3. k \notin Edited
    BY <1>6, AskTypes
  <2>. QED BY <1>2, <1>4, <1>5, <1>6, <2>1, <2>2, <2>3, SessionsAsked
<1>. QED BY <1>8, <1>9

\* The page does not change, nor whether the host has a session for it.
LEMMA SessionsFrame ==
    ASSUME IInv', Sessions, page.up, page'.session = page.session, page' = page,
           host.session # 0 => host'.session # 0, host'.claiming = host.claiming,
           Less(toHost, toHost', Asks), Less(toPage, toPage', Replies),
           NoneAfter(toHost', Discards, Edited),
           page'.session # "held" /\ NoneIn(toHost', Discards) => NoneIn(toHost', Edited) /\ NoneHeld'
    PROVE  Sessions'
<1>1. \A m \in Range(toHost') :
        /\ m.type = "discard" => page'.session = "discarding"
        /\ m.type = "session" => page'.session = "requested"
  <2>1. \A m \in Range(toHost') : m.type \in {"discard", "session"} => m \in Range(toHost)
    BY RangeTypesNext, AskTypes DEF Less
  <2>. QED BY <2>1 DEF Sessions
<1>2. \A m \in Range(toPage') :
        /\ m.type = "discarded" => page'.session = "discarding"
        /\ m.type = "session" => page'.session = "requested"
  <2>1. \A m \in Range(toPage') : m.type \in {"discarded", "session"} => m \in Range(toPage)
    BY RangeTypesNext, AskTypes DEF Less
  <2>. QED BY <2>1 DEF Sessions
<1>3. /\ NoneAfter(toHost', Asks, Asks) /\ NoneAfter(toPage', Replies, Replies)
      /\ NoneIn(toHost', Asks) \/ NoneIn(toPage', Replies)
      /\ ~NoneIn(toPage', Granted) => ~NoneIn(toPage, Granted)
  BY AskTypes DEF Less, Sessions
<1>4. host'.claiming => page'.session = "requested" /\ NoneIn(toHost', Asks) /\ NoneIn(toPage', Replies)
  BY DEF Less, Sessions
<1>. QED BY <1>1, <1>2, <1>3, <1>4 DEF Sessions, NoneHeld

\* The host takes a message that is not about the session.
LEMMA SessionsTaken ==
    ASSUME IInv, IInv', Sessions, page.up, PageStays, NEW m, Takes(m),
           m.type \notin {"discard", "session"},
           host'.session = host.session, host'.claiming = host.claiming,
           writes' = writes, Less(toPage, toPage', Replies)
    PROVE  Sessions'
<1>1. Less(toHost, toHost', Asks) /\ Less(toHost, toHost', Edited)
  BY TakesLess
<1>2. m \notin Discards
  BY AskTypes DEF Takes
<1>3. NoneAfter(toHost', Discards, Edited) /\ (NoneIn(toHost', Discards) => NoneIn(toHost, Discards))
  BY <1>2 DEF Takes, Popped, Sessions
<1>4. page' = page
  BY DEF PageStays
<1>5. page'.session # "held" => ~page'.saving /\ page'.published = Nothing
  BY <1>4 DEF Sessions
<1>. QED BY <1>1, <1>3, <1>4, <1>5, SessionsSame

LEMMA SessionsHandleEdits ==
    ASSUME IInv, IInv', Sessions, page.up, HandleEdits PROVE Sessions'
<1>1. PICK m : Takes(m) /\ m.type = "edits"
  BY HandleEditsDoes
<1>2. page' = page /\ host' = host /\ toPage' = toPage
  BY HandleEditsDoes DEF PageStays
<1>3. m \in Edited /\ m \notin Discards /\ m \in Range(toHost)
  BY <1>1, AskTypes DEF Takes
<1>4. Less(toHost, toHost', Asks) /\ Less(toPage, toPage', Replies)
  BY <1>1, <1>2, TakesLess, LessSame
<1>5. NoneAfter(toHost', Discards, Edited) /\ (NoneIn(toHost', Discards) => NoneIn(toHost, Discards))
  BY <1>1, <1>3 DEF Takes, Popped, Sessions
<1>6. page.session # "held" => ~NoneIn(toHost, Discards)
  BY <1>3 DEF Sessions, NoneIn
<1>. QED BY <1>2, <1>4, <1>5, <1>6, SessionsFrame

LEMMA SessionsHandleSession ==
    ASSUME IInv, IInv', Sessions, page.up, HandleSession PROVE Sessions'
<1>1. PICK m : Takes(m) /\ m.type = "session"
  BY HandleSessionDoes
<1>2. page' = page /\ writes' = writes /\ toPage' = toPage /\ host'.session = host.session
  BY HandleSessionDoes DEF PageStays, HostRests, Becomes
<1>3. m \in Asks /\ m \in Range(toHost) /\ page.session = "requested"
  BY <1>1, AskTypes DEF Takes, Sessions
<1>4. NoneIn(toHost', Asks) /\ NoneIn(toPage', Replies)
  BY <1>1, <1>2, <1>3 DEF Takes, Popped, Sessions, NoneIn
<1>5. NoneIn(toHost, Discards)
  BY <1>3, RangeTypes, AskTypes DEF Sessions, NoneIn
<1>6. NoneIn(toHost, Edited) /\ NoneHeld /\ ~page.saving /\ page.published = Nothing
  BY <1>3, <1>5 DEF Sessions, NoneHeld
<1>7. NoneIn(toHost', Edited) /\ NoneHeld'
  BY <1>1, <1>2, <1>6 DEF Takes, Popped, NoneHeld, Owns
<1>8. NoneIn(toPage', Granted)
  BY <1>4, AskTypes DEF NoneIn
<1>9. /\ NoneAfter(toHost', Asks, Asks) /\ NoneAfter(toPage', Replies, Replies)
      /\ NoneAfter(toHost', Discards, Edited)
  BY <1>4, <1>7, OrderNone
<1>10. /\ \A k \in Range(toHost') : k.type \notin {"discard", "session"}
       /\ \A k \in Range(toPage') : k.type \notin {"discarded", "session"}
  BY <1>4, RangeTypesNext, AskTypes DEF NoneIn
<1>. QED BY <1>2, <1>3, <1>4, <1>6, <1>7, <1>8, <1>9, <1>10 DEF Sessions, NoneHeld

LEMMA SessionsGrant ==
    ASSUME IInv, IInv', Numbered, Sessions, page.up, GrantSession PROVE Sessions'
<1>1. page' = page /\ writes' = writes /\ toHost' = toHost /\ host.claiming /\ ~host'.claiming
  BY GrantSessionDoes DEF PageStays
<1>2. page.session = "requested" /\ NoneIn(toHost, Asks) /\ NoneIn(toPage, Replies)
  BY <1>1 DEF Sessions
<1>3. NoneIn(toHost, Discards)
  BY <1>2, AskTypes DEF NoneIn
<1>4. NoneIn(toHost, Edited) /\ NoneHeld /\ ~page.saving /\ page.published = Nothing
  BY <1>2, <1>3 DEF Sessions, NoneHeld
<1>5. PICK a \in ToPage :
        /\ a.type = "session" /\ Answers1(a)
        /\ \/ \E id, ids \in Nat : GrantedIds(id, ids) /\ host'.session = id
           \/ ~a.granted /\ host'.session = host.session
  BY GrantSessionDoes DEF Becomes, HostRests
<1>6. NoneHeld' /\ (a \in Granted => host'.session # 0)
  <2>1. CASE host'.session = host.session
    BY <1>1, <1>4, <1>5, <2>1, HostFields DEF NoneHeld, Owns, Granted, GrantedIds
  <2>2. CASE host'.session = host.sessions + 1
    <3>1. SUFFICES ASSUME NEW w \in Range(writes) PROVE w.session # host'.session
      BY <1>1, <2>2, HostFields DEF NoneHeld, Owns
    <3>2. w.session <= host.sessions /\ w.session \in Nat /\ host.sessions \in Nat
      BY WriteTypes, HostFields DEF Numbered
    <3>. QED BY <3>2, <2>2
  <2>. QED BY <1>5, <2>1, <2>2 DEF GrantedIds
<1>7. PICK q : Draws(q) /\ Grows(q, toPage', a)
  BY <1>5 DEF Answers1
<1>8. NoneIn(q, Replies)
  BY <1>2, <1>7, DrawsLess, AskTypes DEF Less
<1>. QED BY <1>1, <1>2, <1>4, <1>5, <1>6, <1>7, <1>8, SessionsAnswered

LEMMA SessionsHandleDiscard ==
    ASSUME IInv, IInv', Sessions, page.up, HandleDiscard PROVE Sessions'
<1>1. PICK m : Takes(m) /\ m.type = "discard"
  BY HandleDiscardDoes
<1>2. page' = page /\ host'.session = 0
  BY HandleDiscardDoes DEF PageStays, Becomes
<1>3. m \in Asks /\ m \in Discards /\ m \in Range(toHost) /\ page.session = "discarding"
  BY <1>1, AskTypes DEF Takes, Sessions
<1>4. NoneIn(toHost', Asks) /\ NoneIn(toPage, Replies) /\ NoneIn(toHost', Edited)
  BY <1>1, <1>3 DEF Takes, Popped, Sessions, NoneIn
<1>5. ~page.saving /\ page.published = Nothing /\ NoneHeld' /\ ~host'.claiming
  BY <1>2, <1>3, ClaimRests DEF Sessions, NoneHeld, Owns, NoneIn
<1>6. PICK a \in ToPage : a.type = "discarded" /\ Answers1(a)
  BY HandleDiscardDoes
<1>7. PICK q : Draws(q) /\ Grows(q, toPage', a)
  BY <1>6 DEF Answers1
<1>8. NoneIn(q, Replies) /\ a \notin Granted
  BY <1>4, <1>6, <1>7, DrawsLess, AskTypes DEF Less
<1>. QED BY <1>2, <1>3, <1>4, <1>5, <1>6, <1>7, <1>8, SessionsAnswered

\* What the host posts, but for the answers about the session.
LEMMA NoReply ==
    /\ \A a \in ToPage : a.type \notin {"discarded", "session"} => a \notin Replies
    /\ Replies \cap Snapshots = {}
<1>. QED BY AskTypes

LEMMA SessionsMessage ==
    ASSUME IInv, IInv', Numbered, Sessions, page.up, HandleMessage, ~HandleReady
    PROVE  Sessions'
<1>1. PageStays
  BY MessageTakes
<1>2. CASE handle_save
  <2>1. PICK m : Takes(m) /\ m.type = "save"
    BY <1>2, HandleSaveDoes
  <2>2. host'.session = host.session /\ writes' = writes
    BY <1>2, HandleSaveDoes DEF Calm, Becomes
  <2>3. Less(toPage, toPage', Replies)
    BY <1>2, HandleSaveDoes, LessGrows, DrawsLess, NoReply
  <2>4. host'.claiming = host.claiming
    BY <1>2, ClaimRests
  <2>. QED BY <1>1, <2>1, <2>2, <2>3, <2>4, SessionsTaken
<1>3. CASE HandlePrepare
  <2>1. PICK m : /\ Takes(m) /\ m.type = "prepare"
                 /\ \/ toPage' = toPage
                    \/ \E a \in ToPage : a.type = "prepareRefused" /\ Grows(toPage, toPage', a)
    BY <1>3, HandlePrepareDoes
  <2>2. Less(toPage, toPage', Replies)
    BY <2>1, LessGrows, LessSame, NoReply
  <2>3. host'.session = host.session /\ writes' = writes
    BY <1>3, HandlePrepareDoes DEF HostRests, Becomes
  <2>4. host'.claiming = host.claiming
    BY <1>3, ClaimRests
  <2>. QED BY <1>1, <2>1, <2>2, <2>3, <2>4, SessionsTaken
<1>4. CASE HandleAbandon
  BY <1>1, <1>4, HandleAbandonDoes, LessSame, ClaimRests, SessionsTaken
<1>5. CASE HandleCommit
  <2>1. PICK m : /\ Takes(m) /\ m.type = "commit"
                 /\ \/ toPage' = toPage
                    \/ \E a \in ToPage : a.type = "commitRefused" /\ Grows(toPage, toPage', a)
    BY <1>5, HandleCommitDoes
  <2>2. Less(toPage, toPage', Replies)
    BY <2>1, LessGrows, LessSame, NoReply
  <2>. QED BY <1>1, <1>5, <2>1, <2>2, HandleCommitDoes, ClaimRests, SessionsTaken
<1>6. CASE HandleApplied
  BY <1>1, <1>6, HandleAppliedDoes, LessSame, ClaimRests, SessionsTaken DEF Calm, Becomes
<1>. QED BY <1>2, <1>3, <1>4, <1>5, <1>6, SessionsHandleEdits, SessionsHandleSession,
            SessionsHandleDiscard DEF HandleMessage

LEMMA SessionsOwnSame ==
    ASSUME IInv, IInv', Sessions, page.up, HostOwn, ~GrantSession,
           host'.session = host.session, Range(writes') \subseteq Range(writes),
           Less(toPage, toPage', Replies)
    PROVE  Sessions'
<1>1. page' = page /\ toHost' = toHost
  BY HostOwnStays
<1>2. Less(toHost, toHost', Asks) /\ Less(toHost, toHost', Edited)
  BY <1>1, LessSame
<1>3. NoneAfter(toHost', Discards, Edited) /\ (NoneIn(toHost', Discards) => NoneIn(toHost, Discards))
  BY <1>1 DEF Sessions
<1>4. page'.session # "held" => ~page'.saving /\ page'.published = Nothing
  BY <1>1 DEF Sessions
<1>. QED BY <1>1, <1>2, <1>3, <1>4, ClaimRests, SessionsSame

LEMMA SessionsOwn ==
    ASSUME IInv, IInv', Sessions, page.up, HostOwn, ~GrantSession
    PROVE  Sessions'
<1>1. ASSUME NEW type \in {"committed", "commitRefused"}, NEW c, AnsweredBy(c, type)
      PROVE  Less(toPage, toPage', Replies)
  BY <1>1, LessGrows, NoReply DEF AnsweredBy
<1>2. CASE WriteLands
  <2>1. PICK w \in Write :
          /\ Popped(writes, writes', w)
          /\ \/ host' = host /\ toPage' = toPage
             \/ /\ host'.session = host.session /\ Acknowledges(w) \in ToPage
                /\ Acknowledges(w).type = "acknowledged" /\ Answers1(Acknowledges(w))
    BY <1>2, WriteLandsDoes DEF Becomes
  <2>2. Less(toPage, toPage', Replies)
    BY <2>1, AnswersLess, LessSame, NoReply
  <2>. QED BY <2>1, <2>2, SessionsOwnSame DEF Popped
<1>3. CASE SaveEnds
  <2>1. PICK a \in ToPage : a.type = "saved" /\ Answers1(a)
    BY <1>3, SaveEndsDoes
  <2>2. Less(toPage, toPage', Replies)
    BY <2>1, AnswersLess, NoReply
  <2>. QED BY <1>3, <2>2, SaveEndsDoes, SessionsOwnSame DEF Calm, Becomes
<1>4. CASE StartCommit \/ VerifyCommit \/ CommitOutdated
  <2>1. PICK c : /\ host' = host
                 /\ \/ Steps(c, "draining") \/ Steps(c, "verified")
                    \/ EndsCommit(c) /\ AnsweredBy(c, "commitRefused")
    BY <1>4, StartDoes, VerifyDoes, CommitOutdatedDoes
  <2>2. writes' = writes /\ Less(toPage, toPage', Replies)
    BY <1>1, <2>1, LessSame DEF Steps, EndsCommit
  <2>. QED BY <2>1, <2>2, SessionsOwnSame
<1>5. CASE commit_history_replay
  <2>1. PICK c : \/ Writes(c.value) /\ Steps(c, "written")
                 \/ host' = host /\ EndsCommit(c) /\ AnsweredBy(c, "commitRefused")
    BY <1>5, CommitDoes
  <2>2. writes' = writes /\ Less(toPage, toPage', Replies) /\ host'.session = host.session
    BY <1>1, <2>1, LessSame DEF Steps, EndsCommit, Writes, Becomes
  <2>. QED BY <2>2, SessionsOwnSame
<1>6. CASE AnswerCommit
  <2>1. PICK c : /\ EndsCommit(c) /\ host'.session = host.session
                 /\ AnsweredBy(c, "committed") \/ AnsweredBy(c, "commitRefused")
    BY <1>6, AnswerDoes
  <2>2. writes' = writes /\ Less(toPage, toPage', Replies)
    BY <1>1, <2>1 DEF EndsCommit
  <2>. QED BY <2>1, <2>2, SessionsOwnSame
<1>7. CASE CompleteReady
  BY <1>7, CompleteReadyDoes DEF IInv, Loading
<1>8. CASE PostSnapshot
  <2>1. PICK a \in ToPage : a.type = "snapshot" /\ Pushed(toPage, toPage', a)
    BY <1>8, PostSnapshotDoes
  <2>2. Less(toPage, toPage', Replies)
    BY <2>1, PushedLess, NoReply
  <2>. QED BY <1>8, <2>2, PostSnapshotDoes, SessionsOwnSame DEF Calm, Becomes
<1>9. CASE LeaseExpires
  BY <1>9, LeaseExpiresDoes, LessSame, SessionsOwnSame
<1>10. CASE OtherPanelEdits
  BY <1>10, OtherPanelEditsDoes, DrawsLess, NoReply, SessionsOwnSame DEF Becomes
<1>11. ASSUME NEW moved \in BOOLEAN, Refresh(moved) PROVE Sessions'
  BY <1>11, RefreshDoes, DrawsLess, NoReply, SessionsOwnSame DEF Calm, Becomes
<1>12. ASSUME NEW op \in preparing, Preparation(op) PROVE Sessions'
  <2>1. Refuses(op) \/ Issues(op) \/ Moves(op, "comparing") \/ Moves(op, "verifying")
    BY <1>12, BindDoes, CompareDoes, OutdatedDoes, IssueDoes DEF Preparation
  <2>2. writes' = writes /\ host'.session = host.session
    BY <2>1 DEF Refuses, Issues, Moves, HostRests, Becomes
  <2>3. \/ toPage' = toPage
        \/ \E a \in ToPage : a.type \in {"prepareRefused", "prepared"} /\ Grows(toPage, toPage', a)
    BY <2>1 DEF Refuses, Issues, Moves
  <2>4. Less(toPage, toPage', Replies)
    BY <2>3, LessGrows, LessSame, NoReply
  <2>. QED BY <2>2, <2>4, SessionsOwnSame
<1>13. ASSUME NEW post \in host.posting, PostEnds(post) PROVE Sessions'
  BY <1>13, PostEndsDoes, LessSame, SessionsOwnSame DEF HostRests, Becomes
<1>. QED BY <1>2, <1>3, <1>4, <1>5, <1>6, <1>7, <1>8, <1>9, <1>10, <1>11, <1>12, <1>13 DEF HostOwn

LEMMA SessionsSnapshot ==
    ASSUME IInv, IInv', Arriving, Sessions, page.up, OnSnapshot
    PROVE  Sessions'
<1>1. HostStays
  BY OnSnapshotDoes
<1>2. PICK m : PageTakes1(m) /\ (ShowsAgain(m) \/ Republishes(m) \/ Leaves(m))
  BY OnSnapshotDoes DEF ShowsFirst
<1>3. Less(toPage, toPage', Replies)
  BY <1>2, LessAsks
<1>4. \A k : AppliedTo(m, k) => k \in ToHost /\ k.type = "applied"
  BY DEF AppliedTo
<1>5. CASE ShowsAgain(m)
  <2>1. PICK k, q, w : AppliedTo(m, k) /\ Pushed(toHost, q, k) /\ ShownAs(w, q)
                       /\ w.session = page.session
    BY <1>5 DEF ShowsAgain
  <2>2. Less(toHost, toHost', Asks)
    BY <1>4, <2>1, LessAsks, LessTrans
  <2>3. page.session = "held" /\ page'.session = "held"
    BY <1>5, <2>1 DEF ShowsAgain, ShownAs
  <2>. QED BY <1>1, <1>3, <2>2, <2>3, HeldOn
<1>6. CASE Republishes(m)
  <2>1. PICK k, q, e : /\ AppliedTo(m, k) /\ Pushed(toHost, q, e) /\ Pushed(q, toHost', k)
                       /\ e \in ToHost /\ e.type = "edits"
    BY <1>6 DEF Republishes
  <2>2. Less(toHost, toHost', Asks)
    BY <1>4, <2>1, LessAsks, LessTrans
  <2>3. page.session = "held" /\ page'.session = "held"
    BY <1>6 DEF Republishes
  <2>. QED BY <1>1, <1>3, <2>2, <2>3, HeldOn
<1>7. CASE Leaves(m)
  <2>1. PICK k \in ToHost : k.type = "applied" /\ Pushed(toHost, toHost', k)
    BY <1>4, <1>7 DEF Leaves
  <2>2. page' = page
    BY <1>7 DEF Leaves
  <2>3. CASE page.session = "held"
    BY <1>1, <1>3, <2>1, <2>2, <2>3, LessAsks, HeldOn
  <2>4. CASE page.session # "held"
    BY <1>1, <1>3, <2>1, <2>2, <2>4, SessionsOff
  <2>. QED BY <2>3, <2>4
<1>. QED BY <1>2, <1>5, <1>6, <1>7

LEMMA SessionsPage ==
    ASSUME IInv, IInv', Arriving, Tokens, Bound, Sessions, page.up, PageActs \/ PageRuns
    PROVE  Sessions'
<1>1. HostStays
  BY PageStepsRest
<1>2. Less(toHost, toHost, Asks) /\ Less(toPage, toPage, Replies)
  BY LessAsks
<1>3. ASSUME NEW m \in ToHost, m.type \notin {"discard", "session"}, Pushed(toHost, toHost', m)
      PROVE  Less(toHost, toHost', Asks)
  BY <1>3, LessAsks
<1>4. ASSUME NEW m, PageTakes1(m) PROVE Less(toPage, toPage', Replies)
  BY <1>4, LessAsks
<1>5. CASE Edit
  <2>1. PICK w : EditDoes1(w, count.edits + 1) /\ ShownAs(w, toHost)
    BY <1>5, EditDoes
  <2>2. page'.session = "held"
    BY <1>5, <2>1, EditDoes DEF EditDoes1, ShownAs
  <2>. QED BY <1>1, <1>2, <1>5, <2>1, <2>2, EditDoes, LessAsks, HeldOn
<1>6. CASE RequestSave
  BY <1>1, <1>2, <1>3, <1>6, RequestSaveDoes, HeldOn
<1>7. ASSUME NEW direction \in Directions, Begin(direction) PROVE Sessions'
  <2>1. page' = page /\ toHost' = toHost /\ toPage' = toPage
    BY <1>7, BeginDoes
  <2>2. CASE page.session = "held"
    BY <1>1, <1>2, <2>1, <2>2, HeldOn
  <2>3. CASE page.session # "held"
    BY <1>1, <1>2, <2>1, <2>3, SessionsOff
  <2>. QED BY <2>2, <2>3
<1>8. CASE Prepare
  BY <1>1, <1>2, <1>3, <1>8, PrepareDoes, HeldOn
<1>9. CASE on_prepared
  <2>1. page' = page /\ page.session = "held"
    BY <1>9, OnPreparedDoes DEF Bound
  <2>2. PICK k \in ToHost : k.type \notin {"discard", "session"} /\ Pushed(toHost, toHost', k)
    BY <1>9, OnPreparedDoes
  <2>. QED BY <1>1, <1>3, <1>4, <1>9, <2>1, <2>2, OnPreparedDoes, HeldOn
<1>10. CASE on_prepare_refused \/ on_commit_refused
  <2>1. page' = page /\ toHost' = toHost /\ page.session = "held" /\ \E m : PageTakes1(m)
    BY <1>10, OnRefusedDoes DEF Bound
  <2>. QED BY <1>1, <1>2, <1>4, <2>1, HeldOn
<1>11. CASE on_committed
  <2>1. PICK w : w.session = page.session /\ ShownAs(w, toHost)
    BY <1>11, OnCommittedDoes
  <2>2. page.session = "held" /\ page'.session = "held" /\ \E m : PageTakes1(m)
    BY <1>11, <2>1, OnCommittedDoes DEF ShownAs
  <2>. QED BY <1>1, <1>4, <2>1, <2>2, LessAsks, HeldOn
<1>12. CASE OnAcknowledged
  <2>1. /\ toHost' = toHost /\ page'.session = page.session /\ page'.saving = page.saving
        /\ page'.published = page.published /\ \E m : PageTakes1(m)
    BY <1>12, OnAcknowledgedDoes DEF Quietly, PageLike
  <2>2. CASE page.session = "held"
    BY <1>1, <1>2, <1>4, <2>1, <2>2, HeldOn
  <2>3. CASE page.session # "held"
    BY <1>1, <1>4, <2>1, <2>3, SessionsOff
  <2>. QED BY <2>2, <2>3
<1>13. CASE OnSaved
  <2>1. PICK w : /\ w.session = page.session /\ w.saving = FALSE
                 /\ w.published = page.published /\ ShownAs(w, toHost)
    BY <1>13, OnSavedDoes DEF PageLike
  <2>2. PICK m : PageTakes1(m)
    BY <1>13, OnSavedDoes
  <2>3. CASE page.session = "held"
    <3>1. page'.session = "held"
      BY <2>1, <2>3 DEF ShownAs
    <3>. QED BY <1>1, <1>4, <2>1, <2>2, <2>3, <3>1, LessAsks, HeldOn
  <2>4. CASE page.session # "held"
    <3>1. /\ ~Unpublished(w) /\ page'.session = page.session /\ page'.saving = FALSE
          /\ page'.published = page.published /\ toHost' = toHost
      BY <2>1, <2>4 DEF ShownAs, Unpublished
    <3>2. ~page.saving /\ page.saving \in BOOLEAN
      BY <2>4, StateTypes DEF Sessions, Page
    <3>. QED BY <1>1, <1>4, <2>2, <2>4, <3>1, <3>2, SessionsOff
  <2>. QED BY <2>3, <2>4
<1>14. CASE Ignore
  BY <1>14, IgnoreDoes
<1>. QED BY <1>5, <1>6, <1>7, <1>8, <1>9, <1>10, <1>11, <1>12, <1>13, <1>14, SessionsDiscard,
            SessionsRequest, SessionsOnDiscarded, SessionsOnSession, SessionsSnapshot
         DEF PageActs, PageRuns, OnMessage

LEMMA NextSessions ==
    ASSUME IInv, IInv', Numbered, Arriving, Tokens, Bound, Sessions, [Next]_vars
    PROVE  Sessions'
<1>1. CASE ~page'.up
  BY <1>1 DEF Sessions
<1>2. CASE UNCHANGED vars
  BY <1>2 DEF vars, Sessions, Owns
<1>3. ASSUME page'.up, ~page.up, Next PROVE Sessions'
  <2>1. CASE PageActs \/ PageRuns \/ Load
    BY <1>3, <2>1, DownSteps, SessionsFirst, IgnoreDoes
  <2>2. CASE HandleMessage \/ HostOwn
    BY <1>3, <2>2, HostSteps DEF PageStays
  <2>. QED BY <1>3, <2>1, <2>2 DEF Next, HostRuns, HostOwn
<1>4. ASSUME page'.up, page.up, Next PROVE Sessions'
  <2>1. CASE Load
    BY <1>4, <2>1, LoadDoes, LoadDown
  <2>2. CASE HandleReady
    <3>1. PICK m : Takes(m) /\ m.type = "ready"
      BY <2>2, HandleReadyDoes
    <3>. QED BY <1>4, <3>1, ReadyIn DEF Takes, IInv, Loading
  <2>. QED BY <1>4, <2>1, <2>2, SessionsPage, SessionsMessage, SessionsOwn, SessionsGrant
           DEF Next, HostRuns, HostOwn
<1>. QED BY <1>1, <1>2, <1>3, <1>4

-----------------------------------------------------------------------------
(* Edits on their way: to the host, at the host, and acknowledged *)

Acks == {m \in ToPage : m.type = "acknowledged"}

LEMMA PipeTypes ==
    /\ \A m \in ToHost : m \in Edited <=> m.type = "edits"
    /\ \A m \in ToPage : m \in Acks <=> m.type = "acknowledged"
    /\ \A n : Newest(n) \subseteq Edited /\ NewestAcks(n) \subseteq Acks
    /\ \A n : /\ \A m \in ToHost : m \in Newest(n) <=> m.type = "edits" /\ m.sequence = n
              /\ \A m \in ToPage : m \in NewestAcks(n) <=> m.type = "acknowledged" /\ m.sequence = n
    /\ Acks \cap Snapshots = {}
<1>. QED BY DEF Edited, Acks, Newest, NewestAcks, Snapshots

LEMMA PipeNumbers ==
    ASSUME IInv
    PROVE  /\ \A m \in Range(toHost) : m.type = "edits" => m.sequence \in Nat /\ m.value \in Nat
           /\ \A m \in Range(toPage) : m.type = "acknowledged" => m.sequence \in Nat
           /\ page.sequence \in Nat
<1>1. \A m \in ToHost : m.type = "edits" => m.sequence \in Nat /\ m.value \in Nat
  BY DEF ToHost
<1>2. \A m \in ToPage : m.type = "acknowledged" => m.sequence \in Nat
  BY DEF ToPage
<1>3. page.sequence \in Nat
  BY HostState DEF Page
<1>. QED BY <1>1, <1>2, <1>3, RangeTypes

\* What the pipeline says of an unheld session.
Numbers ==
    /\ \A m \in Range(toHost) : m.type = "edits" => m.sequence <= page.sequence
    /\ \A w \in Range(writes) : w.epoch = host.epoch => w.sequence <= page.sequence
    /\ \A m \in Range(toPage) : m.type = "acknowledged" => m.sequence <= page.sequence

\* Nothing new on the way, and nothing published.
LEMMA PipelineSame ==
    ASSUME IInv, IInv', Pipeline, page.up,
           page'.sequence = page.sequence,
           page'.session = "held" => /\ page.session = "held" /\ page'.published = page.published
                                     /\ page'.acknowledged => page.acknowledged \/ AckComing,
           Less(toHost, toHost', Edited), Less(toPage, toPage', Acks),
           writes' = writes, host'.epoch = host.epoch
    PROVE  Pipeline'
<1>1. \A m \in Range(toHost') : m.type = "edits" => m \in Range(toHost)
  BY RangeTypesNext, PipeTypes DEF Less
<1>2. \A m \in Range(toPage') : m.type = "acknowledged" => m \in Range(toPage)
  BY RangeTypesNext, PipeTypes DEF Less
<1>3. Numbers'
  BY <1>1, <1>2 DEF Pipeline, Numbers
<1>4. ASSUME page'.session = "held"
      PROVE  /\ NoneAfter(toHost', Newest(page'.sequence), Edited)
             /\ \A m \in Range(toHost') : m \in Newest(page'.sequence) => m.value = page'.published
             /\ \A w \in Range(writes') : w \in NewestWrites(host'.epoch, page'.sequence) =>
                  w.value = page'.published /\ NoneIn(toHost', Edited)
             /\ NoneAfter(writes', NewestWrites(host'.epoch, page'.sequence), Write)
             /\ page'.acknowledged \/ AckComing' => writes' = <<>> /\ NoneIn(toHost', Edited)
  <2>1. NoneAfter(toHost', Newest(page'.sequence), Edited)
    BY <1>4, PipeTypes DEF Pipeline, Less
  <2>2. \A m \in Range(toHost') : m \in Newest(page'.sequence) => m.value = page'.published
    <3>1. \A m : m \in Newest(page'.sequence) => m.type = "edits"
      BY DEF Newest
    <3>. QED BY <1>1, <1>4, <3>1 DEF Pipeline
  <2>3. NoneIn(toHost, Edited) => NoneIn(toHost', Edited)
    BY DEF Less
  <2>4. AckComing' => AckComing
    BY PipeTypes DEF AckComing, Less
  <2>. QED BY <1>4, <2>1, <2>2, <2>3, <2>4 DEF Pipeline
<1>. QED BY <1>3, <1>4 DEF Pipeline, Numbers

\* The page publishes: everything else on the way is older.
LEMMA PipelineNewest ==
    ASSUME IInv, IInv', Numbers,
           page'.sequence = page.sequence + 1, ~page'.acknowledged,
           writes' = writes, host'.epoch = host.epoch,
           NEW q, NEW r, NEW e \in ToHost, Less(toHost, q, Edited), Pushed(q, r, e), Less(r, toHost', Edited),
           e.type = "edits", e.value = page'.published, e.sequence = page.sequence + 1,
           Less(toPage, toPage', Acks)
    PROVE  Pipeline'
<1>1. \A m \in Range(toHost') : m.type = "edits" => m = e \/ m \in Range(toHost)
  <2>1. \A m \in Range(toHost') : m.type = "edits" => m \in Range(r) /\ m \in Edited
    BY RangeTypesNext, PipeTypes DEF Less
  <2>. QED BY <2>1 DEF Less, Pushed
<1>2. \A m \in Range(toPage') : m.type = "acknowledged" => m \in Range(toPage)
  BY RangeTypesNext, PipeTypes DEF Less
<1>3. /\ \A m \in Range(toHost) : m.type = "edits" => m.sequence <= page.sequence /\ m.sequence \in Nat
      /\ \A m \in Range(toPage') : m.type = "acknowledged" => m.sequence <= page.sequence /\ m.sequence \in Nat
      /\ page.sequence \in Nat
      /\ \A w \in Range(writes) : w.epoch = host.epoch => w.sequence <= page.sequence /\ w.sequence \in Nat
  BY <1>2, PipeNumbers, WriteTypes DEF Numbers
<1>4. Numbers'
  <2>1. \A n \in Nat : n <= page.sequence => n <= page.sequence + 1
    BY <1>3
  <2>2. page.sequence + 1 <= page.sequence + 1
    BY <1>3
  <2>. QED BY <1>1, <1>3, <2>1, <2>2 DEF Numbers
<1>5. \A n \in Nat : n <= page.sequence => n # page.sequence + 1
  BY <1>3
<1>6. NoneIn(q, Newest(page.sequence + 1))
  <2>1. \A m \in Range(q) : m \in Edited => m \in Range(toHost)
    BY DEF Less
  <2>2. \A m : m \in Newest(page.sequence + 1) => m \in Edited /\ m.type = "edits" /\ m.sequence = page.sequence + 1
    BY DEF Newest, Edited
  <2>. QED BY <1>3, <1>5, <2>1, <2>2 DEF NoneIn
<1>7. NoneAfter(toHost', Newest(page'.sequence), Edited)
  <2>1. NoneAfter(q, Newest(page.sequence + 1), Edited)
    BY <1>6, OrderNone
  <2>2. NoneAfter(r, Newest(page.sequence + 1), Edited)
    BY <1>6, <2>1 DEF Pushed
  <2>. QED BY <2>2, PipeTypes DEF Less
<1>8. \A m \in Range(toHost') : m \in Newest(page'.sequence) => m.value = page'.published
  <2>1. \A m : m \in Newest(page'.sequence) => m.type = "edits" /\ m.sequence = page.sequence + 1
    BY DEF Newest
  <2>. QED BY <1>1, <1>3, <1>5, <2>1
<1>9. \A w \in Range(writes') : w \notin NewestWrites(host'.epoch, page'.sequence)
  BY <1>3, <1>5 DEF NewestWrites
<1>10. NoneAfter(writes', NewestWrites(host'.epoch, page'.sequence), Write)
  BY <1>9, OrderNone DEF NoneIn
<1>11. ~AckComing'
  <2>1. \A m : m \in NewestAcks(page'.sequence) => m.type = "acknowledged" /\ m.sequence = page.sequence + 1
    BY DEF NewestAcks
  <2>. QED BY <1>3, <1>5, <2>1 DEF AckComing, NoneIn
<1>. QED BY <1>4, <1>7, <1>8, <1>9, <1>10, <1>11 DEF Pipeline, Numbers

LEMMA PipelineShown ==
    ASSUME IInv, IInv', Pipeline, page.up, HostStays, NEW w, NEW q, ShownAs(w, q),
           w.sequence = page.sequence, w.published = page.published,
           w.acknowledged = page.acknowledged,
           w.session = "held" => page.session = "held" \/ Unpublished(w),
           Less(toHost, q, Edited), Less(toPage, toPage', Acks)
    PROVE  Pipeline'
<1>1. writes' = writes /\ host'.epoch = host.epoch
  BY DEF HostStays
<1>2. CASE Unpublished(w)
  <2>1. PICK e \in ToHost : /\ e.type = "edits" /\ e.value = w.cell
                            /\ e.sequence = w.sequence + 1 /\ Pushed(q, toHost', e)
    BY <1>2 DEF ShownAs
  <2>2. page'.sequence = page.sequence + 1 /\ ~page'.acknowledged /\ page'.published = w.cell
    BY <1>2 DEF ShownAs
  <2>. QED BY <1>1, <2>1, <2>2, LessSame, PipelineNewest DEF Pipeline, Numbers
<1>3. CASE ~Unpublished(w)
  BY <1>1, <1>3, PipelineSame DEF ShownAs
<1>. QED BY <1>2, <1>3

LEMMA ValNothing ==
    ASSUME IInv, Values
    PROVE  /\ Nothing \notin Val /\ Val \subseteq Nat /\ count.edits \in Nat /\ MaxEdits \in Nat
           /\ 0 \in Val /\ MaxEdits + 1 \in Val
<1>1. count.edits \in Nat /\ MaxEdits \in Nat
  BY HostState, HistoryReplayAssumption DEF Count
<1>. QED BY <1>1 DEF Val, Values, Nothing

\* An admitted edit becomes durable.
LEMMA PipelineLands ==
    ASSUME IInv, IInv', Pipeline, page.up, WriteLands PROVE Pipeline'
<1>1. /\ page' = page /\ toHost' = toHost /\ writes # <<>>
      /\ host'.epoch = host.epoch
  BY WriteLandsDoes, LandsWork DEF PageStays
<1>2. PICK w \in Write :
        /\ w \in Range(writes) /\ Popped(writes, writes', w)
        /\ \/ toPage' = toPage
           \/ /\ Acknowledges(w) \in ToPage /\ Acknowledges(w).type = "acknowledged"
              /\ Acknowledges(w).sequence = w.sequence
              /\ Answers1(Acknowledges(w))
              /\ w.epoch # host.epoch => Draws(toPage')
  BY WriteLandsDoes
<1>3. \A A : A \cap Snapshots = {} /\ ~NoneIn(toPage', A) =>
         ~NoneIn(toPage, A) \/ (w.epoch = host.epoch /\ Acknowledges(w) \in A)
  <2>1. SUFFICES ASSUME NEW A, A \cap Snapshots = {}, Acknowledges(w) \notin A \/ w.epoch # host.epoch
                 PROVE  Less(toPage, toPage', A)
    BY DEF Less
  <2>. QED BY <1>2, <2>1, DrawsLess, AnswersLess, LessSame
<1>4. \A m \in Range(toPage') : m.type = "acknowledged" =>
         m \in Range(toPage) \/ (w.epoch = host.epoch /\ m.sequence = w.sequence)
  <2>1. SUFFICES ASSUME NEW m \in Range(toPage'), m.type = "acknowledged", m \notin Range(toPage)
                 PROVE  w.epoch = host.epoch /\ m.sequence = w.sequence
    OBVIOUS
  <2>2. {m} \cap Snapshots = {}
    BY <2>1 DEF Snapshots
  <2>3. ~NoneIn(toPage', {m}) /\ NoneIn(toPage, {m})
    BY <2>1 DEF NoneIn
  <2>4. w.epoch = host.epoch /\ Acknowledges(w) = m
    BY <1>3, <2>2, <2>3
  <2>. QED BY <1>2, <2>2, <2>3, <2>4 DEF Acknowledges
<1>5. Numbers'
  BY <1>1, <1>2, <1>4 DEF Pipeline, Numbers, Popped
<1>6. ASSUME page.session = "held"
      PROVE  /\ NoneAfter(toHost', Newest(page'.sequence), Edited)
             /\ \A m \in Range(toHost') : m \in Newest(page'.sequence) => m.value = page'.published
             /\ \A v \in Range(writes') : v \in NewestWrites(host'.epoch, page'.sequence) =>
                  v.value = page'.published /\ NoneIn(toHost', Edited)
             /\ NoneAfter(writes', NewestWrites(host'.epoch, page'.sequence), Write)
             /\ page'.acknowledged \/ AckComing' => writes' = <<>> /\ NoneIn(toHost', Edited)
  <2>1. ~page.acknowledged /\ ~AckComing
    BY <1>1, <1>6 DEF Pipeline
  <2>2. \A v \in Range(writes') : v \in NewestWrites(host'.epoch, page'.sequence) =>
           v.value = page'.published /\ NoneIn(toHost', Edited)
    BY <1>1, <1>2, <1>6 DEF Pipeline, Popped
  <2>3. NoneAfter(writes', NewestWrites(host'.epoch, page'.sequence), Write)
    BY <1>1, <1>2, <1>6 DEF Pipeline, Popped
  <2>4. ASSUME AckComing' PROVE writes' = <<>> /\ NoneIn(toHost', Edited)
    <3>1. ~NoneIn(toPage', NewestAcks(page.sequence)) /\ NoneIn(toPage, NewestAcks(page.sequence))
      BY <1>1, <2>1, <2>4 DEF AckComing
    <3>2. w.epoch = host.epoch /\ Acknowledges(w) \in NewestAcks(page.sequence)
      <4>1. NewestAcks(page.sequence) \cap Snapshots = {}
        BY PipeTypes
      <4>. QED BY <1>3, <3>1, <4>1
    <3>3. w \in NewestWrites(host.epoch, page.sequence)
      BY <3>2 DEF NewestAcks, NewestWrites, Acknowledges
    <3>4. NoneIn(writes', Write) /\ NoneIn(toHost, Edited)
      BY <1>2, <1>6, <3>3 DEF Pipeline, Popped
    <3>5. writes' = <<>>
      <4>1. writes' \in Seq(Write)
        BY <1>1, HostState, WriteLandsDoes, RangeTail
      <4>2. \A i \in DOMAIN writes' : writes'[i] \in Write
        BY <4>1
      <4>3. DOMAIN writes' = {}
        BY <3>4, <4>2 DEF NoneIn, Range
      <4>. QED BY <4>1, <4>3, EmptySeq, LenProperties
    <3>. QED BY <1>1, <3>4, <3>5
  <2>5. ~page'.acknowledged
    BY <1>1, <2>1
  <2>. QED BY <1>1, <1>6, <2>2, <2>3, <2>4, <2>5 DEF Pipeline
<1>. QED BY <1>1, <1>5, <1>6 DEF Pipeline, Numbers

LEMMA PipelineEdits ==
    ASSUME IInv, IInv', Pipeline, page.up, HandleEdits PROVE Pipeline'
<1>1. /\ page' = page /\ host' = host /\ toPage' = toPage
  BY HandleEditsDoes DEF PageStays
<1>2. PICK m : /\ Takes(m) /\ m.type = "edits"
               /\ \/ writes' = writes
                  \/ \E w \in Write : /\ w.value = m.value /\ w.epoch = host.epoch
                                      /\ w.sequence = m.sequence /\ writes' = Append(writes, w)
  BY HandleEditsDoes
<1>3. m \in Edited /\ m \in Range(toHost) /\ ~NoneIn(toHost, Edited) /\ Less(toHost, toHost', Edited)
  BY <1>2, PipeTypes, TakesLess DEF Takes, NoneIn
<1>4. ASSUME NEW w \in Write, w.value = m.value, w.epoch = host.epoch, w.sequence = m.sequence,
             writes' = Append(writes, w)
      PROVE  Pipeline'
  <2>1. Pushed(writes, writes', w)
    BY <1>4, HostState, PushedAppend
  <2>2. \A k \in Range(toHost') : k.type = "edits" => k \in Range(toHost)
    BY <1>3, RangeTypesNext, PipeTypes DEF Less
  <2>3. Numbers'
    BY <1>1, <1>2, <1>3, <1>4, <2>1, <2>2 DEF Pipeline, Numbers, Pushed
  <2>4. ASSUME page.session = "held"
        PROVE  /\ NoneAfter(toHost', Newest(page'.sequence), Edited)
               /\ \A k \in Range(toHost') : k \in Newest(page'.sequence) => k.value = page'.published
               /\ \A v \in Range(writes') : v \in NewestWrites(host'.epoch, page'.sequence) =>
                    v.value = page'.published /\ NoneIn(toHost', Edited)
               /\ NoneAfter(writes', NewestWrites(host'.epoch, page'.sequence), Write)
               /\ ~(page'.acknowledged \/ AckComing')
    <3>1. \A v \in Range(writes) : v \notin NewestWrites(host.epoch, page.sequence)
      BY <1>3, <2>4 DEF Pipeline
    <3>2. \A v \in Range(writes') : v \in NewestWrites(host.epoch, page.sequence) =>
             v.value = page.published /\ NoneIn(toHost', Edited)
      <4>1. SUFFICES ASSUME w \in NewestWrites(host.epoch, page.sequence)
                     PROVE  w.value = page.published /\ NoneIn(toHost', Edited)
        BY <2>1, <3>1 DEF Pushed
      <4>2. m \in Newest(page.sequence)
        BY <1>2, <1>4, <4>1 DEF NewestWrites, Newest, Takes
      <4>. QED BY <1>2, <1>3, <1>4, <2>4, <4>2 DEF Pipeline, Takes, Popped
    <3>3. NoneAfter(writes', NewestWrites(host.epoch, page.sequence), Write)
      BY <2>1, <2>4, <3>1 DEF Pushed, NoneIn, Pipeline
    <3>4. NoneAfter(toHost', Newest(page.sequence), Edited)
      BY <1>3, <2>4, PipeTypes DEF Less, Pipeline
    <3>5. \A k \in Range(toHost') : k \in Newest(page.sequence) => k.value = page.published
      BY <2>2, <2>4 DEF Pipeline, Newest
    <3>6. ~page.acknowledged /\ ~AckComing
      BY <1>3, <2>4 DEF Pipeline
    <3>. QED BY <1>1, <3>2, <3>3, <3>4, <3>5, <3>6 DEF AckComing
  <2>. QED BY <1>1, <2>3, <2>4 DEF Pipeline, Numbers
<1>5. CASE writes' = writes
  BY <1>1, <1>3, <1>5, LessSame, PipelineSame
<1>. QED BY <1>2, <1>4, <1>5

\* Other steps of the host.
LEMMA PipelineHost ==
    ASSUME IInv, IInv', Pipeline, page.up, PageStays,
           Less(toHost, toHost', Edited), Less(toPage, toPage', Acks),
           writes' = writes, host'.epoch = host.epoch
    PROVE  Pipeline'
<1>. QED BY PipelineSame DEF PageStays

\* What is posted and is no acknowledgement.
LEMMA NoAck ==
    /\ \A a \in ToPage : a.type # "acknowledged" => a \notin Acks
    /\ Acks \cap Snapshots = {}
    /\ \A m \in ToHost : m.type # "edits" => m \notin Edited
<1>. QED BY PipeTypes

LEMMA PipelineMessage ==
    ASSUME IInv, IInv', Pipeline, page.up, HandleMessage, ~HandleReady
    PROVE  Pipeline'
<1>1. PageStays /\ Less(toHost, toHost', Edited)
  BY MessageTakes, TakesLess
<1>2. CASE HandleSession
  BY <1>1, <1>2, HandleSessionDoes, LessSame, PipelineHost DEF HostRests
<1>3. CASE HandleDiscard
  <2>1. PICK a \in ToPage : a.type = "discarded" /\ Answers1(a)
    BY <1>3, HandleDiscardDoes
  <2>2. Less(toPage, toPage', Acks) /\ host'.epoch = host.epoch
    BY <2>1, AnswersLess, NoAck DEF Answers1, Draws
  <2>. QED BY <1>1, <1>3, <2>2, HandleDiscardDoes, PipelineHost
<1>4. CASE handle_save
  <2>1. host'.epoch = host.epoch
    BY <1>4, HandleSaveDoes DEF Draws
  <2>2. Less(toPage, toPage', Acks)
    BY <1>4, HandleSaveDoes, LessGrows, DrawsLess, NoAck
  <2>. QED BY <1>1, <1>4, <2>1, <2>2, HandleSaveDoes, PipelineHost
<1>5. CASE HandlePrepare
  <2>1. \/ toPage' = toPage
        \/ \E a \in ToPage : a.type = "prepareRefused" /\ Grows(toPage, toPage', a)
    BY <1>5, HandlePrepareDoes
  <2>2. Less(toPage, toPage', Acks)
    BY <2>1, LessGrows, LessSame, NoAck
  <2>3. host'.epoch = host.epoch
    BY <1>5, HandlePrepareDoes DEF HostRests
  <2>. QED BY <1>1, <1>5, <2>2, <2>3, HandlePrepareDoes, PipelineHost
<1>6. CASE HandleAbandon
  BY <1>1, <1>6, HandleAbandonDoes, LessSame, PipelineHost
<1>7. CASE HandleCommit
  <2>1. \/ toPage' = toPage
        \/ \E a \in ToPage : a.type = "commitRefused" /\ Grows(toPage, toPage', a)
    BY <1>7, HandleCommitDoes
  <2>2. Less(toPage, toPage', Acks)
    BY <2>1, LessGrows, LessSame, NoAck
  <2>. QED BY <1>1, <1>7, <2>2, HandleCommitDoes, PipelineHost
<1>8. CASE HandleApplied
  BY <1>1, <1>8, HandleAppliedDoes, LessSame, PipelineHost
<1>. QED BY <1>2, <1>3, <1>4, <1>5, <1>6, <1>7, <1>8, PipelineEdits DEF HandleMessage

LEMMA PipelineOwn ==
    ASSUME IInv, IInv', Pipeline, page.up, HostOwn
    PROVE  Pipeline'
<1>1. PageStays /\ Less(toHost, toHost', Edited)
  BY HostOwnStays, LessSame DEF PageStays
<1>2. ASSUME NEW type \in {"committed", "commitRefused"}, NEW c, AnsweredBy(c, type)
      PROVE  Less(toPage, toPage', Acks)
  BY <1>2, LessGrows, NoAck DEF AnsweredBy
<1>3. CASE SaveEnds
  <2>1. PICK a \in ToPage : a.type = "saved" /\ Answers1(a)
    BY <1>3, SaveEndsDoes
  <2>2. Less(toPage, toPage', Acks) /\ host'.epoch = host.epoch
    BY <2>1, AnswersLess, NoAck DEF Answers1, Draws
  <2>. QED BY <1>1, <1>3, <2>2, SaveEndsDoes, PipelineHost
<1>4. CASE StartCommit \/ VerifyCommit \/ CommitOutdated
  <2>1. PICK c : /\ host' = host
                 /\ \/ Steps(c, "draining") \/ Steps(c, "verified")
                    \/ EndsCommit(c) /\ AnsweredBy(c, "commitRefused")
    BY <1>4, StartDoes, VerifyDoes, CommitOutdatedDoes
  <2>2. writes' = writes /\ Less(toPage, toPage', Acks)
    BY <1>2, <2>1, LessSame DEF Steps, EndsCommit
  <2>. QED BY <1>1, <2>1, <2>2, PipelineHost
<1>5. CASE commit_history_replay
  <2>1. PICK c : \/ Writes(c.value) /\ Steps(c, "written")
                 \/ host' = host /\ EndsCommit(c) /\ AnsweredBy(c, "commitRefused")
    BY <1>5, CommitDoes
  <2>2. writes' = writes /\ Less(toPage, toPage', Acks) /\ host'.epoch = host.epoch
    BY <1>2, <2>1, LessSame DEF Steps, EndsCommit, Writes
  <2>. QED BY <1>1, <2>2, PipelineHost
<1>6. CASE AnswerCommit
  <2>1. PICK c : /\ EndsCommit(c) /\ host'.epoch = host.epoch
                 /\ AnsweredBy(c, "committed") \/ AnsweredBy(c, "commitRefused")
    BY <1>6, AnswerDoes
  <2>2. writes' = writes /\ Less(toPage, toPage', Acks)
    BY <1>2, <2>1 DEF EndsCommit
  <2>. QED BY <1>1, <2>1, <2>2, PipelineHost
<1>7. CASE CompleteReady
  BY <1>7, CompleteReadyDoes DEF IInv, Loading
<1>8. CASE PostSnapshot
  <2>1. PICK a \in ToPage : a.type = "snapshot" /\ Pushed(toPage, toPage', a)
    BY <1>8, PostSnapshotDoes
  <2>2. Less(toPage, toPage', Acks)
    BY <2>1, PushedLess, NoAck
  <2>. QED BY <1>1, <1>8, <2>2, PostSnapshotDoes, PipelineHost
<1>9. CASE LeaseExpires
  BY <1>1, <1>9, LeaseExpiresDoes, LessSame, PipelineHost
<1>10. CASE OtherPanelEdits
  BY <1>1, <1>10, OtherPanelEditsDoes, DrawsLess, NoAck, PipelineHost DEF Draws
<1>11. ASSUME NEW moved \in BOOLEAN, Refresh(moved) PROVE Pipeline'
  BY <1>1, <1>11, RefreshDoes, DrawsLess, NoAck, PipelineHost DEF Draws
<1>12. ASSUME NEW op \in preparing, Preparation(op) PROVE Pipeline'
  <2>1. Refuses(op) \/ Issues(op) \/ Moves(op, "comparing") \/ Moves(op, "verifying")
    BY <1>12, BindDoes, CompareDoes, OutdatedDoes, IssueDoes DEF Preparation
  <2>2. writes' = writes /\ host'.epoch = host.epoch
    BY <2>1 DEF Refuses, Issues, Moves, HostRests
  <2>3. \/ toPage' = toPage
        \/ \E a \in ToPage : a.type \in {"prepareRefused", "prepared"} /\ Grows(toPage, toPage', a)
    BY <2>1 DEF Refuses, Issues, Moves
  <2>4. Less(toPage, toPage', Acks)
    BY <2>3, LessGrows, LessSame, NoAck
  <2>. QED BY <1>1, <2>2, <2>4, PipelineHost
<1>13. CASE GrantSession
  <2>1. PICK a \in ToPage : a.type = "session" /\ Answers1(a)
    BY <1>13, GrantSessionDoes
  <2>2. Less(toPage, toPage', Acks) /\ host'.epoch = host.epoch
    BY <2>1, AnswersLess, NoAck DEF Answers1, Draws
  <2>. QED BY <1>1, <1>13, <2>2, GrantSessionDoes, PipelineHost
<1>14. ASSUME NEW post \in host.posting, PostEnds(post) PROVE Pipeline'
  BY <1>1, <1>14, PostEndsDoes, LessSame, PipelineHost DEF HostRests
<1>. QED BY <1>3, <1>4, <1>5, <1>6, <1>7, <1>8, <1>9, <1>10, <1>11, <1>12, <1>13, <1>14,
            PipelineLands DEF HostOwn

LEMMA PipelineSnapshot ==
    ASSUME IInv, IInv', Arriving, Pipeline, page.up, OnSnapshot
    PROVE  Pipeline'
<1>1. HostStays
  BY OnSnapshotDoes
<1>2. PICK m : PageTakes1(m) /\ (ShowsAgain(m) \/ Republishes(m) \/ Leaves(m))
  BY OnSnapshotDoes DEF ShowsFirst
<1>3. Less(toPage, toPage', Acks)
  BY <1>2, PageTakesLess
<1>4. \A k : AppliedTo(m, k) => k \in ToHost /\ k \notin Edited
  BY NoAck DEF AppliedTo
<1>5. CASE ShowsAgain(m)
  <2>1. PICK k, q, w : /\ AppliedTo(m, k) /\ Pushed(toHost, q, k) /\ ShownAs(w, q)
                       /\ w.sequence = page.sequence /\ w.published = page.published
                       /\ w.acknowledged = page.acknowledged /\ w.session = page.session
    BY <1>5 DEF ShowsAgain, PageLike
  <2>2. Less(toHost, q, Edited)
    BY <1>4, <2>1, PushedLess
  <2>. QED BY <1>1, <1>3, <2>1, <2>2, PipelineShown
<1>6. CASE Republishes(m)
  <2>1. PICK k, q, e : /\ AppliedTo(m, k) /\ Pushed(toHost, q, e) /\ Pushed(q, toHost', k)
                       /\ e \in ToHost /\ e.type = "edits" /\ e.value = page.cell
                       /\ e.sequence = page.sequence + 1
    BY <1>6 DEF Republishes
  <2>2. Less(q, toHost', Edited) /\ Less(toHost, toHost, Edited)
    BY <1>4, <2>1, PushedLess, LessSame
  <2>3. /\ page'.sequence = page.sequence + 1 /\ ~page'.acknowledged
        /\ page'.published = page.cell
    BY <1>6 DEF Republishes
  <2>. QED BY <1>1, <1>3, <2>1, <2>2, <2>3, PipelineNewest DEF HostStays, Pipeline, Numbers
<1>7. CASE Leaves(m)
  <2>1. PICK k \in ToHost : k \notin Edited /\ Pushed(toHost, toHost', k)
    BY <1>4, <1>7 DEF Leaves
  <2>2. page' = page /\ Less(toHost, toHost', Edited)
    BY <1>7, <2>1, PushedLess DEF Leaves
  <2>. QED BY <1>1, <1>3, <2>2, PipelineSame DEF HostStays
<1>. QED BY <1>2, <1>5, <1>6, <1>7

LEMMA PipelinePage ==
    ASSUME IInv, IInv', Arriving, Tokens, Bound, Sessions, Pipeline, Values, page.up,
           PageActs \/ PageRuns
    PROVE  Pipeline'
<1>1. HostStays /\ writes' = writes /\ host'.epoch = host.epoch
  BY PageStepsRest DEF HostStays
<1>2. Less(toHost, toHost, Edited) /\ Less(toPage, toPage, Acks)
  BY LessSame
<1>3. ASSUME NEW m \in ToHost, m.type # "edits", Pushed(toHost, toHost', m)
      PROVE  Less(toHost, toHost', Edited)
  BY <1>3, PushedLess, NoAck
<1>4. ASSUME NEW m, PageTakes1(m) PROVE Less(toPage, toPage', Acks)
  BY <1>4, PageTakesLess
<1>5. ASSUME page' = page, Less(toHost, toHost', Edited), Less(toPage, toPage', Acks)
      PROVE  Pipeline'
  BY <1>1, <1>5, PipelineSame
<1>6. CASE Edit
  <2>1. PICK w : EditDoes1(w, count.edits + 1) /\ ShownAs(w, toHost)
    BY <1>6, EditDoes
  <2>2. /\ w.sequence = page.sequence /\ w.published = page.published
        /\ w.acknowledged = page.acknowledged /\ w.session = page.session /\ toPage' = toPage
    BY <1>6, <2>1, EditDoes DEF EditDoes1, PageLike
  <2>. QED BY <1>1, <1>2, <2>1, <2>2, PipelineShown
<1>7. CASE Discard
  BY <1>1, <1>2, <1>3, <1>7, DiscardDoes, PipelineSame
<1>8. CASE RequestSession
  BY <1>1, <1>2, <1>3, <1>8, RequestSessionDoes, PipelineSame DEF Quietly, PageLike
<1>9. CASE RequestSave
  BY <1>1, <1>2, <1>3, <1>9, RequestSaveDoes, PipelineSame DEF Quietly, PageLike
<1>10. ASSUME NEW direction \in Directions, Begin(direction) PROVE Pipeline'
  BY <1>2, <1>5, <1>10, BeginDoes
<1>11. CASE Prepare
  BY <1>1, <1>2, <1>3, <1>11, PrepareDoes, PipelineSame DEF Quietly, PageLike
<1>12. CASE on_prepared
  <2>1. PICK k \in ToHost : k.type # "edits" /\ Pushed(toHost, toHost', k)
    BY <1>12, OnPreparedDoes
  <2>. QED BY <1>3, <1>4, <1>5, <1>12, <2>1, OnPreparedDoes
<1>13. CASE on_prepare_refused \/ on_commit_refused
  BY <1>2, <1>4, <1>5, <1>13, OnRefusedDoes
<1>14. CASE on_committed
  <2>1. PICK w : /\ w.sequence = page.sequence /\ w.published = page.published
                 /\ w.acknowledged = page.acknowledged /\ w.session = page.session
                 /\ ShownAs(w, toHost)
    BY <1>14, OnCommittedDoes DEF PageLike
  <2>2. PICK m : PageTakes1(m)
    BY <1>14, OnCommittedDoes
  <2>. QED BY <1>1, <1>2, <1>4, <2>1, <2>2, PipelineShown
<1>15. CASE OnAcknowledged
  <2>1. PICK m : /\ PageTakes1(m) /\ m.type = "acknowledged"
                 /\ page'.acknowledged = (page.acknowledged \/ m.sequence = page.sequence)
    BY <1>15, OnAcknowledgedDoes
  <2>2. m.sequence = page.sequence => AckComing
    BY <2>1 DEF PageTakes1, AckComing, NoneIn, NewestAcks
  <2>. QED BY <1>1, <1>2, <1>4, <1>15, <2>1, <2>2, OnAcknowledgedDoes, PipelineSame
           DEF Quietly, PageLike
<1>16. CASE OnDiscarded
  BY <1>1, <1>2, <1>4, <1>16, OnDiscardedDoes, PipelineSame DEF Quietly, PageLike
<1>17. CASE OnSession
  <2>1. PICK m : /\ PageTakes1(m) /\ m.type = "session"
                 /\ \/ /\ m.granted
                       /\ \E w : /\ PageLike(w) /\ w.acknowledged = page.acknowledged
                                 /\ w.session = "held" /\ w.saving = page.saving
                                 /\ w.cell = m.cell /\ ShownAs(w, toHost)
                    \/ /\ Quietly /\ page'.session = "none" /\ toHost' = toHost
    BY <1>17, OnSessionDoes
  <2>2. ASSUME m.granted, NEW w, PageLike(w), w.acknowledged = page.acknowledged,
               w.session = "held", w.saving = page.saving, w.cell = m.cell, ShownAs(w, toHost)
        PROVE  Pipeline'
    <3>1. m.cell \in Val
      <4>1. m \in Granted /\ m \in Range(toPage)
        BY <2>1, <2>2 DEF PageTakes1, Granted
      <4>. QED BY <4>1 DEF Values
    <3>2. ~page.saving /\ page.published = Nothing
      BY <1>17, OnSessionDoes DEF Sessions
    <3>3. Unpublished(w)
      BY <2>2, <3>1, <3>2, ValNothing DEF Unpublished, PageLike
    <3>. QED BY <1>1, <1>2, <1>4, <2>1, <2>2, <3>3, PipelineShown DEF PageLike
  <2>3. ASSUME Quietly, page'.session = "none", toHost' = toHost PROVE Pipeline'
    BY <1>1, <1>2, <1>4, <2>1, <2>3, PipelineSame DEF Quietly, PageLike
  <2>. QED BY <2>1, <2>2, <2>3
<1>18. CASE OnSaved
  <2>1. PICK w : /\ w.sequence = page.sequence /\ w.published = page.published
                 /\ w.acknowledged = page.acknowledged /\ w.session = page.session
                 /\ ShownAs(w, toHost)
    BY <1>18, OnSavedDoes DEF PageLike
  <2>2. PICK m : PageTakes1(m)
    BY <1>18, OnSavedDoes
  <2>. QED BY <1>1, <1>2, <1>4, <2>1, <2>2, PipelineShown
<1>19. CASE Ignore
  BY <1>19, IgnoreDoes
<1>. QED BY <1>6, <1>7, <1>8, <1>9, <1>10, <1>11, <1>12, <1>13, <1>14, <1>15, <1>16, <1>17, <1>18,
            <1>19, PipelineSnapshot DEF PageActs, PageRuns, OnMessage

\* The first snapshot of a load: nothing of the page is on the way.
LEMMA PipelineFirst ==
    ASSUME IInv, IInv', Arriving, Values, ~page.up, OnSnapshot PROVE Pipeline'
<1>1. PICK m : /\ PageTakes1(m) /\ ShowsFirst(m) /\ m \in FirstOnes /\ Waiting
               /\ NoneIn(toPage', Heralded) /\ HostStays
  BY FirstShown
<1>2. PICK k, q, w : /\ AppliedTo(m, k) /\ Pushed(toHost, q, k)
                     /\ w.session = IF m.session THEN "held" ELSE "none"
                     /\ w.saving = FALSE /\ w.acknowledged = TRUE
                     /\ w.published = Nothing /\ w.sequence = 0
                     /\ w.cell = m.cell /\ ShownAs(w, q)
  BY <1>1 DEF ShowsFirst
<1>3. /\ page.sequence = 0 /\ toHost = <<>> /\ writes' = writes /\ host'.epoch = host.epoch
      /\ \A v \in Range(writes) : v.epoch # host.epoch
  <2>1. page = NewPage
    BY <1>1 DEF ShowsFirst
  <2>. QED BY <1>1, <2>1 DEF NewPage, Waiting, HostStays
<1>4. k \in ToHost /\ k \notin Edited /\ NoneIn(toHost, Edited)
  BY <1>2, <1>3, NoAck DEF AppliedTo, NoneIn, Range
<1>5. NoneIn(toPage', Acks)
  <2>1. Acks \subseteq Heralded
    BY DEF Acks, Heralded
  <2>. QED BY <1>1, <2>1 DEF NoneIn
<1>6. Less(toHost, q, Edited) /\ NoneIn(q, Edited)
  BY <1>2, <1>4, PushedLess DEF Pushed
<1>7. CASE m.session
  <2>1. m.cell \in Val
    <3>1. m \in Snapshots /\ m \in Range(toPage)
      BY <1>1 DEF PageTakes1, FirstOnes, Snapshots
    <3>. QED BY <3>1 DEF Values
  <2>2. Unpublished(w)
    BY <1>2, <1>7, <2>1, ValNothing DEF Unpublished
  <2>3. PICK e \in ToHost : /\ e.type = "edits" /\ e.value = w.cell
                            /\ e.sequence = w.sequence + 1 /\ Pushed(q, toHost', e)
    BY <1>2, <2>2 DEF ShownAs
  <2>4. page'.sequence = 1 /\ ~page'.acknowledged /\ page'.published = w.cell
    BY <1>2, <2>2 DEF ShownAs
  <2>5. e.sequence = 1
    BY <1>2, <2>3
  <2>6. \A n \in Range(toHost') : n.type = "edits" => n = e
    <3>1. \A n \in Range(toHost') : n.type = "edits" => n \in Edited
      BY RangeTypesNext, PipeTypes
    <3>. QED BY <1>6, <2>3, <3>1 DEF Pushed, NoneIn
  <2>7. \A n \in Range(toPage') : n.type # "acknowledged"
    BY <1>5, RangeTypesNext, PipeTypes DEF NoneIn
  <2>8. NoneAfter(toHost', Newest(page'.sequence), Edited)
    <3>1. NoneAfter(q, Newest(1), Edited) /\ NoneIn(q, Newest(1))
      BY <1>6, OrderNone, PipeTypes DEF NoneIn
    <3>. QED BY <2>3, <2>4, <3>1 DEF Pushed
  <2>9. \A n \in Range(toHost') : n \in Newest(page'.sequence) => n.value = page'.published
    BY <2>3, <2>4, <2>6 DEF Newest
  <2>10. NoneIn(writes', NewestWrites(host'.epoch, page'.sequence))
    BY <1>3 DEF NoneIn, NewestWrites
  <2>11. ~AckComing'
    BY <2>7 DEF AckComing, NoneIn, NewestAcks
  <2>. QED BY <1>3, <2>4, <2>5, <2>6, <2>7, <2>8, <2>9, <2>10, <2>11, OrderNone DEF Pipeline, NoneIn
<1>8. CASE ~m.session
  <2>1. page'.session # "held" /\ toHost' = q
    BY <1>2, <1>8 DEF ShownAs, Unpublished
  <2>2. \A n \in Range(toHost') : n.type # "edits"
    BY <1>6, <2>1, RangeTypesNext, PipeTypes DEF NoneIn
  <2>3. \A n \in Range(toPage') : n.type # "acknowledged"
    BY <1>5, RangeTypesNext, PipeTypes DEF NoneIn
  <2>. QED BY <1>3, <2>1, <2>2, <2>3 DEF Pipeline
<1>. QED BY <1>7, <1>8

LEMMA NextPipeline ==
    ASSUME IInv, IInv', Arriving, Tokens, Bound, Sessions, Pipeline, Values, [Next]_vars
    PROVE  Pipeline'
<1>1. CASE ~page'.up
  BY <1>1 DEF Pipeline
<1>2. CASE UNCHANGED vars
  BY <1>2 DEF vars, Pipeline, AckComing
<1>3. ASSUME page'.up, ~page.up, Next PROVE Pipeline'
  <2>1. CASE PageActs \/ PageRuns \/ Load
    BY <1>3, <2>1, DownSteps, PipelineFirst, IgnoreDoes
  <2>2. CASE HandleMessage \/ HostOwn
    BY <1>3, <2>2, HostSteps DEF PageStays
  <2>. QED BY <1>3, <2>1, <2>2 DEF Next, HostRuns, HostOwn
<1>4. ASSUME page'.up, page.up, Next PROVE Pipeline'
  <2>1. CASE Load
    BY <1>4, <2>1, LoadDoes, LoadDown
  <2>2. CASE HandleReady
    <3>1. PICK m : Takes(m) /\ m.type = "ready"
      BY <2>2, HandleReadyDoes
    <3>. QED BY <1>4, <3>1, ReadyIn DEF Takes, IInv, Loading
  <2>. QED BY <1>4, <2>1, <2>2, PipelinePage, PipelineMessage, PipelineOwn
           DEF Next, HostRuns, HostOwn
<1>. QED BY <1>1, <1>2, <1>3, <1>4

-----------------------------------------------------------------------------
(* The values that occur *)

LEMMA FrontLast ==
    ASSUME NEW S, NEW s \in Seq(S), s # <<>>
    PROVE  /\ Front(s) \in Seq(S) /\ Len(s) \in Nat \ {0} /\ Len(Front(s)) = Len(s) - 1
           /\ \A i \in 1..(Len(s) - 1) : Front(s)[i] = s[i]
           /\ Range(Front(s)) \subseteq Range(s)
           /\ Last(s) = s[Len(s)] /\ Last(s) \in Range(s)
<1>1. Len(s) \in Nat \ {0} /\ \A i \in 1..Len(s) : s[i] \in S
  BY EmptySeq, LenProperties, ElementOfSeq
<1>2. /\ Front(s) \in Seq(S) /\ Len(Front(s)) = Len(s) - 1
      /\ \A i \in 1..(Len(s) - 1) : Front(s)[i] = s[i]
  <2>1. Front(s) = SubSeq(s, 1, Len(s) - 1)
    BY DEF Front
  <2>2. \A i \in 1..(Len(s) - 1) : s[i] \in S
    BY <1>1
  <2>3. /\ SubSeq(s, 1, Len(s) - 1) \in Seq(S)
        /\ Len(SubSeq(s, 1, Len(s) - 1)) = IF 1 <= Len(s) - 1 THEN Len(s) - 1 - 1 + 1 ELSE 0
        /\ \A i \in 1..(Len(s) - 1 - 1 + 1) : SubSeq(s, 1, Len(s) - 1)[i] = s[1 + i - 1]
    <3>1. Len(s) - 1 \in Int /\ 1 \in Int
      BY <1>1
    <3>. QED BY <2>2, <3>1, SubSeqProperties
  <2>4. Len(s) - 1 - 1 + 1 = Len(s) - 1 /\ \A i \in 1..(Len(s) - 1) : 1 + i - 1 = i
    BY <1>1
  <2>. QED BY <1>1, <2>1, <2>3, <2>4
<1>3. DOMAIN Front(s) = 1..(Len(s) - 1) /\ DOMAIN s = 1..Len(s)
  BY <1>2, LenProperties
<1>4. Range(Front(s)) \subseteq Range(s)
  BY <1>1, <1>2, <1>3 DEF Range
<1>5. Last(s) = s[Len(s)] /\ Len(s) \in DOMAIN s
  BY <1>1, <1>3 DEF Last
<1>. QED BY <1>1, <1>2, <1>4, <1>5 DEF Range

Cells   == Snapshots \cup Granted
Carried == {m \in ToHost : m.type \in {"edits", "commit"}}

Spans(s) == \A e \in Range(s) : e.before \in Val /\ e.after \in Val

PageVals ==
    /\ page.cell \in Val /\ page.published \in Val \cup {Nothing}
    /\ Spans(page.undo) /\ Spans(page.redo)
    /\ page.session = "held" =>
          page.published # Nothing /\ (page.saving \/ page.cell = page.published)
SlotVals ==
    slot.phase \in {"preparing", "committing"} => slot.entry.before \in Val /\ slot.entry.after \in Val
HostVals == host.durable \in Val /\ host.known \in Val /\ host.shown \in Val
SentVals == \A m \in Range(toHost) : m \in Carried => m.value \in Val
CellVals == \A m \in Range(toPage) : m \in Cells => m.cell \in Val
WorkVals ==
    /\ \A w \in Range(writes) : w.value \in Val
    /\ \A c \in Range(committing) : c.value \in Val

LEMMA ValuesAre ==
    ASSUME IInv
    PROVE  Values <=> /\ count.edits <= MaxEdits
                      /\ PageVals /\ SlotVals /\ HostVals /\ SentVals /\ CellVals /\ WorkVals
<1>1. SentVals <=> \A m \in Range(toHost) : m.type \in {"edits", "commit"} => m.value \in Val
  BY RangeTypes DEF SentVals, Carried
<1>2. CellVals <=> \A m \in Range(toPage) : m \in Snapshots \cup Granted => m.cell \in Val
  BY DEF CellVals, Cells
<1>. QED BY <1>1, <1>2 DEF Values, PageVals, SlotVals, HostVals, WorkVals, Spans

LEMMA ValuesAreNext ==
    ASSUME IInv', count'.edits <= MaxEdits,
           PageVals', SlotVals', HostVals', SentVals', CellVals', WorkVals'
    PROVE  Values'
<1>1. \A m \in Range(toHost') : m.type \in {"edits", "commit"} => m.value \in Val'
  BY RangeTypesNext DEF SentVals, Carried
<1>. QED BY <1>1 DEF Values, PageVals, SlotVals, HostVals, CellVals, Cells, WorkVals, Spans

LEMMA ValKept == ASSUME Kept PROVE Val' = Val
<1>. QED BY DEF Kept, Val

\* The host acts: the page stays.
LEMMA ValuesHost ==
    ASSUME IInv, IInv', Values, PageStays, count'.edits = count.edits,
           Less(toHost, toHost', Carried), HostVals', CellVals', WorkVals'
    PROVE  Values'
<1>1. Val' = Val
  BY DEF Val
<1>2. /\ count.edits <= MaxEdits /\ PageVals /\ SlotVals /\ SentVals
  BY ValuesAre
<1>3. PageVals' /\ SlotVals'
  BY <1>1, <1>2 DEF PageStays, PageVals, SlotVals, Spans
<1>4. SentVals'
  BY <1>1, <1>2 DEF SentVals, Less
<1>. QED BY <1>2, <1>3, <1>4, ValuesAreNext

LEMMA CellsLess ==
    ASSUME CellVals, Val' = Val, Less(toPage, toPage', Cells) PROVE CellVals'
<1>. QED BY DEF CellVals, Less

LEMMA NoCell ==
    /\ \A a \in ToPage : a.type \notin {"snapshot", "session"} => a \notin Cells
    /\ \A m \in ToHost : m.type \notin {"edits", "commit"} => m \notin Carried
    /\ \A a \in ToPage : a.type = "session" => a \in Cells <=> a.granted
<1>. QED BY DEF Cells, Snapshots, Granted, Carried

LEMMA CellsGrow ==
    ASSUME CellVals, Val' = Val, NEW a, Grows(toPage, toPage', a), a \in Cells => a.cell \in Val
    PROVE  CellVals'
<1>1. \A m \in Range(toPage') : m \in Range(toPage) \/ m = a
  BY DEF Grows, Pushed
<1>. QED BY <1>1 DEF CellVals

\* What is drawn is what the host has heard of.
LEMMA DrawsVals ==
    ASSUME HostVals, CellVals, NEW q, Draws(q), host'.known \in Val
    PROVE  host'.shown \in Val /\ \A m \in Range(q) : m \in Cells => m.cell \in Val
<1>1. host'.shown \in Val
  BY DEF Draws, HostVals
<1>2. \A m \in Range(q) : m \in Range(toPage) \/ m = Snapshot(host')
  BY DEF Draws, Pushed
<1>3. Snapshot(host').cell \in Val
  BY <1>1 DEF Draws
<1>. QED BY <1>1, <1>2, <1>3 DEF CellVals

LEMMA DrawnVals ==
    ASSUME HostVals, CellVals, Val' = Val, Draws(toPage'), host'.known \in Val, host'.durable \in Val
    PROVE  HostVals' /\ CellVals'
<1>. QED BY DrawsVals DEF HostVals, CellVals

LEMMA AnswersVals ==
    ASSUME HostVals, CellVals, Val' = Val, NEW a, Answers1(a), a \in Cells => a.cell \in Val,
           host'.known \in Val, host'.durable \in Val
    PROVE  HostVals' /\ CellVals'
<1>1. PICK q : Draws(q) /\ Grows(q, toPage', a)
  BY DEF Answers1
<1>2. host'.shown \in Val /\ \A m \in Range(q) : m \in Cells => m.cell \in Val
  BY <1>1, DrawsVals
<1>3. \A m \in Range(toPage') : m \in Range(q) \/ m = a
  BY <1>1 DEF Grows, Pushed
<1>. QED BY <1>2, <1>3 DEF HostVals, CellVals

LEMMA WorkKept ==
    ASSUME WorkVals, Val' = Val, Range(writes') \subseteq Range(writes),
           \A d \in Range(committing') : \E c \in Range(committing) : d.value = c.value
    PROVE  WorkVals'
<1>. QED BY DEF WorkVals

LEMMA WorkSame ==
    ASSUME WorkVals, Val' = Val, writes' = writes, committing' = committing PROVE WorkVals'
<1>. QED BY DEF WorkVals

LEMMA HostSameVals ==
    ASSUME HostVals, Val' = Val, host'.durable = host.durable, host'.known = host.known,
           host'.shown = host.shown
    PROVE  HostVals'
<1>. QED BY DEF HostVals

LEMMA ValuesMessage ==
    ASSUME IInv, IInv', Values, HandleMessage, ~HandleReady
    PROVE  Values'
<1>1. PageStays /\ Less(toHost, toHost', Carried)
  BY MessageTakes, TakesLess
<1>2. HostVals /\ CellVals /\ WorkVals /\ SentVals
  BY ValuesAre
<1>3. \A m : Takes(m) /\ m.type \in {"edits", "commit"} => m.value \in Val
  BY <1>2 DEF Takes, SentVals, Carried
<1>4. CASE HandleEdits
  <2>1. /\ host' = host /\ committing' = committing /\ toPage' = toPage /\ Kept
        /\ \E m : /\ Takes(m) /\ m.type = "edits"
                  /\ \/ writes' = writes
                     \/ \E w \in Write : w.value = m.value /\ writes' = Append(writes, w)
    BY <1>4, HandleEditsDoes
  <2>2. Val' = Val
    BY <2>1, ValKept
  <2>3. WorkVals'
    <3>1. ASSUME NEW w \in Write, w.value \in Val, writes' = Append(writes, w) PROVE WorkVals'
      <4>1. Pushed(writes, writes', w)
        BY <3>1, HostState, PushedAppend
      <4>. QED BY <1>2, <2>1, <2>2, <3>1, <4>1 DEF WorkVals, Pushed
    <3>2. CASE writes' = writes
      BY <1>2, <2>1, <2>2, <3>2, WorkSame
    <3>. QED BY <1>3, <2>1, <3>1, <3>2
  <2>4. HostVals' /\ CellVals'
    BY <1>2, <2>1, <2>2, LessSame, CellsLess, HostSameVals
  <2>. QED BY <1>1, <2>1, <2>3, <2>4, ValuesHost DEF Kept
<1>5. CASE HandleSession
  <2>1. /\ Kept /\ UNCHANGED <<committing, writes, toPage>>
        /\ host'.durable = host.durable /\ host'.known = host.known /\ host'.shown = host.shown
    BY <1>5, HandleSessionDoes DEF HostRests, Becomes
  <2>2. Val' = Val
    BY <2>1, ValKept
  <2>. QED BY <1>1, <1>2, <2>1, <2>2, WorkSame, HostSameVals, LessSame, CellsLess, ValuesHost DEF Kept
<1>6. CASE HandleDiscard
  <2>1. /\ Kept /\ writes' = writes /\ committing' = committing
        /\ host'.durable = 0 /\ host'.known = 0
    BY <1>6, HandleDiscardDoes DEF Becomes
  <2>2. PICK a \in ToPage : a.type = "discarded" /\ Answers1(a)
    BY <1>6, HandleDiscardDoes
  <2>3. Val' = Val /\ WorkVals' /\ 0 \in Val /\ a \notin Cells
    BY <1>2, <2>1, <2>2, ValKept, WorkSame, ValNothing, NoCell
  <2>. QED BY <1>1, <1>2, <2>1, <2>2, <2>3, AnswersVals, ValuesHost DEF Kept
<1>7. CASE handle_save
  <2>1. /\ Kept /\ writes' = writes /\ committing' = committing
        /\ \/ /\ host' = host
              /\ \E a \in ToPage : a.type = "saved" /\ Grows(toPage, toPage', a)
           \/ /\ Draws(toPage')
              /\ host'.durable = host.durable /\ host'.known = host.known
    BY <1>7, HandleSaveDoes DEF Calm, Becomes
  <2>2. Val' = Val /\ WorkVals'
    BY <1>2, <2>1, ValKept, WorkSame
  <2>3. ASSUME host' = host, NEW a \in ToPage, a.type = "saved", Grows(toPage, toPage', a)
        PROVE  HostVals' /\ CellVals'
    BY <1>2, <2>2, <2>3, NoCell, CellsGrow, HostSameVals
  <2>4. CASE Draws(toPage') /\ host'.durable = host.durable /\ host'.known = host.known
    <3>1. HostVals' /\ CellVals'
      BY <1>2, <2>2, <2>4, DrawnVals DEF HostVals
    <3>. QED BY <1>1, <2>1, <2>2, <3>1, ValuesHost DEF Kept
  <2>. QED BY <1>1, <2>1, <2>2, <2>3, <2>4, ValuesHost DEF Kept
<1>8. CASE HandlePrepare
  <2>1. /\ Kept /\ writes' = writes /\ committing' = committing
        /\ host'.durable = host.durable /\ host'.known = host.known /\ host'.shown = host.shown
        /\ \/ toPage' = toPage
           \/ \E a \in ToPage : a.type = "prepareRefused" /\ Grows(toPage, toPage', a)
    BY <1>8, HandlePrepareDoes DEF HostRests, Becomes
  <2>2. Val' = Val /\ WorkVals' /\ HostVals'
    BY <1>2, <2>1, ValKept, WorkSame, HostSameVals
  <2>3. CellVals'
    BY <1>2, <2>1, <2>2, NoCell, CellsGrow, LessSame, CellsLess
  <2>. QED BY <1>1, <2>1, <2>2, <2>3, ValuesHost DEF Kept
<1>9. CASE HandleAbandon
  <2>1. /\ Kept /\ UNCHANGED <<host, committing, writes, toPage>>
    BY <1>9, HandleAbandonDoes
  <2>2. Val' = Val
    BY <2>1, ValKept
  <2>. QED BY <1>1, <1>2, <2>1, <2>2, WorkSame, HostSameVals, LessSame, CellsLess, ValuesHost DEF Kept
<1>10. CASE HandleCommit
  <2>1. Kept /\ UNCHANGED <<host, writes>>
    BY <1>10, HandleCommitDoes
  <2>2. PICK m : /\ Takes(m) /\ m.type = "commit"
                 /\ \/ /\ toPage' = toPage
                       /\ \E c \in Commit : c.value = m.value /\ committing' = Append(committing, c)
                    \/ /\ committing' = committing
                       /\ \E a \in ToPage : a.type = "commitRefused" /\ Grows(toPage, toPage', a)
    BY <1>10, HandleCommitDoes
  <2>3. Val' = Val /\ HostVals'
    BY <1>2, <2>1, ValKept, HostSameVals
  <2>4. CellVals'
    BY <1>2, <2>2, <2>3, NoCell, CellsGrow, LessSame, CellsLess
  <2>5. ASSUME NEW c \in Commit, c.value \in Val, committing' = Append(committing, c)
        PROVE  WorkVals'
    <3>1. Pushed(committing, committing', c)
      BY <2>5, HostState, PushedAppend
    <3>. QED BY <1>2, <2>1, <2>3, <2>5, <3>1 DEF WorkVals, Pushed
  <2>6. WorkVals'
    BY <1>2, <1>3, <2>1, <2>2, <2>3, <2>5, WorkSame
  <2>. QED BY <1>1, <2>1, <2>3, <2>4, <2>6, ValuesHost DEF Kept
<1>11. CASE HandleApplied
  <2>1. /\ Kept /\ UNCHANGED <<committing, writes, toPage>>
        /\ host'.durable = host.durable /\ host'.known = host.known /\ host'.shown = host.shown
    BY <1>11, HandleAppliedDoes DEF Calm, Becomes
  <2>2. Val' = Val
    BY <2>1, ValKept
  <2>. QED BY <1>1, <1>2, <2>1, <2>2, WorkSame, HostSameVals, LessSame, CellsLess, ValuesHost DEF Kept
<1>. QED BY <1>4, <1>5, <1>6, <1>7, <1>8, <1>9, <1>10, <1>11 DEF HandleMessage

LEMMA ValuesOwn ==
    ASSUME IInv, IInv', Values, HostOwn
    PROVE  Values'
<1>1. PageStays /\ Less(toHost, toHost', Carried)
  BY HostOwnStays, LessSame DEF PageStays
<1>2. HostVals /\ CellVals /\ WorkVals
  BY ValuesAre
<1>3. ASSUME Val' = Val, NEW type \in {"committed", "commitRefused"}, NEW c, AnsweredBy(c, type)
      PROVE  CellVals'
  BY <1>2, <1>3, NoCell, CellsGrow DEF AnsweredBy
<1>4. ASSUME Val' = Val, NEW c, NEW step, Steps(c, step)
      PROVE  WorkVals' /\ CellVals' /\ c.value \in Val
  <2>1. toPage' = toPage /\ writes' = writes /\ c \in Range(committing)
    BY <1>4 DEF Steps
  <2>2. \A d \in Range(committing') : \E e \in Range(committing) : d.value = e.value
    BY <1>4 DEF Steps
  <2>. QED BY <1>2, <1>4, <2>1, <2>2, WorkKept, LessSame, CellsLess DEF WorkVals
<1>5. ASSUME Val' = Val, NEW c, EndsCommit(c) PROVE WorkVals'
  <2>1. writes' = writes /\ Range(committing') \subseteq Range(committing)
    BY <1>5 DEF EndsCommit, Popped
  <2>. QED BY <1>2, <1>5, <2>1, WorkKept
<1>6. CASE WriteLands
  <2>1. Kept /\ committing' = [i \in DOMAIN committing |-> ahead(committing[i])]
    BY <1>6, WriteLandsDoes
  <2>2. PICK w \in Write :
          /\ w \in Range(writes) /\ Popped(writes, writes', w)
          /\ \/ host' = host /\ toPage' = toPage
             \/ /\ host'.durable = w.value /\ host'.known = w.value
                /\ Acknowledges(w) \in ToPage /\ Acknowledges(w).type = "acknowledged"
                /\ Answers1(Acknowledges(w))
    BY <1>6, WriteLandsDoes DEF Becomes
  <2>3. Val' = Val
    BY <2>1, ValKept
  <2>4. WorkVals'
    <3>1. \A d \in Range(committing') : \E c \in Range(committing) : d.value = c.value
      <4>1. \A c \in Range(committing) : ahead(c).value = c.value
        BY CommitTypes, AheadFields
      <4>. QED BY <2>1, <4>1 DEF Range
    <3>2. Range(writes') \subseteq Range(writes)
      BY <2>2 DEF Popped
    <3>. QED BY <1>2, <2>3, <3>1, <3>2, WorkKept
  <2>5. HostVals' /\ CellVals'
    <3>1. CASE host' = host /\ toPage' = toPage
      BY <1>2, <2>3, <3>1, HostSameVals, LessSame, CellsLess
    <3>2. CASE /\ host'.durable = w.value /\ host'.known = w.value
               /\ Acknowledges(w) \in ToPage /\ Acknowledges(w).type = "acknowledged"
               /\ Answers1(Acknowledges(w))
      <4>1. w.value \in Val
        BY <1>2, <2>2 DEF WorkVals
      <4>. QED BY <1>2, <2>3, <3>2, <4>1, NoCell, AnswersVals
    <3>. QED BY <2>2, <3>1, <3>2
  <2>. QED BY <1>1, <2>1, <2>4, <2>5, ValuesHost DEF Kept
<1>7. CASE SaveEnds
  <2>1. /\ Kept /\ writes' = writes /\ committing' = committing
        /\ host'.durable = host.durable /\ host'.known = host.known
    BY <1>7, SaveEndsDoes DEF Calm, Becomes
  <2>2. PICK a \in ToPage : a.type = "saved" /\ Answers1(a)
    BY <1>7, SaveEndsDoes
  <2>3. Val' = Val /\ WorkVals' /\ a \notin Cells /\ host'.known \in Val /\ host'.durable \in Val
    BY <1>2, <2>1, <2>2, ValKept, WorkSame, NoCell DEF HostVals
  <2>. QED BY <1>1, <1>2, <2>1, <2>2, <2>3, AnswersVals, ValuesHost DEF Kept
<1>8. CASE StartCommit \/ VerifyCommit \/ CommitOutdated
  <2>1. PICK c : /\ host' = host
                 /\ \/ Steps(c, "draining") \/ Steps(c, "verified")
                    \/ EndsCommit(c) /\ AnsweredBy(c, "commitRefused")
    BY <1>8, StartDoes, VerifyDoes, CommitOutdatedDoes
  <2>2. Kept
    BY <2>1, HostState, KeptSame DEF Steps, EndsCommit
  <2>3. Val' = Val
    BY <2>2, ValKept
  <2>. QED BY <1>1, <1>2, <1>3, <1>4, <1>5, <2>1, <2>2, <2>3, HostSameVals, ValuesHost DEF Kept
<1>9. CASE commit_history_replay
  <2>1. PICK c : \/ Writes(c.value) /\ Steps(c, "written")
                 \/ host' = host /\ EndsCommit(c) /\ AnsweredBy(c, "commitRefused")
    BY <1>9, CommitDoes
  <2>2. Kept
    BY <2>1, HostState, KeptSame DEF Steps, EndsCommit
  <2>3. Val' = Val
    BY <2>2, ValKept
  <2>4. CASE Writes(c.value) /\ Steps(c, "written")
    <3>1. HostVals'
      BY <1>2, <1>4, <2>3, <2>4 DEF Writes, Becomes, HostVals
    <3>. QED BY <1>1, <1>4, <2>2, <2>3, <2>4, <3>1, ValuesHost DEF Kept
  <2>5. CASE host' = host /\ EndsCommit(c) /\ AnsweredBy(c, "commitRefused")
    BY <1>1, <1>2, <1>3, <1>5, <2>2, <2>3, <2>5, HostSameVals, ValuesHost DEF Kept
  <2>. QED BY <2>1, <2>4, <2>5
<1>10. CASE AnswerCommit
  <2>1. PICK c : /\ EndsCommit(c) /\ host'.durable = host.durable /\ host'.known = host.durable
                 /\ host'.shown = host.shown
                 /\ AnsweredBy(c, "committed") \/ AnsweredBy(c, "commitRefused")
    BY <1>10, AnswerDoes
  <2>2. Kept
    BY <2>1 DEF EndsCommit
  <2>3. Val' = Val
    BY <2>2, ValKept
  <2>4. HostVals'
    BY <1>2, <2>1, <2>3 DEF HostVals
  <2>. QED BY <1>1, <1>3, <1>5, <2>1, <2>2, <2>3, <2>4, ValuesHost DEF Kept
<1>11. CASE CompleteReady
  <2>1. /\ Kept /\ writes' = writes /\ committing' = committing
        /\ host'.durable = host.durable /\ host'.known = host.durable /\ host'.shown = host.shown
    BY <1>11, CompleteReadyDoes DEF Becomes
  <2>2. PICK a \in ToPage : a.cell = host.durable /\ Pushed(toPage, toPage', a)
    BY <1>11, CompleteReadyDoes
  <2>3. Val' = Val /\ WorkVals' /\ HostVals' /\ a.cell \in Val
    BY <1>2, <2>1, <2>2, ValKept, WorkSame DEF HostVals
  <2>4. CellVals'
    BY <1>2, <2>2, <2>3, CellsGrow DEF Grows
  <2>. QED BY <1>1, <2>1, <2>3, <2>4, ValuesHost DEF Kept
<1>12. CASE PostSnapshot
  <2>1. /\ Kept /\ writes' = writes /\ committing' = committing
        /\ host'.durable = host.durable /\ host'.known = host.known /\ host'.shown = host.shown
    BY <1>12, PostSnapshotDoes DEF Calm, Becomes
  <2>2. PICK a \in ToPage : a.cell = host.shown /\ Pushed(toPage, toPage', a)
    BY <1>12, PostSnapshotDoes
  <2>3. Val' = Val /\ WorkVals' /\ HostVals' /\ a.cell \in Val
    BY <1>2, <2>1, <2>2, ValKept, WorkSame DEF HostVals
  <2>4. CellVals'
    BY <1>2, <2>2, <2>3, CellsGrow DEF Grows
  <2>. QED BY <1>1, <2>1, <2>3, <2>4, ValuesHost DEF Kept
<1>13. CASE LeaseExpires
  <2>1. /\ Kept /\ UNCHANGED <<host, committing, writes, toPage>>
    BY <1>13, LeaseExpiresDoes
  <2>2. Val' = Val
    BY <2>1, ValKept
  <2>. QED BY <1>1, <1>2, <2>1, <2>2, WorkSame, HostSameVals, LessSame, CellsLess, ValuesHost DEF Kept
<1>14. CASE OtherPanelEdits
  <2>1. /\ count'.edits = count.edits /\ writes' = writes /\ committing' = committing
        /\ Draws(toPage') /\ host'.durable = MaxEdits + 1 /\ host'.known = MaxEdits + 1
    BY <1>14, OtherPanelEditsDoes DEF Becomes
  <2>2. Val' = Val /\ MaxEdits + 1 \in Val
    BY <2>1, ValNothing DEF Val
  <2>. QED BY <1>1, <1>2, <2>1, <2>2, WorkSame, DrawnVals, ValuesHost
<1>15. ASSUME NEW moved \in BOOLEAN, Refresh(moved) PROVE Values'
  <2>1. /\ Kept /\ writes' = writes /\ committing' = committing
        /\ Draws(toPage') /\ host'.durable = host.durable /\ host'.known = host.known
    BY <1>15, RefreshDoes DEF Calm, Becomes
  <2>2. Val' = Val /\ host'.known \in Val /\ host'.durable \in Val
    BY <1>2, <2>1, ValKept DEF HostVals
  <2>. QED BY <1>1, <1>2, <2>1, <2>2, WorkSame, DrawnVals, ValuesHost DEF Kept
<1>16. ASSUME NEW op \in preparing, Preparation(op) PROVE Values'
  <2>1. Refuses(op) \/ Issues(op) \/ Moves(op, "comparing") \/ Moves(op, "verifying")
    BY <1>16, BindDoes, CompareDoes, OutdatedDoes, IssueDoes DEF Preparation
  <2>2. /\ Kept /\ writes' = writes /\ committing' = committing
        /\ host'.durable = host.durable /\ host'.known = host.known /\ host'.shown = host.shown
    BY <2>1, HostState, KeptSame DEF Refuses, Issues, Moves, HostRests, Becomes
  <2>3. \/ toPage' = toPage
        \/ \E a \in ToPage : a.type \in {"prepareRefused", "prepared"} /\ Grows(toPage, toPage', a)
    BY <2>1 DEF Refuses, Issues, Moves
  <2>4. Val' = Val
    BY <2>2, ValKept
  <2>5. CellVals'
    BY <1>2, <2>3, <2>4, NoCell, CellsGrow, LessSame, CellsLess
  <2>. QED BY <1>1, <1>2, <2>2, <2>4, <2>5, WorkSame, HostSameVals, ValuesHost DEF Kept
<1>17. CASE GrantSession
  <2>1. /\ Kept /\ writes' = writes /\ committing' = committing
    BY <1>17, GrantSessionDoes
  <2>2. PICK a \in ToPage :
          /\ a.type = "session" /\ Answers1(a)
          /\ \/ /\ a.granted /\ a.cell = host.durable
                /\ host'.durable = host.durable /\ host'.known = host.durable
             \/ ~a.granted /\ host'.durable = host.durable /\ host'.known = host.known
    BY <1>17, GrantSessionDoes DEF Becomes, HostRests
  <2>3. Val' = Val /\ WorkVals'
    BY <1>2, <2>1, ValKept, WorkSame
  <2>4. (a \in Cells => a.cell \in Val) /\ host'.known \in Val /\ host'.durable \in Val
    BY <1>2, <2>2, NoCell DEF HostVals
  <2>. QED BY <1>1, <1>2, <2>1, <2>2, <2>3, <2>4, AnswersVals, ValuesHost DEF Kept
<1>18. ASSUME NEW post \in host.posting, PostEnds(post) PROVE Values'
  <2>1. /\ Kept /\ UNCHANGED <<committing, writes, toPage>>
        /\ host'.durable = host.durable /\ host'.known = host.known /\ host'.shown = host.shown
    BY <1>18, PostEndsDoes DEF HostRests, Becomes
  <2>2. Val' = Val
    BY <2>1, ValKept
  <2>. QED BY <1>1, <1>2, <2>1, <2>2, WorkSame, HostSameVals, LessSame, CellsLess, ValuesHost DEF Kept
<1>. QED BY <1>6, <1>7, <1>8, <1>9, <1>10, <1>11, <1>12, <1>13, <1>14, <1>15, <1>16, <1>17, <1>18
         DEF HostOwn

LEMMA ValuesReady ==
    ASSUME IInv, IInv', Values, HandleReady PROVE Values'
<1>1. /\ PageStays /\ Kept /\ UNCHANGED <<committing, writes, toPage>>
      /\ host'.durable = host.durable /\ host'.known = host.known /\ host'.shown = host.shown
      /\ \E m : Takes(m)
  BY HandleReadyDoes DEF Becomes
<1>2. Val' = Val /\ HostVals /\ CellVals /\ WorkVals /\ Less(toHost, toHost', Carried)
  BY <1>1, ValKept, ValuesAre, TakesLess
<1>. QED BY <1>1, <1>2, WorkSame, HostSameVals, LessSame, CellsLess, ValuesHost DEF Kept

\* The page acts: the host stays.
LEMMA ValuesPage ==
    ASSUME IInv, IInv', Values, HostStays, Val \subseteq Val', count'.edits <= MaxEdits,
           PageVals', SlotVals', SentVals', Less(toPage, toPage', Cells)
    PROVE  Values'
<1>1. HostVals /\ CellVals /\ WorkVals
  BY ValuesAre
<1>2. HostVals' /\ WorkVals'
  BY <1>1 DEF HostStays, HostVals, WorkVals
<1>3. CellVals'
  BY <1>1 DEF CellVals, Less
<1>. QED BY <1>2, <1>3, ValuesAreNext

LEMMA SentLess ==
    ASSUME SentVals, Val \subseteq Val', Less(toHost, toHost', Carried) PROVE SentVals'
<1>. QED BY DEF SentVals, Less

LEMMA SentGrow ==
    ASSUME SentVals, Val \subseteq Val', NEW m, Pushed(toHost, toHost', m), m \in Carried => m.value \in Val'
    PROVE  SentVals'
<1>. QED BY DEF SentVals, Pushed

LEMMA SlotKept ==
    ASSUME SlotVals, Val \subseteq Val', slot' = slot PROVE SlotVals'
<1>. QED BY DEF SlotVals

LEMMA PageKept ==
    ASSUME PageVals, Val \subseteq Val', page'.cell = page.cell,
           page'.undo = page.undo, page'.redo = page.redo,
           page'.published = page.published,
           page'.session = "held" => page.session = "held" /\ (page.saving => page'.saving)
    PROVE  PageVals'
<1>. QED BY DEF PageVals, Spans

\* A page that shows w, and so has published its cell unless it saves.
LEMMA ValuesShown ==
    ASSUME IInv, IInv', Values, HostStays, Val \subseteq Val', count'.edits <= MaxEdits,
           Nothing \notin Val', NEW w, NEW q, ShownAs(w, q),
           w.cell \in Val', w.published \in Val' \cup {Nothing},
           w.session = "held" /\ w.saving => w.published # Nothing,
           \A e \in Range(w.undo) : e.before \in Val' /\ e.after \in Val',
           \A e \in Range(w.redo) : e.before \in Val' /\ e.after \in Val',
           SlotVals', Less(toHost, q, Carried), Less(toPage, toPage', Cells)
    PROVE  Values'
<1>1. SentVals
  BY ValuesAre
<1>2. SentVals'
  <2>1. \A m \in Range(q) : m \in Carried => m.value \in Val'
    BY <1>1 DEF SentVals, Less
  <2>2. CASE toHost' = q
    BY <2>1, <2>2 DEF SentVals
  <2>3. ASSUME NEW e, e.value = w.cell, Pushed(q, toHost', e) PROVE SentVals'
    BY <2>1, <2>3 DEF SentVals, Pushed
  <2>. QED BY <2>2, <2>3 DEF ShownAs
<1>3. PageVals'
  <2>1. page'.cell \in Val' /\ page'.published \in Val' \cup {Nothing}
    BY DEF ShownAs
  <2>2. Spans(page.undo)' /\ Spans(page.redo)'
    BY DEF Spans, ShownAs
  <2>3. page'.session = "held" => page'.saving \/ page'.cell = page'.published
    BY StateTypes DEF ShownAs, Unpublished
  <2>4. page'.session = "held" => page'.published # Nothing
    BY <2>1, <2>3 DEF ShownAs, Unpublished
  <2>. QED BY <2>1, <2>2, <2>3, <2>4 DEF PageVals
<1>. QED BY <1>2, <1>3, ValuesPage

LEMMA ValuesEdit ==
    ASSUME IInv, IInv', Values, Edit PROVE Values'
<1>1. /\ HostStays /\ slot' = slot /\ toPage' = toPage
      /\ page.session = "held" /\ ~page.saving
      /\ count.edits < MaxEdits /\ count'.edits = count.edits + 1
      /\ \E w : EditDoes1(w, count.edits + 1) /\ ShownAs(w, toHost)
  BY EditDoes
<1>2. count.edits \in Nat /\ MaxEdits \in Nat
  BY ValNothing
<1>3. /\ Val \subseteq Val' /\ count.edits + 1 \in Val' /\ count'.edits <= MaxEdits
      /\ Nothing \notin Val'
  BY <1>1, <1>2 DEF Val, Nothing
<1>4. PICK w : EditDoes1(w, count.edits + 1) /\ ShownAs(w, toHost)
  BY <1>1
<1>5. PICK e \in Entry : e.before = page.cell /\ e.after = count.edits + 1
                         /\ w.undo = Append(page.undo, e)
  BY <1>4 DEF EditDoes1
<1>6. PageVals /\ SlotVals
  BY ValuesAre
<1>7. Range(w.undo) = Range(page.undo) \cup {e}
  BY <1>5, HostState, AfterAppend DEF Page
<1>8. \A d \in Range(w.undo) : d.before \in Val' /\ d.after \in Val'
  BY <1>3, <1>5, <1>6, <1>7 DEF PageVals, Spans
<1>9. Range(w.redo) = {}
  BY <1>4 DEF EditDoes1, Range
<1>10. /\ w.cell \in Val' /\ w.published \in Val' \cup {Nothing} /\ w.saving = page.saving
  BY <1>3, <1>4, <1>6 DEF EditDoes1, PageLike, PageVals
<1>11. SlotVals'
  BY <1>1, <1>3, <1>6, SlotKept
<1>. QED BY <1>1, <1>3, <1>4, <1>8, <1>9, <1>10, <1>11, LessSame, ValuesShown

LEMMA ValuesDiscard ==
    ASSUME IInv, IInv', Values, Discard PROVE Values'
<1>1. /\ HostStays /\ slot' = slot /\ toPage' = toPage /\ Kept
      /\ page'.session = "discarding" /\ page'.published = Nothing
      /\ page'.cell = 0 /\ page'.redo = <<>>
  BY DiscardDoes
<1>2. PICK e \in Entry : e.before = page.cell /\ e.after = 0 /\ page'.undo = Append(page.undo, e)
  BY DiscardDoes
<1>3. PICK m \in ToHost : m.type = "discard" /\ Pushed(toHost, toHost', m)
  BY DiscardDoes
<1>4. /\ Val' = Val /\ 0 \in Val /\ count.edits <= MaxEdits /\ PageVals /\ SlotVals /\ SentVals
  BY <1>1, ValKept, ValNothing, ValuesAre
<1>5. Range(page'.undo) = Range(page.undo) \cup {e}
  BY <1>2, HostState, AfterAppend DEF Page
<1>6. Spans(page.undo)' /\ Spans(page.redo)'
  <2>1. Range(page'.redo) = {}
    BY <1>1 DEF Range
  <2>. QED BY <1>2, <1>4, <1>5, <2>1 DEF PageVals, Spans
<1>7. PageVals'
  BY <1>1, <1>4, <1>6 DEF PageVals
<1>8. SlotVals' /\ SentVals'
  BY <1>1, <1>3, <1>4, NoCell, SlotKept, SentGrow
<1>. QED BY <1>1, <1>4, <1>7, <1>8, LessSame, ValuesPage DEF Kept

LEMMA TargetVal ==
    ASSUME IInv, Values, slot.phase \in {"preparing", "committing"}
    PROVE  Target \in Val /\ slot.entry \in Entry
<1>. QED BY SlotTypes, HostState, ValuesAre DEF SlotVals, Target, to_side

LEMMA ValuesOnCommitted ==
    ASSUME IInv, IInv', Tokens, Bound, Values, page.up, on_committed PROVE Values'
<1>1. /\ HostStays /\ Kept /\ slot.phase = "committing" /\ slot'.phase = "idle"
      /\ page.session = "held" /\ \E m : PageTakes1(m)
  BY OnCommittedDoes
<1>2. PICK w : /\ PageLike(w) /\ w.session = page.session /\ w.saving = page.saving
               /\ w.cell = Target /\ Moved1(w) /\ ShownAs(w, toHost)
  BY OnCommittedDoes
<1>3. /\ Val' = Val /\ Nothing \notin Val /\ count.edits <= MaxEdits /\ PageVals /\ SlotVals
      /\ Target \in Val /\ slot.entry \in Entry
  BY <1>1, ValKept, ValNothing, ValuesAre, TargetVal
<1>4. page.undo \in Seq(Entry) /\ page.redo \in Seq(Entry)
  BY HostState DEF Page
<1>5. /\ slot.direction = "undo" => page.undo # <<>>
      /\ slot.direction = "redo" => page.redo # <<>>
  BY <1>1 DEF Bound, stack_for
<1>6. /\ Range(Append(page.undo, slot.entry)) = Range(page.undo) \cup {slot.entry}
      /\ Range(Append(page.redo, slot.entry)) = Range(page.redo) \cup {slot.entry}
      /\ page.undo # <<>> => Range(Front(page.undo)) \subseteq Range(page.undo)
      /\ page.redo # <<>> => Range(Front(page.redo)) \subseteq Range(page.redo)
  BY <1>3, <1>4, AfterAppend, FrontLast
<1>7. Range(w.undo) \cup Range(w.redo) \subseteq Range(page.undo) \cup Range(page.redo) \cup {slot.entry}
  BY <1>2, <1>5, <1>6 DEF Moved1
<1>8. \A e \in Range(page.undo) \cup Range(page.redo) \cup {slot.entry} : e.before \in Val /\ e.after \in Val
  BY <1>1, <1>3 DEF PageVals, SlotVals, Spans
<1>9. /\ w.cell \in Val' /\ w.published \in Val' \cup {Nothing} /\ w.published # Nothing
  BY <1>1, <1>2, <1>3 DEF PageLike, PageVals
<1>10. SlotVals'
  BY <1>1 DEF SlotVals
<1>11. Less(toHost, toHost, Carried) /\ Less(toPage, toPage', Cells)
  BY <1>1, LessSame, PageTakesLess
<1>12. /\ \A e \in Range(w.undo) : e.before \in Val' /\ e.after \in Val'
       /\ \A e \in Range(w.redo) : e.before \in Val' /\ e.after \in Val'
  BY <1>3, <1>7, <1>8
<1>. QED BY <1>1, <1>2, <1>3, <1>9, <1>10, <1>11, <1>12, ValuesShown DEF Kept

LEMMA ValuesPrepare ==
    ASSUME IInv, IInv', Values, Prepare PROVE Values'
<1>1. /\ HostStays /\ toPage' = toPage /\ Kept /\ Quietly
      /\ page'.saving = page.saving /\ page'.session = page.session
      /\ slot'.entry \in Entry
      /\ stack_for(page', slot.direction) # <<>>
      /\ slot'.entry = Last(stack_for(page', slot.direction))
      /\ \E m \in ToHost : m.type = "prepare" /\ Pushed(toHost, toHost', m)
  BY PrepareDoes
<1>2. /\ Val' = Val /\ count.edits <= MaxEdits /\ PageVals /\ SentVals
  BY <1>1, ValKept, ValuesAre
<1>3. PageVals'
  BY <1>1, <1>2, PageKept DEF Quietly, PageLike
<1>4. page'.undo \in Seq(Entry) /\ page'.redo \in Seq(Entry)
  BY <1>1, HostState DEF Quietly, Page
<1>5. slot'.entry \in Range(page'.undo) \cup Range(page'.redo)
  <2>1. /\ page'.undo # <<>> => Last(page'.undo) \in Range(page'.undo)
        /\ page'.redo # <<>> => Last(page'.redo) \in Range(page'.redo)
    BY <1>4, FrontLast
  <2>. QED BY <1>1, <2>1 DEF stack_for
<1>6. SlotVals'
  BY <1>3, <1>5 DEF PageVals, Spans, SlotVals
<1>7. SentVals'
  BY <1>1, <1>2, NoCell, SentGrow
<1>. QED BY <1>1, <1>2, <1>3, <1>6, <1>7, LessSame, ValuesPage DEF Kept

LEMMA ValuesOnPrepared ==
    ASSUME IInv, IInv', Tokens, Values, page.up, on_prepared PROVE Values'
<1>1. /\ HostStays /\ page' = page /\ Kept /\ slot.phase = "preparing"
      /\ \E m : PageTakes1(m)
      /\ \/ /\ slot'.phase = "committing" /\ slot'.entry = slot.entry
            /\ \E k \in ToHost : k.type = "commit" /\ k.value = Target /\ Pushed(toHost, toHost', k)
         \/ /\ slot'.phase = "idle"
            /\ \E k \in ToHost : k.type = "abandon" /\ Pushed(toHost, toHost', k)
  BY OnPreparedDoes
<1>2. /\ Val' = Val /\ count.edits <= MaxEdits /\ PageVals /\ SlotVals /\ SentVals /\ Target \in Val
  BY <1>1, ValKept, ValuesAre, TargetVal
<1>3. PageVals' /\ SlotVals'
  BY <1>1, <1>2, PageKept DEF SlotVals
<1>4. SentVals'
  BY <1>1, <1>2, NoCell, SentGrow
<1>5. Less(toPage, toPage', Cells)
  BY <1>1, PageTakesLess
<1>. QED BY <1>1, <1>2, <1>3, <1>4, <1>5, ValuesPage DEF Kept

\* The page stays as it is, but for its edit session, and says nothing of its cell.
LEMMA ValuesQuiet ==
    ASSUME IInv, IInv', Values, HostStays, Kept, Quietly,
           page'.session = "held" => page.session = "held" /\ (page.saving => page'.saving),
           slot' = slot \/ slot'.phase \in {"idle", "acquiring"},
           Less(toHost, toHost', Carried), Less(toPage, toPage', Cells)
    PROVE  Values'
<1>1. /\ Val' = Val /\ count.edits <= MaxEdits /\ PageVals /\ SlotVals /\ SentVals
  BY ValKept, ValuesAre
<1>2. PageVals'
  BY <1>1, PageKept DEF Quietly, PageLike
<1>3. SlotVals'
  BY <1>1 DEF SlotVals
<1>4. SentVals'
  BY <1>1, SentLess
<1>. QED BY <1>1, <1>2, <1>3, <1>4, ValuesPage DEF Kept

LEMMA SnapshotVal ==
    ASSUME Values, NEW m, PageTakes1(m), m.type = "snapshot" \/ m \in Granted
    PROVE  m.cell \in Val
<1>1. m \in Range(toPage) /\ m \in Snapshots \cup Granted
  BY DEF PageTakes1, Snapshots
<1>. QED BY <1>1 DEF Values

LEMMA ValuesOnSnapshot ==
    ASSUME IInv, IInv', Arriving, Values, OnSnapshot PROVE Values'
<1>1. PICK m : /\ HostStays /\ Kept /\ PageTakes1(m) /\ m.type = "snapshot"
               /\ \/ ShowsFirst(m) \/ ShowsAgain(m) \/ Republishes(m) \/ Leaves(m)
  BY OnSnapshotDoes
<1>2. /\ Val' = Val /\ Nothing \notin Val /\ count.edits <= MaxEdits
      /\ PageVals /\ SlotVals /\ SentVals /\ m.cell \in Val
      /\ Less(toPage, toPage', Cells)
  BY <1>1, ValKept, ValNothing, ValuesAre, SnapshotVal, PageTakesLess
<1>3. \A k : AppliedTo(m, k) => k \notin Carried
  BY NoCell DEF AppliedTo
<1>4. CASE ShowsFirst(m)
  <2>1. PICK k, q, w : /\ AppliedTo(m, k) /\ Pushed(toHost, q, k)
                       /\ w.saving = FALSE /\ w.published = Nothing
                       /\ w.undo = <<>> /\ w.redo = <<>> /\ w.cell = m.cell
                       /\ ShownAs(w, q)
    BY <1>4 DEF ShowsFirst
  <2>2. Range(w.undo) = {} /\ Range(w.redo) = {}
    BY <2>1 DEF Range
  <2>3. SlotVals'
    BY <1>4 DEF ShowsFirst, SlotVals
  <2>4. Less(toHost, q, Carried)
    BY <1>3, <2>1, PushedLess
  <2>. QED BY <1>1, <1>2, <2>1, <2>2, <2>3, <2>4, ValuesShown DEF Kept
<1>5. CASE ShowsAgain(m)
  <2>1. PICK k, q, w : /\ AppliedTo(m, k) /\ Pushed(toHost, q, k)
                       /\ PageLike(w) /\ w.session = page.session /\ w.saving = page.saving
                       /\ w.undo = page.undo /\ w.redo = page.redo /\ w.cell = m.cell
                       /\ ShownAs(w, q)
    BY <1>5 DEF ShowsAgain
  <2>2. /\ w.published \in Val \cup {Nothing} /\ w.published # Nothing
        /\ \A e \in Range(w.undo) : e.before \in Val' /\ e.after \in Val'
        /\ \A e \in Range(w.redo) : e.before \in Val' /\ e.after \in Val'
    BY <1>2, <1>5, <2>1 DEF ShowsAgain, PageLike, PageVals, Spans
  <2>3. SlotVals'
    BY <1>2, <1>5, SlotKept DEF ShowsAgain
  <2>4. Less(toHost, q, Carried)
    BY <1>3, <2>1, PushedLess
  <2>. QED BY <1>1, <1>2, <2>1, <2>2, <2>3, <2>4, ValuesShown DEF Kept
<1>6. CASE Republishes(m)
  <2>1. PICK k, q : \E e \in ToHost :
          /\ AppliedTo(m, k) /\ Pushed(toHost, q, e) /\ Pushed(q, toHost', k)
          /\ e.type = "edits" /\ e.value = page.cell
    BY <1>6 DEF Republishes
  <2>2. SentVals'
    BY <1>2, <1>3, <2>1 DEF SentVals, Pushed, PageVals
  <2>3. PageVals' /\ SlotVals'
    BY <1>2, <1>6 DEF Republishes, PageVals, SlotVals, Spans
  <2>. QED BY <1>1, <1>2, <2>2, <2>3, ValuesPage DEF Kept
<1>7. CASE Leaves(m)
  <2>1. PICK k : AppliedTo(m, k) /\ Pushed(toHost, toHost', k)
    BY <1>7 DEF Leaves
  <2>2. SentVals' /\ PageVals' /\ SlotVals'
    BY <1>2, <1>3, <1>7, <2>1, SentGrow, PageKept, SlotKept DEF Leaves
  <2>. QED BY <1>1, <1>2, <2>2, ValuesPage DEF Kept
<1>. QED BY <1>1, <1>4, <1>5, <1>6, <1>7

LEMMA ValuesOnSession ==
    ASSUME IInv, IInv', Sessions, Values, page.up, OnSession PROVE Values'
<1>1. PICK m : /\ HostStays /\ Kept /\ page.session = "requested" /\ PageTakes1(m) /\ m.type = "session"
               /\ \/ /\ m.granted /\ slot' = slot
                     /\ \E w : /\ PageLike(w) /\ w.session = "held" /\ w.saving = page.saving
                               /\ w.undo = page.undo /\ w.redo = page.redo
                               /\ w.cell = m.cell /\ ShownAs(w, toHost)
                  \/ /\ ~m.granted /\ Quietly /\ page'.session = "none" /\ toHost' = toHost
                     /\ \/ slot' = slot
                        \/ slot'.phase = "idle"
  BY OnSessionDoes
<1>2. /\ Val' = Val /\ Nothing \notin Val /\ count.edits <= MaxEdits /\ PageVals /\ SlotVals
      /\ ~page.saving /\ Less(toPage, toPage', Cells)
  BY <1>1, ValKept, ValNothing, ValuesAre, PageTakesLess DEF Sessions
<1>3. CASE m.granted
  <2>1. m.cell \in Val
    BY <1>1, <1>3, SnapshotVal DEF PageTakes1, Granted
  <2>2. PICK w : /\ PageLike(w) /\ w.session = "held" /\ w.saving = page.saving
                 /\ w.undo = page.undo /\ w.redo = page.redo
                 /\ w.cell = m.cell /\ ShownAs(w, toHost)
    BY <1>1, <1>3
  <2>3. /\ w.published \in Val' \cup {Nothing}
        /\ \A e \in Range(w.undo) : e.before \in Val' /\ e.after \in Val'
        /\ \A e \in Range(w.redo) : e.before \in Val' /\ e.after \in Val'
    BY <1>2, <2>2 DEF PageLike, PageVals, Spans
  <2>4. SlotVals'
    BY <1>1, <1>2, <1>3, SlotKept
  <2>. QED BY <1>1, <1>2, <2>1, <2>2, <2>3, <2>4, LessSame, ValuesShown DEF Kept
<1>4. CASE ~m.granted
  BY <1>1, <1>2, <1>4, LessSame, ValuesQuiet
<1>. QED BY <1>3, <1>4

LEMMA ValuesOnSaved ==
    ASSUME IInv, IInv', Values, OnSaved PROVE Values'
<1>1. PICK m, w : /\ HostStays /\ Kept /\ slot' = slot /\ PageTakes1(m)
                  /\ PageLike(w) /\ w.session = page.session /\ w.saving = FALSE
                  /\ w.undo = page.undo /\ w.redo = page.redo
                  /\ w.cell = page.cell /\ ShownAs(w, toHost)
  BY OnSavedDoes
<1>2. /\ Val' = Val /\ Nothing \notin Val /\ count.edits <= MaxEdits /\ PageVals /\ SlotVals
      /\ Less(toPage, toPage', Cells)
  BY <1>1, ValKept, ValNothing, ValuesAre, PageTakesLess
<1>3. /\ w.cell \in Val' /\ w.published \in Val' \cup {Nothing}
      /\ \A e \in Range(w.undo) : e.before \in Val' /\ e.after \in Val'
      /\ \A e \in Range(w.redo) : e.before \in Val' /\ e.after \in Val'
  BY <1>1, <1>2 DEF PageLike, PageVals, Spans
<1>4. SlotVals'
  BY <1>1, <1>2, SlotKept
<1>. QED BY <1>1, <1>2, <1>3, <1>4, LessSame, ValuesShown DEF Kept

LEMMA ValuesLoad ==
    ASSUME IInv, IInv', Values, Load PROVE Values'
<1>1. /\ HostStays /\ Kept /\ page' = NewPage /\ slot' = Idle /\ toPage' = <<>>
      /\ \E m \in ToHost : m.type = "ready" /\ Pushed(toHost, toHost', m)
  BY LoadDoes
<1>2. /\ Val' = Val /\ 0 \in Val /\ count.edits <= MaxEdits /\ SentVals
  BY <1>1, ValKept, ValNothing, ValuesAre
<1>3. SentVals'
  BY <1>1, <1>2, NoCell, SentGrow
<1>4. SlotVals'
  BY <1>1 DEF SlotVals, Idle
<1>5. PageVals'
  BY <1>1, <1>2 DEF NewPage, PageVals, Spans, Range
<1>6. Less(toPage, toPage', Cells)
  BY <1>1 DEF Less, NoneIn, NoneAfter, Range
<1>. QED BY <1>1, <1>2, <1>3, <1>4, <1>5, <1>6, ValuesPage DEF Kept

LEMMA NextValues ==
    ASSUME IInv, IInv', Arriving, Tokens, Bound, Sessions, Values, [Next]_vars
    PROVE  Values'
<1>1. CASE UNCHANGED vars
  BY <1>1 DEF vars, Values, Val
<1>2. Less(toHost, toHost, Carried) /\ Less(toPage, toPage, Cells)
  BY LessSame
<1>3. ASSUME NEW m \in ToHost, m.type \notin {"edits", "commit"}, Pushed(toHost, toHost', m)
      PROVE  Less(toHost, toHost', Carried)
  BY <1>3, PushedLess, NoCell
<1>4. ASSUME NEW m, PageTakes1(m) PROVE Less(toPage, toPage', Cells)
  BY <1>4, PageTakesLess
<1>5. CASE RequestSession
  BY <1>2, <1>3, <1>5, RequestSessionDoes, ValuesQuiet
<1>6. CASE RequestSave
  BY <1>2, <1>3, <1>6, RequestSaveDoes, ValuesQuiet
<1>7. ASSUME page' = page PROVE Quietly
  BY <1>7, HostState DEF Quietly, PageLike
<1>8. ASSUME NEW direction \in Directions, Begin(direction) PROVE Values'
  BY <1>2, <1>7, <1>8, BeginDoes, ValuesQuiet
<1>9. CASE Ignore
  BY <1>2, <1>4, <1>7, <1>9, IgnoreDoes, ValuesQuiet
<1>10. CASE page.up /\ (on_prepare_refused \/ on_commit_refused)
  <2>1. /\ HostStays /\ page' = page /\ toHost' = toHost /\ Kept /\ slot'.phase = "idle"
        /\ \E m : PageTakes1(m)
    BY <1>10, OnRefusedDoes
  <2>. QED BY <1>2, <1>4, <1>7, <2>1, ValuesQuiet
<1>11. CASE OnAcknowledged
  BY <1>2, <1>4, <1>11, OnAcknowledgedDoes, ValuesQuiet
<1>12. CASE page.up /\ OnDiscarded
  BY <1>2, <1>4, <1>12, OnDiscardedDoes, ValuesQuiet
<1>13. CASE HandleMessage \/ HostOwn
  BY <1>13, ValuesMessage, ValuesReady, ValuesOwn
<1>14. CASE PageActs \/ PageRuns \/ Load
  BY <1>5, <1>6, <1>8, <1>9, <1>10, <1>11, <1>12, <1>14, ValuesEdit, ValuesDiscard, ValuesPrepare,
     ValuesOnPrepared, ValuesOnCommitted, ValuesOnSnapshot, ValuesOnSession, ValuesOnSaved, ValuesLoad
     DEF PageActs, PageRuns, OnMessage
<1>. QED BY <1>1, <1>13, <1>14 DEF Next, HostRuns, HostOwn

-----------------------------------------------------------------------------
(* A replay whose answer was lost, or that was refused after it was written, stays that
   way until the page is loaded again *)

LEMMA StuckIs ==
    ASSUME IInv, Tokens, page.up PROVE Stuck <=> slot.phase = "committing" /\ NoTokens
<1>1. ASSUME slot.phase = "committing", NoTokens PROVE ~CommitToken
  <2>1. NoneIn(toHost, Commits)
    BY <1>1, CallTypes DEF NoTokens, NoneIn
  <2>2. \A m \in Range(toPage) : m.type \notin {"committed", "commitRefused"}
    BY <1>1, CallTypes DEF NoTokens, NoneIn
  <2>. QED BY <1>1, <2>1, <2>2 DEF CommitToken, NoTokens
<1>2. ASSUME Stuck PROVE NoTokens
  <2>1. \A m \in Range(toHost) : m \notin Calls
    BY <1>2, CallTypes DEF Stuck, CommitToken, Tokens, OfPrepare, NoneIn
  <2>2. \A m \in Range(toPage) : m \notin Verdicts
    BY <1>2, CallTypes DEF Stuck, CommitToken, Tokens, OfPrepare
  <2>3. CurOps = {} /\ CurCommits = {}
    BY <1>2 DEF Stuck, CommitToken, Tokens, OfPrepare
  <2>. QED BY <2>1, <2>2, <2>3 DEF NoTokens, NoneIn
<1>. QED BY <1>1, <1>2 DEF Stuck

LEMMA NothingStill ==
    ASSUME NoTokens, WorkStays, Less(toHost, toHost', Calls), Less(toPage, toPage', Verdicts)
    PROVE  NoTokens'
<1>. QED BY DEF NoTokens, WorkStays, Less, CurOps, CurCommits

LEMMA NothingMessage ==
    ASSUME IInv, Tokens, page.up, NoTokens, HandleMessage, ~HandleReady
    PROVE  NoTokens'
<1>1. Less(toHost, toHost', Calls)
  BY MessageTakes, TakesLess
<1>2. CASE HandleEdits
  BY <1>1, <1>2, HandleEditsDoes, LessSame, NothingStill DEF WorkStays
<1>3. CASE HandleSession
  BY <1>1, <1>3, HandleSessionDoes, LessSame, NothingStill DEF WorkStays, HostRests
<1>4. CASE HandleDiscard
  <2>1. PICK a \in ToPage : /\ a.type = "discarded" /\ Answers1(a)
    BY <1>4, HandleDiscardDoes
  <2>2. WorkStays
    BY <1>4, <2>1, HandleDiscardDoes DEF Answers1, Draws, WorkStays
  <2>. QED BY <1>1, <2>1, <2>2, AnswersLess, VerdictTypes, NothingStill
<1>5. CASE handle_save
  <2>1. WorkStays
    BY <1>5, HandleSaveDoes DEF Draws, WorkStays
  <2>2. Less(toPage, toPage', Verdicts)
    BY <1>5, HandleSaveDoes, LessGrows, DrawsLess, VerdictTypes
  <2>. QED BY <1>1, <2>1, <2>2, NothingStill
<1>6. CASE HandleAbandon
  BY <1>1, <1>6, HandleAbandonDoes, LessSame, NothingStill DEF WorkStays
<1>7. CASE HandleApplied
  BY <1>1, <1>7, HandleAppliedDoes, LessSame, NothingStill DEF WorkStays
<1>8. ASSUME NEW m, Takes(m), m.type \in {"prepare", "commit"} PROVE FALSE
  BY <1>8, CallTypes DEF Takes, NoTokens, NoneIn
<1>9. ~HandlePrepare /\ ~HandleCommit
  BY <1>8, HandlePrepareDoes, HandleCommitDoes
<1>. QED BY <1>2, <1>3, <1>4, <1>5, <1>6, <1>7, <1>9 DEF HandleMessage

LEMMA NothingOwn ==
    ASSUME IInv, Numbered, Tokens, page.up, NoTokens, HostOwn
    PROVE  NoTokens'
<1>1. Less(toHost, toHost', Calls) /\ toHost' = toHost
  BY HostOwnStays, LessSame
<1>2. CASE SaveEnds
  <2>1. PICK a \in ToPage : a.type = "saved" /\ Answers1(a)
    BY <1>2, SaveEndsDoes
  <2>2. WorkStays
    BY <1>2, <2>1, SaveEndsDoes DEF Answers1, Draws, WorkStays
  <2>. QED BY <1>1, <2>1, <2>2, AnswersLess, VerdictTypes, NothingStill
<1>3. CASE CompleteReady
  BY <1>3, CompleteReadyDoes DEF IInv, Loading
<1>4. CASE PostSnapshot
  <2>1. PICK a \in ToPage : a.type = "snapshot" /\ Pushed(toPage, toPage', a)
    BY <1>4, PostSnapshotDoes
  <2>2. Less(toPage, toPage', Verdicts)
    BY <2>1, PushedLess, VerdictTypes
  <2>. QED BY <1>1, <1>4, <2>2, PostSnapshotDoes, NothingStill DEF WorkStays
<1>5. CASE LeaseExpires
  BY <1>1, <1>5, LeaseExpiresDoes, LessSame, NothingStill DEF WorkStays
<1>6. CASE OtherPanelEdits
  <2>1. Less(toPage, toPage', Verdicts)
    BY <1>6, OtherPanelEditsDoes, DrawsLess, VerdictTypes
  <2>. QED BY <1>1, <1>6, <2>1, OtherPanelEditsDoes, NothingStill DEF WorkStays, Draws
<1>7. ASSUME NEW moved \in BOOLEAN, Refresh(moved) PROVE NoTokens'
  <2>1. Less(toPage, toPage', Verdicts)
    BY <1>7, RefreshDoes, DrawsLess, VerdictTypes
  <2>. QED BY <1>1, <1>7, <2>1, RefreshDoes, NothingStill DEF WorkStays, Draws
<1>8. CASE WriteLands
  <2>1. CurOps' = {} /\ CurCommits' = {}
    BY <1>8, LandsWork DEF NoTokens
  <2>2. Less(toPage, toPage', Verdicts)
    <3>1. PICK w : \/ toPage' = toPage
                   \/ /\ Acknowledges(w) \in ToPage /\ Acknowledges(w).type = "acknowledged"
                      /\ Answers1(Acknowledges(w))
      BY <1>8, WriteLandsDoes
    <3>. QED BY <3>1, AnswersLess, VerdictTypes, LessSame
  <2>. QED BY <1>1, <2>1, <2>2 DEF NoTokens, Less
<1>9. ASSUME host'.epoch = host.epoch, NEW c, EndsCommit(c) PROVE NoTokens'
  <2>1. CurCommits' = CurCommits /\ toPage' = toPage
    BY <1>9, SettledCurrent DEF NoTokens
  <2>2. CurOps' = CurOps
    BY <1>9 DEF CurOps, EndsCommit
  <2>. QED BY <1>1, <2>1, <2>2 DEF NoTokens
<1>10. ASSUME host'.epoch = host.epoch, NEW c, NEW step, Steps(c, step) PROVE FALSE
  BY <1>10, SteppedCurrent DEF NoTokens
<1>11. CASE StartCommit \/ VerifyCommit \/ CommitOutdated
  BY <1>9, <1>10, <1>11, StartDoes, VerifyDoes, CommitOutdatedDoes
<1>12. CASE commit_history_replay
  BY <1>9, <1>10, <1>12, CommitDoes DEF Writes
<1>13. CASE AnswerCommit
  BY <1>9, <1>13, AnswerDoes
<1>14. ASSUME NEW op \in preparing, Preparation(op) PROVE NoTokens'
  <2>1. op.epoch # host.epoch
    BY <1>14 DEF NoTokens, CurOps
  <2>2. Refuses(op)
    BY <1>14, <2>1, BindDoes, CompareDoes, OutdatedDoes, IssueDoes DEF Preparation, Moves, Issues
  <2>3. CurOps' = {} /\ CurCommits' = {} /\ toPage' = toPage
    BY <2>1, <2>2 DEF Refuses, HostRests, NoTokens, CurOps, CurCommits
  <2>. QED BY <1>1, <2>3 DEF NoTokens
<1>15. CASE GrantSession
  <2>1. PICK a \in ToPage : a.type = "session" /\ Answers1(a)
    BY <1>15, GrantSessionDoes
  <2>2. WorkStays
    BY <1>15, <2>1, GrantSessionDoes DEF Answers1, Draws, WorkStays
  <2>. QED BY <1>1, <2>1, <2>2, AnswersLess, VerdictTypes, NothingStill
<1>16. ASSUME NEW post \in host.posting, PostEnds(post) PROVE NoTokens'
  BY <1>1, <1>16, PostEndsDoes, LessSame, NothingStill DEF WorkStays, HostRests
<1>. QED BY <1>2, <1>3, <1>4, <1>5, <1>6, <1>7, <1>8, <1>11, <1>12, <1>13, <1>14, <1>15, <1>16
         DEF HostOwn

LEMMA NothingPage ==
    ASSUME IInv, Arriving, Tokens, Bound, Sessions, page.up, NoTokens, slot.phase = "committing",
           PageActs \/ PageRuns
    PROVE  NoTokens' /\ slot' = slot
<1>1. HostStays /\ WorkStays
  BY PageStepsRest DEF HostStays, WorkStays
<1>2. Less(toHost, toHost, Calls) /\ Less(toPage, toPage, Verdicts)
  BY LessSame
<1>3. ASSUME NEW m \in ToHost, m.type \notin {"prepare", "commit"}, Pushed(toHost, toHost', m)
      PROVE  Less(toHost, toHost', Calls)
  BY <1>3, PushedLess, VerdictTypes
<1>4. ASSUME NEW m, PageTakes1(m) PROVE Less(toPage, toPage', Verdicts)
  BY <1>4, PageTakesLess
<1>5. ASSUME NEW m, PageTakes1(m),
             m.type \in {"prepared", "prepareRefused", "committed", "commitRefused"}
      PROVE  FALSE
  BY <1>5, CallTypes DEF PageTakes1, NoTokens, NoneIn
<1>6. ASSUME slot' = slot, Less(toHost, toHost', Calls), Less(toPage, toPage', Verdicts)
      PROVE  NoTokens' /\ slot' = slot
  BY <1>1, <1>6, NothingStill
<1>7. ~Edit /\ ~Discard /\ ~Prepare /\ \A direction \in Directions : ~Begin(direction)
  BY EditDoes, DiscardDoes, PrepareDoes, BeginDoes
<1>8. ~on_prepared /\ ~on_prepare_refused /\ ~on_committed /\ ~on_commit_refused
  BY <1>5, OnPreparedDoes, OnRefusedDoes, OnCommittedDoes
<1>9. CASE RequestSession
  BY <1>2, <1>3, <1>6, <1>9, RequestSessionDoes
<1>10. CASE RequestSave
  BY <1>2, <1>3, <1>6, <1>10, RequestSaveDoes
<1>11. CASE OnAcknowledged
  BY <1>2, <1>4, <1>6, <1>11, OnAcknowledgedDoes
<1>12. CASE OnDiscarded
  BY <1>2, <1>4, <1>6, <1>12, OnDiscardedDoes
<1>13. CASE OnSession
  BY <1>2, <1>4, <1>6, <1>13, OnSessionDoes, ShownLess, VerdictTypes
<1>14. CASE OnSaved
  BY <1>2, <1>4, <1>6, <1>14, OnSavedDoes, ShownLess, VerdictTypes
<1>15. CASE Ignore
  BY <1>15, IgnoreDoes
<1>16. CASE OnSnapshot
  <2>1. PICK m : PageTakes1(m) /\ (ShowsAgain(m) \/ Republishes(m) \/ Leaves(m))
    BY <1>16, OnSnapshotDoes DEF ShowsFirst
  <2>2. \A k, q, p : AppliedTo(m, k) /\ Pushed(q, p, k) => Less(q, p, Calls)
    BY PushedLess, VerdictTypes DEF AppliedTo
  <2>3. CASE ShowsAgain(m)
    <3>1. PICK k, q, w : AppliedTo(m, k) /\ Pushed(toHost, q, k) /\ ShownAs(w, q)
      BY <2>3 DEF ShowsAgain
    <3>2. Less(toHost, toHost', Calls)
      BY <2>2, <3>1, ShownLess, VerdictTypes, LessTrans
    <3>. QED BY <1>4, <1>6, <2>1, <2>3, <3>2 DEF ShowsAgain
  <2>4. CASE Republishes(m)
    <3>1. PICK k, q : \E e \in ToHost :
            /\ AppliedTo(m, k) /\ Pushed(toHost, q, e) /\ Pushed(q, toHost', k)
            /\ e.type = "edits"
      BY <2>4 DEF Republishes
    <3>2. Less(toHost, q, Calls)
      BY <3>1, PushedLess, VerdictTypes
    <3>3. Less(toHost, toHost', Calls)
      BY <2>2, <3>1, <3>2, LessTrans
    <3>. QED BY <1>4, <1>6, <2>1, <2>4, <3>3 DEF Republishes
  <2>5. CASE Leaves(m)
    BY <1>4, <1>6, <2>1, <2>2, <2>5 DEF Leaves
  <2>. QED BY <2>1, <2>3, <2>4, <2>5
<1>. QED BY <1>7, <1>8, <1>9, <1>10, <1>11, <1>12, <1>13, <1>14, <1>15, <1>16
         DEF PageActs, PageRuns, OnMessage

\* The host hears of a load only from a page that is down.
LEMMA UpHosts ==
    ASSUME IInv, page.up PROVE ~HandleReady /\ ~CompleteReady /\ ~host.readying
<1>1. ~HandleReady
  <2>1. SUFFICES ASSUME HandleReady PROVE FALSE
    OBVIOUS
  <2>2. PICK m : Takes(m) /\ m.type = "ready"
    BY <2>1, HandleReadyDoes
  <2>. QED BY <2>2, ReadyIn DEF Takes, IInv, Loading
<1>. QED BY <1>1, CompleteReadyDoes DEF IInv, Loading

LEMMA OvertakenOn ==
    ASSUME IInv, page.up, [Next]_vars, host.overtaken PROVE host'.overtaken
<1>1. CASE UNCHANGED vars
  BY <1>1 DEF vars
<1>2. CASE PageActs \/ PageRuns \/ Load
  BY <1>2, PageStepsRest DEF HostStays
<1>3. CASE HandleMessage
  BY <1>3, UpHosts, HandleEditsDoes, HandleSessionDoes, HandleDiscardDoes, HandleSaveDoes, HandlePrepareDoes,
     HandleAbandonDoes, HandleCommitDoes, HandleAppliedDoes DEF HandleMessage, Becomes, Calm, HostRests
<1>4. ASSUME NEW op \in preparing, Preparation(op) PROVE host'.overtaken
  BY <1>4, BindDoes, CompareDoes, OutdatedDoes, IssueDoes
     DEF Preparation, Moves, Issues, Refuses, HostRests, Becomes
<1>5. CASE StartCommit \/ VerifyCommit \/ CommitOutdated \/ commit_history_replay \/ AnswerCommit
  BY <1>5, StartDoes, VerifyDoes, CommitOutdatedDoes, CommitDoes, AnswerDoes DEF Writes, Becomes
<1>6. CASE WriteLands
  BY <1>6, WriteLandsDoes DEF Becomes
<1>7. ASSUME NEW moved \in BOOLEAN, Refresh(moved) PROVE host'.overtaken
  BY <1>7, RefreshDoes DEF Becomes, Calm
<1>8. CASE SaveEnds \/ PostSnapshot \/ LeaseExpires \/ OtherPanelEdits
  BY <1>8, SaveEndsDoes, PostSnapshotDoes, LeaseExpiresDoes, OtherPanelEditsDoes DEF Becomes, Calm
<1>9. CASE GrantSession
  BY <1>9, GrantSessionDoes DEF Becomes, HostRests
<1>10. ASSUME NEW post \in host.posting, PostEnds(post) PROVE host'.overtaken
  BY <1>10, PostEndsDoes DEF Becomes, HostRests
<1>. QED BY <1>1, <1>2, <1>3, <1>4, <1>5, <1>6, <1>7, <1>8, <1>9, <1>10, UpHosts DEF Next, HostRuns

LEMMA WholeBack ==
    ASSUME IInv, IInv', Numbered, Arriving, Tokens, Tokens', Bound, Sessions, page.up, [Next]_vars, Whole'
    PROVE  Whole
<1>1. ~host.overtaken
  BY OvertakenOn DEF Whole
<1>2. page'.up /\ ~Stuck'
  BY DEF Whole
<1>3. ASSUME slot' = slot, NoTokens', slot.phase = "committing" PROVE FALSE
  <2>1. NoneIn(toHost', Commits)
    BY <1>3, CallTypesNext DEF NoTokens, NoneIn
  <2>2. \A m \in Range(toPage') : m.type \notin {"committed", "commitRefused"}
    BY <1>3, CallTypesNext DEF NoTokens, NoneIn
  <2>. QED BY <1>2, <1>3, <2>1, <2>2 DEF Stuck, CommitToken, NoTokens
<1>4. SUFFICES ASSUME slot.phase = "committing", NoTokens PROVE FALSE
  BY <1>1, StuckIs DEF Whole
<1>5. CASE UNCHANGED vars
  BY <1>3, <1>4, <1>5 DEF vars, NoTokens, CurOps, CurCommits
<1>6. CASE Load
  BY <1>2, <1>6, LoadDoes, LoadDown
<1>7. CASE PageActs \/ PageRuns
  BY <1>3, <1>4, <1>7, NothingPage
<1>8. CASE HandleMessage \/ HostOwn
  BY <1>3, <1>4, <1>8, NothingMessage, NothingOwn, UpHosts, HostSteps DEF PageStays
<1>. QED BY <1>5, <1>6, <1>7, <1>8 DEF Next, HostRuns, HostOwn

-----------------------------------------------------------------------------
(* What the document agrees with: the parts, and what keeps each of them *)

Parts    == Agreement /\ InFlight /\ Saving
Promised == ~NoneIn(toHost, Commits) \/ CurCommits # {}
Under    == CurOps # {} \/ ~NoneIn(toPage, Prepareds) \/ Promised
Marks    == Prepareds \cup Committeds
Seen     == Snapshots \cup Committeds \cup Acks

ViewStays ==
    /\ Firm /\ NoneIn(toPage, SnapshotsBut(Truth)) => NoneIn(toPage', SnapshotsBut(Truth))
    /\ NoneAfter(toPage, NewestAcks(page.sequence), SnapshotsBut(Truth)) =>
         NoneAfter(toPage', NewestAcks(page.sequence), SnapshotsBut(Truth))
    /\ NoneAfter(toPage, Snapshots, Committeds) => NoneAfter(toPage', Snapshots, Committeds)

SeenTypes ==
    /\ \A v : SnapshotsBut(v) \subseteq Snapshots
    /\ \A n : NewestAcks(n) \subseteq Acks

LEMMA SeenAre == SeenTypes
<1>. QED BY DEF SeenTypes, SnapshotsBut, Snapshots, NewestAcks, Acks

LEMMA ViewLess ==
    ASSUME Less(toPage, toPage', Seen) PROVE ViewStays
<1>1. /\ SnapshotsBut(Truth) \subseteq Seen /\ NewestAcks(page.sequence) \subseteq Seen
      /\ Snapshots \subseteq Seen /\ Committeds \subseteq Seen
  BY SeenAre DEF SeenTypes, Seen
<1>. QED BY <1>1 DEF ViewStays, Less

\* A new snapshot is of what the host has heard of.
LEMMA ViewDraws ==
    ASSUME Agreement, NEW q, Draws(q), NEW a, Grows(q, toPage', a), a \notin Seen,
           Firm \/ AckComing => host'.known = Truth
    PROVE  ViewStays
<1>1. /\ a \notin SnapshotsBut(Truth) /\ a \notin NewestAcks(page.sequence)
      /\ a \notin Snapshots /\ a \notin Committeds
  BY SeenAre DEF SeenTypes, Seen
<1>2. ASSUME Firm /\ NoneIn(q, SnapshotsBut(Truth)) => NoneIn(toPage', SnapshotsBut(Truth)),
             Firm /\ NoneIn(toPage, SnapshotsBut(Truth)) => NoneIn(q, SnapshotsBut(Truth)),
             NoneAfter(toPage, NewestAcks(page.sequence), SnapshotsBut(Truth)) =>
                NoneAfter(q, NewestAcks(page.sequence), SnapshotsBut(Truth)),
             NoneAfter(q, NewestAcks(page.sequence), SnapshotsBut(Truth)) =>
                NoneAfter(toPage', NewestAcks(page.sequence), SnapshotsBut(Truth)),
             NoneAfter(toPage, Snapshots, Committeds) => NoneAfter(q, Snapshots, Committeds),
             NoneAfter(q, Snapshots, Committeds) => NoneAfter(toPage', Snapshots, Committeds)
      PROVE  ViewStays
  BY <1>2 DEF ViewStays
<1>3. /\ Firm /\ NoneIn(q, SnapshotsBut(Truth)) => NoneIn(toPage', SnapshotsBut(Truth))
      /\ NoneAfter(q, NewestAcks(page.sequence), SnapshotsBut(Truth)) =>
            NoneAfter(toPage', NewestAcks(page.sequence), SnapshotsBut(Truth))
      /\ NoneAfter(q, Snapshots, Committeds) => NoneAfter(toPage', Snapshots, Committeds)
  BY <1>1 DEF Grows, Pushed
<1>4. CASE q = toPage
  BY <1>2, <1>3, <1>4
<1>5. CASE q # toPage
  <2>1. /\ Pushed(toPage, q, Snapshot(host')) /\ Snapshot(host').cell = host'.known
        /\ Snapshot(host') \in ToPage /\ Snapshot(host').type = "snapshot"
    BY <1>5 DEF Draws
  <2>2. Snapshot(host') \notin Committeds
    BY <2>1 DEF Committeds
  <2>3. Firm \/ AckComing => Snapshot(host') \notin SnapshotsBut(Truth)
    BY <2>1 DEF SnapshotsBut
  <2>4. Firm /\ NoneIn(toPage, SnapshotsBut(Truth)) => NoneIn(q, SnapshotsBut(Truth))
    BY <2>1, <2>3 DEF Pushed
  <2>5. NoneAfter(toPage, NewestAcks(page.sequence), SnapshotsBut(Truth)) =>
                NoneAfter(q, NewestAcks(page.sequence), SnapshotsBut(Truth))
    BY <2>1, <2>3 DEF Pushed, AckComing
  <2>6. NoneAfter(toPage, Snapshots, Committeds) => NoneAfter(q, Snapshots, Committeds)
    BY <2>1, <2>2 DEF Pushed
  <2>. QED BY <1>2, <1>3, <2>4, <2>5, <2>6
<1>. QED BY <1>4, <1>5

LEMMA TruthKept ==
    ASSUME page'.cell = page.cell, Committed' <=> Committed, Committed => slot' = slot
    PROVE  Truth' = Truth
<1>. QED BY DEF Truth, Target

LEMMA AgreementKept ==
    ASSUME Agreement, page'.sequence = page.sequence, Truth' = Truth, Firm' => Firm, AckComing' => AckComing,
           Firm' \/ AckComing' => host'.known = Truth /\ (~host'.posted => host'.shown = Truth),
           WrittenNow' => host'.durable = Target', ViewStays
    PROVE  Agreement'
<1>1. /\ Firm' => NoneIn(toPage', SnapshotsBut(Truth'))
      /\ NoneAfter(toPage', NewestAcks(page'.sequence), SnapshotsBut(Truth'))
      /\ NoneAfter(toPage', Snapshots, Committeds)
  BY DEF Agreement, ViewStays
<1>. QED BY <1>1 DEF Agreement

LEMMA InFlightKept ==
    ASSUME InFlight, page'.cell = page.cell, page'.published = page.published,
           page'.sequence = page.sequence, host'.epoch = host.epoch, writes' = writes,
           Settled' => Settled, Committed' => Committed, CurCommits' # {} => CurCommits # {},
           Less(toHost, toHost', Edited \cup Calls),
           \A op \in CurOps' : \E o \in CurOps : op.cell = o.cell /\ op.awaits = o.awaits
    PROVE  InFlight'
<1>1. /\ Prepares \subseteq Edited \cup Calls /\ Commits \subseteq Edited \cup Calls
      /\ Edited \subseteq Edited \cup Calls
      /\ EditsBut(page.cell) \subseteq Edited \cup Calls
      /\ Newest(page.sequence) \subseteq Edited \cup Calls
  BY DEF Prepares, Commits, Calls, Edited, EditsBut, Newest
<1>2. Settled' => NoneIn(toHost', EditsBut(page'.cell)) /\ \A w \in Range(writes') : w.value = page'.cell
  BY <1>1 DEF InFlight, Less
<1>3. NoneAfter(toHost', Commits, Edited) /\ NoneAfter(toHost', Prepares, EditsBut(page'.cell))
  BY <1>1 DEF InFlight, Less
<1>4. /\ CurCommits' # {} \/ Committed' => NoneIn(toHost', Edited)
      /\ Committed' => writes' = <<>>
  BY <1>1 DEF InFlight, Less
<1>5. ~NoneIn(toHost', Newest(page'.sequence)) \/ ~NoneIn(writes', NewestWrites(host'.epoch, page'.sequence))
          => page'.published = page'.cell
  BY <1>1 DEF InFlight, Less
<1>6. \A m \in Range(toHost') : m \in Prepares => m.cell = page'.cell
  BY <1>1 DEF InFlight, Less
<1>7. \A op \in CurOps' :
          /\ op.cell = page'.cell /\ NoneIn(toHost', EditsBut(page'.cell))
          /\ \A i \in DOMAIN writes' : i > op.awaits => writes'[i].value = page'.cell
  BY <1>1 DEF InFlight, Less
<1>. QED BY <1>2, <1>3, <1>4, <1>5, <1>6, <1>7 DEF InFlight

SavedMarks == Prepareds \cup Saveds \cup Committeds

LEMMA SavingKept ==
    ASSUME Saving, page'.cell = page.cell, page'.published = page.published,
           Under' => Under, Promised' => Promised, Under' /\ host'.saving => host.saving,
           Less(toHost, toHost', Saves \cup Calls), Less(toPage, toPage', SavedMarks)
    PROVE  Saving'
<1>1. /\ Prepares \subseteq Saves \cup Calls /\ Saves \subseteq Saves \cup Calls
      /\ Prepareds \subseteq SavedMarks /\ Saveds \subseteq SavedMarks /\ Committeds \subseteq SavedMarks
  BY DEF Prepares, Calls, SavedMarks
<1>2. SUFFICES ASSUME page.cell # page.published
               PROVE  /\ NoneAfter(toHost', Prepares, Saves)
                      /\ Under' => NoneIn(toHost', Saves) /\ ~host'.saving
                      /\ NoneAfter(toPage', Prepareds, Saveds)
                      /\ Promised' => NoneIn(toPage', Saveds)
                      /\ NoneAfter(toPage', Saveds, Committeds)
  BY DEF Saving, Under, Promised
<1>3. NoneAfter(toHost', Prepares, Saves)
  BY <1>1, <1>2 DEF Saving, Less
<1>4. NoneAfter(toPage', Prepareds, Saveds) /\ NoneAfter(toPage', Saveds, Committeds)
  BY <1>1, <1>2 DEF Saving, Less
<1>5. Under => NoneIn(toHost, Saves) /\ ~host.saving
  BY <1>2 DEF Saving, Under, Promised
<1>6. Promised => NoneIn(toPage, Saveds)
  BY <1>2 DEF Saving, Promised
<1>7. (Under' => NoneIn(toHost', Saves) /\ ~host'.saving) /\ (Promised' => NoneIn(toPage', Saveds))
  BY <1>1, <1>5, <1>6 DEF Less
<1>. QED BY <1>3, <1>4, <1>7

LEMMA SavingNone == ASSUME page'.cell = page'.published PROVE Saving'
<1>. QED BY DEF Saving

\* The work for the page does not become more.
WorkLess == CurOps' \subseteq CurOps /\ CurCommits' \subseteq CurCommits /\ host'.epoch = host.epoch

LEMMA SignsStill ==
    ASSUME WorkStays \/ WorkLess, Less(toHost, toHost', Calls), Less(toPage, toPage', Marks)
    PROVE  /\ Settled' => Settled
           /\ Under' => Under
           /\ Promised' => Promised
           /\ WorkLess /\ (WrittenNow' => WrittenNow)
           /\ Committed' => Committed
<1>1. WorkLess
  BY DEF WorkLess, WorkStays, CurOps, CurCommits
<1>2. /\ Commits \subseteq Calls /\ Prepareds \subseteq Marks /\ Committeds \subseteq Marks
  BY DEF Commits, Calls, Prepareds, Committeds, Marks
<1>3. /\ NoneIn(toHost, Commits) => NoneIn(toHost', Commits)
      /\ NoneIn(toPage, Prepareds) => NoneIn(toPage', Prepareds)
      /\ NoneIn(toPage, Committeds) => NoneIn(toPage', Committeds)
  BY <1>2 DEF Less
<1>. QED BY <1>1, <1>3 DEF Settled, Under, Promised, Committed, WrittenNow, WorkLess

\* What the host shows, if it has not posted it.
ShownStays == \/ ~host'.posted => ~host.posted /\ host'.shown = host.shown
              \/ host'.shown = host'.known

LEMMA AgreementStill ==
    ASSUME Agreement, slot' = slot, page'.cell = page.cell, page'.sequence = page.sequence,
           page'.acknowledged => page.acknowledged,
           Settled' => Settled, Committed' <=> Committed, Less(toPage, toPage', Acks),
           WrittenNow' => WrittenNow, host'.durable = host.durable, host'.known = host.known,
           ShownStays, ViewStays
    PROVE  Agreement'
<1>1. Truth' = Truth /\ Target' = Target
  BY TruthKept DEF Target
<1>2. Firm' => Firm
  BY DEF Firm
<1>3. AckComing' => AckComing
  BY SeenAre DEF SeenTypes, Less, AckComing
<1>4. Firm' \/ AckComing' => host'.known = Truth /\ (~host'.posted => host'.shown = Truth)
  BY <1>2, <1>3 DEF Agreement, ShownStays
<1>5. WrittenNow' => host'.durable = Target'
  BY <1>1 DEF Agreement
<1>. QED BY <1>1, <1>2, <1>3, <1>4, <1>5, AgreementKept

LEMMA CommittedPopped ==
    /\ \A m : PageTakes1(m) /\ m \notin Committeds => (Committed' <=> Committed)
    /\ \A m : Grows(toPage, toPage', m) /\ m \notin Committeds => (Committed' <=> Committed)
    /\ \A q, a : Draws(q) /\ Grows(q, toPage', a) /\ a \notin Committeds => (Committed' <=> Committed)
    /\ toPage' = toPage => (Committed' <=> Committed)
<1>1. ASSUME NEW m, PageTakes1(m), m \notin Committeds PROVE Committed' <=> Committed
  BY <1>1 DEF PageTakes1, Popped, Committed
<1>2. ASSUME NEW m, Grows(toPage, toPage', m), m \notin Committeds PROVE Committed' <=> Committed
  BY <1>2 DEF Grows, Pushed, Committed
<1>3. ASSUME NEW q, NEW a, Draws(q), Grows(q, toPage', a), a \notin Committeds
      PROVE  Committed' <=> Committed
  <2>1. NoneIn(q, Committeds) <=> NoneIn(toPage, Committeds)
    BY <1>3 DEF Draws, Pushed, Committeds
  <2>. QED BY <1>3, <2>1 DEF Grows, Pushed, Committed
<1>. QED BY <1>1, <1>2, <1>3 DEF Committed

\* The page, its slot and the work for it stay.
LEMMA PartsStill ==
    ASSUME Parts, slot' = slot,
           page'.cell = page.cell, page'.published = page.published,
           page'.sequence = page.sequence, page'.acknowledged => page.acknowledged,
           WorkStays \/ WorkLess, writes' = writes, Less(toHost, toHost', Edited \cup Calls),
           Less(toPage, toPage', Marks), Less(toPage, toPage', Acks), Committed' <=> Committed,
           host'.durable = host.durable, host'.known = host.known, ShownStays, ViewStays, Saving'
    PROVE  Parts'
<1>1. Less(toHost, toHost', Calls)
  BY LessOf
<1>2. /\ Settled' => Settled
      /\ CurOps' \subseteq CurOps /\ CurCommits' \subseteq CurCommits /\ (WrittenNow' => WrittenNow)
      /\ host'.epoch = host.epoch
  BY <1>1, SignsStill DEF WorkLess
<1>3. Agreement'
  BY <1>2, AgreementStill DEF Parts
<1>4. InFlight'
  BY <1>2, InFlightKept DEF Parts
<1>. QED BY <1>3, <1>4 DEF Parts

\* What the messages are not.
LEMMA NoMark ==
    /\ \A a \in ToPage :
          /\ a.type = "saved" => a \notin Seen /\ a \notin Marks /\ a \notin Acks /\ a \notin Prepareds
                                 /\ a \notin Committeds
          /\ a.type = "prepareRefused" => a \notin Seen /\ a \notin Acks /\ a \notin SavedMarks /\ a \notin Marks
          /\ a.type = "commitRefused" => a \notin Seen /\ a \notin Acks /\ a \notin SavedMarks /\ a \notin Marks
          /\ a.type = "prepared" => a \notin Seen /\ a \notin Acks /\ a \notin Saveds /\ a \notin Committeds
          /\ a.type = "acknowledged" => a \notin Marks /\ a \notin SavedMarks /\ a \notin Committeds
          /\ a.type = "snapshot" => a \notin Marks /\ a \notin SavedMarks /\ a \notin Acks
          /\ a.type \in {"discarded", "session"} => a \notin Seen /\ a \notin Marks /\ a \notin SavedMarks
    /\ Marks \cap Snapshots = {} /\ Acks \cap Snapshots = {} /\ SavedMarks \cap Snapshots = {}
    /\ \A m \in ToHost :
          /\ m.type \notin {"edits", "prepare", "commit"} => m \notin Edited \cup Calls
          /\ m.type \notin {"save", "prepare", "commit"} => m \notin Saves \cup Calls
    /\ Committeds \subseteq Marks /\ Prepareds \subseteq Marks /\ Committeds \subseteq Seen
    /\ Marks \subseteq Verdicts
<1>1. \A a \in ToPage : a \in Acks <=> a.type = "acknowledged"
  BY DEF Acks
<1>2. \A a \in ToPage : a \in Seen <=> a.type \in {"snapshot", "committed", "acknowledged"}
  BY DEF Seen, Snapshots, Committeds, Acks
<1>3. \A a \in ToPage : a \in SavedMarks <=> a.type \in {"prepared", "saved", "committed"}
  BY DEF SavedMarks, Prepareds, Saveds, Committeds
<1>. QED BY <1>1, <1>2, <1>3
         DEF Seen, Snapshots, Committeds, Acks, Verdicts, Marks, SavedMarks, Prepareds, Saveds,
             Edited, Calls, Saves

LEMMA PartsSavingQuiet ==
    ASSUME Parts, WorkStays \/ WorkLess, page'.cell = page.cell, page'.published = page.published,
           Less(toHost, toHost', Calls), Less(toHost, toHost', Saves \cup Calls),
           Less(toPage, toPage', Marks), Less(toPage, toPage', SavedMarks),
           host'.saving => host.saving
    PROVE  Saving'
<1>. QED BY SignsStill, SavingKept DEF Parts

LEMMA PartsHandleEdits ==
    ASSUME IInv, IInv', Tokens, Parts, page.up, HandleEdits PROVE Parts'
<1>1. /\ page' = page /\ slot' = slot /\ UNCHANGED <<host, preparing, committing, toPage>>
      /\ WorkStays
  BY HandleEditsDoes DEF PageStays, WorkStays
<1>2. PICK m : /\ Takes(m) /\ m.type = "edits"
               /\ \/ UNCHANGED writes
                  \/ \E w \in Write : /\ w.value = m.value /\ w.epoch = host.epoch
                                      /\ w.sequence = m.sequence /\ writes' = Append(writes, w)
  BY HandleEditsDoes
<1>3. /\ Less(toPage, toPage', Marks) /\ Less(toPage, toPage', Acks)
      /\ Less(toPage, toPage', SavedMarks) /\ Less(toPage, toPage', Seen)
      /\ Less(toHost, toHost', Edited \cup Calls) /\ Less(toHost, toHost', Saves \cup Calls)
      /\ Less(toHost, toHost', Calls)
  BY <1>1, <1>2, LessSame, TakesLess
<1>4. ViewStays /\ ShownStays /\ (Committed' <=> Committed)
  BY <1>1, <1>3, ViewLess, CommittedPopped DEF ShownStays
<1>5. Saving'
  BY <1>1, <1>3, PartsSavingQuiet
<1>6. CASE UNCHANGED writes
  BY <1>1, <1>3, <1>4, <1>5, <1>6, PartsStill
<1>7. ASSUME NEW w \in Write, w.value = m.value, w.epoch = host.epoch,
             w.sequence = m.sequence, writes' = Append(writes, w)
      PROVE  Parts'
  <2>1. /\ Settled' => Settled
        /\ CurOps' \subseteq CurOps /\ CurCommits' \subseteq CurCommits /\ (WrittenNow' => WrittenNow)
    BY <1>1, <1>3, SignsStill DEF WorkLess
  <2>2. Agreement'
    BY <1>1, <1>3, <1>4, <2>1, AgreementStill DEF Parts
  <2>3. m \in Range(toHost) /\ m \in Edited /\ m \in ToHost
    BY <1>2 DEF Takes, Edited
  <2>4. ~Committed /\ CurCommits = {}
    BY <2>3 DEF Parts, InFlight, NoneIn
  <2>5. /\ Pushed(writes, writes', w) /\ DOMAIN writes' = 1..(Len(writes) + 1) /\ DOMAIN writes = 1..Len(writes)
        /\ Len(writes) \in Nat
        /\ \A i \in DOMAIN writes : writes'[i] = writes[i]
        /\ writes'[Len(writes) + 1] = w
    BY <1>7, HostState, PushedAppend, WriteTypes, AfterAppend
  <2>6. m.value # page.cell => m \in EditsBut(page.cell)
    BY <1>2, <2>3 DEF EditsBut
  <2>7. Settled => NoneIn(toHost', EditsBut(page.cell)) /\ \A v \in Range(writes') : v.value = page.cell
    <3>1. Settled => m.value = page.cell /\ NoneIn(toHost, EditsBut(page.cell))
      BY <2>3, <2>6 DEF Parts, InFlight, NoneIn
    <3>2. NoneIn(toHost, EditsBut(page.cell)) => NoneIn(toHost', EditsBut(page.cell))
      BY <1>2 DEF Takes, Popped
    <3>. QED BY <1>7, <2>5, <3>1, <3>2 DEF Parts, InFlight, Pushed
  <2>8. NoneAfter(toHost', Commits, Edited) /\ NoneAfter(toHost', Prepares, EditsBut(page.cell))
    BY <1>2 DEF Takes, Popped, Parts, InFlight
  <2>9. ~NoneIn(toHost', Newest(page.sequence)) \/ ~NoneIn(writes', NewestWrites(host.epoch, page.sequence))
          => page.published = page.cell
    <3>1. NoneIn(toHost, Newest(page.sequence)) => NoneIn(toHost', Newest(page.sequence))
      BY <1>2 DEF Takes, Popped
    <3>2. w \in NewestWrites(host.epoch, page.sequence) => m \in Newest(page.sequence)
      BY <1>2, <1>7, <2>3 DEF NewestWrites, Newest
    <3>3. w \in NewestWrites(host.epoch, page.sequence) => ~NoneIn(toHost, Newest(page.sequence))
      BY <2>3, <3>2 DEF NoneIn
    <3>4. ~NoneIn(writes', NewestWrites(host.epoch, page.sequence)) =>
             \/ ~NoneIn(writes, NewestWrites(host.epoch, page.sequence))
             \/ w \in NewestWrites(host.epoch, page.sequence)
      BY <2>5 DEF Pushed
    <3>. QED BY <3>1, <3>3, <3>4 DEF Parts, InFlight
  <2>10. \A n \in Range(toHost') : n \in Prepares => n.cell = page.cell
    BY <1>2 DEF Takes, Popped, Parts, InFlight
  <2>11. ASSUME NEW op \in CurOps
         PROVE  /\ op.cell = page.cell /\ NoneIn(toHost', EditsBut(page.cell))
                /\ \A i \in DOMAIN writes' : i > op.awaits => writes'[i].value = page.cell
    <3>1. /\ op.cell = page.cell /\ NoneIn(toHost, EditsBut(page.cell))
          /\ \A i \in DOMAIN writes : i > op.awaits => writes[i].value = page.cell
      BY <2>11 DEF Parts, InFlight
    <3>2. m.value = page.cell
      BY <2>3, <2>6, <3>1 DEF NoneIn
    <3>3. NoneIn(toHost', EditsBut(page.cell))
      BY <1>2, <3>1 DEF Takes, Popped
    <3>4. ASSUME NEW i \in DOMAIN writes', i > op.awaits PROVE writes'[i].value = page.cell
      <4>1. CASE i \in DOMAIN writes
        BY <2>5, <3>1, <3>4, <4>1
      <4>2. CASE i \notin DOMAIN writes
        <5>1. i = Len(writes) + 1
          BY <2>5, <3>4, <4>2
        <5>. QED BY <1>7, <2>5, <3>2, <5>1
      <4>. QED BY <4>1, <4>2
    <3>. QED BY <3>1, <3>3, <3>4
  <2>12. InFlight'
    BY <1>1, <1>4, <2>1, <2>4, <2>7, <2>8, <2>9, <2>10, <2>11 DEF InFlight
  <2>. QED BY <1>5, <2>2, <2>12 DEF Parts
<1>. QED BY <1>2, <1>6, <1>7

\* A snapshot, and nothing with it.
LEMMA ViewDrawn ==
    ASSUME Agreement, Draws(toPage'), Firm \/ AckComing => host'.known = Truth
    PROVE  ViewStays
<1>1. PICK a : a.type = "saved"
  <2>1. [type |-> "saved"].type = "saved"
    OBVIOUS
  <2>. QED BY <2>1
<1>2. a \notin Seen
  BY <1>1 DEF Seen, Snapshots, Committeds, Acks
<1>. QED BY <1>2, ViewDraws DEF Grows

LEMMA DrawsShown ==
    ASSUME NEW q, Draws(q) PROVE ShownStays
<1>. QED BY DEF Draws, ShownStays

\* A save that begins or ends: no replay is under way, or the cell is published.
LEMMA SavingAfter ==
    ASSUME Saving, page'.cell = page.cell, page'.published = page.published,
           page.cell # page.published => ~Under' /\ ~Promised',
           Less(toHost, toHost', Saves \cup Calls),
           NoneAfter(toPage, Saveds, Committeds) => NoneAfter(toPage', Saveds, Committeds)
    PROVE  Saving'
<1>1. Prepares \subseteq Saves \cup Calls /\ Saves \subseteq Saves \cup Calls
  BY DEF Prepares, Calls
<1>2. SUFFICES ASSUME page.cell # page.published
               PROVE  /\ NoneAfter(toHost', Prepares, Saves)
                      /\ Under' => NoneIn(toHost', Saves) /\ ~host'.saving
                      /\ NoneAfter(toPage', Prepareds, Saveds)
                      /\ Promised' => NoneIn(toPage', Saveds)
                      /\ NoneAfter(toPage', Saveds, Committeds)
  BY DEF Saving, Under, Promised
<1>3. NoneAfter(toHost', Prepares, Saves)
  BY <1>1, <1>2 DEF Saving, Less
<1>4. NoneAfter(toPage', Prepareds, Saveds)
  BY <1>2, OrderNone DEF Under
<1>. QED BY <1>2, <1>3, <1>4 DEF Saving

LEMMA SavedsLast ==
    /\ \A a : a \in ToPage /\ a.type \in {"saved", "snapshot"} /\ Grows(toPage, toPage', a) =>
          (NoneAfter(toPage, Saveds, Committeds) => NoneAfter(toPage', Saveds, Committeds))
    /\ \A q, a : a \in ToPage /\ a.type = "saved" /\ Draws(q) /\ Grows(q, toPage', a) =>
          (NoneAfter(toPage, Saveds, Committeds) => NoneAfter(toPage', Saveds, Committeds))
    /\ Draws(toPage') =>
          (NoneAfter(toPage, Saveds, Committeds) => NoneAfter(toPage', Saveds, Committeds))
<1>1. ASSUME NEW q, NEW p, NEW a \in ToPage, a.type \in {"saved", "snapshot"}, Grows(q, p, a),
             NoneAfter(q, Saveds, Committeds)
      PROVE  NoneAfter(p, Saveds, Committeds)
  BY <1>1 DEF Grows, Pushed, Committeds
<1>2. ASSUME NEW q, Draws(q), NoneAfter(toPage, Saveds, Committeds)
      PROVE  NoneAfter(q, Saveds, Committeds)
  <2>1. /\ Snapshot(host') \in ToPage /\ Snapshot(host').type = "snapshot"
        /\ Grows(toPage, q, Snapshot(host'))
    BY <1>2 DEF Draws, Grows
  <2>. QED BY <1>1, <1>2, <2>1
<1>. QED BY <1>1, <1>2

LEMMA PartsHandleSave ==
    ASSUME IInv, IInv', Tokens, Parts, page.up, handle_save PROVE Parts'
<1>1. /\ page' = page /\ slot' = slot /\ UNCHANGED <<preparing, committing, writes>>
  BY HandleSaveDoes DEF PageStays
<1>2. PICK m : Takes(m) /\ m.type = "save"
  BY HandleSaveDoes
<1>3. /\ Less(toHost, toHost', Edited \cup Calls) /\ Less(toHost, toHost', Saves \cup Calls)
      /\ Less(toHost, toHost', Calls)
  BY <1>2, TakesLess
<1>4. page.cell # page.published => ~Under
  <2>1. ~NoneIn(toHost, Saves)
    BY <1>2 DEF Takes, NoneIn, Saves
  <2>. QED BY <2>1 DEF Parts, Saving, Under, Promised
<1>5. ASSUME host' = host, NEW a \in ToPage, a.type = "saved", Grows(toPage, toPage', a)
      PROVE  Parts'
  <2>1. /\ Less(toPage, toPage', Seen) /\ Less(toPage, toPage', Marks) /\ Less(toPage, toPage', Acks)
        /\ Committed' <=> Committed
    BY <1>5, LessGrows, NoMark, CommittedPopped
  <2>2. ViewStays /\ ShownStays /\ WorkStays
    BY <1>1, <1>5, <2>1, ViewLess DEF ShownStays, WorkStays
  <2>3. ~Under => ~Under' /\ ~Promised'
    BY <1>3, <2>1, <2>2, SignsStill DEF Under
  <2>4. Saving'
    BY <1>1, <1>3, <1>4, <1>5, <2>3, SavedsLast, SavingAfter DEF Parts
  <2>. QED BY <1>1, <1>3, <1>5, <2>1, <2>2, <2>4, PartsStill
<1>6. ASSUME Draws(toPage'), Calm(TRUE) PROVE Parts'
  <2>1. host'.known = host.known /\ host'.durable = host.durable
    BY <1>6 DEF Calm, Becomes
  <2>2. /\ Less(toPage, toPage', Marks) /\ Less(toPage, toPage', Acks)
    BY <1>6, DrawsLess, NoMark
  <2>3. Committed' <=> Committed
    <3>1. PICK a \in ToPage : a.type = "snapshot" /\ a \notin Committeds
      BY <1>6 DEF Draws, Committeds
    <3>. QED BY <1>6, <3>1, CommittedPopped DEF Grows
  <2>4. ViewStays /\ ShownStays /\ WorkStays
    BY <1>1, <1>6, <2>1, ViewDrawn, DrawsShown DEF Parts, Agreement, WorkStays, Draws
  <2>5. ~Under => ~Under' /\ ~Promised'
    BY <1>3, <2>2, <2>4, SignsStill DEF Under
  <2>6. Saving'
    BY <1>1, <1>3, <1>4, <1>6, <2>5, SavedsLast, SavingAfter DEF Parts
  <2>. QED BY <1>1, <1>3, <2>1, <2>2, <2>3, <2>4, <2>6, PartsStill
<1>. QED BY <1>5, <1>6, HandleSaveDoes

LEMMA PartsHandlePrepare ==
    ASSUME IInv, IInv', Tokens, Parts, page.up, HandlePrepare PROVE Parts'
<1>1. /\ page' = page /\ slot' = slot /\ UNCHANGED <<committing, writes>>
      /\ host'.epoch = host.epoch /\ host'.known = host.known /\ host'.durable = host.durable
      /\ host'.shown = host.shown /\ host'.posted = host.posted /\ host'.saving = host.saving
  BY HandlePrepareDoes DEF PageStays, HostRests, Becomes
<1>2. PICK m : /\ Takes(m) /\ m.type = "prepare"
               /\ \/ /\ UNCHANGED preparing
                     /\ \E a \in ToPage : a.type = "prepareRefused" /\ Grows(toPage, toPage', a)
                  \/ /\ ~host.saving /\ toPage' = toPage
                     /\ \E op \in Op : /\ op.epoch = host.epoch
                                       /\ op.cell = m.cell /\ op.awaits = Len(writes)
                                       /\ op.step = "draining"
                                       /\ preparing' = preparing \cup {op}
  BY HandlePrepareDoes
<1>3. /\ Less(toHost, toHost', Edited \cup Calls) /\ Less(toHost, toHost', Saves \cup Calls)
      /\ Less(toHost, toHost', Calls) /\ ShownStays
  BY <1>1, <1>2, TakesLess DEF ShownStays
<1>4. ASSUME UNCHANGED preparing, NEW a \in ToPage, a.type = "prepareRefused", Grows(toPage, toPage', a)
      PROVE  Parts'
  <2>1. /\ Less(toPage, toPage', Seen) /\ Less(toPage, toPage', Marks) /\ Less(toPage, toPage', Acks)
        /\ Less(toPage, toPage', SavedMarks)
        /\ Committed' <=> Committed
    BY <1>4, LessGrows, NoMark, CommittedPopped
  <2>2. ViewStays /\ WorkStays
    BY <1>1, <1>4, <2>1, ViewLess DEF WorkStays
  <2>3. Saving'
    BY <1>1, <1>3, <2>1, <2>2, PartsSavingQuiet
  <2>. QED BY <1>1, <1>3, <2>1, <2>2, <2>3, PartsStill
<1>5. ASSUME ~host.saving, toPage' = toPage, NEW op \in Op, op.epoch = host.epoch,
             op.cell = m.cell, op.awaits = Len(writes), op.step = "draining",
             preparing' = preparing \cup {op}
      PROVE  Parts'
  <2>1. NoneIn(toHost', Calls) /\ CurOps = {} /\ CurCommits = {} /\ NoneIn(toPage, Verdicts)
    BY <1>2, CallTaken
  <2>2. CurOps' = {op} /\ CurCommits' = {}
    BY <1>1, <1>5, <2>1 DEF CurOps, CurCommits
  <2>3. /\ NoneIn(toHost', Commits) /\ NoneIn(toHost', Prepares)
        /\ NoneIn(toPage, Prepareds) /\ NoneIn(toPage, Committeds)
    BY <2>1, NoMark DEF NoneIn, Calls, Commits, Prepares
  <2>4. ~Settled' /\ ~WrittenNow' /\ ~Committed' /\ ~Committed /\ ~Promised'
    BY <1>5, <2>2, <2>3 DEF Settled, WrittenNow, Committed, Promised
  <2>5. Less(toPage, toPage', Seen) /\ Less(toPage, toPage', Acks)
    BY <1>5, LessSame
  <2>6. Agreement'
    BY <1>1, <1>3, <2>4, <2>5, ViewLess, AgreementStill DEF Parts
  <2>7. m \in Prepares /\ m \in Range(toHost)
    BY <1>2 DEF Takes, Prepares
  <2>8. op.cell = page.cell /\ NoneIn(toHost', EditsBut(page.cell))
    BY <1>2, <1>5, <2>7 DEF Parts, InFlight, Takes, Popped
  <2>9. NoneIn(toHost', Newest(page.sequence)) \/ ~NoneIn(toHost, Newest(page.sequence))
    BY <1>2 DEF Takes, Popped
  <2>10. \A i \in DOMAIN writes' : ~(i > Len(writes))
    BY <1>1, WriteTypes
  <2>11. /\ \A n \in Range(toHost') : n \notin Prepares
         /\ NoneAfter(toHost', Commits, Edited) /\ NoneAfter(toHost', Prepares, EditsBut(page.cell))
    BY <2>3, OrderNone DEF NoneIn
  <2>12. ~NoneIn(toHost', Newest(page'.sequence)) \/ ~NoneIn(writes', NewestWrites(host'.epoch, page'.sequence))
          => page'.published = page'.cell
    BY <1>1, <2>9 DEF Parts, InFlight
  <2>13. InFlight'
    BY <1>1, <1>5, <2>2, <2>4, <2>8, <2>10, <2>11, <2>12 DEF InFlight
  <2>14. Saving'
    <3>1. SUFFICES ASSUME page.cell # page.published
                   PROVE  /\ NoneAfter(toHost', Prepares, Saves)
                          /\ NoneIn(toHost', Saves) /\ ~host'.saving
                          /\ NoneAfter(toPage', Prepareds, Saveds)
                          /\ NoneAfter(toPage', Saveds, Committeds)
      BY <1>1, <2>4 DEF Saving, Promised
    <3>2. NoneIn(toHost', Saves)
      BY <1>2, <2>7, <3>1 DEF Parts, Saving, Takes, Popped
    <3>. QED BY <1>1, <1>5, <2>3, <3>2, OrderNone
  <2>. QED BY <2>6, <2>13, <2>14 DEF Parts
<1>. QED BY <1>2, <1>4, <1>5

LEMMA PartsHandleCommit ==
    ASSUME IInv, IInv', Tokens, Parts, page.up, HandleCommit PROVE Parts'
<1>1. page' = page /\ slot' = slot /\ UNCHANGED <<host, preparing, writes>>
  BY HandleCommitDoes DEF PageStays
<1>2. PICK m : /\ Takes(m) /\ m.type = "commit"
               /\ \/ /\ toPage' = toPage
                     /\ \E c \in Commit : /\ c.epoch = host.epoch /\ c.step = "starting"
                                          /\ committing' = Append(committing, c)
                  \/ /\ UNCHANGED committing
                     /\ \E a \in ToPage : a.type = "commitRefused" /\ Grows(toPage, toPage', a)
  BY HandleCommitDoes
<1>3. /\ Less(toHost, toHost', Edited \cup Calls) /\ Less(toHost, toHost', Saves \cup Calls)
      /\ Less(toHost, toHost', Calls) /\ ShownStays
  BY <1>1, <1>2, TakesLess DEF ShownStays
<1>4. NoneIn(toHost', Calls) /\ CurOps = {} /\ CurCommits = {} /\ NoneIn(toPage, Verdicts)
  BY <1>2, CallTaken
<1>5. m \in Commits /\ m \in Range(toHost)
  BY <1>2 DEF Takes, Commits
<1>6. Settled /\ Promised /\ Under /\ ~Committed
  BY <1>4, <1>5, NoMark DEF Settled, Promised, Under, NoneIn, Committed
<1>7. /\ NoneIn(toHost', Commits) /\ NoneIn(toHost', Prepares) /\ NoneIn(toHost', Edited)
      /\ NoneIn(toPage, Prepareds) /\ NoneIn(toPage, Committeds)
  BY <1>2, <1>4, <1>5, NoMark DEF NoneIn, Calls, Commits, Prepares, Parts, InFlight, Takes, Popped
<1>8. /\ Less(toPage, toPage', Seen) /\ Less(toPage, toPage', Marks) /\ Less(toPage, toPage', Acks)
      /\ Less(toPage, toPage', SavedMarks)
      /\ Committed' <=> Committed
  BY <1>2, LessGrows, LessSame, NoMark, CommittedPopped
<1>9. ~WrittenNow'
  <2>1. CASE UNCHANGED committing
    BY <1>1, <1>4, <2>1 DEF WrittenNow, CurCommits
  <2>2. ASSUME NEW c \in Commit, c.step = "starting", committing' = Append(committing, c)
        PROVE  ~WrittenNow'
    <3>1. Range(committing') = Range(committing) \cup {c}
      BY <2>2, HostState, AfterAppend
    <3>. QED BY <1>1, <1>4, <2>2, <3>1 DEF WrittenNow, CurCommits
  <2>. QED BY <1>2, <2>1, <2>2
<1>10. Agreement'
  BY <1>1, <1>3, <1>6, <1>8, <1>9, ViewLess, AgreementStill DEF Parts
<1>11. CurOps' = {} /\ ~Committed'
  BY <1>1, <1>4, <1>6, <1>8 DEF CurOps
<1>12. InFlight'
  <2>1. /\ \A v \in Range(writes') : v.value = page'.cell
        /\ NoneIn(toHost', EditsBut(page'.cell))
    BY <1>1, <1>6, <1>7 DEF Parts, InFlight, NoneIn, EditsBut, Edited
  <2>2. NoneAfter(toHost', Commits, Edited) /\ NoneAfter(toHost', Prepares, EditsBut(page'.cell))
    BY <1>7, OrderNone
  <2>3. NoneIn(toHost', Newest(page'.sequence))
    BY <1>7 DEF NoneIn, Newest, Edited
  <2>4. \A n \in Range(toHost') : n \notin Prepares
    BY <1>7 DEF NoneIn
  <2>. QED BY <1>1, <1>7, <1>11, <2>1, <2>2, <2>3, <2>4 DEF InFlight, Parts
<1>13. Saving'
  BY <1>1, <1>3, <1>6, <1>8, SavingKept DEF Parts
<1>. QED BY <1>10, <1>12, <1>13 DEF Parts

LEMMA PartsMessage ==
    ASSUME IInv, IInv', Tokens, Sessions, Parts, page.up, page.session = "held", HandleMessage
    PROVE  Parts'
<1>1. ~HandleSession /\ ~HandleDiscard
  BY HandleSessionDoes, HandleDiscardDoes DEF Sessions, Takes
<1>2. CASE HandleAbandon \/ HandleApplied
  <2>1. /\ page' = page /\ slot' = slot /\ UNCHANGED <<preparing, committing, writes, toPage>>
        /\ \E m : Takes(m)
        /\ host'.epoch = host.epoch /\ host'.known = host.known /\ host'.durable = host.durable
        /\ host'.shown = host.shown /\ host'.posted = host.posted /\ host'.saving = host.saving
    BY <1>2, HandleAbandonDoes, HandleAppliedDoes DEF PageStays, Calm, Becomes
  <2>2. /\ Less(toPage, toPage', Seen) /\ Less(toPage, toPage', Marks) /\ Less(toPage, toPage', Acks)
        /\ Less(toPage, toPage', SavedMarks)
        /\ Committed' <=> Committed
    BY <2>1, LessSame, CommittedPopped
  <2>3. /\ Less(toHost, toHost', Edited \cup Calls) /\ Less(toHost, toHost', Saves \cup Calls)
        /\ Less(toHost, toHost', Calls)
    BY <2>1, TakesLess
  <2>4. ViewStays /\ ShownStays /\ WorkStays
    BY <2>1, <2>2, ViewLess DEF ShownStays, WorkStays
  <2>5. Saving'
    BY <2>1, <2>2, <2>3, <2>4, PartsSavingQuiet
  <2>. QED BY <2>1, <2>2, <2>3, <2>4, <2>5, PartsStill
<1>. QED BY <1>1, <1>2, UpHosts, PartsHandleEdits, PartsHandleSave, PartsHandlePrepare, PartsHandleCommit
         DEF HandleMessage

LEMMA PartsSaveEnds ==
    ASSUME IInv, IInv', Tokens, Parts, page.up, SaveEnds PROVE Parts'
<1>1. /\ page' = page /\ slot' = slot /\ UNCHANGED <<toHost, preparing, committing, writes>>
      /\ host.saving /\ host'.known = host.known /\ host'.durable = host.durable
  BY SaveEndsDoes DEF PageStays, Calm, Becomes
<1>2. PICK a \in ToPage : a.type = "saved" /\ Answers1(a)
  BY SaveEndsDoes
<1>3. PICK q : Draws(q) /\ Grows(q, toPage', a)
  BY <1>2 DEF Answers1
<1>4. /\ Less(toHost, toHost', Edited \cup Calls) /\ Less(toHost, toHost', Saves \cup Calls)
      /\ Less(toHost, toHost', Calls)
  BY <1>1, LessSame
<1>5. /\ Less(toPage, toPage', Marks) /\ Less(toPage, toPage', Acks) /\ (Committed' <=> Committed)
  BY <1>2, <1>3, AnswersLess, NoMark, CommittedPopped
<1>6. ViewStays /\ ShownStays /\ WorkStays
  <2>1. ViewStays
    BY <1>1, <1>2, <1>3, NoMark, ViewDraws DEF Parts, Agreement
  <2>. QED BY <1>1, <1>3, <2>1, DrawsShown DEF WorkStays, Draws
<1>7. page.cell # page.published => ~Under
  BY <1>1 DEF Parts, Saving, Under, Promised
<1>8. ~Under => ~Under' /\ ~Promised'
  BY <1>4, <1>5, <1>6, SignsStill DEF Under
<1>9. Saving'
  BY <1>1, <1>2, <1>3, <1>4, <1>7, <1>8, SavedsLast, SavingAfter DEF Parts
<1>. QED BY <1>1, <1>4, <1>5, <1>6, <1>9, PartsStill

LEMMA PartsShows ==
    ASSUME IInv, IInv', Tokens, Parts, page.up, host.session # 0,
           \/ PostSnapshot \/ LeaseExpires \/ OtherPanelEdits
           \/ \E moved \in BOOLEAN : Refresh(moved)
           \/ \E post \in host.posting : PostEnds(post)
    PROVE  Parts'
<1>1. ~OtherPanelEdits
  BY OtherPanelEditsDoes
<1>2. /\ page' = page /\ slot' = slot /\ UNCHANGED <<toHost, preparing, committing, writes>>
      /\ host'.known = host.known /\ host'.durable = host.durable /\ host'.saving = host.saving
      /\ host'.epoch = host.epoch
  BY <1>1, PostSnapshotDoes, LeaseExpiresDoes, RefreshDoes, PostEndsDoes
     DEF PageStays, Calm, Becomes, Draws, HostRests
<1>3. /\ Less(toHost, toHost', Edited \cup Calls) /\ Less(toHost, toHost', Saves \cup Calls)
      /\ Less(toHost, toHost', Calls) /\ WorkStays
  BY <1>2, LessSame DEF WorkStays
<1>4. ASSUME Less(toPage, toPage', Marks), Less(toPage, toPage', Acks), Less(toPage, toPage', SavedMarks),
             Committed' <=> Committed, ViewStays, ShownStays
      PROVE  Parts'
  <2>1. Saving'
    BY <1>2, <1>3, <1>4, PartsSavingQuiet
  <2>. QED BY <1>2, <1>3, <1>4, <2>1, PartsStill
<1>5. CASE LeaseExpires
  <2>1. host' = host /\ toPage' = toPage
    BY <1>5, LeaseExpiresDoes
  <2>. QED BY <1>4, <2>1, LessSame, CommittedPopped, ViewLess DEF ShownStays
<1>6. ASSUME NEW moved \in BOOLEAN, Refresh(moved) PROVE Parts'
  <2>1. Draws(toPage')
    BY <1>6, RefreshDoes
  <2>2. Less(toPage, toPage', Marks) /\ Less(toPage, toPage', Acks) /\ Less(toPage, toPage', SavedMarks)
    BY <2>1, DrawsLess, NoMark
  <2>3. Committed' <=> Committed
    <3>1. PICK a \in ToPage : a.type = "snapshot" /\ a \notin Committeds
      BY <2>1 DEF Draws, Committeds
    <3>. QED BY <2>1, <3>1, CommittedPopped DEF Grows
  <2>4. ViewStays /\ ShownStays
    BY <1>2, <2>1, ViewDrawn, DrawsShown DEF Parts, Agreement
  <2>. QED BY <1>4, <2>2, <2>3, <2>4
<1>7. CASE PostSnapshot
  <2>1. PICK a \in ToPage : a.type = "snapshot" /\ a.cell = host.shown /\ Pushed(toPage, toPage', a)
    BY <1>7, PostSnapshotDoes
  <2>2. ~host.posted /\ host'.posted /\ host'.shown = host.shown
    BY <1>7, PostSnapshotDoes
  <2>3. a \notin Marks /\ a \notin Acks /\ a \notin SavedMarks /\ a \notin Committeds
    BY <2>1, NoMark DEF Committeds, Marks
  <2>4. /\ Less(toPage, toPage', Marks) /\ Less(toPage, toPage', Acks) /\ Less(toPage, toPage', SavedMarks)
        /\ Committed' <=> Committed
    BY <2>1, <2>3, PushedLess, CommittedPopped DEF Grows
  <2>5. Firm \/ AckComing => a \notin SnapshotsBut(Truth)
    BY <2>1, <2>2 DEF Parts, Agreement, SnapshotsBut
  <2>6. ViewStays
    BY <2>1, <2>3, <2>5 DEF ViewStays, Pushed, AckComing
  <2>. QED BY <1>4, <2>2, <2>4, <2>6 DEF ShownStays
<1>8. ASSUME NEW post \in host.posting, PostEnds(post) PROVE Parts'
  <2>1. host'.shown = host.shown /\ host'.posted = host.posted /\ toPage' = toPage
    BY <1>8, PostEndsDoes DEF HostRests
  <2>. QED BY <1>4, <2>1, LessSame, CommittedPopped, ViewLess DEF ShownStays
<1>. QED BY <1>1, <1>5, <1>6, <1>7, <1>8

-----------------------------------------------------------------------------
(* The steps that the host takes of itself *)

\* What is delivered is shown.
LEMMA DeliverShows ==
    ASSUME NEW h \in Host, ~h.readying, NEW answers, Deliver(h, answers)
    PROVE  host'.shown = host'.known
<1>1. host' = shown(h) \/ Late(h)
  BY DEF Deliver
<1>2. CASE host' = shown(h)
  BY <1>2 DEF shown, Host
<1>3. CASE Late(h)
  BY <1>3 DEF Late, shown, Host
<1>. QED BY <1>1, <1>2, <1>3

LEMMA LandsShown ==
    ASSUME IInv, WriteLands, ~host.readying, Owns(Head(writes).session)
    PROVE  host'.shown = host'.known
<1>. DEFINE value == Head(writes).value
<1>1. value \in Nat /\ host \in Host
  <2>1. Head(writes) \in Write
    BY HostState, AfterTail DEF WriteLands
  <2>. QED BY <2>1, HostState DEF Write
<1>2. PICK answers : Deliver(stored(value), answers)
  BY DEF WriteLands
<1>. HIDE DEF value
<1>. QED BY <1>1, <1>2, StoredFields, DeliverShows

LEMMA PartsLands ==
    ASSUME IInv, IInv', Numbered, Tokens, Pipeline, Parts, page.up, page.session = "held", WriteLands
    PROVE  Parts'
<1>1. /\ page' = page /\ slot' = slot /\ toHost' = toHost /\ writes # <<>> /\ writes' = Tail(writes)
  BY WriteLandsDoes DEF PageStays
<1>2. PICK w \in Write :
         /\ w = Head(writes) /\ w \in Range(writes) /\ Popped(writes, writes', w)
         /\ \/ ~Owns(w.session) /\ host' = host /\ toPage' = toPage
            \/ /\ Owns(w.session)
               /\ host'.known = w.value /\ host'.durable = w.value /\ host'.saving = host.saving
               /\ Acknowledges(w) \in ToPage /\ Acknowledges(w).type = "acknowledged"
               /\ Acknowledges(w).sequence = w.sequence
               /\ Answers1(Acknowledges(w))
               /\ w.epoch # host.epoch => Draws(toPage')
  BY WriteLandsDoes DEF Becomes
<1>3. /\ host'.epoch = host.epoch
      /\ CurOps' = {ahead(op) : op \in CurOps} /\ CurCommits' = {ahead(c) : c \in CurCommits}
      /\ CurOps \subseteq Op /\ CurCommits \subseteq Commit
  BY LandsWork
<1>4. ~Committed /\ ~page.acknowledged /\ ~AckComing
  BY <1>1 DEF Parts, InFlight, Pipeline
<1>5. ~WrittenNow'
  <2>1. \A c \in CurCommits : c.step # "written"
    BY <1>1, MovedFirst DEF CurCommits
  <2>2. \A c \in CurCommits' : c.step # "written"
    BY <1>3, <2>1, AheadFields
  <2>. QED BY <2>2 DEF WrittenNow
<1>6. /\ Less(toPage, toPage', Marks) /\ Less(toPage, toPage', SavedMarks) /\ Less(toPage, toPage', Committeds)
      /\ Less(toPage, toPage', Prepareds)
  <2>1. CASE toPage' = toPage
    BY <2>1, LessSame
  <2>2. CASE Acknowledges(w) \in ToPage /\ Acknowledges(w).type = "acknowledged" /\ Answers1(Acknowledges(w))
    <3>1. Less(toPage, toPage', Marks) /\ Less(toPage, toPage', SavedMarks)
      BY <2>2, AnswersLess, NoMark
    <3>. QED BY <3>1, LessOf, NoMark
  <2>. QED BY <1>2, <2>1, <2>2
<1>7. ~Committed'
  BY <1>4, <1>6 DEF Less, Committed
<1>8. (Settled' => Settled) /\ (Under' => Under) /\ (Promised' => Promised) /\ (CurCommits' # {} => CurCommits # {})
  <2>1. (\E op \in CurOps' : op.step = "verifying") => \E op \in CurOps : op.step = "verifying"
    BY <1>3, AheadFields
  <2>2. (CurCommits' # {} => CurCommits # {}) /\ (CurOps' # {} => CurOps # {})
    BY <1>3
  <2>3. NoneIn(toPage, Prepareds) => NoneIn(toPage', Prepareds)
    BY <1>6 DEF Less
  <2>. QED BY <1>1, <2>1, <2>2, <2>3 DEF Settled, Under, Promised
<1>9. Truth = page.cell /\ Truth' = page.cell
  BY <1>1, <1>4, <1>7 DEF Truth
<1>10. Settled => w.value = page.cell
  BY <1>2 DEF Parts, InFlight
<1>11. (Firm' => Firm) /\ (Firm' => Settled)
  BY <1>1, <1>4, <1>7, <1>8 DEF Firm
<1>12. Firm => Settled
  BY <1>4 DEF Firm
<1>13. Agreement'
  <2>1. CASE ~Owns(w.session) /\ host' = host /\ toPage' = toPage
    <3>1. ~AckComing'
      BY <1>1, <1>4, <2>1 DEF AckComing
    <3>2. ViewStays
      BY <2>1, LessSame, ViewLess
    <3>. QED BY <1>1, <1>5, <1>9, <1>11, <2>1, <3>1, <3>2, AgreementKept DEF Agreement, Parts
  <2>2. ASSUME Owns(w.session), host'.known = w.value,
               Acknowledges(w) \in ToPage, Acknowledges(w).type = "acknowledged",
               Acknowledges(w).sequence = w.sequence, Answers1(Acknowledges(w)),
               w.epoch # host.epoch => Draws(toPage')
        PROVE  Agreement'
    <3>. DEFINE a == Acknowledges(w)
    <3>1. PICK q : Draws(q) /\ Grows(q, toPage', a) /\ (w.epoch # host.epoch => q = toPage')
      BY <2>2 DEF Answers1, Grows
    <3>2. host'.shown = host'.known
      BY <1>2, <2>2, UpHosts, LandsShown
    <3>3. /\ a \notin Snapshots /\ (\A v : a \notin SnapshotsBut(v))
          /\ a \notin Committeds
      BY <2>2 DEF Snapshots, SnapshotsBut, Committeds
    <3>4. NoneIn(q, NewestAcks(page.sequence))
      <4>1. NoneIn(toPage, NewestAcks(page.sequence))
        BY <1>4 DEF AckComing
      <4>. QED BY <3>1, <4>1 DEF Draws, Pushed, NewestAcks
    <3>5. AckComing' => w.value = page.cell
      <4>1. SUFFICES ASSUME AckComing' PROVE w.value = page.cell
        OBVIOUS
      <4>2. a \in NewestAcks(page.sequence) /\ q # toPage'
        BY <1>1, <3>1, <3>4, <4>1 DEF AckComing, Grows, Pushed
      <4>3. w \in NewestWrites(host.epoch, page.sequence)
        BY <2>2, <3>1, <4>2 DEF NewestAcks, NewestWrites
      <4>. QED BY <1>2, <4>3 DEF Pipeline, Parts, InFlight, NoneIn
    <3>6. Firm' \/ AckComing' => host'.known = page.cell
      BY <1>10, <1>11, <2>2, <3>5
    <3>7. Firm' => NoneIn(toPage', SnapshotsBut(page.cell))
      <4>1. SUFFICES ASSUME Firm' PROVE NoneIn(toPage', SnapshotsBut(page.cell))
        OBVIOUS
      <4>2. NoneIn(toPage, SnapshotsBut(page.cell))
        BY <1>9, <1>11, <4>1 DEF Parts, Agreement
      <4>3. NoneIn(q, SnapshotsBut(page.cell))
        BY <3>1, <3>2, <3>6, <4>1, <4>2 DEF Draws, Pushed, SnapshotsBut
      <4>. QED BY <3>1, <3>3, <4>3 DEF Grows, Pushed
    <3>8. NoneAfter(toPage', NewestAcks(page.sequence), SnapshotsBut(page.cell))
      <4>1. NoneAfter(q, NewestAcks(page.sequence), SnapshotsBut(page.cell))
        BY <3>4, OrderNone
      <4>. QED BY <3>1, <3>3, <4>1 DEF Grows, Pushed
    <3>9. NoneAfter(toPage', Snapshots, Committeds)
      BY <1>7, OrderNone DEF Committed
    <3>. QED BY <1>1, <1>5, <1>9, <3>2, <3>6, <3>7, <3>8, <3>9 DEF Agreement
  <2>. QED BY <1>2, <2>1, <2>2
<1>14. Range(writes') \subseteq Range(writes)
  BY <1>2 DEF Popped
<1>15. InFlight'
  <2>1. Settled' => NoneIn(toHost', EditsBut(page'.cell)) /\ \A v \in Range(writes') : v.value = page'.cell
    BY <1>1, <1>8, <1>14 DEF Parts, InFlight
  <2>2. ~NoneIn(toHost', Newest(page'.sequence)) \/ ~NoneIn(writes', NewestWrites(host'.epoch, page'.sequence))
           => page'.published = page'.cell
    BY <1>1, <1>3, <1>14 DEF Parts, InFlight, NoneIn
  <2>3. ASSUME NEW op \in CurOps'
        PROVE  /\ op.cell = page'.cell /\ NoneIn(toHost', EditsBut(page'.cell))
               /\ \A i \in DOMAIN writes' : i > op.awaits => writes'[i].value = page'.cell
    <3>1. PICK o \in CurOps : op = ahead(o)
      BY <1>3
    <3>2. /\ op.cell = o.cell /\ o.awaits \in Nat /\ op.awaits \in Nat
          /\ op.awaits = IF o.awaits = 0 THEN 0 ELSE o.awaits - 1
      <4>1. o \in Op /\ o.awaits \in Nat
        BY HostFields DEF CurOps
      <4>. QED BY <3>1, <4>1, AheadFields
    <3>3. o.cell = page.cell /\ NoneIn(toHost, EditsBut(page.cell))
          /\ \A i \in DOMAIN writes : i > o.awaits => writes[i].value = page.cell
      BY DEF Parts, InFlight
    <3>4. ASSUME NEW i \in DOMAIN writes', i > op.awaits
          PROVE  writes'[i].value = page.cell
      <4>1. /\ Len(writes) \in Nat \ {0} /\ Len(writes') = Len(writes) - 1
            /\ DOMAIN writes' = 1..Len(writes') /\ DOMAIN writes = 1..Len(writes)
            /\ \A j \in 1..Len(writes') : writes'[j] = writes[j + 1]
        BY <1>1, HostState, AfterTail, LenProperties
      <4>2. i + 1 \in DOMAIN writes /\ i + 1 > o.awaits
        BY <3>2, <3>4, <4>1
      <4>. QED BY <3>3, <3>4, <4>1, <4>2
    <3>. QED BY <1>1, <3>2, <3>3, <3>4
  <2>. QED BY <1>1, <1>7, <1>8, <2>1, <2>2, <2>3 DEF Parts, InFlight
<1>16. Saving'
  BY <1>1, <1>2, <1>6, <1>8, LessSame, SavingKept DEF Parts
<1>. QED BY <1>13, <1>15, <1>16 DEF Parts

LEMMA PartsRefuses ==
    ASSUME IInv, IInv', Tokens, Parts, page.up, NEW op \in preparing, Refuses(op)
    PROVE  Parts'
<1>1. /\ page' = page /\ slot' = slot /\ toHost' = toHost /\ writes' = writes /\ committing' = committing
      /\ preparing' \subseteq preparing
      /\ host'.epoch = host.epoch /\ host'.known = host.known /\ host'.durable = host.durable
      /\ host'.shown = host.shown /\ host'.posted = host.posted /\ host'.saving = host.saving
  BY DEF Refuses, PageStays, HostRests, Becomes
<1>2. PICK a \in ToPage : a.type = "prepareRefused" /\ Grows(toPage, toPage', a)
  BY DEF Refuses
<1>3. /\ Less(toPage, toPage', Seen) /\ Less(toPage, toPage', Marks) /\ Less(toPage, toPage', Acks)
      /\ Less(toPage, toPage', SavedMarks)
      /\ Committed' <=> Committed
  BY <1>2, NoMark, LessGrows, CommittedPopped
<1>4. /\ Less(toHost, toHost', Edited \cup Calls) /\ Less(toHost, toHost', Saves \cup Calls)
      /\ Less(toHost, toHost', Calls)
  BY <1>1, LessSame
<1>5. ViewStays /\ ShownStays /\ WorkLess
  BY <1>1, <1>3, ViewLess DEF ShownStays, WorkLess, CurOps, CurCommits
<1>6. Saving'
  BY <1>1, <1>3, <1>4, <1>5, PartsSavingQuiet
<1>. QED BY <1>1, <1>3, <1>4, <1>5, <1>6, PartsStill

\* The preparation of the page is the only work for it.
LEMMA MovesAlone ==
    ASSUME IInv, Tokens, page.up, NEW op \in preparing, NEW step, Moves(op, step)
    PROVE  /\ UNCHANGED <<page, slot, host, writes, toHost, toPage>>
           /\ op \in CurOps /\ CurOps = {op} /\ CurCommits = {} /\ CurCommits' = {}
           /\ NoneIn(toHost, Calls) /\ NoneIn(toPage, Verdicts)
           /\ \E next \in Op : /\ next.cell = op.cell /\ next.awaits = op.awaits /\ next.step = step
                               /\ CurOps' = {next}
<1>1. UNCHANGED <<page, slot, host, committing, writes, toHost, toPage>> /\ op.epoch = host.epoch
  BY DEF Moves
<1>2. PICK next \in Op :
          /\ next.epoch = op.epoch /\ next.cell = op.cell
          /\ next.awaits = op.awaits /\ next.step = step
          /\ preparing' = (preparing \ {op}) \cup {next}
  BY DEF Moves
<1>3. op \in CurOps /\ CurOps = {op} /\ CurCommits = {} /\ NoneIn(toHost, Calls) /\ NoneIn(toPage, Verdicts)
  BY <1>1, OneWork DEF CurOps
<1>4. CurCommits' = {}
  BY <1>1, <1>3 DEF CurCommits
<1>5. CurOps' = {next}
  BY <1>1, <1>2, <1>3 DEF CurOps
<1>. QED BY <1>1, <1>2, <1>3, <1>4, <1>5

LEMMA PartsBinds ==
    ASSUME IInv, IInv', Tokens, Parts, page.up, NEW op \in preparing, Moves(op, "comparing")
    PROVE  Parts'
<1>1. /\ UNCHANGED <<page, slot, host, writes, toHost, toPage>>
      /\ CurOps = {op} /\ CurCommits = {} /\ CurCommits' = {}
      /\ NoneIn(toHost, Calls) /\ NoneIn(toPage, Verdicts)
  BY MovesAlone
<1>2. PICK next \in Op : /\ next.cell = op.cell /\ next.awaits = op.awaits /\ next.step = "comparing"
                         /\ CurOps' = {next}
  BY MovesAlone
<1>3. NoneIn(toHost, Commits) /\ NoneIn(toPage, Prepareds)
  BY <1>1, NoMark, CallTypes DEF NoneIn
<1>4. ~Settled' /\ ~WrittenNow' /\ ~Promised' /\ Under
  BY <1>1, <1>2, <1>3 DEF Settled, WrittenNow, Promised, Under
<1>5. /\ Less(toPage, toPage', Seen) /\ Less(toPage, toPage', SavedMarks) /\ Less(toPage, toPage', Acks)
      /\ Committed' <=> Committed
      /\ Less(toHost, toHost', Edited \cup Calls) /\ Less(toHost, toHost', Saves \cup Calls)
  BY <1>1, LessSame, CommittedPopped
<1>6. Agreement'
  BY <1>1, <1>4, <1>5, ViewLess, AgreementStill DEF Parts, ShownStays
<1>7. InFlight'
  BY <1>1, <1>2, <1>4, <1>5, InFlightKept DEF Parts
<1>8. Saving'
  BY <1>1, <1>4, <1>5, SavingKept DEF Parts
<1>. QED BY <1>6, <1>7, <1>8 DEF Parts

\* The cell of the page is the durable one: from now on the document is settled.
LEMMA PartsCompares ==
    ASSUME IInv, IInv', Numbered, Heard, Ordered, Tokens, Parts, page.up, NEW op \in preparing,
           op.step = "comparing", op.cell = host.durable, Moves(op, "verifying")
    PROVE  Parts'
<1>1. /\ UNCHANGED <<page, slot, host, writes, toHost, toPage>>
      /\ op \in CurOps /\ CurOps = {op} /\ CurCommits = {} /\ CurCommits' = {}
      /\ NoneIn(toHost, Calls) /\ NoneIn(toPage, Verdicts)
  BY MovesAlone
<1>2. PICK next \in Op : /\ next.cell = op.cell /\ next.awaits = op.awaits /\ next.step = "verifying"
                         /\ CurOps' = {next}
  BY MovesAlone
<1>3. op.cell = page.cell /\ op.awaits = 0 /\ NoneIn(toHost, EditsBut(page.cell))
      /\ \A i \in DOMAIN writes : i > op.awaits => writes[i].value = page.cell
  BY <1>1 DEF Parts, InFlight, Numbered
<1>4. NoneIn(toPage, Snapshots) /\ host.posted /\ host.known = page.cell
  <2>1. host.acked /\ ~host.readying /\ ~WrittenNow
    BY <1>1, UpHosts DEF Moves, WrittenNow
  <2>. QED BY <1>3, <2>1 DEF Ordered, Heard, IInv, Deliveries
<1>5. NoneIn(toHost, Commits) /\ NoneIn(toPage, Prepareds) /\ ~Committed
  BY <1>1, NoMark, CallTypes DEF NoneIn, Committed
<1>6. ~WrittenNow' /\ ~Promised' /\ Under /\ ~Committed'
  BY <1>1, <1>2, <1>5 DEF WrittenNow, Promised, Under, Committed
<1>7. Agreement'
  <2>1. Truth' = page.cell
    BY <1>1, <1>6 DEF Truth
  <2>2. NoneIn(toPage, SnapshotsBut(page.cell))
    BY <1>4, SeenAre DEF SeenTypes, NoneIn
  <2>3. NoneAfter(toPage, NewestAcks(page.sequence), SnapshotsBut(page.cell))
        /\ NoneAfter(toPage, Snapshots, Committeds)
    BY <1>4, <2>2, OrderNone
  <2>. QED BY <1>1, <1>4, <1>6, <2>1, <2>2, <2>3 DEF Agreement
<1>8. \A w \in Range(writes) : w.value = page.cell
  <2>1. \A i \in DOMAIN writes : i > 0
    BY WriteTypes
  <2>. QED BY <1>3, <2>1 DEF Range
<1>9. InFlight'
  BY <1>1, <1>2, <1>3, <1>6, <1>8 DEF Parts, InFlight
<1>10. Saving'
  BY <1>1, <1>6, LessSame, SavingKept DEF Parts
<1>. QED BY <1>7, <1>9, <1>10 DEF Parts

LEMMA PartsIssues ==
    ASSUME IInv, IInv', Tokens, Parts, page.up, NEW op \in preparing, Issues(op)
    PROVE  Parts'
<1>1. /\ page' = page /\ slot' = slot /\ toHost' = toHost /\ writes' = writes /\ committing' = committing
      /\ preparing' = preparing \ {op}
      /\ op.step = "verifying" /\ op.epoch = host.epoch
      /\ host'.epoch = host.epoch /\ host'.known = host.known /\ host'.durable = host.durable
      /\ host'.shown = host.shown /\ host'.posted = host.posted /\ host'.saving = host.saving
  BY DEF Issues, PageStays, HostRests, Becomes
<1>2. PICK a \in ToPage : a.type = "prepared" /\ Grows(toPage, toPage', a)
  BY DEF Issues, Grows
<1>3. op \in CurOps /\ Settled /\ Under
  BY <1>1 DEF CurOps, Settled, Under
<1>4. CurOps' \subseteq CurOps /\ CurCommits' = CurCommits
  BY <1>1 DEF CurOps, CurCommits
<1>5. /\ Less(toPage, toPage', Seen) /\ Less(toPage, toPage', Acks) /\ (Committed' <=> Committed)
      /\ Less(toHost, toHost', Edited \cup Calls)
  <2>1. a \notin Seen /\ a \notin Acks /\ a \notin Committeds
    BY <1>2, NoMark
  <2>. QED BY <1>1, <1>2, <2>1, LessSame, LessGrows, CommittedPopped
<1>6. WrittenNow' => WrittenNow
  BY <1>4 DEF WrittenNow
<1>7. Agreement'
  BY <1>1, <1>3, <1>5, <1>6, ViewLess, AgreementStill DEF Parts, ShownStays
<1>8. InFlight'
  BY <1>1, <1>3, <1>4, <1>5, InFlightKept DEF Parts
<1>9. Saving'
  <2>1. a \notin Saveds /\ a \notin Committeds
    BY <1>2, NoMark
  <2>2. /\ NoneAfter(toPage, Prepareds, Saveds) => NoneAfter(toPage', Prepareds, Saveds)
        /\ NoneIn(toPage, Saveds) => NoneIn(toPage', Saveds)
        /\ NoneAfter(toPage, Saveds, Committeds) => NoneAfter(toPage', Saveds, Committeds)
    BY <1>2, <2>1 DEF Grows, Pushed
  <2>. QED BY <1>1, <1>3, <1>4, <2>2 DEF Parts, Saving, Under, Promised
<1>. QED BY <1>7, <1>8, <1>9 DEF Parts

LEMMA PartsPreparation ==
    ASSUME IInv, IInv', Numbered, Heard, Ordered, Tokens, Parts, page.up,
           NEW op \in preparing, Preparation(op)
    PROVE  Parts'
<1>1. \/ Refuses(op) \/ Issues(op) \/ Moves(op, "comparing")
      \/ op.step = "comparing" /\ op.cell = host.durable /\ Moves(op, "verifying")
  BY BindDoes, CompareDoes, OutdatedDoes, IssueDoes DEF Preparation
<1>. QED BY <1>1, PartsRefuses, PartsIssues, PartsBinds, PartsCompares

\* A commit ends and is not answered, or refused, and the host has heard of nothing new.
LEMMA PartsEnds ==
    ASSUME IInv, IInv', Tokens, Parts, page.up, NEW c, EndsCommit(c),
           toPage' = toPage \/ AnsweredBy(c, "commitRefused"),
           host'.epoch = host.epoch, host'.known = host.known, host'.durable = host.durable,
           host'.shown = host.shown, host'.posted = host.posted, host'.saving = host.saving
    PROVE  Parts'
<1>1. /\ page' = page /\ slot' = slot /\ toHost' = toHost /\ writes' = writes
      /\ preparing' = preparing /\ Range(committing') \subseteq Range(committing)
  BY DEF EndsCommit, PageStays, Popped
<1>2. PICK a \in ToPage : a.type = "commitRefused" /\ Grows(toPage, toPage', a)
  <2>1. CASE toPage' = toPage
    <3>1. [type |-> "commitRefused", lease |-> 0] \in ToPage
      BY DEF ToPage
    <3>. QED BY <2>1, <3>1 DEF Grows
  <2>. QED BY <2>1 DEF AnsweredBy
<1>3. /\ Less(toPage, toPage', Seen) /\ Less(toPage, toPage', Marks) /\ Less(toPage, toPage', Acks)
      /\ Less(toPage, toPage', SavedMarks)
      /\ Committed' <=> Committed
  BY <1>2, NoMark, LessGrows, CommittedPopped
<1>4. /\ Less(toHost, toHost', Edited \cup Calls) /\ Less(toHost, toHost', Saves \cup Calls)
      /\ Less(toHost, toHost', Calls)
  BY <1>1, LessSame
<1>5. ViewStays /\ ShownStays /\ WorkLess
  BY <1>1, <1>3, ViewLess DEF ShownStays, WorkLess, CurOps, CurCommits
<1>6. Saving'
  BY <1>1, <1>3, <1>4, <1>5, PartsSavingQuiet
<1>. QED BY <1>1, <1>3, <1>4, <1>5, <1>6, PartsStill

\* A commit goes on, and may write its value.
LEMMA PartsSteps ==
    ASSUME IInv, IInv', Numbered, Tokens, Parts, page.up, NEW c,
           \/ host' = host /\ Steps(c, "draining")
           \/ host' = host /\ Steps(c, "verified")
           \/ Writes(c.value) /\ Steps(c, "written")
    PROVE  Parts'
<1>1. /\ UNCHANGED <<page, slot, preparing, writes, toHost, toPage>>
      /\ host'.epoch = host.epoch /\ host'.known = host.known
      /\ host'.shown = host.shown /\ host'.posted = host.posted /\ host'.saving = host.saving
  BY DEF Steps, Writes, Becomes
<1>2. c \in CurCommits /\ c.value = Target
  BY <1>1, SteppedCurrent, OneWork
<1>3. /\ Settled /\ Promised /\ Under /\ Firm /\ Truth' = Truth
      /\ Committed' <=> Committed
  BY <1>1, <1>2 DEF Settled, Promised, Under, Firm, Truth, Committed, Target
<1>4. ViewStays /\ (AckComing' => AckComing)
  BY <1>1, LessSame, ViewLess DEF AckComing
<1>5. WrittenNow' => host'.durable = Target'
  <2>1. ASSUME host' = host, NEW step \in {"draining", "verified"}, Steps(c, step)
        PROVE  WrittenNow' => host'.durable = Target'
    <3>1. \A e \in CurCommits' : e.step = step \/ e \in CurCommits
      BY <2>1, SteppedCurrent
    <3>. QED BY <1>1, <2>1, <3>1 DEF WrittenNow, Parts, Agreement, Target
  <2>2. CASE Writes(c.value) /\ Steps(c, "written")
    BY <1>1, <1>2, <2>2 DEF Writes, Becomes, Target
  <2>. QED BY <2>1, <2>2
<1>6. Agreement'
  BY <1>1, <1>3, <1>4, <1>5, AgreementKept DEF Parts, Agreement
<1>7. InFlight'
  <2>1. CurOps' = CurOps
    BY <1>1 DEF CurOps
  <2>. QED BY <1>1, <1>2, <1>3, <2>1, LessSame, InFlightKept DEF Parts
<1>8. Saving'
  BY <1>1, <1>3, LessSame, SavingKept DEF Parts
<1>. QED BY <1>6, <1>7, <1>8 DEF Parts

\* The commit of the present page was written, and the page is told.
LEMMA PartsAnswered ==
    ASSUME IInv, IInv', Numbered, Ordered, Tokens, Parts, Whole', page.up, NEW c, c \in CurCommits,
           c.step = "written", EndsCommit(c), host.acked,
           host'.epoch = host.epoch, host'.posted = host.posted, host'.durable = host.durable,
           host'.known = host.durable, AnsweredBy(c, "committed")
    PROVE  Parts'
<1>1. /\ page' = page /\ slot' = slot /\ toHost' = toHost /\ writes' = writes
      /\ preparing' = preparing /\ c \in Range(committing) /\ c.epoch = host.epoch
  BY DEF EndsCommit, PageStays, CurCommits
<1>2. /\ CurCommits' = {} /\ OfCommit(c) /\ CurOps = {} /\ CurOps' = {}
      /\ NoneIn(toHost, Calls) /\ NoneIn(toPage, Verdicts)
  BY <1>1, SettledCurrent, OneWork DEF CurOps
<1>3. PICK a \in ToPage : a.type = "committed" /\ Grows(toPage, toPage', a)
  BY DEF AnsweredBy
<1>4. NoneIn(toHost, Commits) /\ NoneIn(toHost, Prepares) /\ NoneIn(toPage, Prepareds) /\ NoneIn(toPage, Committeds)
  BY <1>2, NoMark, CallTypes DEF NoneIn
<1>5. Pushed(toPage, toPage', a)
  <2>1. CASE toPage' = toPage
    <3>1. \A m \in Range(toPage') : m.type \notin {"committed", "commitRefused"}
      BY <1>2, <2>1, CallTypes DEF NoneIn
    <3>2. ~CommitToken'
      BY <1>1, <1>2, <1>4, <3>1 DEF CommitToken
    <3>3. Stuck'
      BY <1>1, <1>2, <3>2 DEF Stuck, OfCommit
    <3>. QED BY <3>3 DEF Whole
  <2>. QED BY <1>3, <2>1 DEF Grows
<1>6. /\ a \notin Snapshots /\ a \in Committeds /\ a \notin Prepareds /\ a \notin Saveds
      /\ \A v : a \notin SnapshotsBut(v)
  BY <1>3 DEF Snapshots, Committeds, Prepareds, Saveds, SnapshotsBut
<1>7. /\ Committed' /\ Truth' = Target /\ Target' = Target
      /\ NoneIn(toPage', Snapshots) /\ NoneIn(toPage', Prepareds)
  <2>1. NoneIn(toPage, Snapshots)
    BY DEF Ordered
  <2>. QED BY <1>1, <1>4, <1>5, <1>6, <2>1 DEF Committed, Truth, Pushed, Target
<1>8. host.durable = Target /\ host.posted
  <2>1. WrittenNow
    BY DEF WrittenNow
  <2>. QED BY <2>1 DEF Parts, Agreement, IInv, Deliveries
<1>9. writes = <<>> /\ NoneIn(toHost, Edited)
  BY <1>1, MovedFirst DEF Parts, InFlight
<1>10. ~Settled' /\ ~Under' /\ ~Promised' /\ ~WrittenNow'
  BY <1>1, <1>2, <1>4, <1>7 DEF Settled, Under, Promised, WrittenNow
<1>11. Agreement'
  <2>1. NoneIn(toPage', SnapshotsBut(Truth'))
    BY <1>7, SeenAre DEF SeenTypes, NoneIn
  <2>2. /\ NoneAfter(toPage', NewestAcks(page'.sequence), SnapshotsBut(Truth'))
        /\ NoneAfter(toPage', Snapshots, Committeds)
    BY <1>7, <2>1, OrderNone
  <2>. QED BY <1>7, <1>8, <1>10, <2>1, <2>2 DEF Agreement
<1>12. InFlight'
  <2>1. NoneAfter(toHost', Commits, Edited) /\ NoneAfter(toHost', Prepares, EditsBut(page'.cell))
    BY <1>1, <1>4, OrderNone
  <2>2. NoneIn(toHost', Newest(page'.sequence)) /\ NoneIn(writes', NewestWrites(host'.epoch, page'.sequence))
    BY <1>1, <1>9, PipeTypes DEF NoneIn, Range
  <2>3. \A m \in Range(toHost') : m \notin Prepares
    BY <1>1, <1>4 DEF NoneIn
  <2>. QED BY <1>1, <1>2, <1>9, <1>10, <2>1, <2>2, <2>3 DEF InFlight
<1>13. Saving'
  <2>1. SUFFICES ASSUME page.cell # page.published PROVE Saving'
    BY <1>1 DEF Saving
  <2>2. NoneIn(toPage, Saveds)
    BY <2>1 DEF Parts, Saving
  <2>3. NoneIn(toPage', Saveds)
    BY <1>5, <1>6, <2>2 DEF Pushed
  <2>4. /\ NoneAfter(toHost', Prepares, Saves) /\ NoneAfter(toPage', Prepareds, Saveds)
        /\ NoneAfter(toPage', Saveds, Committeds)
    BY <1>1, <1>4, <1>7, <2>3, OrderNone
  <2>. QED BY <1>10, <2>4 DEF Saving, Under, Promised
<1>. QED BY <1>11, <1>12, <1>13 DEF Parts

LEMMA PartsAnswer ==
    ASSUME IInv, IInv', Numbered, Heard, Ordered, Tokens, Parts, Whole', page.up, AnswerCommit
    PROVE  Parts'
<1>1. PICK c :
         /\ c.step = "written" /\ EndsCommit(c)
         /\ host'.epoch = host.epoch /\ host'.shown = host.shown /\ host'.posted = host.posted
         /\ host'.durable = host.durable /\ host'.known = host.durable /\ host'.saving = host.saving
         /\ \/ /\ host.acked /\ AnsweredBy(c, "committed")
            \/ /\ host'.overtaken = (host.overtaken \/ c.epoch = host.epoch)
               /\ AnsweredBy(c, "commitRefused")
  BY AnswerDoes
<1>2. c \in Range(committing) /\ c = committing[1]
  BY <1>1 DEF EndsCommit
<1>3. CASE c.epoch # host.epoch
  <2>1. toPage' = toPage
    BY <1>1, <1>3 DEF EndsCommit
  <2>2. ~WrittenNow
    <3>1. \A d \in CurCommits : d.step = "written" => d = c
      BY <1>2, MovedFirst DEF CurCommits
    <3>. QED BY <1>3, <3>1 DEF WrittenNow, CurCommits
  <2>3. host.known = host.durable
    BY <2>2, UpHosts DEF Heard
  <2>. QED BY <1>1, <2>1, <2>3, PartsEnds
<1>4. CASE c.epoch = host.epoch
  <2>1. c \in CurCommits
    BY <1>2, <1>4 DEF CurCommits
  <2>2. ~(host'.overtaken = (host.overtaken \/ c.epoch = host.epoch))
    BY <1>4 DEF Whole
  <2>. QED BY <1>1, <2>1, <2>2, PartsAnswered
<1>. QED BY <1>3, <1>4

LEMMA PartsCommits ==
    ASSUME IInv, IInv', Numbered, Heard, Ordered, Tokens, Parts, Whole', page.up,
           StartCommit \/ VerifyCommit \/ CommitOutdated \/ commit_history_replay \/ AnswerCommit
    PROVE  Parts'
<1>1. ASSUME NEW c, host' = host, EndsCommit(c), AnsweredBy(c, "commitRefused") PROVE Parts'
  BY <1>1, PartsEnds
<1>2. CASE StartCommit \/ VerifyCommit \/ CommitOutdated
  <2>1. PICK c : \/ host' = host /\ Steps(c, "draining")
                 \/ host' = host /\ Steps(c, "verified")
                 \/ host' = host /\ EndsCommit(c) /\ AnsweredBy(c, "commitRefused")
    BY <1>2, StartDoes, VerifyDoes, CommitOutdatedDoes
  <2>. QED BY <1>1, <2>1, PartsSteps
<1>3. CASE commit_history_replay
  <2>1. PICK c : \/ Writes(c.value) /\ Steps(c, "written")
                 \/ host' = host /\ EndsCommit(c) /\ AnsweredBy(c, "commitRefused")
    BY <1>3, CommitDoes
  <2>. QED BY <1>1, <2>1, PartsSteps
<1>. QED BY <1>2, <1>3, PartsAnswer

\* The page holds its edit session, which leaves another panel no edit.
LEMMA PartsOwn ==
    ASSUME IInv, IInv', Numbered, Heard, Ordered, Tokens, Sessions, Pipeline, Parts, Whole',
           page.up, page.session = "held", HostOwn
    PROVE  Parts'
<1>1. host.session # 0 /\ ~CompleteReady /\ ~GrantSession
  BY UpHosts, GrantSessionDoes DEF Sessions
<1>. QED BY <1>1, PartsLands, PartsSaveEnds, PartsCommits, PartsShows, PartsPreparation DEF HostOwn

-----------------------------------------------------------------------------
(* The steps of the page *)

\* Without a replay under way.
LEMMA NoSigns ==
    ASSUME NoTokens'
    PROVE  /\ ~Settled' /\ ~Under' /\ ~Promised' /\ ~Committed' /\ ~WrittenNow'
           /\ CurOps' = {} /\ CurCommits' = {}
           /\ NoneIn(toHost', Prepares) /\ NoneIn(toHost', Commits)
           /\ NoneIn(toPage', Prepareds) /\ NoneIn(toPage', Committeds)
<1>1. CurOps' = {} /\ CurCommits' = {}
  BY DEF NoTokens
<1>2. NoneIn(toHost', Prepares) /\ NoneIn(toHost', Commits)
  BY DEF NoTokens, NoneIn, Calls, Prepares, Commits
<1>3. NoneIn(toPage', Prepareds) /\ NoneIn(toPage', Committeds)
  BY NoMark DEF NoTokens, NoneIn
<1>. QED BY <1>1, <1>2, <1>3 DEF Settled, Under, Promised, Committed, WrittenNow

LEMMA PartsIdle ==
    ASSUME NoTokens',
           page'.acknowledged => NoneIn(toPage', SnapshotsBut(page'.cell)),
           NoneAfter(toPage', NewestAcks(page'.sequence), SnapshotsBut(page'.cell)),
           page'.acknowledged \/ AckComing' =>
              host'.known = page'.cell /\ (~host'.posted => host'.shown = page'.cell),
           \/ page'.published = page'.cell
           \/ NoneIn(toHost', Newest(page'.sequence))
                 /\ NoneIn(writes', NewestWrites(host'.epoch, page'.sequence))
    PROVE  Parts'
<1>1. Truth' = page'.cell /\ (Firm' => page'.acknowledged)
  BY NoSigns DEF Truth, Firm
<1>2. NoneAfter(toPage', Snapshots, Committeds) /\ NoneAfter(toPage', Saveds, Committeds)
      /\ NoneAfter(toPage', Prepareds, Saveds)
      /\ NoneAfter(toHost', Prepares, Saves) /\ NoneAfter(toHost', Commits, Edited)
      /\ NoneAfter(toHost', Prepares, EditsBut(page'.cell))
  BY NoSigns, OrderNone
<1>3. Agreement'
  BY <1>1, <1>2, NoSigns DEF Agreement
<1>4. InFlight'
  <2>1. \A m \in Range(toHost') : m \notin Prepares
    BY NoSigns DEF NoneIn
  <2>. QED BY <1>2, <2>1, NoSigns DEF InFlight
<1>5. Saving'
  BY <1>2, NoSigns DEF Saving, Under, Promised
<1>. QED BY <1>3, <1>4, <1>5 DEF Parts

\* A page that has just published what it shows.
LEMMA PartsFresh ==
    ASSUME NoTokens', page'.published = page'.cell, ~page'.acknowledged,
           NoneIn(toPage', NewestAcks(page'.sequence))
    PROVE  Parts'
<1>1. ~AckComing'
  BY DEF AckComing
<1>2. NoneAfter(toPage', NewestAcks(page'.sequence), SnapshotsBut(page'.cell))
  BY OrderNone
<1>. QED BY <1>1, <1>2, PartsIdle

\* Nothing is acknowledged that is not yet published.
LEMMA NoneAhead ==
    ASSUME IInv, Pipeline, page.up, Less(toPage, toPage', Acks)
    PROVE  NoneIn(toPage', NewestAcks(page.sequence + 1))
<1>1. ASSUME NEW m \in Range(toPage), m \in NewestAcks(page.sequence + 1)
      PROVE  FALSE
  <2>1. m.type = "acknowledged" /\ m.sequence = page.sequence + 1
    BY <1>1 DEF NewestAcks
  <2>2. m.sequence <= page.sequence /\ m.sequence \in Nat /\ page.sequence \in Nat
    BY <2>1, PipeNumbers DEF Pipeline
  <2>. QED BY <2>1, <2>2
<1>. QED BY <1>1, PipeTypes DEF Less, NoneIn

LEMMA PartsPublished ==
    ASSUME IInv, Pipeline, page.up, Less(toPage, toPage', Acks), NoTokens',
           page'.published = page'.cell, page'.sequence = page.sequence + 1, ~page'.acknowledged
    PROVE  Parts'
<1>. QED BY NoneAhead, PartsFresh

\* The replay has not begun or is over, and the page stays as it is.
LEMMA PartsIdleStill ==
    ASSUME Parts, NoTokens', ~Committed,
           page'.cell = page.cell, page'.published = page.published, page'.sequence = page.sequence,
           page'.acknowledged => page.acknowledged, HostStays,
           Less(toHost, toHost', Edited), Less(toPage, toPage', Snapshots \cup Acks)
    PROVE  Parts'
<1>1. Truth = page.cell /\ (page.acknowledged => Firm)
  BY DEF Truth, Firm
<1>2. /\ \A v : NoneIn(toPage, SnapshotsBut(v)) => NoneIn(toPage', SnapshotsBut(v))
      /\ \A n : NoneIn(toPage, NewestAcks(n)) => NoneIn(toPage', NewestAcks(n))
      /\ \A v, n : NoneAfter(toPage, NewestAcks(n), SnapshotsBut(v)) => NoneAfter(toPage', NewestAcks(n), SnapshotsBut(v))
  <2>1. (\A v : SnapshotsBut(v) \subseteq Snapshots \cup Acks) /\ \A n : NewestAcks(n) \subseteq Snapshots \cup Acks
    BY SeenAre DEF SeenTypes
  <2>. QED BY <2>1 DEF Less
<1>3. NoneIn(toHost, Newest(page.sequence)) => NoneIn(toHost', Newest(page.sequence))
  BY PipeTypes DEF Less
<1>4. AckComing' => AckComing
  BY <1>2 DEF AckComing
<1>5. /\ \/ page'.published = page'.cell
         \/ NoneIn(toHost', Newest(page'.sequence)) /\ NoneIn(writes', NewestWrites(host'.epoch, page'.sequence))
      /\ page'.acknowledged => NoneIn(toPage', SnapshotsBut(page'.cell))
      /\ NoneAfter(toPage', NewestAcks(page'.sequence), SnapshotsBut(page'.cell))
  BY <1>1, <1>2, <1>3 DEF Parts, Agreement, InFlight, HostStays
<1>6. page'.acknowledged \/ AckComing' =>
              host'.known = page'.cell /\ (~host'.posted => host'.shown = page'.cell)
  BY <1>1, <1>4 DEF Parts, Agreement, HostStays
<1>. QED BY <1>5, <1>6, PartsIdle

\* No replay is under way, and the page and the host say nothing of one.
LEMMA NothingBegun ==
    ASSUME NoTokens, HostStays, Less(toHost, toHost', Calls), Less(toPage, toPage', Verdicts)
    PROVE  NoTokens'
<1>. QED BY NothingStill DEF HostStays, WorkStays

LEMMA PartsEdit ==
    ASSUME IInv, IInv', Tokens, Pipeline, Values, Edit PROVE Parts'
<1>1. /\ HostStays /\ UNCHANGED <<slot, toPage>> /\ page.up /\ page.session = "held" /\ slot.phase = "idle"
      /\ ~page.saving /\ count.edits < MaxEdits
  BY EditDoes
<1>2. PICK w : EditDoes1(w, count.edits + 1) /\ ShownAs(w, toHost)
  BY EditDoes
<1>3. count.edits + 1 # page.published
  BY <1>1, ValNothing DEF Values, Val, Nothing
<1>4. Unpublished(w)
  BY <1>1, <1>2, <1>3 DEF Unpublished, EditDoes1, PageLike
<1>5. /\ page'.published = page'.cell /\ page'.sequence = page.sequence + 1 /\ ~page'.acknowledged
  BY <1>2, <1>4 DEF ShownAs, EditDoes1, PageLike
<1>6. NoTokens'
  <2>1. Less(toHost, toHost', Calls)
    BY <1>2, ShownLess, VerdictTypes
  <2>. QED BY <1>1, <2>1, LessSame, NoTokensIdle, NothingBegun
<1>. QED BY <1>1, <1>5, <1>6, LessSame, PartsPublished

LEMMA PartsGranted ==
    ASSUME IInv, IInv', Tokens, Bound, Sessions, Pipeline, Values, page.up, OnSession, page'.session = "held"
    PROVE  Parts'
<1>1. HostStays /\ page.session = "requested"
  BY OnSessionDoes
<1>2. PICK m, w : /\ PageTakes1(m) /\ m.type = "session" /\ m.granted /\ slot' = slot
                  /\ PageLike(w) /\ w.acknowledged = page.acknowledged
                  /\ w.session = "held" /\ w.saving = page.saving
                  /\ w.cell = m.cell /\ ShownAs(w, toHost)
  BY OnSessionDoes
<1>3. Unpublished(w)
  <2>1. m \in Granted
    BY <1>2 DEF PageTakes1, Granted
  <2>2. m.cell # Nothing
    BY <1>2, <2>1, SnapshotVal, ValNothing
  <2>. QED BY <1>1, <1>2, <2>2 DEF Unpublished, PageLike, Sessions
<1>4. /\ page'.published = page'.cell /\ page'.sequence = page.sequence + 1 /\ ~page'.acknowledged
  BY <1>2, <1>3 DEF ShownAs, PageLike
<1>5. Less(toPage, toPage', Acks) /\ Less(toPage, toPage', Verdicts)
  BY <1>2, PageTakesLess
<1>6. NoTokens'
  <2>1. Less(toHost, toHost', Calls)
    BY <1>2, ShownLess, VerdictTypes
  <2>2. NoTokens
    BY <1>1, NoTokensIdle DEF Bound
  <2>. QED BY <1>1, <1>5, <2>1, <2>2, NothingBegun
<1>. QED BY <1>4, <1>5, <1>6, PartsPublished

LEMMA PartsFirst ==
    ASSUME IInv, IInv', Arriving, Values, ~page.up, OnSnapshot, page'.session = "held"
    PROVE  Parts'
<1>1. PICK m : /\ PageTakes1(m) /\ ShowsFirst(m) /\ m \in FirstOnes /\ Waiting
               /\ NoneIn(toPage', Heralded) /\ HostStays
  BY FirstShown
<1>2. PICK k, q, w : /\ AppliedTo(m, k) /\ Pushed(toHost, q, k)
                     /\ w.session = IF m.session THEN "held" ELSE "none"
                     /\ w.saving = FALSE /\ w.published = Nothing /\ w.sequence = 0
                     /\ w.cell = m.cell /\ ShownAs(w, q)
  BY <1>1 DEF ShowsFirst
<1>3. Unpublished(w)
  <2>1. m.cell # Nothing
    BY <1>1, SnapshotVal, ValNothing DEF FirstOnes
  <2>. QED BY <1>2, <2>1 DEF Unpublished, ShownAs
<1>4. /\ page'.published = page'.cell /\ ~page'.acknowledged
  BY <1>2, <1>3 DEF ShownAs
<1>5. NoneIn(toPage', NewestAcks(page'.sequence)) /\ NoneIn(toPage', Verdicts)
  BY <1>1 DEF NoneIn, Heralded, NewestAcks, Verdicts
<1>6. NoTokens'
  <2>1. NoneIn(toHost, Calls) /\ CurOps' = {} /\ CurCommits' = {}
    BY <1>1 DEF Waiting, HostStays, CurOps, CurCommits, NoneIn, Range
  <2>2. Less(toHost, q, Calls) /\ Less(q, toHost', Calls)
    BY <1>2, ShownLess, PushedLess, VerdictTypes DEF AppliedTo
  <2>3. NoneIn(toHost', Calls)
    BY <2>1, <2>2 DEF Less
  <2>. QED BY <1>5, <2>1, <2>3 DEF NoTokens
<1>. QED BY <1>4, <1>5, <1>6, PartsFresh

LEMMA PartsOnCommitted ==
    ASSUME IInv, IInv', Tokens, Bound, Pipeline, Parts, page.up, on_committed PROVE Parts'
<1>1. HostStays /\ slot.phase = "committing" /\ page.session = "held"
  BY OnCommittedDoes
<1>2. PICK m : PageTakes1(m) /\ m.type = "committed"
  BY OnCommittedDoes
<1>3. PICK w : /\ PageLike(w) /\ w.acknowledged = page.acknowledged
               /\ w.session = page.session /\ w.saving = page.saving
               /\ w.cell = Target /\ ShownAs(w, toHost)
  BY OnCommittedDoes
<1>4. m \in Verdicts /\ m \in Committeds /\ m \in Range(toPage)
  BY <1>2 DEF PageTakes1, Verdicts, Committeds
<1>5. NoneIn(toHost, Calls) /\ CurOps = {} /\ CurCommits = {} /\ NoneIn(toPage', Verdicts)
  BY <1>2, <1>4, VerdictTaken
<1>6. NoTokens'
  <2>1. NoneIn(toHost', Calls)
    <3>1. Less(toHost, toHost', Calls)
      BY <1>3, ShownLess, VerdictTypes
    <3>. QED BY <1>5, <3>1 DEF Less
  <2>. QED BY <1>1, <1>5, <2>1 DEF NoTokens, HostStays, CurOps, CurCommits
<1>7. CASE Unpublished(w)
  <2>1. /\ page'.published = page'.cell /\ page'.sequence = page.sequence + 1 /\ ~page'.acknowledged
    BY <1>3, <1>7 DEF ShownAs, PageLike
  <2>. QED BY <1>2, <1>6, <2>1, PageTakesLess, PartsPublished
<1>8. CASE ~Unpublished(w)
  <2>1. /\ page'.published = page.published /\ page'.sequence = page.sequence
        /\ page'.acknowledged = page.acknowledged /\ page'.cell = Target /\ toHost' = toHost
    BY <1>3, <1>8 DEF ShownAs, PageLike
  <2>2. Committed /\ Truth = Target /\ Firm
    BY <1>4 DEF Committed, NoneIn, Truth, Firm
  <2>3. NoneIn(toPage, SnapshotsBut(Target)) /\ host.known = Target /\ (~host.posted => host.shown = Target)
    BY <2>2 DEF Parts, Agreement
  <2>4. NoneIn(toPage', SnapshotsBut(Target))
    BY <1>2, <2>3 DEF PageTakes1, Popped
  <2>5. NoneAfter(toPage', NewestAcks(page'.sequence), SnapshotsBut(Target))
    BY <2>4, OrderNone
  <2>6. NoneIn(toHost', Newest(page'.sequence)) /\ NoneIn(writes', NewestWrites(host'.epoch, page'.sequence))
    BY <1>1, <2>1, <2>2, PipeTypes DEF Parts, InFlight, NoneIn, Range, HostStays
  <2>. QED BY <1>1, <1>6, <2>1, <2>3, <2>4, <2>5, <2>6, PartsIdle DEF HostStays
<1>. QED BY <1>7, <1>8

LEMMA PartsBegin ==
    ASSUME IInv, IInv', Tokens, Parts, NEW direction \in Directions, Begin(direction) PROVE Parts'
<1>1. HostStays /\ UNCHANGED <<page, toHost, toPage>> /\ page.up /\ slot.phase = "idle"
  BY BeginDoes
<1>2. NoTokens
  BY <1>1, NoTokensIdle
<1>3. NoTokens' /\ ~Committed
  BY <1>1, <1>2, LessSame, NothingBegun, NoMark DEF NoTokens, Committed, NoneIn
<1>. QED BY <1>1, <1>3, LessSame, PartsIdleStill

LEMMA PartsPrepare ==
    ASSUME IInv, IInv', Tokens, Parts, page.up, Prepare PROVE Parts'
<1>1. /\ HostStays /\ UNCHANGED toPage /\ slot.phase = "acquiring"
      /\ page'.cell = page.cell /\ page'.published = page.published /\ page'.sequence = page.sequence
      /\ page'.acknowledged = page.acknowledged
  BY PrepareDoes DEF Quietly, PageLike
<1>2. PICK m \in ToHost : m.type = "prepare" /\ m.cell = page.cell /\ Pushed(toHost, toHost', m)
  BY PrepareDoes
<1>3. NoTokens
  BY <1>1, NoTokensIdle
<1>4. /\ NoneIn(toHost, Prepares) /\ NoneIn(toHost, Commits)
      /\ NoneIn(toPage, Prepareds) /\ NoneIn(toPage, Committeds)
      /\ CurOps' = {} /\ CurCommits' = {}
  BY <1>1, <1>3, NoMark DEF NoTokens, NoneIn, Calls, Prepares, Commits, HostStays, CurOps, CurCommits
<1>5. /\ m \notin Commits /\ m \notin Edited /\ m \notin Saves /\ m \in Prepares
      /\ (\A v : m \notin EditsBut(v)) /\ (\A n : m \notin Newest(n))
  BY <1>2 DEF Commits, Edited, Saves, Prepares, EditsBut, Newest
<1>6. NoneIn(toHost', Commits)
  BY <1>2, <1>4, <1>5 DEF Pushed
<1>7. ~Settled' /\ ~Committed' /\ ~WrittenNow' /\ ~Under' /\ ~Promised' /\ ~Committed
  BY <1>1, <1>4, <1>6 DEF Settled, Committed, WrittenNow, Under, Promised
<1>8. Agreement'
  <2>1. Truth' = Truth
    BY <1>1, <1>7 DEF Truth
  <2>2. (Firm' => Firm) /\ (AckComing' => AckComing)
    BY <1>1, <1>7 DEF Firm, AckComing
  <2>3. ViewStays
    BY <1>1, LessSame, ViewLess
  <2>. QED BY <1>1, <1>7, <2>1, <2>2, <2>3, AgreementKept DEF Parts, Agreement, HostStays
<1>9. InFlight'
  <2>1. NoneAfter(toHost', Commits, Edited)
    BY <1>6, OrderNone
  <2>2. NoneIn(toHost', Newest(page'.sequence)) <=> NoneIn(toHost, Newest(page.sequence))
    BY <1>1, <1>2, <1>5 DEF Pushed
  <2>3. \A n \in Range(toHost') : n \in Prepares => n.cell = page'.cell
    BY <1>1, <1>2, <1>4 DEF Pushed, NoneIn
  <2>4. NoneAfter(toHost', Prepares, EditsBut(page'.cell))
    <3>1. NoneAfter(toHost, Prepares, EditsBut(page.cell))
      BY <1>4, OrderNone
    <3>. QED BY <1>1, <1>2, <1>5, <3>1 DEF Pushed
  <2>. QED BY <1>1, <1>4, <1>7, <2>1, <2>2, <2>3, <2>4 DEF Parts, InFlight, HostStays
<1>10. Saving'
  <2>1. NoneAfter(toHost', Prepares, Saves)
    <3>1. NoneAfter(toHost, Prepares, Saves)
      BY <1>4, OrderNone
    <3>. QED BY <1>2, <1>5, <3>1 DEF Pushed
  <2>2. NoneAfter(toPage', Prepareds, Saveds) /\ NoneAfter(toPage', Saveds, Committeds)
    BY <1>1, <1>4, OrderNone
  <2>. QED BY <1>7, <2>1, <2>2 DEF Saving, Under, Promised
<1>. QED BY <1>8, <1>9, <1>10 DEF Parts

\* The page spends the lease it is given, or gives it back.
LEMMA PartsOnPrepared ==
    ASSUME IInv, IInv', Tokens, Parts, page.up, on_prepared PROVE Parts'
<1>1. /\ HostStays /\ page' = page /\ slot.phase = "preparing"
  BY OnPreparedDoes
<1>2. PICK m : /\ PageTakes1(m) /\ m.type = "prepared"
               /\ \/ /\ slot'.phase = "committing" /\ slot'.direction = slot.direction
                     /\ slot'.entry = slot.entry
                     /\ \E k \in ToHost : k.type = "commit" /\ Pushed(toHost, toHost', k)
                  \/ \E k \in ToHost : k.type = "abandon" /\ Pushed(toHost, toHost', k)
  BY OnPreparedDoes
<1>3. m \in Verdicts /\ m \in Prepareds /\ m \notin Committeds /\ m \in Range(toPage)
      /\ Popped(toPage, toPage', m)
  BY <1>2 DEF PageTakes1, Verdicts, Prepareds, Committeds
<1>4. NoneIn(toHost, Calls) /\ CurOps = {} /\ CurCommits = {} /\ NoneIn(toPage', Verdicts)
  BY <1>2, <1>3, VerdictTaken
<1>5. /\ NoneIn(toPage', Prepareds) /\ NoneIn(toPage', Committeds) /\ NoneIn(toPage, Committeds)
      /\ NoneIn(toHost, Prepares) /\ NoneIn(toHost, Commits)
      /\ CurOps' = {} /\ CurCommits' = {}
  BY <1>1, <1>3, <1>4, NoMark DEF NoneIn, Popped, Calls, Prepares, Commits, HostStays, CurOps, CurCommits
<1>6. ~Committed /\ ~Committed' /\ ~WrittenNow'
  BY <1>5 DEF Committed, WrittenNow
<1>7. ASSUME NEW k \in ToHost, k.type = "abandon", Pushed(toHost, toHost', k)
      PROVE  Parts'
  <2>1. k \notin Calls /\ k \notin Edited
    BY <1>7 DEF Calls, Edited
  <2>2. NoTokens'
    BY <1>4, <1>5, <1>7, <2>1 DEF NoTokens, Pushed
  <2>. QED BY <1>1, <1>2, <1>6, <1>7, <2>1, <2>2, PushedLess, PageTakesLess, PartsIdleStill
<1>8. ASSUME NEW k \in ToHost, k.type = "commit", Pushed(toHost, toHost', k),
             slot'.direction = slot.direction, slot'.entry = slot.entry
      PROVE  Parts'
  <2>1. /\ k \notin Edited /\ k \notin Saves /\ k \notin Prepares /\ k \in Commits
        /\ (\A v : k \notin EditsBut(v)) /\ (\A n : k \notin Newest(n))
    BY <1>8 DEF Commits, Edited, Saves, Prepares, EditsBut, Newest
  <2>2. Settled /\ Firm /\ Under /\ Truth = page.cell /\ Truth' = page.cell
    BY <1>1, <1>3, <1>6 DEF Settled, Firm, Under, Truth, NoneIn
  <2>3. Agreement'
    <3>1. ViewStays /\ (AckComing' => AckComing)
      BY <1>1, <1>2, PageTakesLess, ViewLess, PipeTypes DEF AckComing, Less
    <3>. QED BY <1>1, <1>6, <2>2, <3>1, AgreementKept DEF Parts, Agreement, HostStays
  <2>4. NoneIn(toHost', Prepares)
    BY <1>5, <1>8, <2>1 DEF Pushed
  <2>5. InFlight'
    <3>1. NoneIn(toHost', EditsBut(page'.cell)) /\ \A w \in Range(writes') : w.value = page'.cell
      BY <1>1, <1>8, <2>1, <2>2 DEF Parts, InFlight, Pushed, HostStays
    <3>2. NoneAfter(toHost', Commits, Edited)
      <4>1. NoneAfter(toHost, Commits, Edited)
        BY <1>5, OrderNone
      <4>. QED BY <1>8, <2>1, <4>1 DEF Pushed
    <3>3. NoneIn(toHost', Newest(page'.sequence)) <=> NoneIn(toHost, Newest(page.sequence))
      BY <1>1, <1>8, <2>1 DEF Pushed
    <3>4. /\ \A n \in Range(toHost') : n \notin Prepares
          /\ NoneAfter(toHost', Prepares, EditsBut(page'.cell))
      BY <2>4, OrderNone DEF NoneIn
    <3>. QED BY <1>1, <1>5, <1>6, <3>1, <3>2, <3>3, <3>4 DEF Parts, InFlight, HostStays
  <2>6. Saving'
    <3>1. SUFFICES ASSUME page.cell # page.published PROVE Saving'
      BY <1>1 DEF Saving
    <3>2. NoneIn(toHost, Saves) /\ ~host.saving /\ NoneAfter(toPage, Prepareds, Saveds)
      BY <2>2, <3>1 DEF Parts, Saving, Under, Promised
    <3>3. NoneIn(toHost', Saves) /\ ~host'.saving /\ NoneIn(toPage', Saveds)
      BY <1>1, <1>3, <1>8, <2>1, <3>2 DEF Pushed, Popped, HostStays
    <3>4. /\ NoneAfter(toHost', Prepares, Saves) /\ NoneAfter(toPage', Prepareds, Saveds)
          /\ NoneAfter(toPage', Saveds, Committeds)
      BY <2>4, <3>3, OrderNone
    <3>. QED BY <3>3, <3>4 DEF Saving
  <2>. QED BY <2>3, <2>5, <2>6 DEF Parts
<1>. QED BY <1>2, <1>7, <1>8

LEMMA PartsOnRefused ==
    ASSUME IInv, IInv', Tokens, Parts, page.up, on_prepare_refused \/ on_commit_refused PROVE Parts'
<1>1. HostStays /\ UNCHANGED <<page, toHost>>
  BY OnRefusedDoes
<1>2. PICK m : PageTakes1(m) /\ m.type \in {"prepareRefused", "commitRefused"}
  BY OnRefusedDoes
<1>3. m \in Verdicts /\ m \notin Committeds /\ Popped(toPage, toPage', m)
  BY <1>2 DEF PageTakes1, Verdicts, Committeds
<1>4. NoneIn(toHost, Calls) /\ CurOps = {} /\ CurCommits = {} /\ NoneIn(toPage', Verdicts)
  BY <1>2, <1>3, VerdictTaken
<1>5. NoTokens' /\ ~Committed
  BY <1>1, <1>3, <1>4, NoMark DEF NoTokens, NoneIn, Popped, HostStays, CurOps, CurCommits, Committed
<1>. QED BY <1>1, <1>2, <1>5, LessSame, PageTakesLess, PartsIdleStill

\* The page takes a message that says nothing of the replay, and stays as it is.
LEMMA PartsTaken ==
    ASSUME IInv, IInv', Tokens, Parts, page.up, HostStays, slot' = slot,
           page'.cell = page.cell, page'.published = page.published, page'.sequence = page.sequence,
           page'.acknowledged => page.acknowledged,
           NEW m, PageTakes1(m), m \notin Committeds,
           Less(toHost, toHost', Edited \cup Calls), Less(toHost, toHost', Saves \cup Calls)
    PROVE  Parts'
<1>1. /\ Less(toPage, toPage', Seen) /\ Less(toPage, toPage', Marks) /\ Less(toPage, toPage', Acks)
      /\ Less(toPage, toPage', SavedMarks)
      /\ Committed' <=> Committed
  BY PageTakesLess, CommittedPopped
<1>2. ViewStays /\ ShownStays /\ WorkStays /\ Less(toHost, toHost', Calls)
  BY <1>1, ViewLess, LessOf DEF ShownStays, WorkStays, HostStays
<1>3. Saving'
  BY <1>1, <1>2, PartsSavingQuiet DEF HostStays
<1>. QED BY <1>1, <1>2, <1>3, PartsStill DEF HostStays

LEMMA PartsOnAcknowledged ==
    ASSUME IInv, IInv', Tokens, Parts, page.up, OnAcknowledged PROVE Parts'
<1>1. /\ HostStays /\ UNCHANGED <<slot, toHost>>
      /\ page'.cell = page.cell /\ page'.published = page.published /\ page'.sequence = page.sequence
  BY OnAcknowledgedDoes DEF Quietly, PageLike
<1>2. PICK m : /\ PageTakes1(m) /\ m.type = "acknowledged"
               /\ page'.acknowledged = (page.acknowledged \/ m.sequence = page.sequence)
  BY OnAcknowledgedDoes
<1>3. m \notin Committeds /\ m \in Range(toPage) /\ Popped(toPage, toPage', m) /\ m \in ToPage
  BY <1>2 DEF PageTakes1, Committeds
<1>4. CASE m.sequence # page.sequence
  <2>1. page'.acknowledged => page.acknowledged
    BY <1>2, <1>4
  <2>. QED BY <1>1, <1>2, <1>3, <2>1, LessSame, PartsTaken
<1>5. CASE m.sequence = page.sequence
  <2>1. m \in NewestAcks(page.sequence)
    BY <1>2, <1>3, <1>5 DEF NewestAcks
  <2>2. /\ AckComing /\ NoneIn(toPage', SnapshotsBut(Truth)) /\ host.known = Truth
        /\ ~host.posted => host.shown = Truth
    BY <1>3, <2>1 DEF Parts, Agreement, AckComing, NoneIn, Popped
  <2>3. Committed' <=> Committed
    BY <1>2, <1>3, CommittedPopped
  <2>4. Truth' = Truth
    BY <1>1, <2>3, TruthKept
  <2>5. Less(toPage, toPage', Marks) /\ WorkStays /\ Less(toHost, toHost', Calls)
        /\ Less(toPage, toPage', SavedMarks) /\ Less(toPage, toPage', Seen)
    BY <1>1, <1>2, LessSame, PageTakesLess DEF HostStays, WorkStays
  <2>6. (Settled' => Settled) /\ (WrittenNow' => WrittenNow)
        /\ CurOps' \subseteq CurOps /\ CurCommits' \subseteq CurCommits
    BY <2>5, SignsStill DEF WorkLess
  <2>7. Agreement'
    <3>1. /\ NoneAfter(toPage', NewestAcks(page'.sequence), SnapshotsBut(Truth'))
          /\ NoneAfter(toPage, Snapshots, Committeds) => NoneAfter(toPage', Snapshots, Committeds)
      BY <1>3, <2>2, <2>4, OrderNone DEF Popped
    <3>2. WrittenNow' => host'.durable = Target'
      BY <1>1, <2>6 DEF Parts, Agreement, HostStays, Target
    <3>. QED BY <1>1, <2>2, <2>4, <3>1, <3>2 DEF Parts, Agreement, HostStays
  <2>8. InFlight'
    BY <1>1, <2>3, <2>6, LessSame, InFlightKept DEF Parts, HostStays
  <2>9. Saving'
    BY <1>1, <2>5, LessSame, PartsSavingQuiet DEF HostStays
  <2>. QED BY <2>7, <2>8, <2>9 DEF Parts
<1>. QED BY <1>4, <1>5

LEMMA PartsRequestSave ==
    ASSUME IInv, IInv', Tokens, Parts, RequestSave PROVE Parts'
<1>1. /\ HostStays /\ UNCHANGED <<slot, toPage>> /\ page.cell = page.published
      /\ page'.cell = page.cell /\ page'.published = page.published /\ page'.sequence = page.sequence
      /\ page'.acknowledged = page.acknowledged
  BY RequestSaveDoes DEF Quietly, PageLike
<1>2. PICK m \in ToHost : m.type = "save" /\ Pushed(toHost, toHost', m)
  BY RequestSaveDoes
<1>3. Less(toHost, toHost', Edited \cup Calls)
  BY <1>2, PushedLess, NoMark
<1>4. Saving' /\ ViewStays /\ ShownStays /\ WorkStays /\ (Committed' <=> Committed)
  BY <1>1, SavingNone, LessSame, ViewLess, CommittedPopped DEF ShownStays, WorkStays, HostStays
<1>. QED BY <1>1, <1>3, <1>4, LessSame, PartsStill DEF HostStays

\* The page publishes its cell again, or now that its save is over: no replay that has
\* its lease spent is under way.
LEMMA PartsPublishes ==
    ASSUME IInv, IInv', Pipeline, Parts, page.up, HostStays, slot' = slot, ~Committed, ~Promised,
           page'.cell = page.cell, page'.published = page.cell, page'.sequence = page.sequence + 1,
           ~page'.acknowledged, NEW m, PageTakes1(m),
           NEW q, NEW e \in ToHost, Pushed(toHost, q, e), e.type = "edits", e.value = page.cell,
           Less(q, toHost', Edited \cup Calls)
    PROVE  Parts'
<1>1. /\ e \notin Prepares /\ e \notin Commits /\ e \notin EditsBut(page.cell)
  BY DEF Prepares, Commits, EditsBut
<1>2. /\ NoneIn(toHost, EditsBut(page.cell)) => NoneIn(toHost', EditsBut(page.cell))
      /\ NoneIn(toHost, Commits) => NoneIn(toHost', Commits)
      /\ NoneAfter(toHost, Prepares, EditsBut(page.cell)) => NoneAfter(toHost', Prepares, EditsBut(page.cell))
      /\ \A n \in Range(toHost') : n \in Prepares => n \in Range(toHost)
  <2>1. /\ EditsBut(page.cell) \subseteq Edited \cup Calls /\ Commits \subseteq Edited \cup Calls
        /\ Prepares \subseteq Edited \cup Calls
    BY DEF EditsBut, Commits, Prepares, Edited, Calls
  <2>2. /\ NoneIn(toHost, EditsBut(page.cell)) => NoneIn(q, EditsBut(page.cell))
        /\ NoneIn(toHost, Commits) => NoneIn(q, Commits)
        /\ NoneAfter(toHost, Prepares, EditsBut(page.cell)) => NoneAfter(q, Prepares, EditsBut(page.cell))
        /\ \A n \in Range(q) : n \in Prepares => n \in Range(toHost)
    BY <1>1 DEF Pushed
  <2>. QED BY <2>1, <2>2 DEF Less
<1>3. NoneIn(toHost, Commits) /\ NoneIn(toHost', Commits) /\ CurCommits = {} /\ CurCommits' = {} /\ CurOps' = CurOps
  BY <1>2 DEF Promised, HostStays, CurCommits, CurOps
<1>4. Less(toPage, toPage', Seen) /\ Less(toPage, toPage', Marks) /\ Less(toPage, toPage', Acks)
  BY PageTakesLess
<1>5. ~Committed' /\ (NoneIn(toPage, Prepareds) => NoneIn(toPage', Prepareds))
  BY <1>4, NoMark DEF Committed, Less
<1>6. Settled' => Settled
  BY <1>3, <1>5 DEF Settled
<1>7. (Firm' => Firm) /\ Truth = page.cell /\ Truth' = page.cell
  BY <1>5, <1>6 DEF Firm, Truth
<1>8. NoneIn(toPage', NewestAcks(page'.sequence)) /\ ~AckComing' /\ ~WrittenNow'
  BY <1>3, <1>4, NoneAhead DEF AckComing, WrittenNow
<1>9. Agreement'
  <2>1. ViewStays
    BY <1>4, ViewLess
  <2>2. NoneAfter(toPage', NewestAcks(page'.sequence), SnapshotsBut(Truth'))
    BY <1>8, OrderNone
  <2>. QED BY <1>7, <1>8, <2>1, <2>2 DEF Parts, Agreement, ViewStays, HostStays
<1>10. InFlight'
  <2>1. NoneAfter(toHost', Commits, Edited)
    BY <1>3, OrderNone
  <2>2. Settled' => NoneIn(toHost', EditsBut(page'.cell)) /\ \A w \in Range(writes') : w.value = page'.cell
    BY <1>2, <1>6 DEF Parts, InFlight, HostStays
  <2>3. \A n \in Range(toHost') : n \in Prepares => n.cell = page'.cell
    BY <1>2 DEF Parts, InFlight
  <2>4. NoneAfter(toHost', Prepares, EditsBut(page'.cell))
    BY <1>2 DEF Parts, InFlight
  <2>5. \A op \in CurOps' :
          /\ op.cell = page'.cell /\ NoneIn(toHost', EditsBut(page'.cell))
          /\ \A i \in DOMAIN writes' : i > op.awaits => writes'[i].value = page'.cell
    BY <1>2, <1>3 DEF Parts, InFlight, HostStays
  <2>. QED BY <1>3, <1>5, <2>1, <2>2, <2>3, <2>4, <2>5 DEF InFlight
<1>. QED BY <1>9, <1>10, SavingNone DEF Parts

LEMMA PartsOnSaved ==
    ASSUME IInv, IInv', Tokens, Pipeline, Parts, page.up, page.session = "held", OnSaved PROVE Parts'
<1>1. HostStays /\ slot' = slot
  BY OnSavedDoes
<1>2. PICK m : PageTakes1(m) /\ m.type = "saved"
  BY OnSavedDoes
<1>3. PICK w : /\ PageLike(w) /\ w.acknowledged = page.acknowledged
               /\ w.session = page.session /\ w.saving = FALSE
               /\ w.cell = page.cell /\ ShownAs(w, toHost)
  BY OnSavedDoes
<1>4. m \in Saveds /\ m \notin Committeds /\ m \in Range(toPage) /\ Popped(toPage, toPage', m)
  BY <1>2 DEF PageTakes1, Saveds, Committeds
<1>5. CASE ~Unpublished(w)
  <2>1. /\ page'.published = page.published /\ page'.sequence = page.sequence
        /\ page'.acknowledged = page.acknowledged /\ page'.cell = page.cell /\ toHost' = toHost
    BY <1>3, <1>5 DEF ShownAs, PageLike
  <2>. QED BY <1>1, <1>2, <1>4, <2>1, LessSame, PartsTaken
<1>6. CASE Unpublished(w)
  <2>1. /\ page'.published = page.cell /\ page'.sequence = page.sequence + 1
        /\ ~page'.acknowledged /\ page'.cell = page.cell /\ page.cell # page.published
        /\ \E e \in ToHost : e.type = "edits" /\ e.value = page.cell /\ Pushed(toHost, toHost', e)
    BY <1>3, <1>6 DEF ShownAs, PageLike, Unpublished
  <2>2. ~NoneIn(toPage, Saveds) /\ (NoneAfter(toPage, Saveds, Committeds) => NoneIn(toPage, Committeds))
    BY <1>4 DEF NoneIn, Popped
  <2>3. ~Promised /\ ~Committed
    BY <2>1, <2>2 DEF Parts, Saving, Promised, Committed
  <2>. QED BY <1>1, <1>2, <2>1, <2>3, LessSame, PartsPublishes
<1>. QED BY <1>5, <1>6

\* A snapshot that the page takes shows what it has, or an edit of it is not yet acknowledged.
LEMMA SnapshotTaken ==
    ASSUME Parts, NEW m, PageTakes1(m), m.type = "snapshot"
    PROVE  /\ m \notin Committeds /\ ~Committed
           /\ Firm => m.cell = page.cell
<1>1. m \in Snapshots /\ m \notin Committeds /\ m \in Range(toPage) /\ Popped(toPage, toPage', m)
  BY DEF PageTakes1, Snapshots, Committeds
<1>2. ~Committed
  BY <1>1 DEF Parts, Agreement, Popped, Committed, NoneIn
<1>3. Firm => m \notin SnapshotsBut(page.cell)
  BY <1>1, <1>2 DEF Parts, Agreement, Truth, NoneIn
<1>. QED BY <1>1, <1>2, <1>3 DEF SnapshotsBut, Snapshots

LEMMA PartsOnSnapshot ==
    ASSUME IInv, IInv', Arriving, Tokens, Pipeline, Values, Parts, page.up, page.session = "held", OnSnapshot
    PROVE  Parts'
<1>1. HostStays
  BY OnSnapshotDoes
<1>2. PICK m : /\ PageTakes1(m) /\ m.type = "snapshot"
               /\ \/ ShowsFirst(m) \/ ShowsAgain(m) \/ Republishes(m) \/ Leaves(m)
  BY OnSnapshotDoes
<1>3. /\ m \notin Committeds /\ ~Committed
      /\ Firm => m.cell = page.cell
  BY <1>2, SnapshotTaken
<1>4. \A k : AppliedTo(m, k) => k \notin Edited \cup Calls /\ k \notin Saves \cup Calls
  BY NoMark DEF AppliedTo
<1>5. CASE ShowsFirst(m)
  BY <1>5 DEF ShowsFirst
<1>6. CASE ShowsAgain(m)
  <2>1. PICK k, q, w : /\ AppliedTo(m, k) /\ Pushed(toHost, q, k)
                       /\ PageLike(w) /\ w.acknowledged = page.acknowledged
                       /\ w.session = page.session /\ w.saving = page.saving
                       /\ w.cell = m.cell /\ ShownAs(w, q)
    BY <1>6 DEF ShowsAgain
  <2>2. m.cell = page.cell /\ slot' = slot
    BY <1>3, <1>6 DEF ShowsAgain, Firm
  <2>3. ~Unpublished(w)
    BY <2>1, <2>2 DEF Unpublished, PageLike, Values
  <2>4. /\ page'.published = page.published /\ page'.sequence = page.sequence
        /\ page'.acknowledged = page.acknowledged /\ page'.cell = page.cell /\ toHost' = q
    BY <2>1, <2>2, <2>3 DEF ShownAs, PageLike
  <2>5. Less(toHost, toHost', Edited \cup Calls) /\ Less(toHost, toHost', Saves \cup Calls)
    BY <1>4, <2>1, <2>4, PushedLess
  <2>. QED BY <1>1, <1>2, <1>3, <2>2, <2>4, <2>5, PartsTaken
<1>7. CASE Republishes(m)
  <2>1. /\ page'.cell = page.cell /\ page'.published = page.cell /\ page'.sequence = page.sequence + 1
        /\ ~page'.acknowledged /\ m.cell # page.cell /\ slot' = slot
    BY <1>7 DEF Republishes
  <2>2. PICK k, q, e : /\ AppliedTo(m, k) /\ Pushed(toHost, q, e) /\ Pushed(q, toHost', k)
                       /\ e \in ToHost /\ e.type = "edits" /\ e.value = page.cell
    BY <1>7 DEF Republishes
  <2>3. ~Promised
    BY <1>3, <2>1 DEF Firm, Settled, Promised
  <2>4. Less(q, toHost', Edited \cup Calls)
    BY <1>4, <2>2, PushedLess
  <2>. QED BY <1>1, <1>2, <1>3, <2>1, <2>2, <2>3, <2>4, PartsPublishes
<1>8. CASE Leaves(m)
  <2>1. PICK k : AppliedTo(m, k) /\ Pushed(toHost, toHost', k)
    BY <1>8 DEF Leaves
  <2>2. Less(toHost, toHost', Edited \cup Calls) /\ Less(toHost, toHost', Saves \cup Calls)
    BY <1>4, <2>1, PushedLess
  <2>. QED BY <1>1, <1>2, <1>3, <1>8, <2>2, PartsTaken DEF Leaves
<1>. QED BY <1>2, <1>5, <1>6, <1>7, <1>8

LEMMA PartsPage ==
    ASSUME IInv, IInv', Arriving, Tokens, Bound, Sessions, Pipeline, Values, Parts,
           page.up, page.session = "held", page'.session = "held", PageActs \/ PageRuns
    PROVE  Parts'
<1>1. ~RequestSession /\ ~OnSession /\ ~OnDiscarded /\ ~Discard /\ ~Ignore
  BY RequestSessionDoes, OnSessionDoes, OnDiscardedDoes, DiscardDoes, IgnoreDoes
<1>2. CASE PageActs
  BY <1>1, <1>2, PartsEdit, PartsRequestSave, PartsBegin DEF PageActs
<1>3. CASE OnMessage
  BY <1>1, <1>3, PartsOnPrepared, PartsOnRefused, PartsOnCommitted, PartsOnAcknowledged, PartsOnSaved
     DEF OnMessage
<1>. QED BY <1>1, <1>2, <1>3, PartsPrepare, PartsOnSnapshot DEF PageRuns

LEMMA PartsUnchanged ==
    ASSUME Parts, UNCHANGED vars PROVE Parts'
<1>1. /\ UNCHANGED <<page, slot, writes, toHost, toPage, host, preparing, committing>>
  BY DEF vars
<1>2. ViewStays /\ ShownStays /\ WorkStays /\ (Committed' <=> Committed)
  BY <1>1, LessSame, ViewLess, CommittedPopped DEF ShownStays, WorkStays
<1>3. Saving'
  BY <1>1, <1>2, LessSame, PartsSavingQuiet
<1>. QED BY <1>1, <1>2, <1>3, LessSame, PartsStill

LEMMA NextDocument ==
    ASSUME IInv, IInv', Numbered, Heard, Arriving, Ordered, Tokens, Tokens', Bound, Sessions, Pipeline,
           Values, Document, [Next]_vars
    PROVE  Document'
<1>1. SUFFICES ASSUME Whole', page'.session = "held" PROVE Parts'
  BY DEF Document, Parts
<1>2. page'.up
  BY <1>1 DEF Whole
<1>3. ~Load
  BY <1>2, LoadDoes, LoadDown
<1>4. CASE ~page.up
  <2>1. ~(HandleMessage \/ HostOwn) /\ ~UNCHANGED vars /\ ~Ignore
    BY <1>2, <1>4, HostSteps, IgnoreDoes DEF PageStays, vars
  <2>2. PageActs \/ PageRuns \/ Load
    BY <2>1 DEF Next, HostRuns, HostOwn
  <2>3. OnSnapshot
    BY <1>4, <2>1, <2>2, DownSteps
  <2>. QED BY <1>1, <1>4, <2>3, PartsFirst
<1>5. CASE page.up /\ page.session = "held"
  <2>1. Parts
    BY <1>1, <1>5, WholeBack DEF Document, Parts
  <2>. QED BY <1>1, <1>3, <1>5, <2>1, PartsUnchanged, PartsPage, PartsMessage, PartsOwn
           DEF Next, HostRuns, HostOwn
<1>6. CASE page.up /\ page.session # "held"
  <2>1. ~(HandleMessage \/ HostOwn) /\ ~UNCHANGED vars
    BY <1>1, <1>6, HostSteps DEF PageStays, vars
  <2>2. ~PageActs /\ ~Prepare /\ ~Ignore
    BY <1>1, <1>6, EditDoes, DiscardDoes, RequestSaveDoes, RequestSessionDoes, BeginDoes, PrepareDoes, IgnoreDoes
       DEF PageActs
  <2>3. ~on_prepared /\ ~on_prepare_refused /\ ~on_commit_refused /\ ~OnAcknowledged /\ ~OnDiscarded
    BY <1>1, <1>6, OnPreparedDoes, OnRefusedDoes, OnAcknowledgedDoes, OnDiscardedDoes
  <2>4. ~on_committed /\ ~OnSaved
    <3>1. ~on_committed
      BY <1>6, OnCommittedDoes
    <3>2. ~OnSaved
      BY <1>1, <1>6, OnSavedDoes DEF ShownAs
    <3>. QED BY <3>1, <3>2
  <2>5. ~OnSnapshot
    BY <1>1, <1>6, OnSnapshotDoes DEF ShowsFirst, ShowsAgain, Republishes, Leaves
  <2>6. OnSession
    BY <1>3, <2>1, <2>2, <2>3, <2>4, <2>5 DEF Next, HostRuns, HostOwn, PageRuns, OnMessage
  <2>. QED BY <1>1, <1>6, <2>6, PartsGranted
<1>. QED BY <1>4, <1>5, <1>6

-----------------------------------------------------------------------------
(* The history leads to what the page shows *)

\* The undo stack u ends at v, the redo stack r starts from it, and in each of them one
\* entry leads to the next.
Chain(u, r, v) ==
    /\ \A i \in 1..(Len(u) - 1) : u[i].after = u[i + 1].before
    /\ \A i \in 1..(Len(r) - 1) : r[i].before = r[i + 1].after
    /\ u # <<>> => Last(u).after = v
    /\ r # <<>> => Last(r).before = v

Gone ==
    page.session # "held" /\ (page.undo # <<>> \/ page.redo # <<>>) =>
         /\ page.cell = 0
         /\ NoneIn(toHost, Discards) => host.durable = 0
         /\ \A m \in Range(toPage) : m \in Granted => m.cell = 0

LEMMA LinkedIs == Linked <=> (Whole /\ ~count.others => Chain(page.undo, page.redo, page.cell) /\ Gone)
<1>. QED BY DEF Linked, Chain, Gone

\* An entry behind a stack.
LEMMA LastAppend ==
    ASSUME NEW s \in Seq(Entry), NEW e \in Entry
    PROVE  /\ Append(s, e) # <<>> /\ Last(Append(s, e)) = e
           /\ Len(s) \in Nat /\ Len(Append(s, e)) = Len(s) + 1
           /\ \A i \in 1..Len(s) : Append(s, e)[i] = s[i]
           /\ Append(s, e)[Len(s) + 1] = e
           /\ s # <<>> => Len(s) # 0 /\ Last(s) = s[Len(s)]
<1>1. /\ Append(s, e) \in Seq(Entry) /\ Len(s) \in Nat /\ Len(Append(s, e)) = Len(s) + 1
      /\ \A i \in 1..Len(s) : Append(s, e)[i] = s[i]
      /\ Append(s, e)[Len(s) + 1] = e
  BY AfterAppend, LenProperties
<1>2. Append(s, e) # <<>>
  BY <1>1, EmptySeq
<1>3. Last(Append(s, e)) = e
  BY <1>1, <1>2, FrontLast
<1>4. s # <<>> => Len(s) # 0 /\ Last(s) = s[Len(s)]
  BY FrontLast
<1>. QED BY <1>1, <1>2, <1>3, <1>4

LEMMA ChainEmpty == ASSUME NEW v PROVE Chain(<<>>, <<>>, v)
<1>1. Len(<<>>) = 0
  BY EmptySeq
<1>. QED BY <1>1 DEF Chain

\* A gesture is recorded.
LEMMA ChainRecord ==
    ASSUME NEW u \in Seq(Entry), NEW r, NEW v, Chain(u, r, v), NEW e \in Entry, e.before = v
    PROVE  Chain(Append(u, e), <<>>, e.after)
<1>1. /\ Append(u, e) # <<>> /\ Last(Append(u, e)) = e
      /\ Len(u) \in Nat /\ Len(Append(u, e)) = Len(u) + 1
      /\ \A i \in 1..Len(u) : Append(u, e)[i] = u[i]
      /\ Append(u, e)[Len(u) + 1] = e
      /\ u # <<>> => Len(u) # 0 /\ Last(u) = u[Len(u)]
  BY LastAppend
<1>2. ASSUME NEW i \in 1..Len(u) PROVE Append(u, e)[i].after = Append(u, e)[i + 1].before
  <2>1. CASE i = Len(u)
    <3>1. u # <<>>
      BY <1>2, <2>1, EmptySeq
    <3>. QED BY <1>1, <1>2, <2>1, <3>1 DEF Chain
  <2>2. CASE i # Len(u)
    <3>1. i \in 1..(Len(u) - 1) /\ i + 1 \in 1..Len(u)
      BY <1>1, <1>2, <2>2
    <3>. QED BY <1>1, <3>1 DEF Chain
  <2>. QED BY <2>1, <2>2
<1>3. Len(<<>>) = 0
  BY EmptySeq
<1>. QED BY <1>1, <1>2, <1>3 DEF Chain

\* An entry is undone, or redone: it goes from the one stack, s, to the other, t.
LEMMA ChainUndo ==
    ASSUME NEW u \in Seq(Entry), NEW r \in Seq(Entry), u # <<>>, NEW v, Chain(u, r, v)
    PROVE  Chain(Front(u), Append(r, Last(u)), Last(u).before)
<1>. DEFINE e == Last(u)
<1>1. /\ Len(u) \in Nat \ {0} /\ Len(Front(u)) = Len(u) - 1
      /\ \A i \in 1..(Len(u) - 1) : Front(u)[i] = u[i]
      /\ e = u[Len(u)] /\ e \in Entry /\ Front(u) \in Seq(Entry)
  BY FrontLast, RangeSeq
<1>2. /\ Append(r, e) # <<>> /\ Last(Append(r, e)) = e
      /\ Len(r) \in Nat /\ Len(Append(r, e)) = Len(r) + 1
      /\ \A i \in 1..Len(r) : Append(r, e)[i] = r[i]
      /\ Append(r, e)[Len(r) + 1] = e
      /\ r # <<>> => Len(r) # 0 /\ Last(r) = r[Len(r)]
  BY <1>1, LastAppend
<1>3. ASSUME NEW i \in 1..Len(r) PROVE Append(r, e)[i].before = Append(r, e)[i + 1].after
  <2>1. CASE i = Len(r)
    <3>1. r # <<>>
      BY <1>3, <2>1, EmptySeq
    <3>. QED BY <1>2, <1>3, <2>1, <3>1 DEF Chain
  <2>2. CASE i # Len(r)
    <3>1. i \in 1..(Len(r) - 1) /\ i + 1 \in 1..Len(r)
      BY <1>2, <1>3, <2>2
    <3>. QED BY <1>2, <3>1 DEF Chain
  <2>. QED BY <2>1, <2>2
<1>4. ASSUME NEW i \in 1..(Len(Front(u)) - 1) PROVE Front(u)[i].after = Front(u)[i + 1].before
  <2>1. i \in 1..(Len(u) - 1) /\ i + 1 \in 1..(Len(u) - 1)
    BY <1>1, <1>4
  <2>. QED BY <1>1, <2>1 DEF Chain
<1>5. Front(u) # <<>> => Last(Front(u)).after = e.before
  <2>1. SUFFICES ASSUME Front(u) # <<>> PROVE Last(Front(u)).after = e.before
    OBVIOUS
  <2>2. Len(Front(u)) \in Nat \ {0} /\ Last(Front(u)) = Front(u)[Len(Front(u))]
    BY <1>1, <2>1, FrontLast
  <2>3. Len(u) - 1 \in 1..(Len(u) - 1) /\ (Len(u) - 1) + 1 = Len(u)
    BY <1>1, <2>2
  <2>4. u[Len(u) - 1].after = u[Len(u)].before
    BY <2>3 DEF Chain
  <2>. QED BY <1>1, <2>2, <2>3, <2>4
<1>. HIDE DEF e
<1>6. Chain(Front(u), Append(r, e), e.before)
  BY <1>2, <1>3, <1>4, <1>5 DEF Chain
<1>. QED BY <1>6 DEF e

LEMMA ChainRedo ==
    ASSUME NEW u \in Seq(Entry), NEW r \in Seq(Entry), r # <<>>, NEW v, Chain(u, r, v)
    PROVE  Chain(Append(u, Last(r)), Front(r), Last(r).after)
<1>. DEFINE e == Last(r)
<1>1. /\ Len(r) \in Nat \ {0} /\ Len(Front(r)) = Len(r) - 1
      /\ \A i \in 1..(Len(r) - 1) : Front(r)[i] = r[i]
      /\ e = r[Len(r)] /\ e \in Entry /\ Front(r) \in Seq(Entry)
  BY FrontLast, RangeSeq
<1>2. /\ Append(u, e) # <<>> /\ Last(Append(u, e)) = e
      /\ Len(u) \in Nat /\ Len(Append(u, e)) = Len(u) + 1
      /\ \A i \in 1..Len(u) : Append(u, e)[i] = u[i]
      /\ Append(u, e)[Len(u) + 1] = e
      /\ u # <<>> => Len(u) # 0 /\ Last(u) = u[Len(u)]
  BY <1>1, LastAppend
<1>3. ASSUME NEW i \in 1..Len(u) PROVE Append(u, e)[i].after = Append(u, e)[i + 1].before
  <2>1. CASE i = Len(u)
    <3>1. u # <<>>
      BY <1>3, <2>1, EmptySeq
    <3>. QED BY <1>2, <1>3, <2>1, <3>1 DEF Chain
  <2>2. CASE i # Len(u)
    <3>1. i \in 1..(Len(u) - 1) /\ i + 1 \in 1..Len(u)
      BY <1>2, <1>3, <2>2
    <3>. QED BY <1>2, <3>1 DEF Chain
  <2>. QED BY <2>1, <2>2
<1>4. ASSUME NEW i \in 1..(Len(Front(r)) - 1) PROVE Front(r)[i].before = Front(r)[i + 1].after
  <2>1. i \in 1..(Len(r) - 1) /\ i + 1 \in 1..(Len(r) - 1)
    BY <1>1, <1>4
  <2>. QED BY <1>1, <2>1 DEF Chain
<1>5. Front(r) # <<>> => Last(Front(r)).before = e.after
  <2>1. SUFFICES ASSUME Front(r) # <<>> PROVE Last(Front(r)).before = e.after
    OBVIOUS
  <2>2. Len(Front(r)) \in Nat \ {0} /\ Last(Front(r)) = Front(r)[Len(Front(r))]
    BY <1>1, <2>1, FrontLast
  <2>3. Len(r) - 1 \in 1..(Len(r) - 1) /\ (Len(r) - 1) + 1 = Len(r)
    BY <1>1, <2>2
  <2>4. r[Len(r) - 1].before = r[Len(r)].after
    BY <2>3 DEF Chain
  <2>. QED BY <1>1, <2>2, <2>3, <2>4
<1>. HIDE DEF e
<1>6. Chain(Append(u, e), Front(r), e.after)
  BY <1>2, <1>3, <1>4, <1>5 DEF Chain
<1>. QED BY <1>6 DEF e

Chained == Chain(page.undo, page.redo, page.cell) /\ Gone

\* What another panel has edited stays so.
LEMMA OthersOn ==
    ASSUME IInv, Arriving, Tokens, Bound, Sessions, page.up, [Next]_vars, ~Load, count.others
    PROVE  count'.others
<1>1. CASE Kept
  BY <1>1 DEF Kept
<1>2. CASE HandleMessage
  BY <1>1, <1>2, HandleEditsDoes, HandleSessionDoes, HandleDiscardDoes, HandleSaveDoes, HandlePrepareDoes,
     HandleAbandonDoes, HandleCommitDoes, HandleAppliedDoes, HandleReadyDoes DEF HandleMessage
<1>3. ASSUME NEW op \in preparing, Preparation(op) PROVE count'.others
  <2>1. CASE Refuses(op) \/ Issues(op)
    BY <1>1, <2>1 DEF Refuses, Issues
  <2>2. CASE Moves(op, "comparing") \/ Moves(op, "verifying")
    BY <2>2 DEF Moves
  <2>. QED BY <1>3, <2>1, <2>2, BindDoes, CompareDoes, OutdatedDoes, IssueDoes DEF Preparation
<1>4. CASE StartCommit \/ VerifyCommit \/ CommitOutdated \/ commit_history_replay \/ AnswerCommit
  <2>1. \E c : EndsCommit(c) \/ \E step : Steps(c, step)
    BY <1>4, StartDoes, VerifyDoes, CommitOutdatedDoes, CommitDoes, AnswerDoes
  <2>. QED BY <1>1, <2>1 DEF EndsCommit, Steps
<1>5. CASE \/ WriteLands \/ SaveEnds \/ CompleteReady \/ PostSnapshot \/ LeaseExpires \/ OtherPanelEdits
           \/ \E moved \in BOOLEAN : Refresh(moved)
           \/ GrantSession \/ \E post \in host.posting : PostEnds(post)
  BY <1>1, <1>5, WriteLandsDoes, SaveEndsDoes, CompleteReadyDoes, PostSnapshotDoes, LeaseExpiresDoes,
     OtherPanelEditsDoes, RefreshDoes, GrantSessionDoes, PostEndsDoes
<1>6. CASE PageActs
  BY <1>1, <1>6, EditDoes, DiscardDoes, RequestSaveDoes, RequestSessionDoes, BeginDoes DEF PageActs
<1>7. CASE OnMessage
  BY <1>1, <1>7, OnPreparedDoes, OnRefusedDoes, OnCommittedDoes, OnAcknowledgedDoes, OnDiscardedDoes,
     OnSessionDoes, OnSavedDoes DEF OnMessage
<1>8. CASE Prepare \/ OnSnapshot \/ Ignore
  BY <1>1, <1>8, PrepareDoes, OnSnapshotDoes, IgnoreDoes
<1>9. CASE UNCHANGED vars
  BY <1>9 DEF vars
<1>. QED BY <1>2, <1>3, <1>4, <1>5, <1>6, <1>7, <1>8, <1>9 DEF Next, HostRuns, PageRuns

\* The cell and the history stay, and what there is of the edit session.
LEMMA ChainedStill ==
    ASSUME Chained, page'.cell = page.cell, page'.undo = page.undo, page'.redo = page.redo,
           page'.session # "held" => page.session # "held",
           host'.durable = host.durable,
           NoneIn(toHost', Discards) => NoneIn(toHost, Discards),
           Less(toPage, toPage', Granted)
    PROVE  Chained'
<1>1. Chain(page.undo, page.redo, page.cell)'
  BY DEF Chained
<1>2. \A m \in Range(toPage') : m \in Granted => m \in Range(toPage)
  BY DEF Less
<1>3. Gone'
  BY <1>2 DEF Chained, Gone
<1>. QED BY <1>1, <1>3 DEF Chained

\* A page that holds its session has nothing to show of a discard.
LEMMA ChainedHeld ==
    ASSUME page'.session = "held", Chain(page'.undo, page'.redo, page'.cell) PROVE Chained'
<1>. QED BY DEF Chained, Gone

\* The durable edits of a page without a session change only when they are cleared.
LEMMA ChainedHost ==
    ASSUME Chained, page' = page,
           page.session # "held" =>
              /\ NoneIn(toHost', Discards) =>
                    host'.durable = 0 \/ (NoneIn(toHost, Discards) /\ host'.durable = host.durable)
              /\ \A m \in Range(toPage') : m \in Granted =>
                    m \in Range(toPage) \/ (m.cell = host.durable /\ NoneIn(toHost, Discards))
    PROVE  Chained'
<1>1. Chain(page.undo, page.redo, page.cell)'
  BY DEF Chained
<1>2. Gone'
  <2>1. SUFFICES ASSUME page.session # "held", page.undo # <<>> \/ page.redo # <<>>
                 PROVE  /\ page.cell = 0
                        /\ NoneIn(toHost', Discards) => host'.durable = 0
                        /\ \A m \in Range(toPage') : m \in Granted => m.cell = 0
    BY DEF Gone
  <2>. QED BY <2>1 DEF Chained, Gone
<1>. QED BY <1>1, <1>2 DEF Chained

LEMMA GrantedTypes ==
    /\ Granted \cap Snapshots = {} /\ Granted \subseteq ToPage
    /\ \A a \in ToPage : a.type # "session" => a \notin Granted
    /\ \A m \in ToHost : m.type # "discard" => m \notin Discards
<1>. QED BY DEF Granted, Snapshots, Discards

LEMMA TakesDiscards ==
    ASSUME NEW m, Takes(m), m.type # "discard", NoneIn(toHost', Discards)
    PROVE  NoneIn(toHost, Discards)
<1>1. m \notin Discards /\ Popped(toHost, toHost', m)
  BY GrantedTypes DEF Takes
<1>. QED BY <1>1 DEF Popped

LEMMA ChainedSession ==
    ASSUME IInv, Sessions, Chained, page.up, GrantSession PROVE Chained'
<1>1. page' = page /\ toHost' = toHost
  BY GrantSessionDoes DEF PageStays
<1>2. NoneIn(toHost, Discards)
  <2>1. NoneIn(toHost, Asks)
    BY GrantSessionDoes DEF Sessions
  <2>. QED BY <2>1, AskTypes DEF NoneIn
<1>3. PICK a \in ToPage :
         /\ a.type = "session" /\ Answers1(a)
         /\ \/ /\ a.granted /\ a.cell = host.durable
               /\ \E id, ids \in Nat :
                     Becomes(host.durable, host.durable, id, ids, host.saving, host.leases, host.overtaken)
            \/ ~a.granted /\ HostRests(host.leases)
  BY GrantSessionDoes
<1>4. host'.durable = host.durable
  BY <1>3 DEF Becomes, HostRests
<1>5. a \in Granted => a.cell = host.durable
  BY <1>3 DEF Granted
<1>6. \A k \in Range(toPage') : k \in Granted => k \in Range(toPage) \/ k = a
  <2>1. PICK q : Draws(q) /\ Grows(q, toPage', a)
    BY <1>3 DEF Answers1
  <2>2. Less(toPage, q, Granted)
    BY <2>1, DrawsLess, GrantedTypes
  <2>3. \A k \in Range(toPage') : k \in Range(q) \/ k = a
    BY <2>1 DEF Grows, Pushed
  <2>. QED BY <2>2, <2>3 DEF Less
<1>. QED BY <1>1, <1>2, <1>4, <1>5, <1>6, ChainedHost

LEMMA ChainedMessage ==
    ASSUME IInv, Sessions, Chained, page.up, HandleMessage PROVE Chained'
<1>1. ~HandleReady
  BY UpHosts
<1>2. page' = page
  BY HostSteps DEF PageStays
<1>3. CASE HandleSession
  <2>1. \E m : Takes(m) /\ m.type # "discard"
    BY <1>3, HandleSessionDoes
  <2>2. host'.durable = host.durable /\ Less(toPage, toPage', Granted)
    BY <1>3, HandleSessionDoes, LessSame DEF HostRests, Becomes
  <2>. QED BY <1>2, <2>1, <2>2, TakesDiscards, ChainedStill
<1>4. CASE HandleDiscard
  <2>1. host'.durable = 0
    BY <1>4, HandleDiscardDoes DEF Becomes
  <2>2. Less(toPage, toPage', Granted)
    BY <1>4, HandleDiscardDoes, AnswersLess, GrantedTypes
  <2>3. \A m \in Range(toPage') : m \in Granted => m \in Range(toPage)
    BY <2>2 DEF Less
  <2>. QED BY <1>2, <2>1, <2>3, ChainedHost
<1>5. CASE HandleEdits \/ handle_save \/ HandlePrepare \/ HandleAbandon \/ HandleCommit \/ HandleApplied
  <2>1. \E m : Takes(m) /\ m.type # "discard"
    <3>1. CASE HandleEdits
      BY <3>1, HandleEditsDoes
    <3>2. CASE handle_save
      BY <3>2, HandleSaveDoes
    <3>3. CASE HandlePrepare
      BY <3>3, HandlePrepareDoes
    <3>4. CASE HandleAbandon
      BY <3>4, HandleAbandonDoes
    <3>5. CASE HandleCommit
      BY <3>5, HandleCommitDoes
    <3>6. CASE HandleApplied
      BY <3>6, HandleAppliedDoes
    <3>. QED BY <1>5, <3>1, <3>2, <3>3, <3>4, <3>5, <3>6
  <2>2. NoneIn(toHost', Discards) => NoneIn(toHost, Discards)
    BY <2>1, TakesDiscards
  <2>3. host'.durable = host.durable
    BY <1>5, HandleEditsDoes, HandleSaveDoes, HandlePrepareDoes, HandleAbandonDoes, HandleCommitDoes,
       HandleAppliedDoes DEF Calm, Becomes, HostRests
  <2>4. Less(toPage, toPage', Granted)
    <3>1. CASE toPage' = toPage \/ Draws(toPage')
      BY <3>1, LessSame, DrawsLess, GrantedTypes
    <3>2. CASE \E a \in ToPage : a.type # "session" /\ Grows(toPage, toPage', a)
      BY <3>2, LessGrows, GrantedTypes
    <3>3. CASE handle_save
      <4>1. \/ Draws(toPage')
            \/ \E a \in ToPage : a.type = "saved" /\ Grows(toPage, toPage', a)
        BY <3>3, HandleSaveDoes
      <4>. QED BY <3>1, <3>2, <4>1
    <3>4. CASE HandlePrepare
      <4>1. \/ toPage' = toPage
            \/ \E a \in ToPage : a.type = "prepareRefused" /\ Grows(toPage, toPage', a)
        BY <3>4, HandlePrepareDoes
      <4>. QED BY <3>1, <3>2, <4>1
    <3>5. CASE HandleCommit
      <4>1. \/ toPage' = toPage
            \/ \E a \in ToPage : a.type = "commitRefused" /\ Grows(toPage, toPage', a)
        BY <3>5, HandleCommitDoes
      <4>. QED BY <3>1, <3>2, <4>1
    <3>6. CASE HandleEdits \/ HandleAbandon \/ HandleApplied
      BY <3>1, <3>6, HandleEditsDoes, HandleAbandonDoes, HandleAppliedDoes
    <3>. QED BY <1>5, <3>3, <3>4, <3>5, <3>6
  <2>. QED BY <1>2, <2>2, <2>3, <2>4, ChainedStill
<1>. QED BY <1>1, <1>3, <1>4, <1>5 DEF HandleMessage

\* The host posts at most a snapshot and an answer that grants nothing.
LEMMA ChainedCalm ==
    ASSUME Chained, page' = page, toHost' = toHost, host'.durable = host.durable,
           \/ toPage' = toPage \/ Draws(toPage')
           \/ \E a \in ToPage : a.type # "session" /\ (Grows(toPage, toPage', a) \/ Answers1(a))
    PROVE  Chained'
<1>1. Less(toPage, toPage', Granted)
  <2>1. CASE toPage' = toPage \/ Draws(toPage')
    BY <2>1, LessSame, DrawsLess, GrantedTypes
  <2>2. CASE \E a \in ToPage : a.type # "session" /\ (Grows(toPage, toPage', a) \/ Answers1(a))
    BY <2>2, LessGrows, AnswersLess, GrantedTypes
  <2>. QED BY <2>1, <2>2
<1>. QED BY <1>1, ChainedStill

LEMMA ChainedLands ==
    ASSUME IInv, Sessions, Chained, page.up, WriteLands PROVE Chained'
<1>1. PICK w \in Write :
         /\ w \in Range(writes)
         /\ \/ ~Owns(w.session) /\ host' = host /\ toPage' = toPage
            \/ /\ Owns(w.session)
               /\ Acknowledges(w) \in ToPage /\ Acknowledges(w).type = "acknowledged"
               /\ Answers1(Acknowledges(w))
  BY WriteLandsDoes
<1>2. page' = page /\ toHost' = toHost
  BY WriteLandsDoes DEF PageStays
<1>3. CASE ~Owns(w.session)
  BY <1>1, <1>2, <1>3, ChainedCalm
<1>4. CASE Owns(w.session)
  <2>1. page.session # "held" => ~NoneIn(toHost, Discards)
    BY <1>1, <1>4 DEF Sessions
  <2>2. Less(toPage, toPage', Granted)
    BY <1>1, <1>4, AnswersLess, GrantedTypes
  <2>3. \A m \in Range(toPage') : m \in Granted => m \in Range(toPage)
    BY <2>2 DEF Less
  <2>. QED BY <1>2, <2>1, <2>3, ChainedHost
<1>. QED BY <1>3, <1>4

LEMMA ChainedCommits ==
    ASSUME IInv, Numbered, Tokens, Bound, Chained, page.up,
           StartCommit \/ VerifyCommit \/ CommitOutdated \/ commit_history_replay \/ AnswerCommit
    PROVE  Chained'
<1>1. page' = page /\ toHost' = toHost
  BY HostSteps, HostOwnStays DEF HostOwn
<1>2. CASE host'.durable = host.durable
  <2>1. \/ toPage' = toPage
        \/ \E a \in ToPage : a.type # "session" /\ Grows(toPage, toPage', a)
    <3>1. CASE \E c, step : Steps(c, step)
      BY <3>1 DEF Steps
    <3>2. CASE \E c : AnsweredBy(c, "committed") \/ AnsweredBy(c, "commitRefused")
      BY <3>2 DEF AnsweredBy
    <3>3. CASE StartCommit \/ VerifyCommit \/ CommitOutdated
      BY <3>1, <3>2, <3>3, StartDoes, VerifyDoes, CommitOutdatedDoes
    <3>4. CASE commit_history_replay
      BY <3>1, <3>2, <3>4, CommitDoes
    <3>5. CASE AnswerCommit
      BY <3>2, <3>5, AnswerDoes
    <3>. QED BY <3>3, <3>4, <3>5
  <2>. QED BY <1>1, <1>2, <2>1, ChainedCalm
<1>3. CASE host'.durable # host.durable
  <2>1. \E c : Writes(c.value) /\ Steps(c, "written")
    <3>1. ~StartCommit /\ ~VerifyCommit /\ ~CommitOutdated /\ ~AnswerCommit
      BY <1>3, StartDoes, VerifyDoes, CommitOutdatedDoes, AnswerDoes
    <3>. QED BY <1>3, <3>1, CommitDoes
  <2>2. PICK c : Writes(c.value) /\ Steps(c, "written")
    BY <2>1
  <2>3. c \in CurCommits /\ toPage' = toPage
    BY ZenonT(60), <2>2, SteppedCurrent DEF Writes, Steps
  <2>4. page.session = "held"
    BY <2>3, OneWork DEF OfCommit, Bound
  <2>5. Chain(page.undo, page.redo, page.cell)
    BY DEF Chained
  <2>. QED BY <1>1, <2>4, <2>5, ChainedHeld
<1>. QED BY <1>2, <1>3

LEMMA ChainedPreparation ==
    ASSUME IInv, Chained, NEW op \in preparing, Preparation(op) PROVE Chained'
<1>1. page' = page /\ toHost' = toHost
  BY HostSteps, HostOwnStays DEF HostOwn
<1>2. CASE Refuses(op)
  BY <1>1, <1>2, ChainedCalm DEF Refuses, HostRests, Becomes
<1>3. CASE Issues(op)
  BY <1>1, <1>3, ChainedCalm DEF Issues, HostRests, Becomes
<1>4. CASE Moves(op, "comparing") \/ Moves(op, "verifying")
  BY <1>1, <1>4, ChainedCalm DEF Moves
<1>. QED BY <1>2, <1>3, <1>4, BindDoes, CompareDoes, OutdatedDoes, IssueDoes DEF Preparation

LEMMA ChainedOwn ==
    ASSUME IInv, Numbered, Tokens, Bound, Sessions, Chained, page.up, HostOwn, ~OtherPanelEdits
    PROVE  Chained'
<1>1. page' = page /\ toHost' = toHost /\ ~CompleteReady
  BY HostSteps, HostOwnStays, UpHosts DEF PageStays
<1>2. CASE SaveEnds
  BY <1>1, <1>2, SaveEndsDoes, ChainedCalm DEF Calm, Becomes
<1>3. CASE PostSnapshot
  <2>1. host'.durable = host.durable
    BY <1>3, PostSnapshotDoes DEF Calm, Becomes
  <2>2. \E a \in ToPage : a.type = "snapshot" /\ Grows(toPage, toPage', a)
    BY <1>3, PostSnapshotDoes DEF Grows
  <2>. QED BY <1>1, <2>1, <2>2, ChainedCalm
<1>4. CASE LeaseExpires
  BY <1>1, <1>4, LeaseExpiresDoes, ChainedCalm
<1>5. CASE \E moved \in BOOLEAN : Refresh(moved)
  BY <1>1, <1>5, RefreshDoes, ChainedCalm DEF Calm, Becomes
<1>6. CASE \E post \in host.posting : PostEnds(post)
  BY <1>1, <1>6, PostEndsDoes, ChainedCalm DEF HostRests, Becomes
<1>. QED BY <1>1, <1>2, <1>3, <1>4, <1>5, <1>6, ChainedLands, ChainedSession, ChainedCommits,
            ChainedPreparation DEF HostOwn

-----------------------------------------------------------------------------

\* A gesture is recorded.
LEMMA ChainedEdit ==
    ASSUME IInv, Sessions, Chained, page.up, Edit PROVE Chained'
<1>1. page.session = "held"
  BY EditDoes
<1>2. PICK w : EditDoes1(w, count.edits + 1) /\ ShownAs(w, toHost)
  BY EditDoes
<1>3. PICK e \in Entry : /\ e.before = page.cell /\ e.after = count.edits + 1
                         /\ w.undo = Append(page.undo, e)
  BY <1>2 DEF EditDoes1
<1>4. /\ page'.undo = Append(page.undo, e) /\ page'.redo = <<>> /\ page'.cell = e.after
      /\ page'.session = "held"
  BY <1>1, <1>2, <1>3 DEF EditDoes1, ShownAs
<1>5. page.undo \in Seq(Entry)
  BY HostState DEF Page
<1>6. Chain(page'.undo, page'.redo, page'.cell)
  BY <1>3, <1>4, <1>5, ChainRecord DEF Chained
<1>. QED BY <1>4, <1>6, ChainedHeld

LEMMA ChainedDiscard ==
    ASSUME IInv, Sessions, Chained, page.up, Discard PROVE Chained'
<1>1. page.session = "held" /\ page'.cell = 0 /\ page'.redo = <<>> /\ toPage' = toPage
  BY DiscardDoes
<1>2. PICK e \in Entry : /\ e.before = page.cell /\ e.after = 0
                         /\ page'.undo = Append(page.undo, e)
  BY DiscardDoes
<1>3. page.undo \in Seq(Entry)
  BY HostState DEF Page
<1>4. Chain(page.undo, page.redo, page.cell)'
  BY <1>1, <1>2, <1>3, ChainRecord DEF Chained
<1>5. ~NoneIn(toHost', Discards)
  <2>1. PICK m \in ToHost : m.type = "discard" /\ Pushed(toHost, toHost', m)
    BY DiscardDoes
  <2>. QED BY <2>1 DEF Pushed, Discards
<1>6. NoneIn(toPage', Granted)
  BY <1>1, HeldQuiet
<1>7. Gone'
  BY <1>1, <1>5, <1>6 DEF Gone, NoneIn
<1>. QED BY <1>4, <1>7 DEF Chained

LEMMA ChainedReplay ==
    ASSUME IInv, Tokens, Bound, Chained, page.up, on_committed PROVE Chained'
<1>1. slot.phase = "committing" /\ page.session = "held"
  BY OnCommittedDoes
<1>2. PICK w : /\ PageLike(w) /\ w.session = page.session
               /\ w.cell = Target /\ Moved1(w) /\ ShownAs(w, toHost)
  BY OnCommittedDoes
<1>3. /\ page'.undo = w.undo /\ page'.redo = w.redo /\ page'.cell = Target
      /\ page'.session = "held"
  BY <1>1, <1>2 DEF ShownAs
<1>4. /\ stack_for(page, slot.direction) # <<>>
      /\ slot.entry = Last(stack_for(page, slot.direction))
  BY <1>1 DEF Bound
<1>5. page.undo \in Seq(Entry) /\ page.redo \in Seq(Entry)
  BY HostState DEF Page
<1>6. Chain(page'.undo, page'.redo, page'.cell)
  <2>1. CASE slot.direction = "undo"
    <3>1. w.undo = Front(page.undo) /\ w.redo = Append(page.redo, slot.entry)
      BY <1>2, <2>1 DEF Moved1
    <3>2. page.undo # <<>> /\ slot.entry = Last(page.undo) /\ Target = slot.entry.before
      BY <1>4, <2>1 DEF stack_for, Target, to_side
    <3>. QED BY <1>3, <1>5, <3>1, <3>2, ChainUndo DEF Chained
  <2>2. CASE slot.direction = "redo"
    <3>1. w.redo = Front(page.redo) /\ w.undo = Append(page.undo, slot.entry)
      BY <1>2, <2>2 DEF Moved1
    <3>2. page.redo # <<>> /\ slot.entry = Last(page.redo) /\ Target = slot.entry.after
      BY <1>4, <2>2 DEF stack_for, Target, to_side
    <3>. QED BY <1>3, <1>5, <3>1, <3>2, ChainRedo DEF Chained
  <2>. QED BY <1>2, <2>1, <2>2 DEF Moved1
<1>. QED BY <1>3, <1>6, ChainedHeld

LEMMA ChainedGranted ==
    ASSUME IInv, Sessions, Chained, page.up, OnSession PROVE Chained'
<1>1. HostStays /\ page.session = "requested"
  BY OnSessionDoes
<1>2. PICK m : /\ PageTakes1(m) /\ m.type = "session"
               /\ \/ /\ m.granted
                     /\ \E w : /\ w.session = "held"
                               /\ w.undo = page.undo /\ w.redo = page.redo
                               /\ w.cell = m.cell /\ ShownAs(w, toHost)
                  \/ Quietly /\ toHost' = toHost
  BY OnSessionDoes
<1>3. CASE Quietly /\ toHost' = toHost
  <2>1. Less(toPage, toPage', Granted)
    BY <1>2, PageTakesLess
  <2>. QED BY <1>1, <1>3, <2>1, ChainedStill DEF Quietly, HostStays
<1>4. CASE /\ m.granted
           /\ \E w : /\ w.session = "held"
                     /\ w.undo = page.undo /\ w.redo = page.redo
                     /\ w.cell = m.cell /\ ShownAs(w, toHost)
  <2>1. /\ page'.session = "held" /\ page'.undo = page.undo /\ page'.redo = page.redo
        /\ page'.cell = m.cell
    BY <1>4 DEF ShownAs
  <2>2. CASE page.undo = <<>> /\ page.redo = <<>>
    <3>1. Chain(page'.undo, page'.redo, page'.cell)
      BY <2>1, <2>2, ChainEmpty
    <3>. QED BY <2>1, <3>1, ChainedHeld
  <2>3. CASE page.undo # <<>> \/ page.redo # <<>>
    <3>1. m \in Range(toPage) /\ m \in Granted
      BY <1>2, <1>4 DEF PageTakes1, Granted
    <3>2. m.cell = 0 /\ page.cell = 0
      BY <1>1, <2>3, <3>1 DEF Chained, Gone
    <3>3. Chain(page'.undo, page'.redo, page'.cell)
      BY <2>1, <3>2 DEF Chained
    <3>. QED BY <2>1, <3>3, ChainedHeld
  <2>. QED BY <2>2, <2>3
<1>. QED BY <1>2, <1>3, <1>4

\* A snapshot replaces the cell only by what it was.
LEMMA ChainedSnapshot ==
    ASSUME IInv, Arriving, Sessions, Document, Whole, Chained, page.up, OnSnapshot PROVE Chained'
<1>1. HostStays
  BY OnSnapshotDoes
<1>2. PICK m : /\ PageTakes1(m) /\ m.type = "snapshot"
               /\ ShowsFirst(m) \/ ShowsAgain(m) \/ Republishes(m) \/ Leaves(m)
  BY OnSnapshotDoes
<1>3. Less(toPage, toPage', Granted)
  BY <1>2, PageTakesLess
<1>4. CASE page.session = "held"
  <2>1. /\ page'.cell = page.cell /\ page'.undo = page.undo /\ page'.redo = page.redo
        /\ page'.session = "held"
    <3>1. CASE ShowsAgain(m)
      <4>1. Parts
        BY <1>4 DEF Document, Parts
      <4>2. m.cell = page.cell
        BY <1>2, <3>1, <4>1, SnapshotTaken DEF ShowsAgain, Firm
      <4>. QED BY <1>4, <3>1, <4>2 DEF ShowsAgain, ShownAs
    <3>2. CASE Republishes(m) \/ Leaves(m)
      BY <1>4, <3>2 DEF Republishes, Leaves
    <3>. QED BY <1>2, <3>1, <3>2 DEF ShowsFirst
  <2>2. Chain(page'.undo, page'.redo, page'.cell)
    BY <2>1 DEF Chained
  <2>. QED BY <2>1, <2>2, ChainedHeld
<1>5. CASE page.session # "held"
  <2>1. Leaves(m)
    BY <1>2, <1>5 DEF ShowsFirst, ShowsAgain, Republishes
  <2>2. PICK k : AppliedTo(m, k) /\ Pushed(toHost, toHost', k)
    BY <2>1 DEF Leaves
  <2>3. NoneIn(toHost', Discards) => NoneIn(toHost, Discards)
    BY <2>2 DEF Pushed
  <2>4. page' = page /\ host' = host
    BY <1>1, <2>1 DEF Leaves, HostStays
  <2>. QED BY <1>3, <2>3, <2>4, ChainedStill
<1>. QED BY <1>4, <1>5

\* The page does something else: its cell and its history stay.
LEMMA ChainedQuiet ==
    ASSUME IInv, Sessions, Chained, page.up, HostStays,
           page'.cell = page.cell, page'.undo = page.undo, page'.redo = page.redo,
           \/ page'.session = "held"
           \/ /\ page.session # "held"
              /\ toHost' = toHost \/ \E m : Pushed(toHost, toHost', m)
              /\ toPage' = toPage \/ \E m : PageTakes1(m)
    PROVE  Chained'
<1>1. CASE page'.session = "held"
  <2>1. Chain(page'.undo, page'.redo, page'.cell)
    BY DEF Chained
  <2>. QED BY <1>1, <2>1, ChainedHeld
<1>2. CASE /\ page.session # "held"
           /\ toHost' = toHost \/ \E m : Pushed(toHost, toHost', m)
           /\ toPage' = toPage \/ \E m : PageTakes1(m)
  <2>1. NoneIn(toHost', Discards) => NoneIn(toHost, Discards)
    BY <1>2 DEF Pushed
  <2>2. Less(toPage, toPage', Granted)
    BY <1>2, PageTakesLess, LessSame
  <2>3. host' = host
    BY DEF HostStays
  <2>. QED BY <1>2, <2>1, <2>2, <2>3, ChainedStill
<1>. QED BY <1>1, <1>2

LEMMA ChainedPage ==
    ASSUME IInv, Arriving, Tokens, Bound, Sessions, Document, Whole, Chained, page.up, PageActs \/ PageRuns
    PROVE  Chained'
<1>1. CASE RequestSession
  BY <1>1, RequestSessionDoes, ChainedQuiet DEF Quietly
<1>2. CASE RequestSave
  BY <1>2, RequestSaveDoes, ChainedQuiet DEF Quietly
<1>3. CASE \E direction \in Directions : Begin(direction)
  BY <1>3, BeginDoes, ChainedQuiet
<1>4. CASE Prepare
  BY <1>4, PrepareDoes, ChainedQuiet DEF Quietly
<1>5. CASE on_prepared
  <2>1. HostStays /\ page' = page /\ slot.phase = "preparing"
    BY <1>5, OnPreparedDoes
  <2>2. page'.session = "held"
    BY <2>1 DEF Bound
  <2>. QED BY <2>1, <2>2, ChainedQuiet
<1>6. CASE on_prepare_refused \/ on_commit_refused
  BY <1>6, OnRefusedDoes, ChainedQuiet
<1>7. CASE OnAcknowledged
  <2>1. /\ HostStays /\ Quietly /\ page'.session = page.session /\ toHost' = toHost
        /\ \E m : PageTakes1(m)
    BY <1>7, OnAcknowledgedDoes
  <2>. QED BY <2>1, ChainedQuiet DEF Quietly
<1>8. CASE OnDiscarded
  <2>1. /\ HostStays /\ Quietly /\ page.session = "discarding" /\ toHost' = toHost
        /\ \E m : PageTakes1(m)
    BY <1>8, OnDiscardedDoes
  <2>. QED BY <2>1, ChainedQuiet DEF Quietly
<1>9. CASE OnSaved
  <2>1. HostStays /\ \E m : PageTakes1(m)
    BY <1>9, OnSavedDoes
  <2>2. PICK w : /\ w.session = page.session
                 /\ w.undo = page.undo /\ w.redo = page.redo
                 /\ w.cell = page.cell /\ ShownAs(w, toHost)
    BY <1>9, OnSavedDoes
  <2>3. /\ page'.cell = page.cell /\ page'.undo = page.undo /\ page'.redo = page.redo
        /\ page'.session = page.session
        /\ page.session # "held" => toHost' = toHost
    BY <2>2 DEF ShownAs, Unpublished
  <2>. QED BY <2>1, <2>3, ChainedQuiet
<1>10. ~Ignore
  BY IgnoreDoes
<1>11. CASE PageActs
  BY <1>1, <1>2, <1>3, <1>11, ChainedEdit, ChainedDiscard DEF PageActs
<1>12. CASE OnMessage
  BY <1>5, <1>6, <1>7, <1>8, <1>9, <1>12, ChainedReplay, ChainedGranted DEF OnMessage
<1>. QED BY <1>4, <1>10, <1>11, <1>12, ChainedSnapshot DEF PageRuns

\* A page that is shown its first snapshot has no history.
LEMMA ChainedFirst ==
    ASSUME IInv, Arriving, ~page.up, OnSnapshot PROVE Chained'
<1>1. PICK m : ShowsFirst(m)
  BY FirstShown
<1>2. PICK q, w : w.undo = <<>> /\ w.redo = <<>> /\ ShownAs(w, q)
  BY <1>1 DEF ShowsFirst
<1>3. page'.undo = <<>> /\ page'.redo = <<>>
  BY <1>2 DEF ShownAs
<1>4. Chain(page'.undo, page'.redo, page'.cell)
  BY <1>3, ChainEmpty
<1>. QED BY <1>3, <1>4 DEF Chained, Gone

LEMMA LinkedChained == Linked <=> (Whole /\ ~count.others => Chained)
<1>. QED BY LinkedIs DEF Chained

LEMMA NextLinked ==
    ASSUME IInv, IInv', Numbered, Arriving, Tokens, Tokens', Bound, Sessions, Document, Linked, [Next]_vars
    PROVE  Linked'
<1>1. SUFFICES ASSUME Whole', ~count'.others PROVE Chained'
  BY DEF Linked, Chained, Chain, Gone
<1>2. page'.up /\ ~Load
  BY <1>1, LoadDoes, LoadDown DEF Whole
<1>3. CASE ~page.up
  <2>1. ~(HandleMessage \/ HostOwn) /\ ~UNCHANGED vars /\ ~Ignore
    BY <1>2, <1>3, HostSteps, IgnoreDoes DEF PageStays, vars
  <2>2. OnSnapshot
    BY <1>3, <2>1, DownSteps DEF Next, HostRuns, HostOwn
  <2>. QED BY <1>3, <2>2, ChainedFirst
<1>4. CASE page.up
  <2>1. Whole
    BY <1>1, <1>4, WholeBack
  <2>2. ~count.others
    BY <1>1, <1>2, <1>4, OthersOn
  <2>3. Chained
    BY <2>1, <2>2, LinkedChained
  <2>4. ~OtherPanelEdits
    BY <1>1, OtherPanelEditsDoes
  <2>5. CASE UNCHANGED vars
    BY <2>3, <2>5 DEF vars, Chained, Chain, Gone, NoneIn
  <2>. QED BY <1>2, <1>4, <2>1, <2>3, <2>4, <2>5, ChainedMessage, ChainedOwn, ChainedPage
           DEF Next, HostRuns, HostOwn
<1>. QED BY <1>3, <1>4

LEMMA NothingIn ==
    /\ \A A : NoneIn(<<>>, A)
    /\ \A A, B : NoneAfter(<<>>, A, B)
<1>1. Range(<<>>) = {} /\ DOMAIN <<>> = {}
  BY EmptySeq DEF Range
<1>. QED BY <1>1 DEF NoneIn, NoneAfter

LEMMA InitDocInv == Init => DocInv
<1>. SUFFICES ASSUME Init PROVE DocInv
  OBVIOUS
<1>1. /\ page.up = TRUE /\ page.cell = 0 /\ page.published = Nothing /\ page.acknowledged = TRUE
      /\ page.session = "none" /\ page.saving = FALSE /\ page.undo = <<>> /\ page.redo = <<>>
  BY DEF Init, NewPage
<1>2. /\ host.durable = 0 /\ host.known = 0 /\ host.shown = 0 /\ host.overtaken = FALSE
      /\ host.epoch = 0 /\ host.readying = FALSE /\ host.acked = TRUE /\ host.posted = TRUE
      /\ host.session = 0 /\ host.sessions = 0 /\ host.leases = 0 /\ host.saving = FALSE
      /\ host.delivery = 0 /\ host.claiming = FALSE
  BY DEF Init
<1>3. /\ slot.phase = "idle" /\ lease.state = "none" /\ preparing = {} /\ committing = <<>>
      /\ writes = <<>> /\ toHost = <<>> /\ toPage = <<>>
  BY DEF Init, Idle, NoLease
<1>4. count.edits = 0
  BY DEF Init
<1>5. Range(<<>>) = {} /\ CurOps = {} /\ CurCommits = {}
  BY <1>3, EmptySeq DEF Range, CurOps, CurCommits
<1>6. Numbered
  BY InitNumbered
<1>7. Heard /\ Bound
  BY <1>2, <1>3 DEF Heard, Bound
<1>8. Arriving /\ Ordered
  BY <1>1, <1>2, <1>3, <1>5, NothingIn DEF Arriving, Ordered
<1>9. Tokens
  BY <1>3, <1>5, NothingIn DEF Tokens
<1>10. Sessions
  BY <1>1, <1>2, <1>3, <1>5, NothingIn DEF Sessions
<1>11. Pipeline
  BY <1>1, <1>3, <1>5 DEF Pipeline
<1>12. Values
  BY <1>1, <1>2, <1>3, <1>4, <1>5, HistoryReplayAssumption DEF Values, Val
<1>13. Document
  BY <1>1 DEF Document
<1>14. Linked
  <2>1. Chain(page.undo, page.redo, page.cell)
    BY <1>1, ChainEmpty
  <2>. QED BY <1>1, <2>1, LinkedIs DEF Gone
<1>. QED BY <1>6, <1>7, <1>8, <1>9, <1>10, <1>11, <1>12, <1>13, <1>14 DEF DocInv

LEMMA NextDocInv == IInv /\ IInv' /\ DocInv /\ [Next]_vars => DocInv'
<1>. SUFFICES ASSUME IInv, IInv', DocInv, [Next]_vars PROVE DocInv'
  OBVIOUS
<1>1. /\ Numbered /\ Heard /\ Arriving /\ Ordered /\ Tokens /\ Bound /\ Sessions
      /\ Pipeline /\ Values /\ Document /\ Linked
  BY DEF DocInv
<1>2. Numbered' /\ Heard' /\ Arriving' /\ Ordered'
  BY <1>1, NextNumbered, NextHeard, NextArriving, NextOrdered
<1>3. Tokens' /\ Bound' /\ Sessions'
  BY <1>1, NextTokens, NextBound, NextSessions
<1>4. Pipeline' /\ Values'
  BY <1>1, NextPipeline, NextValues
<1>5. Document' /\ Linked'
  BY <1>1, <1>3, NextDocument, NextLinked
<1>. QED BY <1>2, <1>3, <1>4, <1>5 DEF DocInv

\* Whenever the page comes to rest, the document it shows is the durable one, the newest
\* entry of the undo stack ends at it and the newest one of the redo stack starts from it,
\* unless a replay was refused after it had been written (host.overtaken).
THEOREM HistoryDescribes == Spec => []HistoryDescribesDocument
<1>1. ASSUME IInv, DocInv PROVE HistoryDescribesDocument
  <2>. SUFFICES ASSUME AtRest, ~host.overtaken
                PROVE  /\ host.durable = page.cell
                       /\ page.undo # <<>> /\ ~count.others => Last(page.undo).after = page.cell
                       /\ page.redo # <<>> /\ ~count.others => Last(page.redo).before = page.cell
    BY DEF HistoryDescribesDocument
  <2>1. /\ page.up /\ page.session = "held" /\ slot.phase = "idle" /\ page.acknowledged
        /\ toPage = <<>>
    BY DEF AtRest, is_busy
  <2>2. Whole /\ ~Committed
    BY <2>1, NothingIn DEF Whole, Stuck, Committed
  <2>3. host.known = page.cell
    BY <1>1, <2>1, <2>2 DEF DocInv, Document, Agreement, Firm, Truth
  <2>4. ~WrittenNow
    BY <1>1, <2>1 DEF DocInv, Tokens, OfCommit, WrittenNow
  <2>5. host.durable = page.cell
    BY <1>1, <2>1, <2>3, <2>4, UpHosts DEF DocInv, Heard
  <2>6. ~count.others => Chain(page.undo, page.redo, page.cell)
    BY <1>1, <2>2, LinkedIs DEF DocInv
  <2>. QED BY <2>5, <2>6 DEF Chain
<1>2. Init => IInv /\ DocInv
  BY InitIInv, InitDocInv
<1>3. IInv /\ DocInv /\ [Next]_vars => (IInv /\ DocInv)'
  BY NextIInv, NextDocInv
<1>. QED BY <1>1, <1>2, <1>3, PTL DEF Spec
=============================================================================

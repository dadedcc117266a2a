------------------------ MODULE AuthorityOrderProofs ------------------------
(***************************************************************************)
(* The order on authorities, for authorities of any size: it is a strict   *)
(* partial order, compare_authority tells its four cases apart the same    *)
(* way from both sides, and every commit moves an authority up in it.      *)
(***************************************************************************)
EXTENDS AuthorityOrder, TLAPS

\* No authority dominates itself, and none dominates what dominates it.
THEOREM DominatesAsymmetric ==
    ASSUME NEW a \in Authority, NEW b \in Authority, dominates(a, b)
    PROVE  ~dominates(b, a)
BY DEF dominates, Authority

\* An authority that dominates a second one dominates all that the second one
\* does: a process that installs only dominating copies never goes back.
THEOREM DominatesTransitive ==
    ASSUME NEW a \in Authority, NEW b \in Authority, NEW c \in Authority,
           dominates(a, b), dominates(b, c)
    PROVE  dominates(a, c)
<1>1. /\ a.commitSequence > c.commitSequence
      /\ a.authorityRevision >= c.authorityRevision
      /\ a.physicalRevision >= c.physicalRevision
      /\ a.projectionRevision >= c.projectionRevision
  BY DEF dominates, Authority
<1>2. ASSUME a.physicalRevision = c.physicalRevision
      PROVE  a.physicalDigest = c.physicalDigest
  <2>1. a.physicalRevision = b.physicalRevision /\ b.physicalRevision = c.physicalRevision
    BY <1>2 DEF dominates, Authority
  <2>. QED BY <2>1 DEF dominates
<1>. QED BY <1>1, <1>2 DEF dominates

LEMMA AuthorityFields ==
    ASSUME NEW a \in Authority, NEW b \in Authority,
           a.commitSequence = b.commitSequence,
           a.authorityRevision = b.authorityRevision,
           a.physicalRevision = b.physicalRevision,
           a.projectionRevision = b.projectionRevision,
           a.physicalDigest = b.physicalDigest
    PROVE  a = b
BY DEF Authority

\* The two sides of a comparison agree: when one process sees that its copy is
\* dominated, the other sees that its own dominates.
THEOREM ComparisonAgrees ==
    ASSUME NEW a \in Authority, NEW b \in Authority
    PROVE  /\ compare_authority(a, b) = "dominates" <=> dominates(a, b)
           /\ compare_authority(b, a) = "dominated" <=> dominates(a, b)
<1>1. dominates(a, b) => a # b
  BY DEF dominates, Authority
<1>2. dominates(a, b) => ~dominates(b, a)
  BY DominatesAsymmetric
<1>. QED BY <1>1, <1>2 DEF compare_authority

\* at_least is reflexive and transitive.
THEOREM AtLeastTransitive ==
    ASSUME NEW a \in Authority, NEW b \in Authority, NEW c \in Authority,
           at_least(a, b), at_least(b, c)
    PROVE  at_least(a, c)
<1>1. a = b \/ dominates(a, b)
  BY DEF at_least, compare_authority
<1>2. b = c \/ dominates(b, c)
  BY DEF at_least, compare_authority
<1>3. a = c \/ dominates(a, c)
  BY <1>1, <1>2, DominatesTransitive
<1>. QED BY <1>3 DEF at_least, compare_authority

THEOREM AtLeastReflexive == ASSUME NEW a PROVE at_least(a, a)
BY DEF at_least, compare_authority

LEMMA AdvanceType ==
    ASSUME NEW a \in Authority, NEW kind, NEW digest \in Digest \cup {NoDigest}
    PROVE  advance(a, kind, digest) \in Authority
<1>1. a.commitSequence + 1 \in Nat /\ a.authorityRevision + 1 \in Nat
  BY DEF Authority
<1>2. a.physicalRevision + 1 \in Nat /\ a.projectionRevision + 1 \in Nat
  BY DEF Authority
<1>3. CASE kind = "projection"
  <2>1. advance(a, kind, digest) =
            [a EXCEPT !.commitSequence = a.commitSequence + 1,
                      !.projectionRevision = a.projectionRevision + 1,
                      !.authorityRevision = a.authorityRevision + 1]
    BY <1>3 DEF advance
  <2>. QED BY <2>1, <1>1, <1>2 DEF Authority
<1>4. CASE kind # "projection" /\ a.physicalDigest # digest
  <2>1. advance(a, kind, digest) =
            [a EXCEPT !.commitSequence = a.commitSequence + 1,
                      !.physicalRevision = a.physicalRevision + 1,
                      !.authorityRevision = a.authorityRevision + 1,
                      !.physicalDigest = digest]
    BY <1>4 DEF advance
  <2>. QED BY <2>1, <1>1, <1>2 DEF Authority
<1>5. CASE kind # "projection" /\ a.physicalDigest = digest
  <2>1. advance(a, kind, digest) = [a EXCEPT !.commitSequence = a.commitSequence + 1]
    BY <1>5 DEF advance
  <2>. QED BY <2>1, <1>1 DEF Authority
<1>. QED BY <1>3, <1>4, <1>5

\* Every commit, of a header setting or of new bytes, even of the bytes there
\* already were, produces an authority that dominates the one before it: whoever
\* holds an older copy is bound to notice.
THEOREM CommitsDominate ==
    ASSUME NEW a \in Authority, NEW kind, NEW digest \in Digest \cup {NoDigest}
    PROVE  dominates(advance(a, kind, digest), a)
<1>1. CASE kind = "projection"
  BY <1>1 DEF advance, dominates, Authority
<1>2. CASE kind # "projection" /\ a.physicalDigest # digest
  BY <1>2 DEF advance, dominates, Authority
<1>3. CASE kind # "projection" /\ a.physicalDigest = digest
  BY <1>3 DEF advance, dominates, Authority
<1>. QED BY <1>1, <1>2, <1>3
=============================================================================

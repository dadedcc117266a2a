--------------------------- MODULE AuthorityOrder ---------------------------
(***************************************************************************)
(* The order on durable file authorities (authority-order.ts).  A file's   *)
(* authority is the vector that the durable store advances on each commit  *)
(* and that every process keeps a copy of; the order says whether one copy *)
(* is older than, newer than, or irreconcilable with another.              *)
(***************************************************************************)
EXTENDS Naturals

CONSTANTS
    Digest,     \* the digests of a file's bytes
    NoDigest    \* the digest field is undefined: no physical commit yet

ASSUME NoDigestAssumption == NoDigest \notin Digest

\* state.ts: DurableFileAuthority
Authority ==
    [ commitSequence     : Nat,
      authorityRevision  : Nat,
      physicalRevision   : Nat,
      projectionRevision : Nat,
      physicalDigest     : Digest \cup {NoDigest} ]

\* state.ts: empty_authority, the authority of a file the store has no entry of
empty_authority ==
    [ commitSequence     |-> 0,
      authorityRevision  |-> 0,
      physicalRevision   |-> 0,
      projectionRevision |-> 0,
      physicalDigest     |-> NoDigest ]

dominates(left, right) ==
    /\ left.commitSequence > right.commitSequence
    /\ left.authorityRevision >= right.authorityRevision
    /\ left.physicalRevision >= right.physicalRevision
    /\ left.projectionRevision >= right.projectionRevision
    /\ \/ left.physicalRevision # right.physicalRevision
       \/ left.physicalDigest = right.physicalDigest

\* The four answers of compare_authority, each in the order the code tries it.
compare_authority(left, right) ==
    IF left = right THEN "equal"
    ELSE IF dominates(left, right) THEN "dominates"
    ELSE IF dominates(right, left) THEN "dominated"
    ELSE "divergent"

\* "right was left, or came before it": what a copy may be replaced by.
at_least(left, right) == compare_authority(left, right) \in {"equal", "dominates"}

\* The authority one commit produces from another: finalize_authority_transaction
\* computes it in the store and expected_authority recomputes it to reconcile a
\* commit whose answer was lost.
advance(authority, kind, digest) ==
    IF kind = "projection"
    THEN [authority EXCEPT !.commitSequence = @ + 1,
                           !.projectionRevision = @ + 1,
                           !.authorityRevision = @ + 1]
    ELSE IF authority.physicalDigest # digest
    THEN [authority EXCEPT !.commitSequence = @ + 1,
                           !.physicalRevision = @ + 1,
                           !.authorityRevision = @ + 1,
                           !.physicalDigest = digest]
    ELSE [authority EXCEPT !.commitSequence = @ + 1]
=============================================================================

-------------------------- MODULE MCAuthorityStore --------------------------
(* Two paths, one of them an alias of the other. *)
EXTENDS AuthorityStore

MCMerged == [p \in Path |-> "file"]
MCSessionOf == [l \in Lease |-> IF l = "l1" THEN "s1" ELSE "s2"]

\* A save commits the file and clears the edits; an entry without edits keeps its revision.
MCStageInputs ==
    {[ id |-> "t1", kind |-> "physical", nextState |-> "empty", physicalDigest |-> "d1" ]}
=============================================================================

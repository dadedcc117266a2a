-------------------------- MODULE MCFileCoordinator --------------------------
(* A few operations on one file, in one process or in two. *)
EXTENDS FileCoordinator

\* A physical load, two header settings and a highlight, named by their kind.
MCKindOf ==
    [o \in Op |-> IF o \in {"p1", "p2", "p3"} THEN "physical"
                  ELSE IF o \in {"h1", "h2"} THEN "highlight" ELSE "projection"]
MCDigestOf == [o \in Op |-> IF o = "p2" THEN "d2" ELSE "d1"]
MCOneProcess == [o \in Op |-> "A"]
MCTwoProcesses == [o \in Op |-> IF o \in {"p1", "x1", "x2"} THEN "A" ELSE "B"]
=============================================================================

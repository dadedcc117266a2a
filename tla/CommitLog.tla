------------------------------ MODULE CommitLog ------------------------------
(***************************************************************************)
(* What the commit protocol of a file promises the views of it, whatever   *)
(* the processes, turns, stages and store calls that implement it: the     *)
(* file has one sequence of commits; an operation is committed at one      *)
(* place of it at most, never after it was answered, and its change stays; *)
(* and the answer an operation gets does not lie about that.               *)
(***************************************************************************)
EXTENDS Naturals

CONSTANTS
    Op,            \* the operations
    KindOf,        \* operation -> "physical", "projection" or "highlight"
    ChangesState   \* physical operations that change the stored state

VARIABLES
    sequence,   \* the number of commits so far
    position,   \* operation -> its place among the commits, or 0
    changes,    \* the operations whose change the stored state contains
    answer      \* operation -> its answer, or "none"

vars == <<sequence, position, changes, answer>>

Init ==
    /\ sequence \in Nat
    /\ position = [o \in Op |-> 0]
    /\ changes = {}
    /\ answer = [o \in Op |-> "none"]

\* A physical load or a header setting is committed: it gets the next place.
Commit(o) ==
    /\ KindOf[o] \in {"physical", "projection"}
    /\ answer[o] = "none"
    /\ position[o] = 0
    /\ sequence' = sequence + 1
    /\ position' = [position EXCEPT ![o] = sequence + 1]
    /\ changes' = IF KindOf[o] = "physical" /\ o \notin ChangesState
                  THEN changes ELSE changes \cup {o}
    /\ UNCHANGED answer

\* Highlights change the state and are no commit.
Write(o) ==
    /\ KindOf[o] = "highlight"
    /\ answer[o] = "none"
    /\ o \notin changes
    /\ changes' = changes \cup {o}
    /\ UNCHANGED <<sequence, position, answer>>

\* "committed" is the answer of an operation that took effect.  A header setting
\* that is refused or fails, and a load that gives way to a newer one, did not;
\* the other answers leave it open.
truthful(o, result) ==
    /\ result = "committed" =>
          IF KindOf[o] = "highlight" THEN o \in changes ELSE position[o] > 0
    /\ KindOf[o] = "projection" /\ result \in {"rejected", "failed"} => position[o] = 0
    /\ result = "stale" => position[o] = 0

Answer(o) ==
    /\ answer[o] = "none"
    /\ \E result \in {"committed", "rejected", "indeterminate", "advanced", "stale", "failed"} :
          /\ truthful(o, result)
          /\ answer' = [answer EXCEPT ![o] = result]
    /\ UNCHANGED <<sequence, position, changes>>

Next == \E o \in Op : Commit(o) \/ Write(o) \/ Answer(o)

Spec == Init /\ [][Next]_vars
=============================================================================

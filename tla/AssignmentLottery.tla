-------------------------- MODULE AssignmentLottery --------------------------
(***************************************************************************)
(* What a covered-call series promises its writers about assignment, free  *)
(* of any rounding rule.  "Assignment on a real exchange is a lottery"     *)
(* (conserving_assignment in state/series.rs): a writer who settles may be *)
(* assigned any part of what they wrote, provided the writers still to     *)
(* settle can carry exactly the rest.  Once one writer has settled nothing *)
(* is written or exercised any more, so the promise cannot move under the  *)
(* writers who come later.                                                 *)
(***************************************************************************)
EXTENDS Integers, FiniteSets

CONSTANTS Writers, MaxContracts

VARIABLES written,    \* contracts each writer has written
          exercised,  \* contracts exercised so far
          assigned,   \* contracts each settled writer was assigned
          done        \* the writers who have settled

vars == <<written, exercised, assigned, done>>

\* One pair per contract f gives the writers in S: their number is the sum.
UnitsOf(f, S) == UNION {{w} \X (1 .. f[w]) : w \in S}

Total(f, S) == Cardinality(UnitsOf(f, S))

Unassigned == exercised - Total(assigned, Writers)

-----------------------------------------------------------------------------

Init ==
    /\ written = [w \in Writers |-> 0]
    /\ exercised = 0
    /\ assigned = [w \in Writers |-> 0]
    /\ done = {}

Write(w) ==
    /\ done = {}
    /\ exercised = 0
    /\ \E k \in 1 .. MaxContracts - Total(written, Writers) :
           written' = [written EXCEPT ![w] = @ + k]
    /\ UNCHANGED <<exercised, assigned, done>>

Exercise ==
    /\ done = {}
    /\ \E k \in 1 .. Total(written, Writers) - exercised :
           exercised' = exercised + k
    /\ UNCHANGED <<written, assigned, done>>

Assign(w) ==
    /\ w \notin done
    /\ written[w] > 0
    /\ \E a \in 0 .. written[w] :
          /\ Unassigned - a \in 0 .. Total(written, Writers \ (done \cup {w}))
          /\ assigned' = [assigned EXCEPT ![w] = a]
    /\ done' = done \cup {w}
    /\ UNCHANGED <<written, exercised>>

Next == Exercise \/ \E w \in Writers : Write(w) \/ Assign(w)

Spec == Init /\ [][Next]_vars
=============================================================================

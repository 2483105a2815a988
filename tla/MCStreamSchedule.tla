-------------------------- MODULE MCStreamSchedule --------------------------
(***************************************************************************)
(* Instances of StreamSchedule for TLC.                                    *)
(***************************************************************************)
EXTENDS StreamSchedule

CONSTANTS a1, a2, r1, r2

\* A name is changed, the start is moved, and both status and start are set.
SomeEdits ==
  {<<>>, [start |-> 1], [start |-> 2], [status |-> "ended"],
   [status |-> "scheduled"], [status |-> "scheduled", start |-> 2]}

Symmetry == Permutations({a1, a2}) \cup Permutations({r1, r2})
=============================================================================

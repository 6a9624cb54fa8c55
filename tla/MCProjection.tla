---------------------------- MODULE MCProjection ----------------------------
(* Small instances of Projection for TLC. *)
EXTENDS Projection, TLC

\* Calls of one kind are interchangeable.
Symmetry == Permutations(Starters) \cup Permutations(Rebuilders)

=============================================================================

-------------------------- MODULE MCReadinessQueue --------------------------
(***************************************************************************)
(* TLC instances of ReadinessQueue.                                        *)
(***************************************************************************)
EXTENDS ReadinessQueueRefinement, TLC

\* Nodes and setter threads are interchangeable model values.
Symmetry == Permutations(Nodes) \cup Permutations(Setters)

EdgeOnly == {{"edge"}}
EdgeAndLevel == {{}, {"edge"}}
WithOneshot == {{}, {"edge"}, {"oneshot"}, {"edge", "oneshot"}}

=============================================================================

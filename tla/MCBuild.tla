------------------------------ MODULE MCBuild ------------------------------
(* Two builds, of two stacks or twice of one, or a build and a pre-warm; and *)
(* a reader.                                                                 *)
EXTENDS Build, TLC

MCAssignments == [Builders -> Names]

\* The builds race each other, or one of them races the pre-warm.
MCCrews == {Builders} \cup {{p, Doctor} : p \in Builders}

MCSymmetry == Permutations(Builders) \cup Permutations(Names)
=============================================================================

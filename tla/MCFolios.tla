------------------------------ MODULE MCFolios ------------------------------
(* Folios on two organizations, three creations and two assignments.        *)
EXTENDS Folios, TLC

MCQuantities == {2}

\* Organizations and creations are interchangeable; assignments too.
Perms == Permutations(Orgs) \cup Permutations(Creates) \cup Permutations(Assigns)

=============================================================================

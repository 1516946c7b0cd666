-------------------------- MODULE MCHkaCredentials --------------------------
(* Two calls in one process; each is used again for other tenants.          *)
EXTENDS HkaCredentials, TLC

\* Calls are interchangeable.
Perms == Permutations(Calls)

=============================================================================

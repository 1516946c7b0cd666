----------------------------- MODULE MCTenants ------------------------------
(* Everything of a kind is interchangeable.                                  *)
EXTENDS Tenants, TLC

Perms == Permutations(Orgs) \cup Permutations(Users) \cup Permutations(Invoices)
           \cup Permutations(Requests)

=============================================================================

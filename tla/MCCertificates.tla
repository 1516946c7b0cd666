--------------------------- MODULE MCCertificates ---------------------------
(* One organization with one user, whose personal certificates are apart.   *)
EXTENDS Certificates, TLC

MCOrgOf == [u \in Users |-> CHOOSE o \in Orgs : TRUE]

\* Uploads are interchangeable, and so are requests.
Perms == Permutations(Stores) \cup Permutations(Requests)

=============================================================================

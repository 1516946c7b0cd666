------------------------- MODULE MCInvoiceLifecycle -------------------------
(* One invoice under concurrent requests and the worker of the queue.        *)
EXTENDS InvoiceLifecycle, TLC

\* Requests are interchangeable.  Not used where liveness is checked.
Perms == Permutations(Requests)

=============================================================================

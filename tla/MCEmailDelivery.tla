-------------------------- MODULE MCEmailDelivery ---------------------------
(* The job's passes are as long as the table, so that none is left out.     *)
EXTENDS EmailDelivery

MCTake == Cardinality(Mails)

=============================================================================

--------------------------- MODULE InvoiceContract ---------------------------
(***************************************************************************)
(* What the handlers of an invoice promise together, with every document   *)
(* and every outcome in one step: the tax authority accepts at most one    *)
(* document, the row is certified after that, and a certified invoice is   *)
(* only ever cancelled.  InvoiceLifecycle implements it; once two handlers *)
(* have overlapped, or an outcome was not written down, the promise is     *)
(* void, and only then.                                                    *)
(***************************************************************************)
EXTENDS Naturals

Stages == {"open", "certified", "cancelled", "deleted"}

VARIABLES stage,     \* of the row
          documents, \* accepted for it, as far as 2
          annulled,  \* the document was annulled
          void       \* the promise does not hold any more

contract == <<stage, documents, annulled, void>>

Init == stage = "open" /\ documents = 0 /\ annulled = FALSE /\ void = FALSE

Accept ==
    /\ stage = "open" /\ documents = 0
    /\ documents' = 1
    /\ UNCHANGED <<stage, annulled, void>>

Certify ==
    /\ stage = "open" /\ documents = 1
    /\ stage' = "certified"
    /\ UNCHANGED <<documents, annulled, void>>

\* An accepted document's invoice is past "open" when it can be annulled.
Annul ==
    /\ stage # "open" /\ documents = 1
    /\ annulled' = TRUE
    /\ UNCHANGED <<stage, documents, void>>

\* Nothing that waits to be certified is cancelled or deleted.
Cancel ==
    /\ stage = "certified" \/ (stage = "open" /\ documents = 0)
    /\ stage' = "cancelled"
    /\ UNCHANGED <<documents, annulled, void>>

Delete ==
    /\ stage = "cancelled" \/ (stage = "open" /\ documents = 0)
    /\ stage' = "deleted"
    /\ UNCHANGED <<documents, annulled, void>>

\* From here on anything goes.
Void ==
    /\ void' = TRUE
    /\ stage' \in Stages /\ documents' \in 0..2 /\ annulled' \in BOOLEAN

Next == Accept \/ Certify \/ Annul \/ Cancel \/ Delete \/ Void

Spec == Init /\ [][Next]_contract

=============================================================================

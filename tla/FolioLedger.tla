----------------------------- MODULE FolioLedger -----------------------------
(***************************************************************************)
(* What folio accounting promises, with everything in one step: an         *)
(* organization is granted a number of folios, every invoice takes the     *)
(* lowest one that no invoice has, and a folio that is on an invoice is    *)
(* taken again only from a contended grant.  Folios implements it: the     *)
(* counters, the stale reads and the requests that die in between show     *)
(* only as contention.                                                     *)
(***************************************************************************)
EXTENDS Integers

CONSTANTS Grants,   \* assignments of folios
          Amounts,  \* how many folios one may have
          Invoices

VARIABLES open,      \* the grants that can be used
          amount,    \* how many folios each one has; 0 before it is made
          folio,     \* the grant and the index of an invoice's folio; {} before it exists
          contended  \* grants that two invoices reached for at the same time

ledger == <<open, amount, folio, contended>>

Used(g, i) == \E v \in Invoices : <<g, i>> \in folio[v]

Init ==
    /\ open \subseteq Grants
    /\ amount \in [Grants -> Amounts \cup {0}]
    /\ folio = [v \in Invoices |-> {}]
    /\ contended = {}

Grant(g, n) ==
    /\ g \notin open /\ amount[g] = 0
    /\ open' = open \cup {g}
    /\ amount' = [amount EXCEPT ![g] = n]
    /\ UNCHANGED <<folio, contended>>

\* Its organization is deleted; invoices stay.
Close(gs) ==
    /\ open' = open \ gs
    /\ UNCHANGED <<amount, folio, contended>>

Contend(g) ==
    /\ g \in open
    /\ contended' = contended \cup {g}
    /\ UNCHANGED <<open, amount, folio>>

Issue(v, g, i) ==
    /\ folio[v] = {}
    /\ g \in open /\ i < amount[g]
    /\ \A j \in 0..(i - 1) : Used(g, j)
    /\ Used(g, i) => g \in contended
    /\ folio' = [folio EXCEPT ![v] = {<<g, i>>}]
    /\ UNCHANGED <<open, amount, contended>>

Next ==
    \/ \E g \in Grants : Contend(g) \/ \E n \in Amounts : Grant(g, n)
    \/ \E gs \in SUBSET Grants : Close(gs)
    \/ \E v \in Invoices, g \in Grants : \E i \in 0..(amount[g] - 1) : Issue(v, g, i)

Spec == Init /\ [][Next]_ledger

=============================================================================

------------------------------- MODULE Folios -------------------------------
(***************************************************************************)
(* Fiscal folio accounting.  An administrator assigns folios of a pool to  *)
(* an organization (POST /api/admin/folios/assign); creating an invoice    *)
(* that is not a draft takes the next folio of the organization's newest   *)
(* assignment (POST /api/invoices/create).  Neither handler holds a lock:  *)
(* every await is a point where another request runs, and every action     *)
(* below is the code between two awaits.                                   *)
(*                                                                         *)
(* A row of folio_assignments is named by the assign request that inserts  *)
(* it, and an invoice by the create request that inserts it: both tables   *)
(* have generated ids, so a row is never confused with a later one.        *)
(***************************************************************************)
EXTENDS Integers, FiniteSets, Functions

CONSTANTS Orgs,        \* organizations
          Creates,     \* invoice creations that need a folio
          Assigns,     \* folio assignments
          Quantities,  \* what an assign request may ask for
          SeedTotal,   \* folios in the pool that prisma/seed.ts creates
          SeedAmount,  \* folios that the seed assigns to the demo organization
          MaxPools,    \* bound: pools ever created
          MaxClock,    \* bound: milliseconds that pass
          NoRow, NoOrg, \* a request that has not chosen yet
          NoStart,     \* folioStart is null
          NaN          \* parseInt of a folioStart that is not a number

ASSUME FoliosAssumption ==
    /\ Quantities \subseteq Nat \ {0}
    /\ SeedTotal \in Nat \ {0} /\ SeedAmount \in Nat \ {0}
    /\ MaxPools \in Nat \ {0} /\ MaxClock \in Nat
    /\ NoStart \notin Int /\ NaN \notin Int /\ NoStart # NaN

VARIABLES
    orgs,       \* organizations that exist
    clock,      \* Date.now(), shared by every process
    nPools,     \* pools 1..nPools exist
    batch, total, available, assigned, folioStart, \* folio_pools, a column each
    rows,       \* folio_assignments: the assign requests whose row exists
    consumed,   \* consumedAmount of each row
    assignedAt, \* assignedAt of each row
    apc, aOrg, aQty, aPool,    \* assign request: program counter and locals
    cpc, cRow, cSeen, cNumber, \* create request: program counter and locals
    raced       \* history: rows read by one create while another held them

vars == <<orgs, clock, nPools, batch, total, available, assigned, folioStart,
          rows, consumed, assignedAt, apc, aOrg, aQty, aPool,
          cpc, cRow, cSeen, cNumber, raced>>

PoolIds == 1..MaxPools

-----------------------------------------------------------------------------
(* Initial databases: an empty one, or the one prisma/seed.ts leaves, whose  *)
(* pool starts at 'FOL-000001' (not a number) and counts nothing as assigned.*)

InitCommon ==
    /\ orgs = Orgs
    /\ clock = 1
    /\ assigned = [p \in PoolIds |-> 0]
    /\ consumed = [a \in Assigns |-> 0]
    /\ assignedAt = [a \in Assigns |-> 0]
    /\ cpc = [r \in Creates |-> "idle"]
    /\ cRow = [r \in Creates |-> NoRow]
    /\ cSeen = [r \in Creates |-> 0]
    /\ cNumber = [r \in Creates |-> NaN]
    /\ raced = {}

InitEmpty ==
    /\ nPools = 0
    /\ batch = [p \in PoolIds |-> 0]
    /\ total = [p \in PoolIds |-> 0]
    /\ available = [p \in PoolIds |-> 0]
    /\ folioStart = [p \in PoolIds |-> NoStart]
    /\ rows = {}
    /\ apc = [a \in Assigns |-> "idle"]
    /\ aOrg = [a \in Assigns |-> NoOrg]
    /\ aQty = [a \in Assigns |-> 0]
    /\ aPool = [a \in Assigns |-> 0]

InitSeeded == \E s \in Assigns, o \in Orgs :
    /\ nPools = 1
    /\ batch = [p \in PoolIds |-> 0]
    /\ total = [p \in PoolIds |-> IF p = 1 THEN SeedTotal ELSE 0]
    /\ available = total
    /\ folioStart = [p \in PoolIds |-> IF p = 1 THEN NaN ELSE NoStart]
    /\ rows = {s}
    /\ apc = [a \in Assigns |-> IF a = s THEN "stranded" ELSE "idle"]
    /\ aOrg = [a \in Assigns |-> IF a = s THEN o ELSE NoOrg]
    /\ aQty = [a \in Assigns |-> IF a = s THEN SeedAmount ELSE 0]
    /\ aPool = [a \in Assigns |-> IF a = s THEN 1 ELSE 0]

Init == InitCommon /\ (InitEmpty \/ InitSeeded)

-----------------------------------------------------------------------------
(* POST /api/admin/folios/assign                                             *)

\* quantity > 0 and the organization exists.
StartAssign(a, o, q) ==
    /\ apc[a] = "idle"
    /\ o \in orgs
    /\ apc' = [apc EXCEPT ![a] = "checked"]
    /\ aOrg' = [aOrg EXCEPT ![a] = o]
    /\ aQty' = [aQty EXCEPT ![a] = q]
    /\ UNCHANGED <<orgs, clock, nPools, batch, total, available, assigned, folioStart, rows,
                   consumed, assignedAt, aPool, cpc, cRow, cSeen, cNumber, raced>>

\* Any folio left is enough: the handler does not ask for quantity folios.
OpenPools == {p \in 1..nPools : available[p] > 0}

\* findFirst by purchaseDate, newest first.
FindPool(a) ==
    /\ apc[a] = "checked"
    /\ \/ \E p \in OpenPools :
            /\ \A q \in OpenPools : batch[q] <= batch[p]
            /\ aPool' = [aPool EXCEPT ![a] = p]
            /\ apc' = [apc EXCEPT ![a] = "pool"]
       \/ /\ OpenPools = {}
          /\ apc' = [apc EXCEPT ![a] = "nopool"]
          /\ UNCHANGED aPool
    /\ UNCHANGED <<orgs, clock, nPools, batch, total, available, assigned, folioStart, rows,
                   consumed, assignedAt, aOrg, aQty, cpc, cRow, cSeen, cNumber, raced>>

\* Faulty variant: the new pool is created as already assigned.
CreatePoolAssigned(a) ==
    /\ apc[a] = "nopool"
    /\ nPools < MaxPools
    /\ \A p \in 1..nPools : batch[p] # clock
    /\ nPools' = nPools + 1
    /\ batch' = [batch EXCEPT ![nPools + 1] = clock]
    /\ total' = [total EXCEPT ![nPools + 1] = aQty[a]]
    /\ assigned' = [assigned EXCEPT ![nPools + 1] = aQty[a]]
    /\ aPool' = [aPool EXCEPT ![a] = nPools + 1]
    /\ apc' = [apc EXCEPT ![a] = "pool"]
    /\ UNCHANGED <<orgs, clock, available, folioStart, rows, consumed, assignedAt, aOrg, aQty,
                   cpc, cRow, cSeen, cNumber, raced>>

\* A new pool holds exactly the quantity and has no folioStart.  Its batchNumber
\* is the time, and unique: two pools of one millisecond collide.
CreatePool(a) ==
    /\ apc[a] = "nopool"
    /\ nPools < MaxPools
    /\ \/ /\ \A p \in 1..nPools : batch[p] # clock
          /\ nPools' = nPools + 1
          /\ batch' = [batch EXCEPT ![nPools + 1] = clock]
          /\ total' = [total EXCEPT ![nPools + 1] = aQty[a]]
          /\ available' = [available EXCEPT ![nPools + 1] = aQty[a]]
          /\ aPool' = [aPool EXCEPT ![a] = nPools + 1]
          /\ apc' = [apc EXCEPT ![a] = "pool"]
       \/ /\ \E p \in 1..nPools : batch[p] = clock
          /\ apc' = [apc EXCEPT ![a] = "failed"]
          /\ UNCHANGED <<nPools, batch, total, available, assigned, folioStart, aPool>>
    /\ UNCHANGED <<orgs, clock, assigned, folioStart, rows, consumed, assignedAt, aOrg, aQty,
                   cpc, cRow, cSeen, cNumber, raced>>

\* (folioPoolId, organizationId) is unique, and the organization a foreign key.
Insertable(a) ==
    /\ aOrg[a] \in orgs
    /\ \A b \in rows : ~(aPool[b] = aPool[a] /\ aOrg[b] = aOrg[a])

InsertAssignment(a) ==
    /\ apc[a] = "pool"
    /\ \/ /\ Insertable(a)
          /\ rows' = rows \cup {a}
          /\ consumed' = [consumed EXCEPT ![a] = 0]
          /\ assignedAt' = [assignedAt EXCEPT ![a] = clock]
          /\ apc' = [apc EXCEPT ![a] = "inserted"]
       \/ /\ ~Insertable(a)
          /\ apc' = [apc EXCEPT ![a] = "failed"]
          /\ UNCHANGED <<rows, consumed, assignedAt>>
    /\ UNCHANGED <<orgs, clock, nPools, batch, total, available, assigned, folioStart, aOrg,
                   aQty, aPool, cpc, cRow, cSeen, cNumber, raced>>

\* Faulty variant: increment and decrement swapped.
UpdatePoolSwapped(a) ==
    /\ apc[a] = "inserted"
    /\ available' = [available EXCEPT ![aPool[a]] = @ + aQty[a]]
    /\ assigned' = [assigned EXCEPT ![aPool[a]] = @ - aQty[a]]
    /\ apc' = [apc EXCEPT ![a] = "done"]
    /\ UNCHANGED <<orgs, clock, nPools, batch, total, folioStart, rows, consumed, assignedAt,
                   aOrg, aQty, aPool, cpc, cRow, cSeen, cNumber, raced>>

\* Atomic decrement and increment; availableFolios may become negative.
UpdatePool(a) ==
    /\ apc[a] = "inserted"
    /\ available' = [available EXCEPT ![aPool[a]] = @ - aQty[a]]
    /\ assigned' = [assigned EXCEPT ![aPool[a]] = @ + aQty[a]]
    /\ apc' = [apc EXCEPT ![a] = "done"]
    /\ UNCHANGED <<orgs, clock, nPools, batch, total, folioStart, rows, consumed, assignedAt,
                   aOrg, aQty, aPool, cpc, cRow, cSeen, cNumber, raced>>

\* The process dies or the database fails between two awaits.  Nothing is undone:
\* a row already inserted stays, and its pool is never updated.
AbortAssign(a) ==
    /\ apc[a] \in {"checked", "nopool", "pool", "inserted"}
    /\ apc' = [apc EXCEPT ![a] = IF @ = "inserted" THEN "stranded" ELSE "failed"]
    /\ UNCHANGED <<orgs, clock, nPools, batch, total, available, assigned, folioStart, rows,
                   consumed, assignedAt, aOrg, aQty, aPool, cpc, cRow, cSeen, cNumber, raced>>

-----------------------------------------------------------------------------
(* POST /api/invoices/create, for an organization that needs folios          *)

\* Faulty variant: a used up row still counts as open.
OpenRowsInclusive(o) == {a \in rows : aOrg[a] = o /\ consumed[a] <= aQty[a]}

\* assignedAmount > consumedAmount
OpenRows(o) == {a \in rows : aOrg[a] = o /\ consumed[a] < aQty[a]}

Holds(r, a) == cpc[r] \in {"selected", "numbered"} /\ cRow[r] = a
Issued(r, a) == cpc[r] = "issued" /\ cRow[r] = a

\* "No hay folios disponibles": 400.
RefuseNoFolios(r, o) ==
    /\ cpc[r] = "idle"
    /\ o \in orgs
    /\ OpenRows(o) = {}
    /\ cpc' = [cpc EXCEPT ![r] = "refused"]
    /\ UNCHANGED <<orgs, clock, nPools, batch, total, available, assigned, folioStart, rows,
                   consumed, assignedAt, apc, aOrg, aQty, aPool, cRow, cSeen, cNumber, raced>>

\* The raw SELECT ... ORDER BY "assignedAt" DESC LIMIT 1, outside any transaction.
SelectAssignment(r, o) ==
    /\ cpc[r] = "idle"
    /\ o \in orgs
    /\ \E a \in OpenRows(o) :
         /\ \A b \in OpenRows(o) : assignedAt[b] <= assignedAt[a]
         /\ cRow' = [cRow EXCEPT ![r] = a]
         /\ cSeen' = [cSeen EXCEPT ![r] = consumed[a]]
         /\ raced' = raced \cup {b \in {a} : \E s \in Creates : Holds(s, b)}
    /\ cpc' = [cpc EXCEPT ![r] = "selected"]
    /\ UNCHANGED <<orgs, clock, nPools, batch, total, available, assigned, folioStart, rows,
                   consumed, assignedAt, apc, aOrg, aQty, aPool, cNumber>>

\* Faulty variant: the first folio of the pool is skipped.
FolioNumberFromOne(start, index) == IF start = NaN THEN NaN ELSE start + index + 1

FolioNumber(start, index) == IF start = NaN THEN NaN ELSE start + index

\* The pool is read by its own query; without a folioStart the request ends in 500.
ReadPool(r) ==
    /\ cpc[r] = "selected"
    /\ LET start == folioStart[aPool[cRow[r]]]
       IN  \/ /\ start = NoStart
              /\ cpc' = [cpc EXCEPT ![r] = "noStart"]
              /\ UNCHANGED cNumber
           \/ /\ start # NoStart
              /\ cNumber' = [cNumber EXCEPT ![r] = FolioNumber(start, cSeen[r])]
              /\ cpc' = [cpc EXCEPT ![r] = "numbered"]
    /\ UNCHANGED <<orgs, clock, nPools, batch, total, available, assigned, folioStart, rows,
                   consumed, assignedAt, apc, aOrg, aQty, aPool, cRow, cSeen, raced>>

\* Faulty variants: the counter is incremented where it stands, although the number was
\* chosen earlier; or the consumption is not recorded.
IssueIncrementing(r) ==
    /\ cpc[r] = "numbered"
    /\ cRow[r] \in rows
    /\ consumed' = [consumed EXCEPT ![cRow[r]] = @ + 1]
    /\ cpc' = [cpc EXCEPT ![r] = "issued"]
    /\ UNCHANGED <<orgs, clock, nPools, batch, total, available, assigned, folioStart, rows,
                   assignedAt, apc, aOrg, aQty, aPool, cRow, cSeen, cNumber, raced>>

IssueUncounted(r) ==
    /\ cpc[r] = "numbered"
    /\ cRow[r] \in rows
    /\ UNCHANGED consumed
    /\ cpc' = [cpc EXCEPT ![r] = "issued"]
    /\ UNCHANGED <<orgs, clock, nPools, batch, total, available, assigned, folioStart, rows,
                   assignedAt, apc, aOrg, aQty, aPool, cRow, cSeen, cNumber, raced>>

\* Faulty variant: an assignment that was deleted meanwhile still issues.
IssueDangling(r) ==
    /\ cpc[r] = "numbered"
    /\ consumed' = [consumed EXCEPT ![cRow[r]] = cSeen[r] + 1]
    /\ cpc' = [cpc EXCEPT ![r] = "issued"]
    /\ UNCHANGED <<orgs, clock, nPools, batch, total, available, assigned, folioStart, rows,
                   assignedAt, apc, aOrg, aQty, aPool, cRow, cSeen, cNumber, raced>>

\* The transaction: the invoice and consumedAmount := (what was read) + 1, together.
IssueInvoice(r) ==
    /\ cpc[r] = "numbered"
    /\ cRow[r] \in rows
    /\ consumed' = [consumed EXCEPT ![cRow[r]] = cSeen[r] + 1]
    /\ cpc' = [cpc EXCEPT ![r] = "issued"]
    /\ UNCHANGED <<orgs, clock, nPools, batch, total, available, assigned, folioStart, rows,
                   assignedAt, apc, aOrg, aQty, aPool, cRow, cSeen, cNumber, raced>>

\* The process dies, or the transaction is rolled back (the row is gone, a customer
\* is inserted twice, the database fails): no invoice and no consumption.
AbortCreate(r) ==
    /\ cpc[r] \in {"selected", "numbered"}
    /\ cpc' = [cpc EXCEPT ![r] = "failed"]
    /\ cRow' = [cRow EXCEPT ![r] = NoRow]
    /\ cSeen' = [cSeen EXCEPT ![r] = 0]
    /\ cNumber' = [cNumber EXCEPT ![r] = NaN]
    /\ UNCHANGED <<orgs, clock, nPools, batch, total, available, assigned, folioStart, rows,
                   consumed, assignedAt, apc, aOrg, aQty, aPool, raced>>

-----------------------------------------------------------------------------
(* DELETE /api/admin/organizations/[orgId], and scripts/fix-folio-pools.ts   *)

RowsOf(o) == {a \in rows : aOrg[a] = o}

\* One of the deletes before the organization's own; the pool gets nothing back.
DeleteAssignments(o) ==
    /\ o \in orgs
    /\ rows' = rows \ RowsOf(o)
    /\ UNCHANGED <<orgs, clock, nPools, batch, total, available, assigned, folioStart,
                   consumed, assignedAt, apc, aOrg, aQty, aPool, cpc, cRow, cSeen, cNumber,
                   raced>>

\* The organization's row; the schema cascades to assignments made meanwhile.
DeleteOrganization(o) ==
    /\ o \in orgs
    /\ orgs' = orgs \ {o}
    /\ rows' = rows \ RowsOf(o)
    /\ UNCHANGED <<clock, nPools, batch, total, available, assigned, folioStart, consumed,
                   assignedAt, apc, aOrg, aQty, aPool, cpc, cRow, cSeen, cNumber, raced>>

\* Faulty variant: the script renumbers every pool.
FixEveryPool(p) ==
    /\ p \in 1..nPools
    /\ folioStart' = [folioStart EXCEPT ![p] = clock]
    /\ UNCHANGED <<orgs, clock, nPools, batch, total, available, assigned, rows, consumed,
                   assignedAt, apc, aOrg, aQty, aPool, cpc, cRow, cSeen, cNumber, raced>>

\* The script gives a pool without folioStart the current time as its first number.
FixPool(p) ==
    /\ p \in 1..nPools
    /\ folioStart[p] = NoStart
    /\ folioStart' = [folioStart EXCEPT ![p] = clock]
    /\ UNCHANGED <<orgs, clock, nPools, batch, total, available, assigned, rows, consumed,
                   assignedAt, apc, aOrg, aQty, aPool, cpc, cRow, cSeen, cNumber, raced>>

Tick ==
    /\ clock < MaxClock
    /\ clock' = clock + 1
    /\ UNCHANGED <<orgs, nPools, batch, total, available, assigned, folioStart, rows, consumed,
                   assignedAt, apc, aOrg, aQty, aPool, cpc, cRow, cSeen, cNumber, raced>>

-----------------------------------------------------------------------------
Assign(a) ==
    \/ \E o \in Orgs, q \in Quantities : StartAssign(a, o, q)
    \/ FindPool(a) \/ CreatePool(a) \/ InsertAssignment(a) \/ UpdatePool(a) \/ AbortAssign(a)

Create(r) ==
    \/ \E o \in Orgs : RefuseNoFolios(r, o) \/ SelectAssignment(r, o)
    \/ ReadPool(r) \/ IssueInvoice(r) \/ AbortCreate(r)

Next ==
    \/ \E a \in Assigns : Assign(a)
    \/ \E r \in Creates : Create(r)
    \/ \E o \in Orgs : DeleteAssignments(o) \/ DeleteOrganization(o)
    \/ \E p \in PoolIds : FixPool(p)
    \/ Tick

Spec == Init /\ [][Next]_vars

-----------------------------------------------------------------------------
(* Properties                                                                *)

PoolTypeOK ==
    /\ nPools \in 0..MaxPools
    /\ batch \in [PoolIds -> Nat]
    /\ total \in [PoolIds -> Nat]
    /\ available \in [PoolIds -> Int]
    /\ assigned \in [PoolIds -> Nat]
    /\ folioStart \in [PoolIds -> Int \cup {NoStart, NaN}]

RowTypeOK ==
    /\ orgs \subseteq Orgs
    /\ clock \in Nat
    /\ rows \subseteq Assigns
    /\ consumed \in [Assigns -> Nat]
    /\ assignedAt \in [Assigns -> Nat]
    /\ raced \subseteq Assigns

AssignTypeOK ==
    /\ apc \in [Assigns -> {"idle", "checked", "nopool", "pool", "inserted", "done",
                            "stranded", "failed"}]
    /\ aOrg \in [Assigns -> Orgs \cup {NoOrg}]
    /\ aQty \in [Assigns -> Nat]
    /\ aPool \in [Assigns -> 0..MaxPools]

CreateTypeOK ==
    /\ cpc \in [Creates -> {"idle", "selected", "numbered", "issued", "refused",
                            "noStart", "failed"}]
    /\ cRow \in [Creates -> Assigns \cup {NoRow}]
    /\ cSeen \in [Creates -> Nat]
    /\ cNumber \in [Creates -> Int \cup {NaN}]

\* The shape of every variable: the four tables and the requests' locals.
TypeOK == PoolTypeOK /\ RowTypeOK /\ AssignTypeOK /\ CreateTypeOK

\* An organization never uses more folios than it was assigned, although the check
\* (create/route.ts:83) and the write (:228) are in different transactions.
ConsumedWithinAssigned == \A a \in rows : consumed[a] <= aQty[a]

IssuedBelow(a, n) ==
    \A i \in 0..(n - 1) : \E r \in Creates : Issued(r, a) /\ cSeen[r] = i

\* Numbering has no hole: every folio below the counter of an assignment is on an
\* invoice, whatever creations overlapped, were rolled back or died.
NoFolioGap == \A a \in rows : IssuedBelow(a, consumed[a])

\* An invoice's number lies in the part of the pool's range that its assignment may
\* use, counted from the folioStart that the pool has now; it is the not-a-number of
\* the seed's pool exactly when that pool has no numeric start.
FolioInRange ==
    \A r \in Creates : cpc[r] = "issued" =>
        LET start == folioStart[aPool[cRow[r]]]
        IN  \/ start = NaN /\ cNumber[r] = NaN
            \/ start \in Int /\ cNumber[r] \in start..(start + aQty[cRow[r]] - 1)

\* As long as no two creations held an assignment at the same time, its counter is
\* exact: the issued folios are the first consumed ones, each on one invoice.
ExactUnlessRaced ==
    \A a \in rows \ raced :
        /\ \A r \in Creates : Issued(r, a) => cSeen[r] < consumed[a]
        /\ \A r, s \in Creates :
             Issued(r, a) /\ Issued(s, a) /\ cSeen[r] = cSeen[s] => r = s

Chose == {"selected", "numbered", "issued"}
RowMade == {"inserted", "done", "stranded"}

RowsArePlaced ==
    /\ \A a \in rows : apc[a] \in RowMade
    /\ \A a \in Assigns : apc[a] \in RowMade \cup {"pool"} => aPool[a] \in 1..nPools

HeldFolioExists ==
    \A r \in Creates : cpc[r] \in Chose =>
        /\ cRow[r] \in Assigns
        /\ apc[cRow[r]] \in RowMade
        /\ cSeen[r] < aQty[cRow[r]]

HeldFolioIsNext == \A r \in Creates : cpc[r] \in Chose => IssuedBelow(cRow[r], cSeen[r])

HeldNumberIsCurrent ==
    \A r \in Creates : cpc[r] \in {"numbered", "issued"} =>
        LET start == folioStart[aPool[cRow[r]]]
        IN  start # NoStart /\ cNumber[r] = FolioNumber(start, cSeen[r])

HeldAlone ==
    \A a \in rows \ raced : \A r \in Creates : Holds(r, a) =>
        /\ cSeen[r] = consumed[a]
        /\ \A s \in Creates : Holds(s, a) => s = r

\* What a creation relies on after its reads went stale: its row was made by an
\* assignment that got a pool; the folio it is about to use exists, every folio below
\* it is on an invoice, and its number comes from the start the pool still has; and
\* nobody else holds a row that is not raced.  Without it the properties above are
\* not inductive.
HeldFolios ==
    RowsArePlaced /\ HeldFolioExists /\ HeldFolioIsNext /\ HeldNumberIsCurrent /\ HeldAlone

\* The assignments whose two writes were both done.
Completed == {a \in Assigns : apc[a] = "done"}
CompletedOf(p) == {a \in Completed : aPool[a] = p}

\* The pool's two counters follow the completed assignments and no others, through
\* failed inserts, crashes between the two writes and deleted organizations.
PoolBooks ==
    \A p \in 1..nPools :
        /\ assigned[p] = SumFunctionOnSet(aQty, CompletedOf(p))
        /\ available[p] = total[p] - assigned[p]

\* docs/guides/FOLIO-SYNC-GUIDE.md:84-90: an invoice created with a folio is recorded
\* as consumption, so the counter is the number of invoices.
ConsumptionRecorded ==
    \A a \in rows : consumed[a] = Cardinality({r \in Creates : Issued(r, a)})

-----------------------------------------------------------------------------
(* The ledger that this implements                                           *)

\* A grant is an assignment whose row is made, an invoice a creation that issued one.
Amount == [a \in Assigns |-> IF apc[a] \in RowMade THEN aQty[a] ELSE 0]
Folio == [r \in Creates |-> IF cpc[r] = "issued" THEN {<<cRow[r], cSeen[r]>>} ELSE {}]

Ledger == INSTANCE FolioLedger WITH
    Grants <- Assigns, Amounts <- Quantities \cup {SeedAmount}, Invoices <- Creates,
    open <- rows, amount <- Amount, folio <- Folio, contended <- raced

\* create and assign behave like a ledger: seen from outside, an invoice takes the lowest
\* folio free in its organization's assignment, in one step; the reads that have gone stale
\* by the time it is issued can only make it take one again while creations overlap.
ImplementsLedger == Ledger!Spec

=============================================================================

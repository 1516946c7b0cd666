---------------------------- MODULE FoliosProofs ----------------------------
(***************************************************************************)
(* Proofs about Folios, for every set of organizations and requests and    *)
(* every bound.                                                            *)
(***************************************************************************)
EXTENDS Folios, SumTheorems, TLAPS

\* HeldFolios is what the other invariants need to be inductive.
IInv == /\ TypeOK
        /\ ConsumedWithinAssigned
        /\ NoFolioGap
        /\ ExactUnlessRaced
        /\ HeldFolios

-----------------------------------------------------------------------------
(* Type correctness.                                                         *)

\* The initial databases have the declared shape.
LEMMA InitTypeOK == Init => TypeOK
<1> USE FoliosAssumption DEF TypeOK, PoolTypeOK, RowTypeOK, AssignTypeOK, CreateTypeOK, PoolIds
<1>1. Init /\ InitEmpty => TypeOK
  BY DEF Init, InitCommon, InitEmpty
<1>2. Init /\ InitSeeded => TypeOK
  BY DEF Init, InitCommon, InitSeeded
<1>3. QED
  BY <1>1, <1>2 DEF Init

\* The columns of folio_pools: created, moved by an assignment, or given a start.
LEMMA StepPoolTypeOK == TypeOK /\ HeldFolios /\ [Next]_vars => PoolTypeOK'
<1> SUFFICES ASSUME TypeOK, HeldFolios, [Next]_vars
             PROVE  PoolTypeOK'
  OBVIOUS
<1> USE FoliosAssumption DEF PoolTypeOK, TypeOK, PoolIds
<1>1. ASSUME NEW a \in Assigns, CreatePool(a)
      PROVE  PoolTypeOK'
  <2>1. nPools + 1 \in PoolIds /\ aQty[a] \in Nat /\ clock \in Nat
    BY <1>1 DEF CreatePool, AssignTypeOK, RowTypeOK
  <2>2. CASE nPools' = nPools
    BY <1>1, <2>1, <2>2 DEF CreatePool
  <2>3. CASE nPools' = nPools + 1
    <3>1. /\ batch' = [batch EXCEPT ![nPools + 1] = clock]
          /\ total' = [total EXCEPT ![nPools + 1] = aQty[a]]
          /\ available' = [available EXCEPT ![nPools + 1] = aQty[a]]
          /\ UNCHANGED <<assigned, folioStart>>
      BY <1>1, <2>3 DEF CreatePool
    <3>2. nPools' \in 0..MaxPools
      BY <2>1, <2>3
    <3>3. QED
      BY <2>1, <3>1, <3>2
  <2>4. QED
    BY <1>1, <2>2, <2>3 DEF CreatePool
<1>2. ASSUME NEW a \in Assigns, UpdatePool(a)
      PROVE  PoolTypeOK'
  <2>1. aPool[a] \in PoolIds /\ aQty[a] \in Nat
    BY <1>2 DEF UpdatePool, HeldFolios, RowsArePlaced, RowMade, AssignTypeOK
  <2>2. QED
    BY <1>2, <2>1 DEF UpdatePool
<1>3. ASSUME NEW p \in PoolIds, FixPool(p)
      PROVE  PoolTypeOK'
  BY <1>3 DEF FixPool, RowTypeOK
<1>4. CASE UNCHANGED <<nPools, batch, total, available, assigned, folioStart>>
  BY <1>4
<1>5. QED
  BY <1>1, <1>2, <1>3, <1>4
  DEF Next, Assign, Create, vars, StartAssign, FindPool, InsertAssignment, AbortAssign,
      RefuseNoFolios, SelectAssignment, ReadPool, IssueInvoice, AbortCreate,
      DeleteAssignments, DeleteOrganization, Tick

\* The rows of folio_assignments, the organizations, the clock and the history.
LEMMA StepRowTypeOK == TypeOK /\ HeldFolios /\ [Next]_vars => RowTypeOK'
<1> SUFFICES ASSUME TypeOK, HeldFolios, [Next]_vars
             PROVE  RowTypeOK'
  OBVIOUS
<1> USE DEF RowTypeOK, TypeOK
<1>1. ASSUME NEW a \in Assigns, InsertAssignment(a)
      PROVE  RowTypeOK'
  BY <1>1 DEF InsertAssignment
<1>2. ASSUME NEW r \in Creates, NEW o \in Orgs, SelectAssignment(r, o)
      PROVE  RowTypeOK'
  BY <1>2 DEF SelectAssignment, OpenRows
<1>3. ASSUME NEW r \in Creates, IssueInvoice(r)
      PROVE  RowTypeOK'
  BY <1>3 DEF IssueInvoice, CreateTypeOK
<1>4. ASSUME NEW o \in Orgs, DeleteAssignments(o) \/ DeleteOrganization(o)
      PROVE  RowTypeOK'
  BY <1>4 DEF DeleteAssignments, DeleteOrganization
<1>5. CASE Tick
  BY <1>5 DEF Tick
<1>6. CASE UNCHANGED <<orgs, clock, rows, consumed, assignedAt, raced>>
  BY <1>6
<1>7. QED
  BY <1>1, <1>2, <1>3, <1>4, <1>5, <1>6
  DEF Next, Assign, Create, vars, StartAssign, FindPool, CreatePool, UpdatePool, AbortAssign,
      RefuseNoFolios, ReadPool, AbortCreate, FixPool

\* The locals of the assign requests.
LEMMA StepAssignTypeOK == TypeOK /\ HeldFolios /\ [Next]_vars => AssignTypeOK'
<1> SUFFICES ASSUME TypeOK, HeldFolios, [Next]_vars
             PROVE  AssignTypeOK'
  OBVIOUS
<1> USE FoliosAssumption DEF AssignTypeOK, TypeOK
<1>1. ASSUME NEW a \in Assigns, NEW o \in Orgs, NEW q \in Quantities, StartAssign(a, o, q)
      PROVE  AssignTypeOK'
  BY <1>1 DEF StartAssign
<1>2. ASSUME NEW a \in Assigns, FindPool(a)
      PROVE  AssignTypeOK'
  <2>1. OpenPools \subseteq 0..MaxPools
    BY DEF OpenPools, PoolTypeOK
  <2>2. QED
    BY <1>2, <2>1 DEF FindPool
<1>3. ASSUME NEW a \in Assigns, CreatePool(a)
      PROVE  AssignTypeOK'
  BY <1>3 DEF CreatePool, PoolTypeOK
<1>4. ASSUME NEW a \in Assigns, InsertAssignment(a) \/ UpdatePool(a) \/ AbortAssign(a)
      PROVE  AssignTypeOK'
  BY <1>4 DEF InsertAssignment, UpdatePool, AbortAssign
<1>5. CASE UNCHANGED <<apc, aOrg, aQty, aPool>>
  BY <1>5
<1>6. QED
  BY <1>1, <1>2, <1>3, <1>4, <1>5
  DEF Next, Assign, Create, vars, RefuseNoFolios, SelectAssignment, ReadPool, IssueInvoice,
      AbortCreate, DeleteAssignments, DeleteOrganization, FixPool, Tick

\* The locals of the create requests.
LEMMA StepCreateTypeOK == TypeOK /\ HeldFolios /\ [Next]_vars => CreateTypeOK'
<1> SUFFICES ASSUME TypeOK, HeldFolios, [Next]_vars
             PROVE  CreateTypeOK'
  OBVIOUS
<1> USE FoliosAssumption DEF CreateTypeOK, TypeOK
<1>1. ASSUME NEW r \in Creates, NEW o \in Orgs, RefuseNoFolios(r, o)
      PROVE  CreateTypeOK'
  BY <1>1 DEF RefuseNoFolios
<1>2. ASSUME NEW r \in Creates, NEW o \in Orgs, SelectAssignment(r, o)
      PROVE  CreateTypeOK'
  BY <1>2 DEF SelectAssignment, OpenRows, RowTypeOK
<1>3. ASSUME NEW r \in Creates, ReadPool(r)
      PROVE  CreateTypeOK'
  <2> DEFINE start == folioStart[aPool[cRow[r]]]
  <2>1. start \in Int \cup {NoStart, NaN}
    <3>1. cRow[r] \in Assigns /\ apc[cRow[r]] \in RowMade
      BY <1>3 DEF ReadPool, HeldFolios, HeldFolioExists, Chose
    <3>2. aPool[cRow[r]] \in 1..nPools
      BY <3>1 DEF HeldFolios, RowsArePlaced
    <3>3. aPool[cRow[r]] \in PoolIds
      BY <3>2 DEF PoolTypeOK, PoolIds
    <3>4. folioStart \in [PoolIds -> Int \cup {NoStart, NaN}]
      BY DEF PoolTypeOK
    <3>5. QED
      BY <3>3, <3>4
  <2>2. start # NoStart => FolioNumber(start, cSeen[r]) \in Int \cup {NaN}
    BY <2>1 DEF FolioNumber
  <2>3. CASE start = NoStart
    <3>1. /\ cpc' = [cpc EXCEPT ![r] = "noStart"]
          /\ UNCHANGED <<cRow, cSeen, cNumber>>
      BY <1>3, <2>3 DEF ReadPool
    <3>2. QED
      BY <3>1
  <2>4. CASE start # NoStart
    <3>1. /\ cNumber' = [cNumber EXCEPT ![r] = FolioNumber(start, cSeen[r])]
          /\ cpc' = [cpc EXCEPT ![r] = "numbered"]
          /\ UNCHANGED <<cRow, cSeen>>
      BY <1>3, <2>4 DEF ReadPool
    <3>2. cNumber' \in [Creates -> Int \cup {NaN}]
      BY <2>2, <2>4, <3>1
    <3>3. QED
      BY <3>1, <3>2
  <2>5. QED
    BY <2>3, <2>4
<1>4. ASSUME NEW r \in Creates, IssueInvoice(r) \/ AbortCreate(r)
      PROVE  CreateTypeOK'
  BY <1>4 DEF IssueInvoice, AbortCreate
<1>5. CASE UNCHANGED <<cpc, cRow, cSeen, cNumber>>
  BY <1>5
<1>6. QED
  BY <1>1, <1>2, <1>3, <1>4, <1>5
  DEF Next, Assign, Create, vars, StartAssign, FindPool, CreatePool, InsertAssignment,
      UpdatePool, AbortAssign, DeleteAssignments, DeleteOrganization, FixPool, Tick

-----------------------------------------------------------------------------
(* What no step undoes.                                                      *)

\* Once a row was made, its organization, quantity and pool are fixed.
LEMMA MadeRowFixed ==
    ASSUME TypeOK, [Next]_vars, NEW a \in Assigns, apc[a] \in RowMade
    PROVE  /\ apc'[a] \in RowMade
           /\ aQty'[a] = aQty[a] /\ aPool'[a] = aPool[a] /\ aOrg'[a] = aOrg[a]
<1> USE DEF TypeOK, AssignTypeOK, RowMade
<1>1. ASSUME NEW b \in Assigns, Assign(b)
      PROVE  /\ apc'[a] \in RowMade
             /\ aQty'[a] = aQty[a] /\ aPool'[a] = aPool[a] /\ aOrg'[a] = aOrg[a]
  BY <1>1 DEF Assign, StartAssign, FindPool, CreatePool, InsertAssignment, UpdatePool,
              AbortAssign
<1>2. CASE UNCHANGED <<apc, aOrg, aQty, aPool>>
  BY <1>2
<1>3. QED
  BY <1>1, <1>2
  DEF Next, Create, vars, RefuseNoFolios, SelectAssignment, ReadPool, IssueInvoice,
      AbortCreate, DeleteAssignments, DeleteOrganization, FixPool, Tick

\* An invoice keeps its assignment, its folio and its number.
LEMMA IssuedFixed ==
    ASSUME TypeOK, [Next]_vars, NEW r \in Creates, cpc[r] = "issued"
    PROVE  /\ cpc'[r] = "issued"
           /\ cRow'[r] = cRow[r] /\ cSeen'[r] = cSeen[r] /\ cNumber'[r] = cNumber[r]
<1> USE DEF TypeOK, CreateTypeOK
<1>1. ASSUME NEW s \in Creates, Create(s)
      PROVE  /\ cpc'[r] = "issued"
             /\ cRow'[r] = cRow[r] /\ cSeen'[r] = cSeen[r] /\ cNumber'[r] = cNumber[r]
  BY <1>1 DEF Create, RefuseNoFolios, SelectAssignment, ReadPool, IssueInvoice, AbortCreate
<1>2. CASE UNCHANGED <<cpc, cRow, cSeen, cNumber>>
  BY <1>2
<1>3. QED
  BY <1>1, <1>2
  DEF Next, Assign, vars, StartAssign, FindPool, CreatePool, InsertAssignment, UpdatePool,
      AbortAssign, DeleteAssignments, DeleteOrganization, FixPool, Tick

\* So a folio that is on an invoice stays on one.
LEMMA IssuedBelowStable ==
    ASSUME TypeOK, [Next]_vars, NEW a, NEW n, IssuedBelow(a, n)
    PROVE  IssuedBelow(a, n)'
<1> SUFFICES ASSUME NEW i \in 0..(n - 1)
             PROVE  \E r \in Creates : Issued(r, a)' /\ cSeen'[r] = i
  BY DEF IssuedBelow
<1>1. PICK r \in Creates : Issued(r, a) /\ cSeen[r] = i
  BY DEF IssuedBelow
<1>2. cpc'[r] = "issued" /\ cRow'[r] = cRow[r] /\ cSeen'[r] = cSeen[r]
  BY <1>1, IssuedFixed DEF Issued
<1>3. QED
  BY <1>1, <1>2 DEF Issued

\* A pool's first number, once there is one, never changes.
LEMMA StartFixed ==
    ASSUME TypeOK, [Next]_vars, NEW p \in PoolIds, folioStart[p] # NoStart
    PROVE  folioStart'[p] = folioStart[p]
<1> USE DEF TypeOK, PoolTypeOK
<1>1. ASSUME NEW q \in PoolIds, FixPool(q)
      PROVE  folioStart'[p] = folioStart[p]
  BY <1>1 DEF FixPool
<1>2. CASE UNCHANGED folioStart
  BY <1>2
<1>3. QED
  BY <1>1, <1>2
  DEF Next, Assign, Create, vars, StartAssign, FindPool, CreatePool, InsertAssignment,
      UpdatePool, AbortAssign, RefuseNoFolios, SelectAssignment, ReadPool, IssueInvoice,
      AbortCreate, DeleteAssignments, DeleteOrganization, Tick

-----------------------------------------------------------------------------
(* What a step does to a create request, and to a counter.                   *)

\* A request that has chosen a folio had it before, or reads an open row now.
LEMMA ChoiceStep ==
    ASSUME TypeOK, [Next]_vars, NEW r \in Creates, cpc'[r] \in Chose
    PROVE  \/ /\ cpc[r] \in Chose
              /\ cRow'[r] = cRow[r] /\ cSeen'[r] = cSeen[r]
           \/ /\ cpc[r] = "idle" /\ cpc'[r] = "selected"
              /\ cRow'[r] \in rows
              /\ consumed[cRow'[r]] < aQty[cRow'[r]]
              /\ cSeen'[r] = consumed[cRow'[r]]
<1> DEFINE Goal == \/ /\ cpc[r] \in Chose
                      /\ cRow'[r] = cRow[r] /\ cSeen'[r] = cSeen[r]
                   \/ /\ cpc[r] = "idle" /\ cpc'[r] = "selected"
                      /\ cRow'[r] \in rows
                      /\ consumed[cRow'[r]] < aQty[cRow'[r]]
                      /\ cSeen'[r] = consumed[cRow'[r]]
<1> SUFFICES Goal
  OBVIOUS
<1> USE DEF TypeOK, CreateTypeOK, Chose
<1>1. ASSUME NEW s \in Creates, NEW o \in Orgs, SelectAssignment(s, o)
      PROVE  Goal
  <2>1. PICK a \in OpenRows(o) : /\ cRow' = [cRow EXCEPT ![s] = a]
                                 /\ cSeen' = [cSeen EXCEPT ![s] = consumed[a]]
    BY <1>1 DEF SelectAssignment
  <2>2. a \in rows /\ consumed[a] < aQty[a]
    BY DEF OpenRows
  <2>3. cpc[s] = "idle" /\ cpc' = [cpc EXCEPT ![s] = "selected"]
    BY <1>1 DEF SelectAssignment
  <2>4. QED
    BY <2>1, <2>2, <2>3
<1>2. ASSUME NEW s \in Creates, NEW o \in Orgs, RefuseNoFolios(s, o)
      PROVE  Goal
  BY <1>2 DEF RefuseNoFolios
<1>3. ASSUME NEW s \in Creates, ReadPool(s) \/ IssueInvoice(s) \/ AbortCreate(s)
      PROVE  Goal
  BY <1>3 DEF ReadPool, IssueInvoice, AbortCreate
<1>4. CASE UNCHANGED <<cpc, cRow, cSeen, cNumber>>
  BY <1>4
<1>5. QED
  BY <1>1, <1>2, <1>3, <1>4
  DEF Next, Assign, Create, vars, StartAssign, FindPool, CreatePool, InsertAssignment,
      UpdatePool, AbortAssign, DeleteAssignments, DeleteOrganization, FixPool, Tick

\* A row's counter stays, starts at zero, or is set by the transaction of a creation.
LEMMA CounterStep ==
    ASSUME TypeOK, [Next]_vars, NEW a \in rows'
    PROVE  \/ a \in rows /\ consumed'[a] = consumed[a]
           \/ a \notin rows /\ InsertAssignment(a) /\ consumed'[a] = 0
           \/ \E r \in Creates : /\ a \in rows /\ IssueInvoice(r) /\ cRow[r] = a
                                 /\ consumed'[a] = cSeen[r] + 1
<1> DEFINE Goal == \/ a \in rows /\ consumed'[a] = consumed[a]
                   \/ a \notin rows /\ InsertAssignment(a) /\ consumed'[a] = 0
                   \/ \E r \in Creates : /\ a \in rows /\ IssueInvoice(r) /\ cRow[r] = a
                                         /\ consumed'[a] = cSeen[r] + 1
<1> SUFFICES Goal
  OBVIOUS
<1> USE DEF TypeOK, RowTypeOK
<1>1. ASSUME NEW b \in Assigns, InsertAssignment(b)
      PROVE  Goal
  <2>1. CASE UNCHANGED <<rows, consumed>>
    BY <2>1
  <2>2. CASE b \in rows
    BY <1>1, <2>2 DEF InsertAssignment, Insertable
  <2>3. CASE b \notin rows /\ rows' = rows \cup {b} /\ consumed' = [consumed EXCEPT ![b] = 0]
    BY <1>1, <2>3
  <2>4. QED
    BY <1>1, <2>1, <2>2, <2>3 DEF InsertAssignment
<1>2. ASSUME NEW r \in Creates, IssueInvoice(r)
      PROVE  Goal
  <2>1. rows' = rows /\ consumed' = [consumed EXCEPT ![cRow[r]] = cSeen[r] + 1]
    BY <1>2 DEF IssueInvoice
  <2>2. QED
    BY <1>2, <2>1
<1>3. CASE rows' \subseteq rows /\ UNCHANGED consumed
  BY <1>3
<1>4. QED
  BY <1>1, <1>2, <1>3
  DEF Next, Assign, Create, vars, StartAssign, FindPool, CreatePool, UpdatePool, AbortAssign,
      RefuseNoFolios, SelectAssignment, ReadPool, AbortCreate, DeleteAssignments,
      DeleteOrganization, FixPool, Tick

-----------------------------------------------------------------------------
(* The invariants, one at a time.                                            *)

\* Only InsertAssignment adds a row, and only for a request that has a pool.
LEMMA StepRowsArePlaced == IInv /\ [Next]_vars => RowsArePlaced'
<1> SUFFICES ASSUME IInv, [Next]_vars
             PROVE  RowsArePlaced'
  OBVIOUS
<1> USE DEF IInv, HeldFolios, TypeOK
<1>1. ASSUME NEW a \in rows'
      PROVE  apc'[a] \in RowMade
  <2>1. a \in Assigns
    BY StepRowTypeOK, <1>1 DEF RowTypeOK
  <2>2. CASE a \in rows
    BY <2>1, <2>2, MadeRowFixed DEF RowsArePlaced
  <2>3. CASE a \notin rows /\ InsertAssignment(a)
    BY <1>1, <2>1, <2>3 DEF InsertAssignment, AssignTypeOK, RowMade
  <2>4. QED
    BY <1>1, <2>2, <2>3, CounterStep
<1>2. ASSUME NEW a \in Assigns, apc'[a] \in RowMade \cup {"pool"}
      PROVE  aPool'[a] \in 1..nPools'
  <2>1. nPools \in Nat
    BY DEF PoolTypeOK
  <2>2. ASSUME NEW b \in Assigns, FindPool(b)
        PROVE  aPool'[a] \in 1..nPools'
    BY <1>2, <2>1, <2>2 DEF FindPool, OpenPools, RowsArePlaced, AssignTypeOK, RowMade
  <2>3. ASSUME NEW b \in Assigns, CreatePool(b)
        PROVE  aPool'[a] \in 1..nPools'
    BY <1>2, <2>1, <2>3 DEF CreatePool, RowsArePlaced, AssignTypeOK, RowMade
  <2>4. ASSUME NEW b \in Assigns,
               \/ \E o \in Orgs, q \in Quantities : StartAssign(b, o, q)
               \/ InsertAssignment(b) \/ UpdatePool(b) \/ AbortAssign(b)
        PROVE  aPool'[a] \in 1..nPools'
    BY <1>2, <2>1, <2>4
    DEF StartAssign, InsertAssignment, UpdatePool, AbortAssign, RowsArePlaced, AssignTypeOK,
        RowMade
  <2>5. CASE UNCHANGED <<apc, aPool, nPools>>
    BY <1>2, <2>5 DEF RowsArePlaced
  <2>6. QED
    BY <2>2, <2>3, <2>4, <2>5
    DEF Next, Assign, Create, vars, RefuseNoFolios, SelectAssignment, ReadPool, IssueInvoice,
        AbortCreate, DeleteAssignments, DeleteOrganization, FixPool, Tick
<1>3. QED
  BY <1>1, <1>2 DEF RowsArePlaced

\* The folio a request chose lies inside its assignment, whose size is fixed.
LEMMA StepHeldFolioExists == IInv /\ [Next]_vars => HeldFolioExists'
<1> SUFFICES ASSUME IInv, [Next]_vars, NEW r \in Creates, cpc'[r] \in Chose
             PROVE  /\ cRow'[r] \in Assigns
                    /\ apc'[cRow'[r]] \in RowMade
                    /\ cSeen'[r] < aQty'[cRow'[r]]
  BY DEF HeldFolioExists
<1> USE DEF IInv, HeldFolios, TypeOK
<1>1. CASE cpc[r] \in Chose /\ cRow'[r] = cRow[r] /\ cSeen'[r] = cSeen[r]
  BY <1>1, MadeRowFixed DEF HeldFolioExists
<1>2. CASE /\ cRow'[r] \in rows
           /\ consumed[cRow'[r]] < aQty[cRow'[r]]
           /\ cSeen'[r] = consumed[cRow'[r]]
  <2>1. cRow'[r] \in Assigns /\ apc[cRow'[r]] \in RowMade
    BY <1>2 DEF RowTypeOK, RowsArePlaced
  <2>2. QED
    BY <1>2, <2>1, MadeRowFixed
<1>3. QED
  BY <1>1, <1>2, ChoiceStep

\* Every folio below the chosen one was on an invoice when the counter was read.
LEMMA StepHeldFolioIsNext == IInv /\ [Next]_vars => HeldFolioIsNext'
<1> SUFFICES ASSUME IInv, [Next]_vars, NEW r \in Creates, cpc'[r] \in Chose
             PROVE  IssuedBelow(cRow[r], cSeen[r])'
  BY DEF HeldFolioIsNext
<1> USE DEF IInv, HeldFolios
<1>1. PICK a, n : a = cRow'[r] /\ n = cSeen'[r]
  OBVIOUS
<1>2. IssuedBelow(a, n)
  <2>1. CASE cpc[r] \in Chose /\ cRow'[r] = cRow[r] /\ cSeen'[r] = cSeen[r]
    BY <1>1, <2>1 DEF HeldFolioIsNext
  <2>2. CASE cRow'[r] \in rows /\ cSeen'[r] = consumed[cRow'[r]]
    BY <1>1, <2>2 DEF NoFolioGap
  <2>3. QED
    BY <2>1, <2>2, ChoiceStep
<1>3. IssuedBelow(a, n)'
  BY <1>2, IssuedBelowStable
<1>4. QED
  BY <1>1, <1>3

\* The number was computed from a start that cannot change any more.
LEMMA StepHeldNumberIsCurrent == IInv /\ [Next]_vars => HeldNumberIsCurrent'
<1> SUFFICES ASSUME IInv, [Next]_vars, NEW r \in Creates, cpc'[r] \in {"numbered", "issued"}
             PROVE  LET start == folioStart'[aPool'[cRow'[r]]]
                    IN  start # NoStart /\ cNumber'[r] = FolioNumber(start, cSeen'[r])
  BY DEF HeldNumberIsCurrent
<1> USE DEF IInv, HeldFolios
<1> DEFINE p == aPool[cRow[r]]
<1>1. /\ cpc[r] \in Chose /\ cRow'[r] = cRow[r] /\ cSeen'[r] = cSeen[r]
      /\ folioStart[p] # NoStart
      /\ cNumber'[r] = FolioNumber(folioStart[p], cSeen[r])
  <2>1. ASSUME NEW s \in Creates, ReadPool(s)
        PROVE  <1>1
    BY <2>1 DEF ReadPool, TypeOK, CreateTypeOK, Chose, HeldNumberIsCurrent
  <2>2. ASSUME NEW s \in Creates, NEW o \in Orgs, SelectAssignment(s, o) \/ RefuseNoFolios(s, o)
        PROVE  <1>1
    <3>1. cpc'[s] \in {"selected", "refused"} /\ r # s
      BY <2>2 DEF SelectAssignment, RefuseNoFolios, TypeOK, CreateTypeOK
    <3>2. UNCHANGED <<cpc[r], cRow[r], cSeen[r], cNumber[r]>>
      BY <2>2, <3>1 DEF SelectAssignment, RefuseNoFolios, TypeOK, CreateTypeOK
    <3>3. QED
      BY <3>2 DEF Chose, HeldNumberIsCurrent
  <2>3. ASSUME NEW s \in Creates, IssueInvoice(s) \/ AbortCreate(s)
        PROVE  <1>1
    BY <2>3 DEF IssueInvoice, AbortCreate, TypeOK, CreateTypeOK, Chose, HeldNumberIsCurrent
  <2>4. CASE UNCHANGED <<cpc, cRow, cSeen, cNumber>>
    BY <2>4 DEF Chose, HeldNumberIsCurrent
  <2>5. QED
    BY <2>1, <2>2, <2>3, <2>4
    DEF Next, Assign, Create, vars, StartAssign, FindPool, CreatePool, InsertAssignment,
        UpdatePool, AbortAssign, DeleteAssignments, DeleteOrganization, FixPool, Tick
<1>2. cRow[r] \in Assigns /\ apc[cRow[r]] \in RowMade
  BY <1>1 DEF HeldFolioExists
<1>3. p \in PoolIds /\ aPool'[cRow[r]] = p
  <2>1. p \in 1..nPools
    BY <1>2 DEF RowsArePlaced
  <2>2. p \in PoolIds
    BY <2>1, FoliosAssumption DEF TypeOK, PoolTypeOK, PoolIds
  <2>3. QED
    BY <1>2, <2>2, MadeRowFixed
<1>4. folioStart'[p] = folioStart[p]
  BY <1>1, <1>3, StartFixed
<1>5. QED
  BY <1>1, <1>3, <1>4

\* consumed <= assigned survives the stale write, since the folio read as next exists.
LEMMA StepConsumedWithinAssigned == IInv /\ [Next]_vars => ConsumedWithinAssigned'
<1> SUFFICES ASSUME IInv, [Next]_vars, NEW a \in rows'
             PROVE  consumed'[a] <= aQty'[a]
  BY DEF ConsumedWithinAssigned
<1> USE DEF IInv, HeldFolios
<1>1. a \in Assigns
  BY StepRowTypeOK DEF RowTypeOK
<1>2. CASE a \in rows /\ consumed'[a] = consumed[a]
  BY <1>1, <1>2, MadeRowFixed DEF RowsArePlaced, ConsumedWithinAssigned
<1>3. CASE InsertAssignment(a) /\ consumed'[a] = 0
  <2>1. aQty'[a] \in Nat
    BY <1>1, StepAssignTypeOK DEF AssignTypeOK
  <2>2. QED
    BY <1>3, <2>1
<1>4. ASSUME NEW r \in Creates, IssueInvoice(r), cRow[r] = a, consumed'[a] = cSeen[r] + 1
      PROVE  consumed'[a] <= aQty'[a]
  <2>1. cpc[r] \in Chose
    BY <1>4 DEF IssueInvoice, Chose
  <2>2. apc[a] \in RowMade /\ cSeen[r] < aQty[a]
    BY <1>4, <2>1 DEF HeldFolioExists
  <2>3. aQty'[a] = aQty[a] /\ aQty[a] \in Nat /\ cSeen[r] \in Nat
    BY <1>1, <2>2, MadeRowFixed DEF TypeOK, AssignTypeOK, CreateTypeOK
  <2>4. QED
    BY <1>4, <2>2, <2>3
<1>5. QED
  BY <1>2, <1>3, <1>4, CounterStep

\* A transaction puts the next folio on an invoice and only then counts it.
LEMMA StepNoFolioGap == IInv /\ [Next]_vars => NoFolioGap'
<1> SUFFICES ASSUME IInv, [Next]_vars, NEW a \in rows'
             PROVE  IssuedBelow(a, consumed[a])'
  BY DEF NoFolioGap
<1> USE DEF IInv, HeldFolios
<1>1. PICK n : n = consumed'[a]
  OBVIOUS
<1>2. SUFFICES IssuedBelow(a, n)'
  BY <1>1
<1>3. CASE a \in rows /\ consumed'[a] = consumed[a]
  BY <1>1, <1>3, IssuedBelowStable DEF NoFolioGap
<1>4. CASE consumed'[a] = 0
  BY <1>1, <1>4 DEF IssuedBelow
<1>5. ASSUME NEW r \in Creates, IssueInvoice(r), cRow[r] = a, consumed'[a] = cSeen[r] + 1
      PROVE  IssuedBelow(a, n)'
  <2>1. cpc[r] \in Chose /\ cSeen[r] \in Nat
    BY <1>5 DEF IssueInvoice, Chose, TypeOK, CreateTypeOK
  <2>2. PICK m \in Nat : m = cSeen[r]
    BY <2>1
  <2>3. IssuedBelow(a, m)'
    BY <1>5, <2>1, <2>2, IssuedBelowStable DEF HeldFolioIsNext
  <2>4. cpc'[r] = "issued" /\ cRow'[r] = a /\ cSeen'[r] = m
    BY <1>5, <2>2 DEF IssueInvoice, TypeOK, CreateTypeOK
  <2>5. n = m + 1
    BY <1>1, <1>5, <2>2
  <2>6. ASSUME NEW i \in 0..(n - 1)
        PROVE  \E s \in Creates : Issued(s, a)' /\ cSeen'[s] = i
    <3>1. CASE i = m
      BY <2>4, <3>1 DEF Issued
    <3>2. CASE i # m
      BY <2>3, <2>5, <3>2 DEF IssuedBelow
    <3>3. QED
      BY <3>1, <3>2
  <2>7. QED
    BY <2>6 DEF IssuedBelow
<1>6. QED
  BY <1>3, <1>4, <1>5, CounterStep

\* The counter of a row that no two requests ever held together is exact: a select that
\* meets a holder marks the row, and the only holder's transaction adds exactly one.
LEMMA StepExact == IInv /\ [Next]_vars => ExactUnlessRaced' /\ HeldAlone'
<1> DEFINE
      Exact(a) == /\ \A r \in Creates : Issued(r, a) => cSeen[r] < consumed[a]
                  /\ \A r, s \in Creates :
                       Issued(r, a) /\ Issued(s, a) /\ cSeen[r] = cSeen[s] => r = s
      Alone(a) == \A r \in Creates : Holds(r, a) =>
                    /\ cSeen[r] = consumed[a]
                    /\ \A s \in Creates : Holds(s, a) => s = r
<1> SUFFICES ASSUME IInv, [Next]_vars, NEW a, a \in rows', a \notin raced'
             PROVE  Exact(a)' /\ Alone(a)'
  BY DEF ExactUnlessRaced, HeldAlone
<1> USE DEF IInv, HeldFolios
<1> USE DEF TypeOK, CreateTypeOK
<1>1. a \in Assigns /\ consumed'[a] \in Nat
  BY StepRowTypeOK DEF RowTypeOK
<1>2. a \notin raced
  BY DEF Next, Assign, Create, vars, StartAssign, FindPool, CreatePool, InsertAssignment,
         UpdatePool, AbortAssign, RefuseNoFolios, SelectAssignment, ReadPool, IssueInvoice,
         AbortCreate, DeleteAssignments, DeleteOrganization, FixPool, Tick
<1>3. CASE a \notin rows
  <2>1. InsertAssignment(a)
    BY <1>3, CounterStep
  <2>2. apc[a] = "pool" /\ UNCHANGED <<cpc, cRow, cSeen>>
    BY <2>1 DEF InsertAssignment
  <2>3. \A r \in Creates : ~Issued(r, a) /\ ~Holds(r, a)
    BY <2>2 DEF HeldFolioExists, Issued, Holds, Chose, RowMade
  <2>4. QED
    BY <2>2, <2>3 DEF Issued, Holds
<1>4. CASE a \in rows
  <2>1. Exact(a) /\ Alone(a) /\ consumed[a] \in Nat
    BY <1>1, <1>2, <1>4 DEF ExactUnlessRaced, HeldAlone, RowTypeOK
  <2>2. ASSUME NEW s \in Creates, NEW o \in Orgs, SelectAssignment(s, o)
        PROVE  Exact(a)' /\ Alone(a)'
    <3>1. PICK b \in OpenRows(o) :
            /\ cRow' = [cRow EXCEPT ![s] = b]
            /\ cSeen' = [cSeen EXCEPT ![s] = consumed[b]]
            /\ raced' = raced \cup {c \in {b} : \E t \in Creates : Holds(t, c)}
      BY <2>2 DEF SelectAssignment
    <3>2. /\ cpc[s] = "idle" /\ cpc' = [cpc EXCEPT ![s] = "selected"]
          /\ UNCHANGED consumed
      BY <2>2 DEF SelectAssignment
    <3>3. \A r \in Creates : Issued(r, a)' => Issued(r, a) /\ cSeen'[r] = cSeen[r]
      BY <3>1, <3>2 DEF Issued
    <3>4. Exact(a)'
      BY <2>1, <3>2, <3>3
    <3>5. b = a => \A r \in Creates : ~Holds(r, a)
      BY <3>1
    <3>6. ~Holds(s, a)
      BY <3>2 DEF Holds
    <3>7. \A r \in Creates : r # s /\ Holds(r, a)' => Holds(r, a) /\ cSeen'[r] = cSeen[r]
      BY <3>1, <3>2 DEF Holds
    <3>8. Holds(s, a)' => b = a /\ cSeen'[s] = consumed[a]
      BY <3>1, <3>2 DEF Holds
    <3>9. Alone(a)'
      BY <2>1, <3>2, <3>5, <3>6, <3>7, <3>8
    <3>10. QED
      BY <3>4, <3>9
  <2>3. ASSUME NEW s \in Creates, IssueInvoice(s)
        PROVE  Exact(a)' /\ Alone(a)'
    <3>1. /\ cpc[s] = "numbered" /\ cpc' = [cpc EXCEPT ![s] = "issued"]
          /\ cRow[s] \in rows
          /\ consumed' = [consumed EXCEPT ![cRow[s]] = cSeen[s] + 1]
          /\ UNCHANGED <<cRow, cSeen>>
      BY <2>3 DEF IssueInvoice
    <3>2. \A r \in Creates : Holds(r, a)' => Holds(r, a) /\ r # s
      BY <3>1 DEF Holds
    <3>3. \A r \in Creates : r # s => (Issued(r, a)' <=> Issued(r, a))
      BY <3>1 DEF Issued
    <3>4. CASE cRow[s] # a
      <4>1. consumed'[a] = consumed[a] /\ ~Issued(s, a)'
        BY <1>1, <3>1, <3>4 DEF RowTypeOK, Issued
      <4>2. QED
        BY <2>1, <3>1, <3>2, <3>3, <4>1
    <3>5. CASE cRow[s] = a
      <4>1. Holds(s, a)
        BY <3>1, <3>5 DEF Holds
      <4>2. cSeen[s] = consumed[a] /\ \A r \in Creates : ~Holds(r, a)'
        BY <2>1, <3>2, <4>1
      <4>3. consumed'[a] = consumed[a] + 1
        BY <1>1, <3>1, <3>5, <4>2 DEF RowTypeOK
      <4>4. \A r \in Creates : Issued(r, a)' => r = s \/ cSeen[r] < consumed[a]
        BY <2>1, <3>3
      <4>5. Exact(a)'
        BY <2>1, <3>1, <3>3, <4>2, <4>3, <4>4
      <4>6. QED
        BY <4>2, <4>5
    <3>6. QED
      BY <3>4, <3>5
  <2>4. CASE /\ UNCHANGED consumed
             /\ \A r \in Creates : Holds(r, a)' => Holds(r, a) /\ cSeen'[r] = cSeen[r]
             /\ \A r \in Creates : Issued(r, a)' => Issued(r, a) /\ cSeen'[r] = cSeen[r]
    BY <2>1, <2>4
  <2>5. ASSUME NEW s \in Creates,
               \/ \E o \in Orgs : RefuseNoFolios(s, o)
               \/ ReadPool(s) \/ AbortCreate(s)
        PROVE  <2>4!1
    BY <2>5 DEF RefuseNoFolios, ReadPool, AbortCreate, Holds, Issued
  <2>6. ASSUME NEW b \in Assigns, InsertAssignment(b)
        PROVE  Exact(a)' /\ Alone(a)'
    <3>1. consumed'[a] = consumed[a] /\ UNCHANGED <<cpc, cRow, cSeen>>
      BY <1>1, <1>4, <2>6 DEF InsertAssignment, Insertable, RowTypeOK
    <3>2. QED
      BY <2>1, <3>1 DEF Holds, Issued
  <2>7. CASE UNCHANGED <<consumed, cpc, cRow, cSeen>>
    BY <2>1, <2>7 DEF Holds, Issued
  <2>8. QED
    BY <2>2, <2>3, <2>4, <2>5, <2>6, <2>7
    DEF Next, Assign, Create, vars, StartAssign, FindPool, CreatePool, UpdatePool,
        AbortAssign, DeleteAssignments, DeleteOrganization, FixPool, Tick
<1>5. QED
  BY <1>3, <1>4

-----------------------------------------------------------------------------
(* The theorems.                                                             *)

\* The initial databases: no request has read anything, and the seed's row is placed.
LEMMA InitIInv == Init => IInv
<1> SUFFICES ASSUME Init
             PROVE  IInv
  OBVIOUS
<1>1. TypeOK
  BY InitTypeOK
<1>2. \A r \in Creates : cpc[r] = "idle"
  BY DEF Init, InitCommon
<1>3. \A a \in rows : a \in Assigns /\ consumed[a] = 0 /\ aQty[a] \in Nat
  BY <1>1 DEF TypeOK, RowTypeOK, AssignTypeOK, Init, InitCommon
<1>4. RowsArePlaced
  BY DEF Init, InitEmpty, InitSeeded, RowsArePlaced, RowMade
<1>5. HeldFolios
  BY <1>2, <1>4 DEF HeldFolios, HeldFolioExists, HeldFolioIsNext, HeldNumberIsCurrent,
                    HeldAlone, Holds, Chose
<1>6. ConsumedWithinAssigned
  BY <1>3 DEF ConsumedWithinAssigned
<1>7. NoFolioGap
  BY <1>3 DEF NoFolioGap, IssuedBelow
<1>8. ExactUnlessRaced
  BY <1>2 DEF ExactUnlessRaced, Issued
<1>9. QED
  BY <1>1, <1>5, <1>6, <1>7, <1>8 DEF IInv

\* No step of any handler, script or crash breaks the inductive invariant.
LEMMA StepIInv == IInv /\ [Next]_vars => IInv'
<1> SUFFICES ASSUME IInv, [Next]_vars
             PROVE  IInv'
  OBVIOUS
<1>1. TypeOK /\ HeldFolios
  BY DEF IInv
<1>2. TypeOK'
  BY <1>1, StepPoolTypeOK, StepRowTypeOK, StepAssignTypeOK, StepCreateTypeOK DEF TypeOK
<1>3. HeldFolios'
  BY StepRowsArePlaced, StepHeldFolioExists, StepHeldFolioIsNext, StepHeldNumberIsCurrent,
     StepExact DEF HeldFolios
<1>4. ConsumedWithinAssigned' /\ NoFolioGap' /\ ExactUnlessRaced'
  BY StepConsumedWithinAssigned, StepNoFolioGap, StepExact
<1>5. QED
  BY <1>2, <1>3, <1>4 DEF IInv

\* Every reachable state satisfies the inductive invariant.
THEOREM FoliosInvariant == Spec => []IInv
<1>1. QED
  BY InitIInv, StepIInv, PTL DEF Spec

\* The shape of the tables and of the requests' locals, in every reachable state.
THEOREM FoliosTypeOK == Spec => []TypeOK
<1>1. IInv => TypeOK
  BY DEF IInv
<1>2. QED
  BY <1>1, FoliosInvariant, PTL

\* No assignment is ever overdrawn.
THEOREM FoliosNotOverdrawn == Spec => []ConsumedWithinAssigned
<1>1. IInv => ConsumedWithinAssigned
  BY DEF IInv
<1>2. QED
  BY <1>1, FoliosInvariant, PTL

\* Every folio below a counter is on an invoice.
THEOREM FoliosWithoutGap == Spec => []NoFolioGap
<1>1. IInv => NoFolioGap
  BY DEF IInv
<1>2. QED
  BY <1>1, FoliosInvariant, PTL

\* Every number issued lies in the range its assignment may use.
THEOREM FoliosInRange == Spec => []FolioInRange
<1>1. IInv => FolioInRange
  <2> SUFFICES ASSUME IInv, NEW r \in Creates, cpc[r] = "issued"
               PROVE  LET start == folioStart[aPool[cRow[r]]]
                      IN  \/ start = NaN /\ cNumber[r] = NaN
                          \/ /\ start \in Int
                             /\ cNumber[r] \in start..(start + aQty[cRow[r]] - 1)
    BY DEF FolioInRange
  <2> DEFINE start == folioStart[aPool[cRow[r]]]
  <2>1. cRow[r] \in Assigns /\ apc[cRow[r]] \in RowMade /\ cSeen[r] < aQty[cRow[r]]
    BY DEF IInv, HeldFolios, HeldFolioExists, Chose
  <2>2. start # NoStart /\ cNumber[r] = FolioNumber(start, cSeen[r])
    BY DEF IInv, HeldFolios, HeldNumberIsCurrent
  <2>3. cSeen[r] \in Nat /\ aQty[cRow[r]] \in Nat
    BY <2>1 DEF IInv, TypeOK, CreateTypeOK, AssignTypeOK
  <2>4. aPool[cRow[r]] \in 1..nPools
    BY <2>1 DEF IInv, HeldFolios, RowsArePlaced
  <2>5. start \in Int \cup {NoStart, NaN}
    <3>1. nPools \in 0..MaxPools /\ folioStart \in [PoolIds -> Int \cup {NoStart, NaN}]
      BY DEF IInv, TypeOK, PoolTypeOK
    <3>2. aPool[cRow[r]] \in PoolIds
      BY <2>4, <3>1, FoliosAssumption DEF PoolIds
    <3> QED
      BY <3>1, <3>2
  <2>6. CASE start = NaN
    BY <2>2, <2>6 DEF FolioNumber
  <2>7. CASE start # NaN
    <3>1. start \in Int
      BY <2>2, <2>5, <2>7
    <3>2. cNumber[r] = start + cSeen[r]
      BY <2>2, <2>7 DEF FolioNumber
    <3>3. cSeen[r] \in 0..(aQty[cRow[r]] - 1)
      BY <2>1, <2>3
    <3>4. \A s \in Int, q \in Nat : \A n \in 0..(q - 1) : s + n \in s..(s + q - 1)
      OBVIOUS
    <3>5. cNumber[r] \in start..(start + aQty[cRow[r]] - 1)
      BY <2>3, <3>1, <3>2, <3>3, <3>4
    <3> QED
      BY <3>1, <3>5
  <2>8. QED
    BY <2>6, <2>7
<1>2. QED
  BY <1>1, FoliosInvariant, PTL

\* A counter that no two creations ever held together is exact.
THEOREM FoliosExactUnlessRaced == Spec => []ExactUnlessRaced
<1>1. IInv => ExactUnlessRaced
  BY DEF IInv
<1>2. QED
  BY <1>1, FoliosInvariant, PTL

\* What a creation relies on between its reads and its transaction.
THEOREM FoliosHeld == Spec => []HeldFolios
<1>1. IInv => HeldFolios
  BY DEF IInv
<1>2. QED
  BY <1>1, FoliosInvariant, PTL

-----------------------------------------------------------------------------
(* The books of the pools.                                                   *)

\* PoolBooks for every pool, also the one that the next CreatePool makes, whose counter
\* of assigned folios is not written then; and only finitely many assignments were ever
\* completed, however many requests there may be, so that their sum means something.
Books == /\ IsFiniteSet(Completed)
         /\ \A p \in PoolIds : assigned[p] = SumFunctionOnSet(aQty, CompletedOf(p))
         /\ \A p \in 1..nPools : available[p] = total[p] - assigned[p]

\* Nothing was ever assigned by a completed request in the initial databases.
LEMMA InitBooks == Init => Books
<1> SUFFICES ASSUME Init
             PROVE  Books
  OBVIOUS
<1>1. Completed = {}
  BY DEF Init, InitEmpty, InitSeeded, Completed
<1>2. IsFiniteSet(Completed)
  BY <1>1, FS_EmptySet
<1>3. \A p \in PoolIds : assigned[p] = SumFunctionOnSet(aQty, CompletedOf(p))
  <2>1. \A p \in PoolIds : CompletedOf(p) = {}
    BY <1>1 DEF CompletedOf
  <2>2. SumFunctionOnSet(aQty, {}) = 0
    BY SumOfNone
  <2>3. \A p \in PoolIds : assigned[p] = 0
    BY DEF Init, InitCommon
  <2>4. QED
    BY <2>1, <2>2, <2>3
<1>4. \A p \in 1..nPools : available[p] = total[p] - assigned[p]
  BY FoliosAssumption DEF Init, InitCommon, InitEmpty, InitSeeded, PoolIds
<1>5. QED
  BY <1>2, <1>3, <1>4 DEF Books

\* What the completed requests asked for, and where, is fixed: their sums stay.
LEMMA CompletedSums ==
    ASSUME TypeOK, [Next]_vars, Completed' = Completed, NEW p
    PROVE  SumFunctionOnSet(aQty, CompletedOf(p))' = SumFunctionOnSet(aQty, CompletedOf(p))
<1>1. \A a \in Completed : aQty'[a] = aQty[a] /\ aPool'[a] = aPool[a]
  BY MadeRowFixed DEF Completed, RowMade
<1>2. CompletedOf(p)' = CompletedOf(p)
  BY <1>1 DEF CompletedOf
<1>3. \A a \in CompletedOf(p) : aQty'[a] = aQty[a]
  BY <1>1 DEF CompletedOf
<1>4. SumFunctionOnSet(aQty', CompletedOf(p)) = SumFunctionOnSet(aQty, CompletedOf(p))
  BY <1>3, SumSame
<1>5. QED
  BY <1>2, <1>4

\* The second write of an assignment moves its quantity from one counter to the other.
LEMMA UpdateBooks ==
    ASSUME IInv, Books, [Next]_vars, NEW a \in Assigns, UpdatePool(a)
    PROVE  Books'
<1> USE DEF IInv, TypeOK
<1>1. /\ apc[a] = "inserted" /\ apc' = [apc EXCEPT ![a] = "done"]
      /\ available' = [available EXCEPT ![aPool[a]] = @ - aQty[a]]
      /\ assigned' = [assigned EXCEPT ![aPool[a]] = @ + aQty[a]]
      /\ UNCHANGED <<nPools, total, aQty, aPool>>
  BY DEF UpdatePool
<1>2. aPool[a] \in PoolIds /\ aQty[a] \in Nat
  BY <1>1 DEF HeldFolios, RowsArePlaced, RowMade, AssignTypeOK, PoolTypeOK, PoolIds
<1>3. a \notin Completed /\ Completed' = Completed \cup {a}
  BY <1>1 DEF Completed, AssignTypeOK
<1>4. IsFiniteSet(Completed')
  BY <1>3, FS_AddElement DEF Books
<1>5. ASSUME NEW p \in PoolIds
      PROVE  assigned'[p] = SumFunctionOnSet(aQty, CompletedOf(p))'
  <2>1. assigned[p] = SumFunctionOnSet(aQty, CompletedOf(p)) /\ assigned[p] \in Nat
    BY DEF Books, PoolTypeOK
  <2>2. CASE p = aPool[a]
    <3>1. CompletedOf(p)' = CompletedOf(p) \cup {a} /\ a \notin CompletedOf(p)
      BY <1>1, <1>3, <2>2 DEF CompletedOf
    <3>2. IsFiniteSet(CompletedOf(p))
      BY FS_Subset DEF Books, CompletedOf
    <3>3. \A b \in CompletedOf(p) \cup {a} : aQty[b] \in Int
      BY DEF AssignTypeOK, CompletedOf, Completed
    <3>4. SumFunctionOnSet(aQty, CompletedOf(p) \cup {a})
            = aQty[a] + SumFunctionOnSet(aQty, CompletedOf(p))
      BY <3>1, <3>2, <3>3, SumWith
    <3>5. assigned'[p] = assigned[p] + aQty[a]
      BY <1>1, <1>2, <2>2 DEF PoolTypeOK
    <3>6. SumFunctionOnSet(aQty, CompletedOf(p))'
            = SumFunctionOnSet(aQty, CompletedOf(p) \cup {a})
      BY <1>1, <3>1
    <3>7. QED
      BY <1>2, <2>1, <3>4, <3>5, <3>6
  <2>3. CASE p # aPool[a]
    <3>1. CompletedOf(p)' = CompletedOf(p)
      BY <1>1, <1>3, <2>3 DEF CompletedOf
    <3>2. assigned'[p] = assigned[p]
      BY <1>1, <2>3 DEF PoolTypeOK
    <3>3. QED
      BY <1>1, <2>1, <3>1, <3>2
  <2>4. QED
    BY <2>2, <2>3
<1>6. ASSUME NEW p \in 1..nPools
      PROVE  available'[p] = total'[p] - assigned'[p]
  <2>1. p \in PoolIds
    BY FoliosAssumption DEF PoolTypeOK, PoolIds
  <2>2. /\ available[p] = total[p] - assigned[p]
        /\ available[p] \in Int /\ total[p] \in Nat /\ assigned[p] \in Nat
    BY <2>1 DEF Books, PoolTypeOK
  <2>3. QED
    BY <1>1, <1>2, <2>1, <2>2 DEF PoolTypeOK
<1>7. QED
  BY <1>1, <1>4, <1>5, <1>6 DEF Books

\* A new pool has nothing assigned, since no request was placed in it before.
LEMMA CreateBooks ==
    ASSUME IInv, Books, [Next]_vars, NEW a \in Assigns, CreatePool(a)
    PROVE  Books'
<1> USE DEF IInv, TypeOK
<1>1. apc[a] = "nopool" /\ apc'[a] # "done" /\ UNCHANGED assigned
  BY DEF CreatePool, AssignTypeOK
<1>2. Completed' = Completed
  BY <1>1 DEF CreatePool, Completed, AssignTypeOK
<1>3. \A p \in PoolIds : assigned'[p] = SumFunctionOnSet(aQty, CompletedOf(p))'
  BY <1>1, <1>2, CompletedSums DEF Books
<1>4. ASSUME NEW p \in 1..nPools'
      PROVE  available'[p] = total'[p] - assigned'[p]
  <2>1. CASE UNCHANGED <<nPools, total, available>>
    BY <1>1, <2>1 DEF Books
  <2>2. CASE /\ nPools < MaxPools /\ nPools' = nPools + 1
             /\ total' = [total EXCEPT ![nPools + 1] = aQty[a]]
             /\ available' = [available EXCEPT ![nPools + 1] = aQty[a]]
    <3>1. p \in PoolIds /\ nPools \in Nat /\ aQty[a] \in Nat
      BY <2>2, FoliosAssumption DEF PoolTypeOK, PoolIds, AssignTypeOK
    <3>2. CASE p = nPools + 1
      <4>1. CompletedOf(p) = {}
        BY <3>1, <3>2 DEF CompletedOf, Completed, HeldFolios, RowsArePlaced, RowMade
      <4>2. assigned[p] = 0
        BY <3>1, <4>1, SumOfNone DEF Books
      <4>3. QED
        BY <1>1, <2>2, <3>1, <3>2, <4>2 DEF PoolTypeOK
    <3>3. CASE p # nPools + 1
      BY <1>1, <2>2, <3>1, <3>3 DEF PoolTypeOK, Books
    <3>4. QED
      BY <3>2, <3>3
  <2>3. QED
    BY <2>1, <2>2 DEF CreatePool
<1>5. QED
  BY <1>2, <1>3, <1>4 DEF Books

\* No other step writes the counters, or completes an assignment.
LEMMA StepBooks == IInv /\ Books /\ [Next]_vars => Books'
<1> SUFFICES ASSUME IInv, Books, [Next]_vars
             PROVE  Books'
  OBVIOUS
<1>0. TypeOK
  BY DEF IInv
<1>1. ASSUME NEW a \in Assigns, UpdatePool(a)
      PROVE  Books'
  BY <1>1, UpdateBooks
<1>2. ASSUME NEW a \in Assigns, CreatePool(a)
      PROVE  Books'
  BY <1>2, CreateBooks
<1>3. CASE UNCHANGED <<nPools, total, available, assigned>> /\ Completed' = Completed
  <2>1. \A p \in PoolIds : assigned'[p] = SumFunctionOnSet(aQty, CompletedOf(p))'
    BY <1>0, <1>3, CompletedSums DEF Books
  <2>2. QED
    BY <1>3, <2>1 DEF Books
<1>4. ASSUME NEW a \in Assigns,
             \/ \E o \in Orgs, q \in Quantities : StartAssign(a, o, q)
             \/ FindPool(a) \/ InsertAssignment(a) \/ AbortAssign(a)
      PROVE  UNCHANGED <<nPools, total, available, assigned>> /\ Completed' = Completed
  BY <1>0, <1>4 DEF StartAssign, FindPool, InsertAssignment, AbortAssign, Completed, TypeOK,
                    AssignTypeOK
<1>5. CASE UNCHANGED <<nPools, total, available, assigned, apc>>
  <2>1. Completed' = Completed
    BY <1>5 DEF Completed
  <2>2. QED
    BY <1>3, <1>5, <2>1
<1>6. QED
  BY <1>1, <1>2, <1>3, <1>4, <1>5
  DEF Next, Assign, Create, vars, RefuseNoFolios, SelectAssignment, ReadPool, IssueInvoice,
      AbortCreate, DeleteAssignments, DeleteOrganization, FixPool, Tick

\* A pool's counters are the sums of the completed assignments, of any number of them:
\* neither a crash between the two writes nor a deleted organization moves them.
THEOREM FoliosPoolBooks == Spec => []PoolBooks
<1>1. TypeOK /\ Books => PoolBooks
  BY FoliosAssumption DEF Books, PoolBooks, TypeOK, PoolTypeOK, PoolIds
<1>2. IInv => TypeOK
  BY DEF IInv
<1>3. Spec => []Books
  BY InitBooks, StepBooks, FoliosInvariant, PTL DEF Spec
<1>4. QED
  BY <1>1, <1>2, <1>3, FoliosInvariant, PTL

-----------------------------------------------------------------------------
(* The ledger.                                                               *)

\* Both initial databases are ledgers without an invoice.
LEMMA LedgerInit == Init => Ledger!Init
<1> SUFFICES ASSUME Init
             PROVE  Ledger!Init
  OBVIOUS
<1>1. rows \subseteq Assigns /\ raced = {}
  BY DEF Init, InitCommon, InitEmpty, InitSeeded
<1>2. Folio = [r \in Creates |-> {}]
  BY DEF Init, InitCommon, Folio
<1>3. Amount \in [Assigns -> Quantities \cup {SeedAmount} \cup {0}]
  <2>1. \A a \in Assigns : apc[a] \in RowMade => aQty[a] = SeedAmount
    BY DEF Init, InitEmpty, InitSeeded, RowMade
  <2>2. QED
    BY <2>1 DEF Amount
<1>4. QED
  BY <1>1, <1>2, <1>3 DEF Ledger!Init

\* A request asks for one of the quantities and sticks to it.
Asked == \A a \in Assigns : apc[a] # "idle" => aQty[a] \in Quantities \cup {SeedAmount}

LEMMA StepAsked == TypeOK /\ Asked /\ [Next]_vars => Asked'
<1> SUFFICES ASSUME TypeOK, Asked, [Next]_vars
             PROVE  Asked'
  OBVIOUS
<1> USE DEF Asked, TypeOK, AssignTypeOK
<1>1. ASSUME NEW a \in Assigns, NEW o \in Orgs, NEW q \in Quantities, StartAssign(a, o, q)
      PROVE  Asked'
  BY <1>1 DEF StartAssign
<1>2. ASSUME NEW a \in Assigns, FindPool(a) \/ CreatePool(a)
      PROVE  Asked'
  BY <1>2 DEF FindPool, CreatePool
<1>3. ASSUME NEW a \in Assigns, InsertAssignment(a) \/ UpdatePool(a) \/ AbortAssign(a)
      PROVE  Asked'
  BY <1>3 DEF InsertAssignment, UpdatePool, AbortAssign
<1>4. CASE UNCHANGED <<apc, aQty>>
  BY <1>4
<1>5. QED
  BY <1>1, <1>2, <1>3, <1>4
  DEF Next, Assign, Create, vars, RefuseNoFolios, SelectAssignment, ReadPool, IssueInvoice,
      AbortCreate, DeleteAssignments, DeleteOrganization, FixPool, Tick

\* The amounts change only where a row is made.
LEMMA AmountStep ==
    ASSUME TypeOK, [Next]_vars, \A a \in Assigns : apc'[a] \in RowMade => apc[a] \in RowMade
    PROVE  Amount' = Amount
<1>1. \A a \in Assigns : apc[a] \in RowMade => apc'[a] \in RowMade /\ aQty'[a] = aQty[a]
  BY MadeRowFixed
<1>2. QED
  BY <1>1 DEF Amount

\* Invoices come only from the transaction of a creation.
LEMMA FolioStep ==
    ASSUME TypeOK, [Next]_vars, \A r \in Creates : cpc'[r] = "issued" => cpc[r] = "issued"
    PROVE  Folio' = Folio
<1>1. \A r \in Creates : cpc[r] = "issued" =>
        cpc'[r] = "issued" /\ cRow'[r] = cRow[r] /\ cSeen'[r] = cSeen[r]
  BY IssuedFixed
<1>2. QED
  BY <1>1 DEF Folio

\* A folio is used in the ledger when an invoice has it.
LEMMA UsedIssued ==
    ASSUME NEW a, NEW i
    PROVE  Ledger!Used(a, i) <=> \E r \in Creates : Issued(r, a) /\ cSeen[r] = i
<1>1. \A r \in Creates : <<a, i>> \in Folio[r] <=> Issued(r, a) /\ cSeen[r] = i
  BY DEF Folio, Issued
<1>2. QED
  BY <1>1 DEF Ledger!Used

\* The insert of an assignment's row is the grant.
LEMMA GrantStep ==
    ASSUME IInv, Asked, [Next]_vars, NEW a \in Assigns, InsertAssignment(a)
    PROVE  [Ledger!Next]_(Ledger!ledger)
<1> USE DEF IInv, TypeOK
<1>1. Folio' = Folio
  BY FolioStep DEF InsertAssignment
<1>2. CASE Insertable(a) /\ rows' = rows \cup {a} /\ apc' = [apc EXCEPT ![a] = "inserted"]
  <2>1. apc[a] = "pool" /\ UNCHANGED <<aQty, raced>>
    BY <1>2 DEF InsertAssignment
  <2>2. a \notin rows /\ Amount[a] = 0
    BY <2>1 DEF HeldFolios, RowsArePlaced, RowMade, Amount
  <2>3. Amount' = [Amount EXCEPT ![a] = aQty[a]]
    BY <1>2, <2>1 DEF Amount, RowMade, AssignTypeOK
  <2>4. aQty[a] \in Quantities \cup {SeedAmount}
    BY <2>1 DEF Asked
  <2>5. Ledger!Grant(a, aQty[a])
    BY <1>1, <1>2, <2>1, <2>2, <2>3 DEF Ledger!Grant
  <2>6. QED
    BY <2>4, <2>5 DEF Ledger!Next
<1>3. CASE UNCHANGED rows /\ apc' = [apc EXCEPT ![a] = "failed"]
  <2>1. UNCHANGED raced
    BY <1>3 DEF InsertAssignment
  <2>2. Amount' = Amount
    BY <1>3, AmountStep DEF AssignTypeOK, RowMade
  <2>3. QED
    BY <1>1, <1>3, <2>1, <2>2 DEF Ledger!ledger
<1>4. QED
  BY <1>2, <1>3 DEF InsertAssignment

\* The transaction of a creation is the issue of the lowest free folio.
LEMMA IssueStep ==
    ASSUME IInv, NEW r \in Creates, IssueInvoice(r)
    PROVE  [Ledger!Next]_(Ledger!ledger)
<1> DEFINE a == cRow[r]
           i == cSeen[r]
<1> USE DEF IInv, TypeOK
<1>1. a \in rows /\ a \in Assigns /\ i \in Nat /\ apc[a] \in RowMade /\ i < aQty[a]
  BY DEF IssueInvoice, HeldFolios, HeldFolioExists, Chose, CreateTypeOK
<1>2. Amount[a] = aQty[a] /\ aQty[a] \in Nat
  BY <1>1 DEF Amount, AssignTypeOK
<1>3. \A j \in 0..(i - 1) : Ledger!Used(a, j)
  <2>1. IssuedBelow(a, i)
    BY DEF IssueInvoice, HeldFolios, HeldFolioIsNext, Chose
  <2>2. QED
    BY <2>1, UsedIssued DEF IssuedBelow
<1>4. Ledger!Used(a, i) => a \in raced
  <2> SUFFICES ASSUME a \notin raced, Ledger!Used(a, i)
               PROVE  FALSE
    OBVIOUS
  <2>1. PICK s \in Creates : Issued(s, a) /\ cSeen[s] = i
    BY UsedIssued
  <2>2. i = consumed[a]
    BY <1>1 DEF IssueInvoice, HeldFolios, HeldAlone, Holds
  <2>3. cSeen[s] < consumed[a]
    BY <1>1, <2>1 DEF ExactUnlessRaced
  <2>4. QED
    BY <1>1, <2>1, <2>2, <2>3
<1>5. Folio[r] = {} /\ Folio' = [Folio EXCEPT ![r] = {<<a, i>>}]
  BY DEF IssueInvoice, Folio, CreateTypeOK
<1>6. UNCHANGED <<rows, raced, Amount>>
  BY DEF IssueInvoice, Amount
<1>7. Ledger!Issue(r, a, i)
  BY <1>1, <1>2, <1>3, <1>4, <1>5, <1>6 DEF Ledger!Issue
<1>8. i \in 0..(Amount[a] - 1)
  BY <1>1, <1>2
<1>9. QED
  BY <1>1, <1>7, <1>8 DEF Ledger!Next

\* Every other step stutters, closes the grants of an organization, or makes one contended.
LEMMA LedgerStep == IInv /\ Asked /\ [Next]_vars => [Ledger!Next]_(Ledger!ledger)
<1> SUFFICES ASSUME IInv, Asked, [Next]_vars
             PROVE  [Ledger!Next]_(Ledger!ledger)
  OBVIOUS
<1>0. TypeOK
  BY DEF IInv
<1>1. ASSUME NEW a \in Assigns, InsertAssignment(a)
      PROVE  [Ledger!Next]_(Ledger!ledger)
  BY <1>1, GrantStep
<1>2. ASSUME NEW r \in Creates, IssueInvoice(r)
      PROVE  [Ledger!Next]_(Ledger!ledger)
  BY <1>2, IssueStep
<1>3. ASSUME NEW a \in Assigns, Assign(a), ~InsertAssignment(a)
      PROVE  [Ledger!Next]_(Ledger!ledger)
  <2>1. UNCHANGED <<rows, raced, cpc, cRow, cSeen>>
    BY <1>3 DEF Assign, StartAssign, FindPool, CreatePool, UpdatePool, AbortAssign
  <2>2. \A b \in Assigns : apc'[b] \in RowMade => apc[b] \in RowMade
    BY <1>0, <1>3 DEF Assign, StartAssign, FindPool, CreatePool, UpdatePool, AbortAssign,
                      RowMade, TypeOK, AssignTypeOK
  <2>3. Amount' = Amount
    BY <1>0, <2>2, AmountStep
  <2>4. Folio' = Folio
    BY <2>1 DEF Folio
  <2>5. QED
    BY <2>1, <2>3, <2>4 DEF Ledger!ledger
<1>4. ASSUME NEW r \in Creates, NEW o \in Orgs, SelectAssignment(r, o)
      PROVE  [Ledger!Next]_(Ledger!ledger)
  <2>1. PICK a \in OpenRows(o) :
          raced' = raced \cup {b \in {a} : \E s \in Creates : Holds(s, b)}
    BY <1>4 DEF SelectAssignment
  <2>2. a \in rows /\ a \in Assigns
    BY <1>0 DEF OpenRows, TypeOK, RowTypeOK
  <2>3. UNCHANGED <<rows, Amount>>
    BY <1>4 DEF SelectAssignment, Amount
  <2>4. Folio' = Folio
    <3>1. \A s \in Creates : cpc'[s] = "issued" => cpc[s] = "issued"
      BY <1>0, <1>4 DEF SelectAssignment, TypeOK, CreateTypeOK
    <3>2. QED
      BY <1>0, <3>1, FolioStep
  <2>5. CASE raced' = raced
    BY <2>3, <2>4, <2>5 DEF Ledger!ledger
  <2>6. CASE raced' = raced \cup {a}
    BY <2>2, <2>3, <2>4, <2>6 DEF Ledger!Contend, Ledger!Next
  <2>7. QED
    BY <2>1, <2>5, <2>6
<1>5. ASSUME NEW r \in Creates,
             (\E o \in Orgs : RefuseNoFolios(r, o)) \/ ReadPool(r) \/ AbortCreate(r)
      PROVE  [Ledger!Next]_(Ledger!ledger)
  <2>1. UNCHANGED <<rows, raced, Amount>>
    BY <1>5 DEF RefuseNoFolios, ReadPool, AbortCreate, Amount
  <2>2. \A s \in Creates : cpc'[s] = "issued" => cpc[s] = "issued"
    BY <1>0, <1>5 DEF RefuseNoFolios, ReadPool, AbortCreate, TypeOK, CreateTypeOK
  <2>3. Folio' = Folio
    BY <1>0, <2>2, FolioStep
  <2>4. QED
    BY <2>1, <2>3 DEF Ledger!ledger
<1>6. ASSUME NEW o \in Orgs, DeleteAssignments(o) \/ DeleteOrganization(o)
      PROVE  [Ledger!Next]_(Ledger!ledger)
  <2>1. rows' = rows \ RowsOf(o) /\ RowsOf(o) \in SUBSET Assigns
    BY <1>0, <1>6 DEF DeleteAssignments, DeleteOrganization, RowsOf, TypeOK, RowTypeOK
  <2>2. UNCHANGED <<raced, Amount, Folio>>
    BY <1>6 DEF DeleteAssignments, DeleteOrganization, Amount, Folio
  <2>3. Ledger!Close(RowsOf(o))
    BY <2>1, <2>2 DEF Ledger!Close
  <2>4. QED
    BY <2>1, <2>3 DEF Ledger!Next
<1>7. CASE UNCHANGED <<rows, apc, aQty, raced, cpc, cRow, cSeen>>
  BY <1>7 DEF Ledger!ledger, Amount, Folio
<1>8. QED
  BY <1>1, <1>2, <1>3, <1>4, <1>5, <1>6, <1>7 DEF Next, Create, vars, FixPool, Tick

\* Whatever overlaps, is rolled back or dies, every run of the handlers is one of the ledger.
THEOREM FoliosImplementLedger == Spec => ImplementsLedger
<1>1. Init => Asked
  BY DEF Init, InitEmpty, InitSeeded, Asked
<1>2. IInv => TypeOK
  BY DEF IInv
<1>3. Spec => []Asked
  BY <1>1, <1>2, StepAsked, FoliosInvariant, PTL DEF Spec
<1>4. Spec => Ledger!Spec
  BY <1>3, LedgerInit, LedgerStep, FoliosInvariant, PTL DEF Spec, Ledger!Spec
<1>5. QED
  BY <1>4 DEF ImplementsLedger

=============================================================================

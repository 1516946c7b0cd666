---------------------------- MODULE TenantsProofs ----------------------------
(***************************************************************************)
(* Proofs about Tenants, for any number of organizations, users, invoices  *)
(* and requests.                                                           *)
(***************************************************************************)
EXTENDS Tenants, TLAPS

\* What requests and organizations keep about names: one being created has a name, one that
\* does not exist yet has none.
NamesSet ==
    /\ \A r \in Requests : pc[r] \in {"slug", "insert"} => rName[r] # NoName
    /\ \A o \in Orgs : org[o] = "none" => name[o] = NoName

\* A request that is alone is the only one about to give its name, which nobody has.
AloneInv ==
    \A r \in alone :
        /\ Naming(r)
        /\ \A q \in Requests \ {r} : Naming(q) => rName[q] # rName[r]
        /\ rName[r] = NoName \/ ~Taken(rName[r])

\* A request other than a creation is about an organization.
HasOrg ==
    \A r \in Requests : pc[r] \in {"rename", "items", "invoices", "users", "org"} => rOrg[r] \in Orgs

NameInv == NamesSet /\ AloneInv /\ NamesDistinct

-----------------------------------------------------------------------------
(* Types and keys                                                            *)

\* The types and the keys are established by Init.
LEMMA InitTypeOK == Init => TypeOK
  BY TenantsAssumption DEF Init, TypeOK, Live, Alive

\* Naming an organization keeps the types and the keys.
LEMMA NameTypeStep ==
  ASSUME TypeOK, NEW r \in Requests, NameStep(r)
  PROVE  TypeOK'
<1> USE TenantsAssumption DEF TypeOK, orgVars, userVars, invoiceVars, nameHistory, Live, Alive
<1>1. ASSUME NEW n \in Names, StartCreate(r, n) PROVE TypeOK'
  BY <1>1 DEF StartCreate, About, Go
<1>2. CASE FindSlug(r)
  BY <1>2 DEF FindSlug, Go
<1>3. CASE InsertOrg(r)
  <2>1. UNCHANGED <<user, uOrg, session, owners, invoice, vOrg, author, damaged>>
    BY <1>3 DEF InsertOrg
  <2>2. /\ pc' \in [Requests -> {"idle", "slug", "insert", "rename", "items", "invoices",
                                 "users", "org"}]
        /\ rOrg' \in [Requests -> Orgs \cup {None}]
        /\ rName' \in [Requests -> Names \cup {NoName}]
        /\ rTry' \in [Requests -> Nat]
        /\ late' \in [Requests -> SUBSET Invoices]
        /\ alone' \subseteq Requests
    BY <1>3 DEF InsertOrg, End, Go
  <2>3. /\ org' \in [Orgs -> {"none", "live", "gone"}]
        /\ name' \in [Orgs -> Names \cup {NoName}]
        /\ slug' \in [Orgs -> (Names \cup {NoName}) \X Nat]
        /\ loose' \subseteq Orgs
        /\ \A o \in Orgs : Live(o) => Live(o)'
    <3>1. CASE UNCHANGED <<org, name, slug, loose>>
      BY <3>1
    <3>2. ASSUME NEW o \in Orgs, org[o] = "none",
                 org' = [org EXCEPT ![o] = "live"],
                 slug' = [slug EXCEPT ![o] = <<rName[r], rTry[r]>>],
                 Name(r, o, rName[r])
          PROVE  /\ org' \in [Orgs -> {"none", "live", "gone"}]
                 /\ name' \in [Orgs -> Names \cup {NoName}]
                 /\ slug' \in [Orgs -> (Names \cup {NoName}) \X Nat]
                 /\ loose' \subseteq Orgs
                 /\ \A p \in Orgs : Live(p) => Live(p)'
      BY <3>2 DEF Name
    <3> QED  BY <1>3, <3>1, <3>2 DEF InsertOrg
  <2> QED  BY <2>1, <2>2, <2>3
<1>4. ASSUME NEW o \in Orgs, NEW n \in Names \cup {NoName}, StartRename(r, o, n) PROVE TypeOK'
  BY <1>4 DEF StartRename, About, Go
<1>5. CASE Rename(r)
  BY <1>5 DEF Rename, Name, End, Go
<1> QED  BY <1>1, <1>2, <1>3, <1>4, <1>5 DEF NameStep

\* So does deleting one: what refers to it or to its users is deleted first or with it, or
\* nothing is.
LEMMA DeletionTypeStep ==
  ASSUME TypeOK, HasOrg, NEW r \in Requests, Deletion(r) \/ Abort(r)
  PROVE  TypeOK'
<1> USE TenantsAssumption DEF TypeOK, orgVars, userVars, invoiceVars, nameHistory, Live, Alive
<1>1. ASSUME NEW o \in Orgs, StartDeletion(r, o) PROVE TypeOK'
  BY <1>1 DEF StartDeletion, Go
<1>2. CASE DeleteItems(r)
  BY <1>2 DEF DeleteItems, InvoicesOf, Go
<1>3. CASE DeleteInvoices(r)
  BY <1>3 DEF DeleteInvoices, InvoicesOf, Go
<1>4. CASE DeleteUsers(r)
  <2>1. /\ UNCHANGED <<org, name, slug, uOrg, session, owners, invoice, vOrg, author>>
        /\ UNCHANGED <<damaged, alone, loose>>
        /\ pc' \in [Requests -> {"idle", "slug", "insert", "rename", "items", "invoices",
                                 "users", "org"}]
        /\ rOrg' \in [Requests -> Orgs \cup {None}]
        /\ rName' \in [Requests -> Names \cup {NoName}]
        /\ rTry' \in [Requests -> Nat]
        /\ late' \in [Requests -> SUBSET Invoices]
    <3>1. CASE End(r)
      BY <1>4, <3>1 DEF DeleteUsers, End, Go
    <3>2. CASE /\ Go(r, "org") /\ UNCHANGED <<rOrg, rName, rTry>>
               /\ late' = [late EXCEPT ![r] = {}]
      BY <1>4, <3>2 DEF DeleteUsers, Go
    <3> QED  BY <1>4, <3>1, <3>2 DEF DeleteUsers
  <2>2. CASE user' = user
    BY <2>1, <2>2
  <2>3. CASE user' # user
    <3>1. /\ user' = [u \in Users |-> IF u \in UsersOf(rOrg[r]) THEN "gone" ELSE user[u]]
          /\ \A u \in UsersOf(rOrg[r]) : ~Referenced(u)
      BY <1>4, <2>3 DEF DeleteUsers, Remove
    <3> QED  BY <2>1, <3>1 DEF UsersOf, Referenced
  <2> QED  BY <2>2, <2>3
<1>5. CASE DeleteOrg(r)
  <2>1. /\ UNCHANGED <<name, slug, uOrg, session, owners, vOrg, author, damaged, alone, loose>>
        /\ pc' \in [Requests -> {"idle", "slug", "insert", "rename", "items", "invoices",
                                 "users", "org"}]
        /\ rOrg' \in [Requests -> Orgs \cup {None}]
        /\ rName' \in [Requests -> Names \cup {NoName}]
        /\ rTry' \in [Requests -> Nat]
        /\ late' \in [Requests -> SUBSET Invoices]
    BY <1>5 DEF DeleteOrg, End, Go
  <2>2. CASE UNCHANGED <<org, user, invoice>>
    BY <2>1, <2>2
  <2>3. CASE ~UNCHANGED <<org, user, invoice>>
    <3>1. /\ org' = [org EXCEPT ![rOrg[r]] = "gone"]
          /\ user' = [u \in Users |-> IF u \in UsersOf(rOrg[r]) THEN "gone" ELSE user[u]]
          /\ invoice' = [v \in Invoices |-> IF v \in InvoicesOf(rOrg[r]) THEN "gone"
                                                                         ELSE invoice[v]]
          /\ \A u \in UsersOf(rOrg[r]) :
               u \notin owners /\ \A v \in Invoices \ InvoicesOf(rOrg[r]) :
                                     ~(Alive(v) /\ author[v] = u)
      BY <1>5, <2>3 DEF DeleteOrg, Remove
    <3> QED  BY <2>1, <3>1 DEF UsersOf, InvoicesOf
  <2> QED  BY <2>2, <2>3
<1>6. CASE Abort(r)
  <2>1. damaged' \subseteq Orgs
    BY <1>6 DEF Abort, HasOrg
  <2> QED  BY <1>6, <2>1 DEF Abort, End, Go
<1> QED  BY <1>1, <1>2, <1>3, <1>4, <1>5, <1>6 DEF Deletion

\* ... and what users and administrators do.
LEMMA UserTypeStep ==
  ASSUME TypeOK,
         \/ \E u \in Users : UserStep(u)
         \/ \E o \in Orgs, n \in Names : RenameOwn(o, n)
         \/ \E v \in Invoices : DeleteInvoice(v)
  PROVE  TypeOK'
<1> USE TenantsAssumption
    DEF TypeOK, orgVars, userVars, invoiceVars, requestVars, nameHistory, Live, Alive
<1>1. ASSUME NEW u \in Users, NEW o \in Orgs, CreateUser(u, o) PROVE TypeOK'
  BY <1>1 DEF CreateUser
<1>2. ASSUME NEW u \in Users, NEW o \in Orgs, MoveUser(u, o) PROVE TypeOK'
  BY <1>2 DEF MoveUser
<1>3. ASSUME NEW u \in Users, Login(u) \/ CreateMonitor(u) PROVE TypeOK'
  BY <1>3 DEF Login, CreateMonitor
<1>4. ASSUME NEW u \in Users, DeleteUser(u) PROVE TypeOK'
  BY <1>4 DEF DeleteUser, Referenced
<1>5. ASSUME NEW u \in Users, NEW v \in Invoices, CreateInvoice(v, u) PROVE TypeOK'
  BY <1>5 DEF CreateInvoice
<1>6. ASSUME NEW o \in Orgs, NEW n \in Names, RenameOwn(o, n) PROVE TypeOK'
  BY <1>6 DEF RenameOwn
<1>7. ASSUME NEW v \in Invoices, DeleteInvoice(v) PROVE TypeOK'
  BY <1>7 DEF DeleteInvoice
<1> QED  BY <1>1, <1>2, <1>3, <1>4, <1>5, <1>6, <1>7 DEF UserStep

\* Every step preserves the types and the keys.
LEMMA TypeStep == TypeOK /\ HasOrg /\ [Next]_vars => TypeOK'
<1> SUFFICES ASSUME TypeOK, HasOrg, [Next]_vars PROVE TypeOK'  OBVIOUS
<1>1. CASE UNCHANGED vars
  BY <1>1 DEF vars, orgVars, userVars, invoiceVars, requestVars, nameHistory, TypeOK, Live, Alive
<1> QED  BY <1>1, NameTypeStep, DeletionTypeStep, UserTypeStep DEF Next

-----------------------------------------------------------------------------
(* What a step leaves alone                                                  *)

\* A request changes nothing of another one, except who is alone.
LEMMA RequestFrame ==
  ASSUME TypeOK, NEW r \in Requests, NameStep(r) \/ Deletion(r) \/ Abort(r)
  PROVE  \A q \in Requests \ {r} :
            pc'[q] = pc[q] /\ rOrg'[q] = rOrg[q] /\ rName'[q] = rName[q] /\ late'[q] = late[q]
<1> USE DEF TypeOK
<1>1. CASE \E n \in Names : StartCreate(r, n)
  BY <1>1 DEF StartCreate, Go
<1>2. CASE FindSlug(r)
  BY <1>2 DEF FindSlug, Go
<1>3. CASE InsertOrg(r) \/ Rename(r) \/ Abort(r) \/ DeleteOrg(r)
  BY <1>3 DEF InsertOrg, Rename, Abort, DeleteOrg, End, Go
<1>4. CASE \E o \in Orgs, n \in Names \cup {NoName} : StartRename(r, o, n)
  BY <1>4 DEF StartRename, Go
<1>5. CASE (\E o \in Orgs : StartDeletion(r, o)) \/ DeleteItems(r) \/ DeleteInvoices(r)
  BY <1>5 DEF StartDeletion, DeleteItems, DeleteInvoices, Go
<1>6. CASE DeleteUsers(r)
  BY <1>6 DEF DeleteUsers, End, Go
<1> QED  BY <1>1, <1>2, <1>3, <1>4, <1>5, <1>6 DEF NameStep, Deletion

\* Users and the administrators of organizations change nothing of a request but the
\* invoices that come late for it, and who is alone.
LEMMA UserFrame ==
  ASSUME TypeOK,
         \/ \E u \in Users : UserStep(u)
         \/ \E o \in Orgs, n \in Names : RenameOwn(o, n)
         \/ \E v \in Invoices : DeleteInvoice(v)
  PROVE  UNCHANGED <<org, pc, rOrg, rName, rTry, damaged>>
BY DEF UserStep, CreateUser, MoveUser, Login, CreateMonitor, DeleteUser, CreateInvoice,
       RenameOwn, DeleteInvoice, orgVars, requestVars

\* A step keeps the organization of every request.
LEMMA HasOrgStep == TypeOK /\ HasOrg /\ [Next]_vars => HasOrg'
<1> SUFFICES ASSUME TypeOK, HasOrg, [Next]_vars PROVE HasOrg'  OBVIOUS
<1> USE DEF TypeOK
<1>1. CASE UNCHANGED vars
  BY <1>1 DEF vars, requestVars, HasOrg
<1>2. ASSUME NEW r \in Requests, NameStep(r) \/ Deletion(r) \/ Abort(r) PROVE HasOrg'
  <2>1. pc'[r] \in {"rename", "items", "invoices", "users", "org"} => rOrg'[r] \in Orgs
    <3>1. CASE (\E n \in Names : StartCreate(r, n)) \/ FindSlug(r)
      BY <3>1 DEF StartCreate, FindSlug, Go
    <3>2. CASE InsertOrg(r) \/ Rename(r) \/ Abort(r) \/ DeleteOrg(r)
      BY <3>2 DEF InsertOrg, Rename, Abort, DeleteOrg, End, Go
    <3>3. CASE \/ \E o \in Orgs, n \in Names \cup {NoName} : StartRename(r, o, n)
               \/ \E o \in Orgs : StartDeletion(r, o)
      BY <3>3 DEF StartRename, StartDeletion
    <3>4. CASE DeleteItems(r) \/ DeleteInvoices(r)
      BY <3>4 DEF DeleteItems, DeleteInvoices, HasOrg
    <3>5. CASE DeleteUsers(r)
      BY <3>5 DEF DeleteUsers, End, Go, HasOrg
    <3> QED  BY <1>2, <3>1, <3>2, <3>3, <3>4, <3>5 DEF NameStep, Deletion
  <2> QED  BY <1>2, <2>1, RequestFrame DEF HasOrg
<1> QED  BY <1>1, <1>2, UserFrame DEF Next, HasOrg

-----------------------------------------------------------------------------
(* Deletions                                                                 *)

\* A step keeps the causes of an unfinished deletion.
LEMMA DamageStep == TypeOK /\ HasOrg /\ DeletionDamage /\ [Next]_vars => DeletionDamage'
<1> SUFFICES ASSUME TypeOK, HasOrg, DeletionDamage, [Next]_vars PROVE DeletionDamage'  OBVIOUS
<1> USE DEF TypeOK
<1>1. ASSUME UNCHANGED <<vOrg, pc, rOrg, damaged>>,
             \A v \in Invoices : invoice'[v] # "gone" => invoice'[v] = invoice[v],
             \A r \in Requests : late'[r] = late[r]
      PROVE  DeletionDamage'
  <2>1. WholeUnlessDeleted'
    BY <1>1 DEF DeletionDamage, WholeUnlessDeleted
  <2>2. OnlyTheseStop'
    BY <1>1 DEF DeletionDamage, OnlyTheseStop, InvoicesOf, Alive
  <2> QED  BY <2>1, <2>2 DEF DeletionDamage
<1>2. CASE UNCHANGED vars
  BY <1>1, <1>2 DEF vars, invoiceVars, requestVars
<1>3. ASSUME NEW r \in Requests, NameStep(r) \/ Deletion(r) \/ Abort(r) PROVE DeletionDamage'
  <2>1. \A q \in Requests \ {r} : pc'[q] = pc[q] /\ rOrg'[q] = rOrg[q] /\ late'[q] = late[q]
    BY <1>3, RequestFrame
  <2>2. ASSUME UNCHANGED <<vOrg, damaged>>, pc[r] # "invoices", pc'[r] # "users",
               \A v \in Invoices : invoice'[v] # "gone" => invoice'[v] = invoice[v]
        PROVE  DeletionDamage'
    <3>1. WholeUnlessDeleted'
      <4> SUFFICES ASSUME NEW v \in Invoices, invoice'[v] = "torn", vOrg[v] \notin damaged
                   PROVE  \E q \in Requests : pc'[q] = "invoices" /\ rOrg'[q] = vOrg[v]
        BY <2>2 DEF WholeUnlessDeleted
      <4>1. invoice[v] = "torn"
        BY <2>2
      <4>2. PICK q \in Requests : pc[q] = "invoices" /\ rOrg[q] = vOrg[v]
        BY <4>1 DEF DeletionDamage, WholeUnlessDeleted
      <4> QED  BY <2>1, <2>2, <4>2
    <3>2. OnlyTheseStop'
      BY <2>1, <2>2 DEF DeletionDamage, OnlyTheseStop, InvoicesOf, Alive
    <3> QED  BY <3>1, <3>2 DEF DeletionDamage
  <2>3. CASE NameStep(r)
    BY <2>2, <2>3 DEF NameStep, StartCreate, FindSlug, InsertOrg, StartRename, Rename, End, Go,
                      invoiceVars
  <2>4. CASE \E o \in Orgs : StartDeletion(r, o)
    BY <2>2, <2>4 DEF StartDeletion, Go, invoiceVars
  <2>5. CASE DeleteItems(r)
    <3>1. /\ UNCHANGED <<vOrg, damaged, rOrg>> /\ pc'[r] = "invoices" /\ rOrg[r] \in Orgs
          /\ invoice' = [v \in Invoices |-> IF v \in InvoicesOf(rOrg[r]) THEN "torn"
                                                                         ELSE invoice[v]]
          /\ pc[r] = "items"
      BY <2>5 DEF DeleteItems, Go, HasOrg
    <3>2. WholeUnlessDeleted'
      BY <2>1, <3>1 DEF DeletionDamage, WholeUnlessDeleted, InvoicesOf
    <3>3. \A o \in Orgs : InvoicesOf(o)' = InvoicesOf(o)
      BY <3>1 DEF InvoicesOf, Alive
    <3>4. OnlyTheseStop'
      BY <2>1, <3>1, <3>3 DEF DeletionDamage, OnlyTheseStop, HasOrg
    <3> QED  BY <3>2, <3>4 DEF DeletionDamage
  <2>6. CASE DeleteInvoices(r)
    <3>1. /\ UNCHANGED <<vOrg, damaged, rOrg, late>> /\ pc[r] = "invoices" /\ pc'[r] = "users"
          /\ invoice' = [v \in Invoices |-> IF v \in InvoicesOf(rOrg[r]) THEN "gone"
                                                                         ELSE invoice[v]]
      BY <2>6 DEF DeleteInvoices, Go
    <3>2. WholeUnlessDeleted'
      BY <2>1, <3>1 DEF DeletionDamage, WholeUnlessDeleted, InvoicesOf, Alive
    <3>3. OnlyTheseStop'
      BY <2>1, <3>1 DEF DeletionDamage, OnlyTheseStop, InvoicesOf, Alive
    <3> QED  BY <3>2, <3>3 DEF DeletionDamage
  <2>7. CASE DeleteUsers(r)
    <3>1. pc[r] = "users" /\ pc'[r] \in {"idle", "org"}
      BY <2>7 DEF DeleteUsers, End, Go
    <3> QED  BY <2>2, <2>7, <3>1 DEF DeleteUsers, invoiceVars
  <2>8. CASE DeleteOrg(r)
    <3>1. \A v \in Invoices : invoice'[v] # "gone" => invoice'[v] = invoice[v]
      BY <2>8 DEF DeleteOrg
    <3>2. pc[r] = "org" /\ pc'[r] = "idle" /\ UNCHANGED <<vOrg, damaged>>
      BY <2>8 DEF DeleteOrg, End, Go
    <3> QED  BY <2>2, <3>1, <3>2
  <2>9. CASE Abort(r)
    <3>1. /\ pc'[r] = "idle" /\ UNCHANGED <<invoice, vOrg>> /\ damaged \subseteq damaged'
          /\ pc[r] = "invoices" => rOrg[r] \in damaged'
      BY <2>9 DEF Abort, End, Go, invoiceVars
    <3>2. WholeUnlessDeleted'
      BY <2>1, <3>1 DEF DeletionDamage, WholeUnlessDeleted
    <3>3. OnlyTheseStop'
      BY <2>1, <3>1 DEF DeletionDamage, OnlyTheseStop, InvoicesOf, Alive
    <3> QED  BY <3>2, <3>3 DEF DeletionDamage
  <2> QED  BY <1>3, <2>3, <2>4, <2>5, <2>6, <2>7, <2>8, <2>9 DEF Deletion
<1>4. ASSUME NEW u \in Users, NEW v \in Invoices, CreateInvoice(v, u) PROVE DeletionDamage'
  <2>1. /\ UNCHANGED <<pc, rOrg, damaged>> /\ invoice[v] = "none"
        /\ invoice' = [invoice EXCEPT ![v] = "whole"]
        /\ vOrg' = [vOrg EXCEPT ![v] = session[u]]
        /\ late' = [r \in Requests |-> IF pc[r] = "users" /\ rOrg[r] = session[u]
                                       THEN late[r] \cup {v} ELSE late[r]]
    BY <1>4 DEF CreateInvoice
  <2>2. WholeUnlessDeleted'
    BY <2>1 DEF DeletionDamage, WholeUnlessDeleted
  <2>3. OnlyTheseStop'
    BY <2>1 DEF DeletionDamage, OnlyTheseStop, InvoicesOf, Alive
  <2> QED  BY <2>2, <2>3 DEF DeletionDamage
<1>5. ASSUME NEW v \in Invoices, DeleteInvoice(v) PROVE DeletionDamage'
  BY <1>1, <1>5 DEF DeleteInvoice, requestVars
<1>6. ASSUME NEW u \in Users, NEW o \in Orgs,
             CreateUser(u, o) \/ MoveUser(u, o)
      PROVE  DeletionDamage'
  BY <1>1, <1>6 DEF CreateUser, MoveUser, invoiceVars, requestVars
<1>7. ASSUME NEW u \in Users, Login(u) \/ CreateMonitor(u) \/ DeleteUser(u) PROVE DeletionDamage'
  BY <1>1, <1>7 DEF Login, CreateMonitor, DeleteUser, invoiceVars, requestVars
<1>8. ASSUME NEW o \in Orgs, NEW n \in Names, RenameOwn(o, n) PROVE DeletionDamage'
  BY <1>1, <1>8 DEF RenameOwn, invoiceVars, requestVars
<1> QED  BY <1>2, <1>3, <1>4, <1>5, <1>6, <1>7, <1>8 DEF Next, UserStep

-----------------------------------------------------------------------------
(* Names                                                                     *)

\* Giving its name to an organization that is live, or to the new one, keeps names distinct:
\* a request that is alone gives one nobody has, the others are accounted for.
LEMMA GivingAName ==
  ASSUME TypeOK, NameInv, NEW r \in Requests, Naming(r), NEW o \in Orgs,
         Live(o) \/ (org[o] = "none" /\ rName[r] # NoName),
         Name(r, o, rName[r]),
         \A p \in Orgs \ {o} : org'[p] = org[p],
         alone' = alone \ {r}, pc' = [pc EXCEPT ![r] = "idle"],
         \A q \in Requests \ {r} : rName'[q] = rName[q]
  PROVE  NamesDistinct' /\ AloneInv'
<1> USE DEF TypeOK
<1>1. name' = [name EXCEPT ![o] = rName[r]]
  BY DEF Name
<1>2. NamesDistinct'
  <2>1. CASE r \in alone
    <3>1. loose' = loose \ {o} /\ (rName[r] = NoName \/ ~Taken(rName[r]))
      BY <2>1 DEF Name, NameInv, AloneInv
    <3> QED  BY <1>1, <3>1 DEF NameInv, NamesDistinct, Taken, Live
  <2>2. CASE r \notin alone /\ name[o] = rName[r]
    <3>1. name' = name /\ loose' = loose /\ Live(o)
      BY <1>1, <2>2 DEF Name, NameInv, NamesSet
    <3> QED  BY <3>1 DEF NameInv, NamesDistinct, Live
  <2>3. CASE r \notin alone /\ name[o] # rName[r]
    <3>1. loose' = loose \cup {o}
      BY <2>3 DEF Name
    <3> QED  BY <1>1, <3>1 DEF NameInv, NamesDistinct, Live
  <2> QED  BY <2>1, <2>2, <2>3
<1>3. AloneInv'
  <2> SUFFICES ASSUME NEW q \in alone \ {r}
               PROVE  /\ Naming(q)'
                      /\ \A t \in Requests \ {q} : Naming(t)' => rName'[t] # rName'[q]
                      /\ rName'[q] = NoName \/ ~Taken(rName[q])'
    BY DEF AloneInv
  <2>1. /\ q \in Requests \ {r} /\ rName'[q] = rName[q] /\ rName[q] # rName[r]
        /\ Naming(q) /\ (rName[q] = NoName \/ ~Taken(rName[q]))
    BY DEF NameInv, AloneInv
  <2>2. Naming(q)' /\ \A t \in Requests \ {q} : Naming(t)' => rName'[t] # rName'[q]
    <3>1. ~Naming(r)' /\ \A t \in Requests \ {r} : Naming(t)' <=> Naming(t)
      BY DEF Naming
    <3> QED  BY <2>1, <3>1 DEF NameInv, AloneInv
  <2>3. rName'[q] = NoName \/ ~Taken(rName[q])'
    BY <1>1, <2>1 DEF Taken, Live
  <2> QED  BY <2>2, <2>3
<1> QED  BY <1>2, <1>3

\* A request that begins to name is alone only if it has checked and nobody else is about to
\* give the same name.
LEMMA BeginningToName ==
  ASSUME TypeOK, NameInv, NEW r \in Requests, pc[r] = "idle", NEW n \in Names \cup {NoName},
         NEW checked \in BOOLEAN, checked => n = NoName \/ ~Taken(n),
         About(r, n, checked),
         NEW l \in {"slug", "rename"}, l = "slug" => n # NoName,
         Go(r, l), rName' = [rName EXCEPT ![r] = n],
         UNCHANGED <<org, name, loose>>
  PROVE  NameInv'
<1> USE DEF TypeOK
<1>1. NamesSet'
  BY DEF NameInv, NamesSet, Go
<1>2. NamesDistinct'
  BY DEF NameInv, NamesDistinct, Live
<1>3. AloneInv'
  <2> DEFINE others == {q \in Requests : Naming(q) /\ rName[q] = n}
  <2>1. r \notin alone /\ Naming(r)' /\ rName'[r] = n
    BY DEF NameInv, AloneInv, Naming, Go
  <2>2. \A q \in Requests \ {r} : (Naming(q)' <=> Naming(q)) /\ rName'[q] = rName[q]
    BY DEF Naming, Go
  <2>3. \A m : Taken(m)' <=> Taken(m)
    BY DEF Taken, Live
  <2>4. CASE others = {} /\ checked
    <3>1. alone' = alone \cup {r}
      BY <2>4 DEF About
    <3> QED  BY <2>1, <2>2, <2>3, <2>4, <3>1 DEF NameInv, AloneInv
  <2>5. CASE ~(others = {} /\ checked)
    <3>1. alone' = alone \ (others \cup {r})
      BY <2>5 DEF About
    <3> QED  BY <2>1, <2>2, <2>3, <3>1 DEF NameInv, AloneInv
  <2> QED  BY <2>4, <2>5
<1> QED  BY <1>1, <1>2, <1>3 DEF NameInv

\* A step keeps the account of names.
LEMMA NameInvStep == TypeOK /\ HasOrg /\ NameInv /\ [Next]_vars => NameInv'
<1> SUFFICES ASSUME TypeOK, HasOrg, NameInv, [Next]_vars PROVE NameInv'  OBVIOUS
<1> USE TenantsAssumption DEF TypeOK
<1>1. ASSUME UNCHANGED <<org, name, loose, pc, rName, alone>> PROVE NameInv'
  BY <1>1 DEF NameInv, NamesSet, AloneInv, Naming, Taken, NamesDistinct, Live
<1>2. CASE UNCHANGED vars
  BY <1>1, <1>2 DEF vars, orgVars, requestVars, nameHistory
<1>3. ASSUME NEW r \in Requests, NEW n \in Names, StartCreate(r, n) PROVE NameInv'
  BY <1>3, BeginningToName DEF StartCreate, orgVars
<1>4. ASSUME NEW r \in Requests, FindSlug(r) PROVE NameInv'
  <2>1. /\ pc[r] = "slug" /\ pc'[r] \in {"slug", "insert"}
        /\ \A q \in Requests \ {r} : pc'[q] = pc[q]
        /\ UNCHANGED <<org, name, loose, rName, alone>>
    BY <1>4 DEF FindSlug, Go, orgVars, nameHistory
  <2> QED  BY <2>1 DEF NameInv, NamesSet, AloneInv, Naming, Taken, NamesDistinct, Live
<1>5. ASSUME NEW r \in Requests, InsertOrg(r) \/ Rename(r) PROVE NameInv'
  <2>1. /\ Naming(r) /\ alone' = alone \ {r} /\ pc' = [pc EXCEPT ![r] = "idle"]
        /\ \A q \in Requests \ {r} : rName'[q] = rName[q]
    BY <1>5 DEF InsertOrg, Rename, End, Go, Naming
  <2>2. CASE UNCHANGED <<org, name, loose>>
    BY <2>1, <2>2 DEF NameInv, NamesSet, AloneInv, Naming, Taken, NamesDistinct, Live
  <2>3. ASSUME NEW o \in Orgs, Name(r, o, rName[r]),
               Live(o) \/ (org[o] = "none" /\ rName[r] # NoName),
               org'[o] = "live", \A p \in Orgs \ {o} : org'[p] = org[p]
        PROVE  NameInv'
    <3>1. NamesDistinct' /\ AloneInv'
      BY <2>1, <2>3, GivingAName
    <3>2. NamesSet'
      BY <2>1, <2>3 DEF NameInv, NamesSet, Name
    <3> QED  BY <3>1, <3>2 DEF NameInv
  <2>4. CASE InsertOrg(r)
    <3>1. rName[r] # NoName
      BY <2>4 DEF InsertOrg, NameInv, NamesSet
    <3> QED  BY <2>2, <2>3, <2>4, <3>1 DEF InsertOrg, orgVars
  <2>5. CASE Rename(r)
    BY <2>2, <2>3, <2>5 DEF Rename, HasOrg, Live
  <2> QED  BY <1>5, <2>4, <2>5
<1>6. ASSUME NEW r \in Requests, NEW o \in Orgs, NEW n \in Names \cup {NoName},
             StartRename(r, o, n)
      PROVE  NameInv'
  BY <1>6, BeginningToName DEF StartRename, orgVars
<1>7. ASSUME NEW r \in Requests, Deletion(r) \/ Abort(r) PROVE NameInv'
  <2>1. /\ UNCHANGED <<name, loose>>
        /\ \A o \in Orgs : org'[o] = org[o] \/ org'[o] = "gone"
        /\ ~Naming(r)'
        /\ \/ alone' = alone /\ ~Naming(r)
           \/ alone' = alone \ {r}
    <3>1. CASE Abort(r)
      BY <3>1 DEF Abort, End, Go, Naming, orgVars
    <3>2. CASE \E o \in Orgs : StartDeletion(r, o)
      BY <3>2 DEF StartDeletion, Go, Naming, orgVars, nameHistory
    <3>3. CASE DeleteItems(r) \/ DeleteInvoices(r)
      BY <3>3 DEF DeleteItems, DeleteInvoices, Go, Naming, orgVars, nameHistory
    <3>4. CASE DeleteUsers(r)
      <4>1. pc[r] = "users" /\ pc'[r] \in {"idle", "org"}
        BY <3>4 DEF DeleteUsers, End, Go
      <4> QED  BY <3>4, <4>1 DEF DeleteUsers, Naming, orgVars, nameHistory
    <3>5. CASE DeleteOrg(r)
      <4>1. pc[r] = "org" /\ pc'[r] = "idle" /\ UNCHANGED <<name, alone, loose>>
        BY <3>5 DEF DeleteOrg, End, Go, nameHistory
      <4>2. \A o \in Orgs : org'[o] = org[o] \/ org'[o] = "gone"
        BY <3>5 DEF DeleteOrg
      <4> QED  BY <4>1, <4>2 DEF Naming
    <3> QED  BY <1>7, <3>1, <3>2, <3>3, <3>4, <3>5 DEF Deletion
  <2>2. \A q \in Requests \ {r} : pc'[q] = pc[q] /\ rName'[q] = rName[q]
    BY <1>7, RequestFrame
  <2>3. NamesSet'
    BY <2>1, <2>2 DEF NameInv, NamesSet, Naming
  <2>4. NamesDistinct'
    BY <2>1 DEF NameInv, NamesDistinct, Live
  <2>5. AloneInv'
    <3>1. r \notin alone'
      BY <2>1 DEF NameInv, AloneInv
    <3>2. \A m : Taken(m)' => Taken(m)
      BY <2>1 DEF Taken, Live
    <3>3. \A q \in Requests \ {r} : Naming(q)' <=> Naming(q)
      BY <2>2 DEF Naming
    <3> QED  BY <2>1, <2>2, <3>1, <3>2, <3>3 DEF NameInv, AloneInv
  <2> QED  BY <2>3, <2>4, <2>5 DEF NameInv
<1>8. ASSUME NEW u \in Users, UserStep(u) PROVE NameInv'
  BY <1>1, <1>8 DEF UserStep, CreateUser, MoveUser, Login, CreateMonitor, DeleteUser,
                    CreateInvoice, orgVars, requestVars, nameHistory
<1>9. ASSUME NEW o \in Orgs, NEW n \in Names, RenameOwn(o, n) PROVE NameInv'
  <2>1. /\ name' = [name EXCEPT ![o] = n] /\ loose' = loose \cup {o} /\ Live(o)
        /\ alone' = {r \in alone : rName[r] # n}
        /\ UNCHANGED <<org, pc, rName>>
    BY <1>9 DEF RenameOwn, requestVars
  <2>2. NamesSet' /\ NamesDistinct'
    BY <2>1 DEF NameInv, NamesSet, NamesDistinct, Live
  <2>3. AloneInv'
    BY <2>1 DEF NameInv, AloneInv, Naming, Taken, Live
  <2> QED  BY <2>2, <2>3 DEF NameInv
<1>10. ASSUME NEW v \in Invoices, DeleteInvoice(v) PROVE NameInv'
  BY <1>1, <1>10 DEF DeleteInvoice, orgVars, requestVars, nameHistory
<1> QED
  BY <1>2, <1>3, <1>4, <1>5, <1>6, <1>7, <1>8, <1>9, <1>10 DEF Next, NameStep

-----------------------------------------------------------------------------
(* Theorems                                                                  *)

IInv == TypeOK /\ HasOrg /\ DeletionDamage /\ NameInv

\* The invariant holds throughout.
LEMMA Invariance == Spec => []IInv
<1>1. Init => IInv
  <2> SUFFICES ASSUME Init PROVE IInv  OBVIOUS
  <2>1. TypeOK
    BY InitTypeOK
  <2>2. HasOrg /\ DeletionDamage
    BY DEF Init, HasOrg, DeletionDamage, WholeUnlessDeleted, OnlyTheseStop
  <2>3. NameInv
    BY DEF Init, NameInv, NamesSet, AloneInv, NamesDistinct, Live
  <2> QED  BY <2>1, <2>2, <2>3 DEF IInv
<1>2. IInv /\ [Next]_vars => IInv'
  BY TypeStep, HasOrgStep, DamageStep, NameInvStep DEF IInv
<1> QED  BY <1>1, <1>2, PTL DEF Spec

\* Types and foreign keys hold throughout: no live user without a live organization, no
\* invoice without a live one and a live author, whoever is deleted meanwhile.
THEOREM TenantsTypeOK == Spec => []TypeOK
<1>1. IInv => TypeOK  BY DEF IInv
<1> QED  BY <1>1, Invariance, PTL

\* Two live organizations share a name only if a request that was not alone, or did not
\* check, named one of them.
THEOREM NamesAreDistinct == Spec => []NamesDistinct
<1>1. IInv => NamesDistinct  BY DEF IInv, NameInv
<1> QED  BY <1>1, Invariance, PTL

\* What an unfinished deletion of an organization leaves behind has the known causes only.
THEOREM DamageIsBounded == Spec => []DeletionDamage
<1>1. IInv => DeletionDamage  BY DEF IInv
<1> QED  BY <1>1, Invariance, PTL

=============================================================================

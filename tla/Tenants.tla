------------------------------- MODULE Tenants -------------------------------
(***************************************************************************)
(* Organizations, their users and what hangs on both.  A super admin       *)
(* creates, renames and deletes organizations, creates and moves users and *)
(* deletes them; users issue invoices for the organization they belonged   *)
(* to when they logged in, and super admins create monitors.  Deleting an  *)
(* organization is a list of statements without a transaction; the foreign *)
(* keys invoices.createdBy and monitors.createdBy refuse the deletion of   *)
(* a user, those to the organization cascade.                              *)
(*                                                                         *)
(* A request is followed from await to await where what it read may be old *)
(* when it writes.  Creating, moving and deleting a user only check what   *)
(* the constraints of the insert, update or delete check again, so each is *)
(* one action.  Ids are never used again.                                  *)
(***************************************************************************)
EXTENDS Naturals, FiniteSets

CONSTANTS Orgs, Users, Invoices,
          Names,     \* of organizations
          NoName,    \* the empty one, which only an update can give
          Requests,  \* to create, update or delete one; a finished one is used again
          None

ASSUME TenantsAssumption == NoName \notin Names /\ None \notin Orgs \cup Users

VARIABLES
    org, name, slug,      \* organizations: "none", "live" or "gone"; columns
    user, uOrg, session,  \* users; their organization; the one in their session
    owners,               \* users that created a monitor or a collection
    invoice, vOrg, author, \* invoices: "none", "whole", "torn" (without items) or "gone"
    pc, rOrg, rName, rTry, \* requests: program counter, organization, name, slug counter
    late,     \* history: invoices issued for its organization since a deletion deleted them
    alone,    \* history: requests that checked a name nobody else has been about to give since
    loose,    \* history: organizations named by a request that was not alone or did not check
    damaged   \* history: organizations a deletion of which died between items and invoices

orgVars == <<org, name, slug>>
userVars == <<user, uOrg, session, owners>>
invoiceVars == <<invoice, vOrg, author>>
requestVars == <<pc, rOrg, rName, rTry, late>>
nameHistory == <<alone, loose>>
vars == <<orgVars, userVars, invoiceVars, requestVars, nameHistory, damaged>>

Tries == 0..Cardinality(Orgs)

\* The seed's organization.
Init ==
    \E o \in Orgs, n \in Names :
      /\ org = [p \in Orgs |-> IF p = o THEN "live" ELSE "none"]
      /\ name = [p \in Orgs |-> IF p = o THEN n ELSE NoName]
      /\ slug = [p \in Orgs |-> <<IF p = o THEN n ELSE NoName, 0>>]
      /\ user = [u \in Users |-> "none"]
      /\ uOrg = [u \in Users |-> None]
      /\ session = [u \in Users |-> None]
      /\ owners = {}
      /\ invoice = [v \in Invoices |-> "none"]
      /\ vOrg = [v \in Invoices |-> None]
      /\ author = [v \in Invoices |-> None]
      /\ pc = [r \in Requests |-> "idle"]
      /\ rOrg = [r \in Requests |-> None]
      /\ rName = [r \in Requests |-> NoName]
      /\ rTry = [r \in Requests |-> 0]
      /\ late = [r \in Requests |-> {}]
      /\ alone = {} /\ loose = {} /\ damaged = {}

Live(o) == o \in Orgs /\ org[o] = "live"
Alive(v) == invoice[v] \in {"whole", "torn"}

Go(r, l) == pc' = [pc EXCEPT ![r] = l]

End(r) ==
    /\ Go(r, "idle")
    /\ rOrg' = [rOrg EXCEPT ![r] = None]
    /\ rName' = [rName EXCEPT ![r] = NoName]
    /\ rTry' = [rTry EXCEPT ![r] = 0]
    /\ late' = [late EXCEPT ![r] = {}]

-----------------------------------------------------------------------------
(* Names                                                                     *)

Naming(r) == pc[r] \in {"slug", "insert", "rename"}

Taken(n) == \E o \in Orgs : Live(o) /\ name[o] = n

\* A request is about to give n: whoever else is as well is not alone any more, and it is
\* alone if it has checked n and nobody else is.
About(r, n, checked) ==
    LET others == {q \in Requests : Naming(q) /\ rName[q] = n}
    IN  alone' = IF others = {} /\ checked THEN alone \cup {r} ELSE alone \ (others \cup {r})

Name(r, o, n) ==
    /\ name' = [name EXCEPT ![o] = n]
    /\ loose' = IF r \in alone THEN loose \ {o}
                ELSE IF name[o] = n THEN loose ELSE loose \cup {o}

\* POST /api/admin/organizations: the name is not empty and no organization has it.
StartCreate(r, n) ==
    /\ pc[r] = "idle" /\ n # NoName /\ ~Taken(n)
    /\ Go(r, "slug")
    /\ rName' = [rName EXCEPT ![r] = n]
    /\ About(r, n, TRUE)
    /\ UNCHANGED <<rOrg, rTry, late, loose, damaged>>
    /\ UNCHANGED orgVars /\ UNCHANGED userVars /\ UNCHANGED invoiceVars

SlugTaken(s) == \E o \in Orgs : Live(o) /\ slug[o] = s

\* The loop over slugs: one query each.
FindSlug(r) ==
    /\ pc[r] = "slug"
    /\ IF SlugTaken(<<rName[r], rTry[r]>>)
       THEN rTry' = [rTry EXCEPT ![r] = @ + 1] /\ UNCHANGED pc
       ELSE Go(r, "insert") /\ UNCHANGED rTry
    /\ UNCHANGED <<rOrg, rName, late, damaged>> /\ UNCHANGED nameHistory
    /\ UNCHANGED orgVars /\ UNCHANGED userVars /\ UNCHANGED invoiceVars

\* create: the slug is unique, the name is not.
InsertOrg(r) ==
    /\ pc[r] = "insert"
    /\ IF SlugTaken(<<rName[r], rTry[r]>>)
       THEN UNCHANGED orgVars /\ UNCHANGED loose
       ELSE \E o \in Orgs :
              /\ org[o] = "none"
              /\ org' = [org EXCEPT ![o] = "live"]
              /\ slug' = [slug EXCEPT ![o] = <<rName[r], rTry[r]>>]
              /\ Name(r, o, rName[r])
    /\ alone' = alone \ {r}
    /\ End(r)
    /\ UNCHANGED damaged /\ UNCHANGED userVars /\ UNCHANGED invoiceVars

\* Faulty variant: a new name is not checked.
StartRenameUnchecked(r, o, n) ==
    /\ pc[r] = "idle" /\ Live(o)
    /\ Go(r, "rename")
    /\ rOrg' = [rOrg EXCEPT ![r] = o]
    /\ rName' = [rName EXCEPT ![r] = n]
    /\ About(r, n, n # name[o])
    /\ UNCHANGED <<rTry, late, loose, damaged>>
    /\ UNCHANGED orgVars /\ UNCHANGED userVars /\ UNCHANGED invoiceVars

\* PUT /api/admin/organizations/[orgId]: a new name that is not empty is checked.
StartRename(r, o, n) ==
    /\ pc[r] = "idle" /\ Live(o)
    /\ n = NoName \/ n = name[o] \/ ~Taken(n)
    /\ Go(r, "rename")
    /\ rOrg' = [rOrg EXCEPT ![r] = o]
    /\ rName' = [rName EXCEPT ![r] = n]
    /\ About(r, n, n # name[o])
    /\ UNCHANGED <<rTry, late, loose, damaged>>
    /\ UNCHANGED orgVars /\ UNCHANGED userVars /\ UNCHANGED invoiceVars

\* update: throws if the organization is gone.
Rename(r) ==
    /\ pc[r] = "rename"
    /\ IF Live(rOrg[r]) THEN Name(r, rOrg[r], rName[r]) ELSE UNCHANGED <<name, loose>>
    /\ alone' = alone \ {r}
    /\ End(r)
    /\ UNCHANGED <<org, slug, damaged>> /\ UNCHANGED userVars /\ UNCHANGED invoiceVars

\* PUT /api/configuration/organization, and POST /api/settings/hka-credentials: a user's own
\* one, without a check.
RenameOwn(o, n) ==
    /\ Live(o) /\ n # NoName
    /\ name' = [name EXCEPT ![o] = n]
    /\ loose' = loose \cup {o}
    /\ alone' = {r \in alone : rName[r] # n}
    /\ UNCHANGED <<org, slug, damaged>>
    /\ UNCHANGED userVars /\ UNCHANGED invoiceVars /\ UNCHANGED requestVars

-----------------------------------------------------------------------------
(* Users and what they own                                                   *)

CreateUser(u, o) ==
    /\ user[u] = "none" /\ Live(o)
    /\ user' = [user EXCEPT ![u] = "live"]
    /\ uOrg' = [uOrg EXCEPT ![u] = o]
    /\ UNCHANGED <<session, owners, damaged>> /\ UNCHANGED nameHistory
    /\ UNCHANGED orgVars /\ UNCHANGED invoiceVars /\ UNCHANGED requestVars

\* update of organizationId by a super admin.
MoveUser(u, o) ==
    /\ user[u] = "live" /\ Live(o)
    /\ uOrg' = [uOrg EXCEPT ![u] = o]
    /\ UNCHANGED <<user, session, owners, damaged>> /\ UNCHANGED nameHistory
    /\ UNCHANGED orgVars /\ UNCHANGED invoiceVars /\ UNCHANGED requestVars

\* The token keeps the organization until the next login.
Login(u) ==
    /\ user[u] = "live"
    /\ session' = [session EXCEPT ![u] = uOrg[u]]
    /\ UNCHANGED <<user, uOrg, owners, damaged>> /\ UNCHANGED nameHistory
    /\ UNCHANGED orgVars /\ UNCHANGED invoiceVars /\ UNCHANGED requestVars

CreateMonitor(u) ==
    /\ user[u] = "live"
    /\ owners' = owners \cup {u}
    /\ UNCHANGED <<user, uOrg, session, damaged>> /\ UNCHANGED nameHistory
    /\ UNCHANGED orgVars /\ UNCHANGED invoiceVars /\ UNCHANGED requestVars

\* Faulty variant: invoices.createdBy is no foreign key.
ReferencedByMonitor(u) == u \in owners

\* The foreign keys refuse to delete a user that something was created by.
Referenced(u) == u \in owners \/ \E v \in Invoices : Alive(v) /\ author[v] = u

DeleteUser(u) ==
    /\ user[u] = "live" /\ ~Referenced(u)
    /\ user' = [user EXCEPT ![u] = "gone"]
    /\ UNCHANGED <<uOrg, session, owners, damaged>> /\ UNCHANGED nameHistory
    /\ UNCHANGED orgVars /\ UNCHANGED invoiceVars /\ UNCHANGED requestVars

\* POST /api/invoices/create, for the session's organization: one transaction with the items.
CreateInvoice(v, u) ==
    /\ invoice[v] = "none" /\ user[u] = "live" /\ Live(session[u])
    /\ invoice' = [invoice EXCEPT ![v] = "whole"]
    /\ vOrg' = [vOrg EXCEPT ![v] = session[u]]
    /\ author' = [author EXCEPT ![v] = u]
    /\ late' = [r \in Requests |-> IF pc[r] = "users" /\ rOrg[r] = session[u]
                                   THEN late[r] \cup {v} ELSE late[r]]
    /\ UNCHANGED <<pc, rOrg, rName, rTry, damaged>> /\ UNCHANGED nameHistory
    /\ UNCHANGED orgVars /\ UNCHANGED userVars

\* DELETE /api/invoices/[id]: items and logs cascade.
DeleteInvoice(v) ==
    /\ Alive(v)
    /\ invoice' = [invoice EXCEPT ![v] = "gone"]
    /\ UNCHANGED <<vOrg, author, damaged>> /\ UNCHANGED nameHistory
    /\ UNCHANGED orgVars /\ UNCHANGED userVars /\ UNCHANGED requestVars

-----------------------------------------------------------------------------
(* DELETE /api/admin/organizations/[orgId]                                   *)

InvoicesOf(o) == {v \in Invoices : Alive(v) /\ vOrg[v] = o}
UsersOf(o) == {u \in Users : user[u] = "live" /\ uOrg[u] = o}

StartDeletion(r, o) ==
    /\ pc[r] = "idle" /\ Live(o)
    /\ Go(r, IF UsersOf(o) \cup InvoicesOf(o) = {} THEN "org" ELSE "items")
    /\ rOrg' = [rOrg EXCEPT ![r] = o]
    /\ UNCHANGED <<rName, rTry, late, damaged>> /\ UNCHANGED nameHistory
    /\ UNCHANGED orgVars /\ UNCHANGED userVars /\ UNCHANGED invoiceVars

DeleteItems(r) ==
    /\ pc[r] = "items"
    /\ invoice' = [v \in Invoices |-> IF v \in InvoicesOf(rOrg[r]) THEN "torn" ELSE invoice[v]]
    /\ Go(r, "invoices")
    /\ UNCHANGED <<vOrg, author, rOrg, rName, rTry, late, damaged>> /\ UNCHANGED nameHistory
    /\ UNCHANGED orgVars /\ UNCHANGED userVars

\* Faulty variant: only invoices that lost their items are deleted.
DeleteTornInvoices(r) ==
    /\ pc[r] = "invoices"
    /\ invoice' = [v \in Invoices |-> IF v \in InvoicesOf(rOrg[r]) /\ invoice[v] = "torn"
                                      THEN "gone" ELSE invoice[v]]
    /\ Go(r, "users")
    /\ UNCHANGED <<vOrg, author, rOrg, rName, rTry, late, damaged>> /\ UNCHANGED nameHistory
    /\ UNCHANGED orgVars /\ UNCHANGED userVars

\* With them, assignments (module Folios), keys and settings.
DeleteInvoices(r) ==
    /\ pc[r] = "invoices"
    /\ invoice' = [v \in Invoices |-> IF v \in InvoicesOf(rOrg[r]) THEN "gone" ELSE invoice[v]]
    /\ Go(r, "users")
    /\ UNCHANGED <<vOrg, author, rOrg, rName, rTry, late, damaged>> /\ UNCHANGED nameHistory
    /\ UNCHANGED orgVars /\ UNCHANGED userVars

Remove(us) == user' = [u \in Users |-> IF u \in us THEN "gone" ELSE user[u]]

\* All or none; if a key refuses, the request is over and the rest stays deleted.
DeleteUsers(r) ==
    /\ pc[r] = "users"
    /\ IF \E u \in UsersOf(rOrg[r]) : Referenced(u)
       THEN End(r) /\ UNCHANGED user
       ELSE /\ Remove(UsersOf(rOrg[r]))
            /\ Go(r, "org")
            /\ UNCHANGED <<rOrg, rName, rTry>>
            /\ late' = [late EXCEPT ![r] = {}]
    /\ UNCHANGED <<uOrg, session, owners, damaged>> /\ UNCHANGED nameHistory
    /\ UNCHANGED orgVars /\ UNCHANGED invoiceVars

\* What was inserted meanwhile cascades.  A user of the organization that something else
\* was created by stops it; one whose invoices are the organization's own does or does
\* not, by the order in which the database follows the keys.
DeleteOrg(r) ==
    LET o == rOrg[r]
        outside == \E u \in UsersOf(o) :
                     u \in owners \/ \E v \in Invoices \ InvoicesOf(o) : Alive(v) /\ author[v] = u
        inside == \E v \in InvoicesOf(o) : author[v] \in UsersOf(o)
    IN
    /\ pc[r] = "org"
    /\ \/ /\ Live(o) /\ ~outside
          /\ org' = [org EXCEPT ![o] = "gone"]
          /\ Remove(UsersOf(o))
          /\ invoice' = [v \in Invoices |-> IF v \in InvoicesOf(o) THEN "gone" ELSE invoice[v]]
       \/ /\ ~Live(o) \/ outside \/ inside
          /\ UNCHANGED <<org, user, invoice>>
    /\ End(r)
    /\ UNCHANGED <<name, slug, uOrg, session, owners, vOrg, author, damaged>>
    /\ UNCHANGED nameHistory

\* The process or the database fails between two statements, or a constraint left out here
\* (such as the unique ruc) refuses one.
Abort(r) ==
    /\ pc[r] # "idle"
    /\ damaged' = IF pc[r] = "invoices" THEN damaged \cup {rOrg[r]} ELSE damaged
    /\ alone' = alone \ {r}
    /\ End(r)
    /\ UNCHANGED loose /\ UNCHANGED orgVars /\ UNCHANGED userVars /\ UNCHANGED invoiceVars

-----------------------------------------------------------------------------
NameStep(r) ==
    \/ \E n \in Names : StartCreate(r, n)
    \/ FindSlug(r) \/ InsertOrg(r)
    \/ \E o \in Orgs, n \in Names \cup {NoName} : StartRename(r, o, n)
    \/ Rename(r)

Deletion(r) ==
    \/ \E o \in Orgs : StartDeletion(r, o)
    \/ DeleteItems(r) \/ DeleteInvoices(r) \/ DeleteUsers(r) \/ DeleteOrg(r)

UserStep(u) ==
    \/ \E o \in Orgs : CreateUser(u, o) \/ MoveUser(u, o)
    \/ Login(u) \/ CreateMonitor(u) \/ DeleteUser(u)
    \/ \E v \in Invoices : CreateInvoice(v, u)

Next ==
    \/ \E r \in Requests : NameStep(r) \/ Deletion(r) \/ Abort(r)
    \/ \E u \in Users : UserStep(u)
    \/ \E o \in Orgs, n \in Names : RenameOwn(o, n)
    \/ \E v \in Invoices : DeleteInvoice(v)

Spec == Init /\ [][Next]_vars

-----------------------------------------------------------------------------
(* Properties                                                                *)

\* The shape of every variable; and the keys hold: a user has an organization, an invoice
\* an organization and an author, that exist.
TypeOK ==
    /\ org \in [Orgs -> {"none", "live", "gone"}]
    /\ name \in [Orgs -> Names \cup {NoName}]
    /\ slug \in [Orgs -> (Names \cup {NoName}) \X Nat]
    /\ user \in [Users -> {"none", "live", "gone"}]
    /\ uOrg \in [Users -> Orgs \cup {None}] /\ session \in [Users -> Orgs \cup {None}]
    /\ owners \subseteq {u \in Users : user[u] = "live"}
    /\ invoice \in [Invoices -> {"none", "whole", "torn", "gone"}]
    /\ vOrg \in [Invoices -> Orgs \cup {None}] /\ author \in [Invoices -> Users \cup {None}]
    /\ pc \in [Requests -> {"idle", "slug", "insert", "rename", "items", "invoices",
                            "users", "org"}]
    /\ rOrg \in [Requests -> Orgs \cup {None}]
    /\ rName \in [Requests -> Names \cup {NoName}]
    /\ rTry \in [Requests -> Nat]
    /\ late \in [Requests -> SUBSET Invoices]
    /\ alone \subseteq Requests /\ loose \subseteq Orgs /\ damaged \subseteq Orgs
    /\ \A u \in Users : user[u] = "live" => Live(uOrg[u])
    /\ \A v \in Invoices : Alive(v) =>
           Live(vOrg[v]) /\ author[v] \in Users /\ user[author[v]] = "live"

\* app/api/admin/organizations/route.ts:43: an organization does not get a name that
\* another one has, unless it was given or checked elsewhere while the request ran, or the
\* organization's own administrator gave it, which nothing checks.
NamesDistinct ==
    \A o, p \in Orgs :
        o # p /\ Live(o) /\ Live(p) /\ name[o] = name[p] /\ name[o] # NoName =>
            o \in loose \/ p \in loose

\* An invoice without its items is one whose organization is being deleted, or whose
\* deletion died just then.
WholeUnlessDeleted ==
    \A v \in Invoices : invoice[v] = "torn" =>
        \/ vOrg[v] \in damaged
        \/ \E r \in Requests : pc[r] = "invoices" /\ rOrg[r] = vOrg[v]

\* When a deletion comes to the users, only these can stop it: a monitor, an invoice that
\* one of them issued for another organization, or one issued since.
OnlyTheseStop ==
    \A r \in Requests : pc[r] = "users" =>
        \A v \in InvoicesOf(rOrg[r]) : v \in late[r]

\* What a deletion that is not finished leaves behind: whatever else is done at the same
\* time, invoices without items and deletions stopped halfway have these causes only.
DeletionDamage == WholeUnlessDeleted /\ OnlyTheseStop

=============================================================================

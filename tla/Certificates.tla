---------------------------- MODULE Certificates ----------------------------
(***************************************************************************)
(* Signing certificates.  POST /api/certificates stores the certificate of *)
(* an organization, or a personal one of a user, and deletes those of the  *)
(* same owner; PUT and DELETE /api/certificates/[id] activate, deactivate  *)
(* and delete an organization's; PUT /api/settings/digital-signature links *)
(* a user to one.  Every statement is a query of its own, and every action *)
(* is one of them.                                                         *)
(*                                                                         *)
(* A certificate is named by the store request that inserts its row.       *)
(* Organizations and users exist throughout.  Time is left out: whether a  *)
(* certificate has expired is a check of the file before anything is done. *)
(***************************************************************************)
EXTENDS Naturals

CONSTANTS Orgs, Users,
          OrgOf,     \* the organization of a user
          Stores,    \* uploads
          Requests,  \* other requests; a finished one is used again
          NoCert, NoUser

Owners == Orgs \cup Users

ASSUME CertificatesAssumption ==
    /\ OrgOf \in [Users -> Orgs]
    /\ NoCert \notin Stores

VARIABLES
    rows,       \* digital_certificates: the uploads whose row exists
    owner, active, \* its columns
    mode, chosen, \* UserSignatureConfig: signatureMode and digitalCertificateId
    spc,        \* where each upload is
    pc, rCert, rUser, \* the other requests: program counter and locals
    met,        \* history: the uploads of the same owner that ran beside an upload
    calm,       \* history: activations whose organization nobody else has changed since
                \* they deactivated the others
    had, lost   \* history: owners that had a certificate; that lost it by a DELETE, or by
                \* an upload that died after it had deleted the old one

certVars == <<rows, owner, active>>
configVars == <<mode, chosen>>
requestVars == <<pc, rCert, rUser>>
history == <<met, calm, had, lost>>
vars == <<certVars, configVars, spc, requestVars, history>>

Init ==
    /\ rows = {}
    /\ owner \in [Stores -> Owners] \* whose certificate each upload will bring
    /\ active = [s \in Stores |-> FALSE]
    /\ mode = [u \in Users |-> "none"]
    /\ chosen = [u \in Users |-> NoCert]
    /\ spc = [s \in Stores |-> "idle"]
    /\ pc = [r \in Requests |-> "idle"]
    /\ rCert = [r \in Requests |-> NoCert]
    /\ rUser = [r \in Requests |-> NoUser]
    /\ met = [s \in Stores |-> {}]
    /\ calm = {} /\ had = {} /\ lost = {}

-----------------------------------------------------------------------------
(* The table                                                                 *)

\* Faulty variant: the certificates of an organization's users count as its own.
OwnedByTenant(o) == {c \in rows : owner[c] = o \/ (owner[c] \in Users /\ OrgOf[owner[c]] = o)}

\* The uploads compare a user's certificates with its own, an organization's with those
\* that have no user.
OwnedBy(o) == {c \in rows : owner[c] = o}

\* onDelete: SetNull; signatureMode stays PERSONAL.
DeleteRows(cs) ==
    /\ rows' = rows \ cs
    /\ chosen' = [u \in Users |-> IF chosen[u] \in cs THEN NoCert ELSE chosen[u]]

\* Activations of o that are under way are no longer undisturbed.
Disturb(o) == calm' = {r \in calm : owner[rCert[r]] # o}

-----------------------------------------------------------------------------
(* POST /api/certificates: storeCertificate                                  *)

Uploading(s) == spc[s] \in {"checked", "old", "none", "cleared"}

\* The file is parsed, has not expired, and its RUC is the owner's.
StartStore(s, act) ==
    /\ spc[s] = "idle"
    /\ spc' = [spc EXCEPT ![s] = "checked"]
    /\ active' = [active EXCEPT ![s] = act]
    /\ LET others == {t \in Stores : Uploading(t) /\ owner[t] = owner[s]}
       IN  met' = [t \in Stores |-> IF t = s THEN others
                                    ELSE IF t \in others THEN met[t] \cup {s} ELSE met[t]]
    /\ UNCHANGED <<rows, owner, calm, had, lost>>
    /\ UNCHANGED configVars /\ UNCHANGED requestVars

FindOld(s) ==
    /\ spc[s] = "checked"
    /\ spc' = [spc EXCEPT ![s] = IF OwnedBy(owner[s]) = {} THEN "none" ELSE "old"]
    /\ UNCHANGED certVars /\ UNCHANGED configVars
    /\ UNCHANGED requestVars /\ UNCHANGED history

\* Faulty variant: only the active certificates are replaced.
DeleteOldActive(s) ==
    /\ spc[s] = "old"
    /\ DeleteRows({c \in OwnedBy(owner[s]) : active[c]})
    /\ spc' = [spc EXCEPT ![s] = "cleared"]
    /\ UNCHANGED <<owner, active, mode>>
    /\ UNCHANGED requestVars /\ UNCHANGED history

\* deleteMany: whatever the owner has now.
DeleteOld(s) ==
    /\ spc[s] = "old"
    /\ DeleteRows(OwnedBy(owner[s]))
    /\ spc' = [spc EXCEPT ![s] = "cleared"]
    /\ UNCHANGED <<owner, active, mode>>
    /\ UNCHANGED requestVars /\ UNCHANGED history

InsertCertificate(s) ==
    /\ spc[s] \in {"none", "cleared"}
    /\ rows' = rows \cup {s}
    /\ spc' = [spc EXCEPT ![s] = "done"]
    /\ Disturb(owner[s])
    /\ had' = had \cup {owner[s]}
    /\ lost' = lost \ {owner[s]}
    /\ UNCHANGED <<owner, active, met>>
    /\ UNCHANGED configVars /\ UNCHANGED requestVars

\* The process or the database fails; there is no transaction to undo.
AbortStore(s) ==
    /\ Uploading(s)
    /\ spc' = [spc EXCEPT ![s] = "failed"]
    /\ lost' = IF spc[s] = "cleared" THEN lost \cup {owner[s]} ELSE lost
    /\ UNCHANGED <<met, calm, had>> /\ UNCHANGED certVars /\ UNCHANGED configVars
    /\ UNCHANGED requestVars

-----------------------------------------------------------------------------
(* PUT and DELETE /api/certificates/[id]                                     *)

Go(r, l) == pc' = [pc EXCEPT ![r] = l]

Begin(r, l, c, u) ==
    /\ pc[r] = "idle"
    /\ Go(r, l)
    /\ rCert' = [rCert EXCEPT ![r] = c]
    /\ rUser' = [rUser EXCEPT ![r] = u]
    /\ UNCHANGED <<spc>> /\ UNCHANGED certVars /\ UNCHANGED configVars
    /\ UNCHANGED history

\* The certificate is one of the caller's organization.
StartPut(r) == \E c \in rows, l \in {"others", "deactivate"} :
    owner[c] \in Orgs /\ Begin(r, l, c, NoUser)

StartDelete(r) == \E c \in rows : owner[c] \in Orgs /\ Begin(r, "delete", c, NoUser)

End(r) ==
    /\ Go(r, "idle")
    /\ rCert' = [rCert EXCEPT ![r] = NoCert]
    /\ rUser' = [rUser EXCEPT ![r] = NoUser]

\* Faulty variant: the others are left as they are.
DeactivateNone(r) ==
    /\ pc[r] = "others"
    /\ Go(r, "activate")
    /\ calm' = calm \cup {r}
    /\ UNCHANGED <<spc, rCert, rUser, met, had, lost>>
    /\ UNCHANGED certVars /\ UNCHANGED configVars

\* updateMany: the other certificates of the organization.
DeactivateOthers(r) ==
    /\ pc[r] = "others"
    /\ active' = [c \in Stores |-> IF c \in OwnedBy(owner[rCert[r]]) \ {rCert[r]}
                                   THEN FALSE ELSE active[c]]
    /\ Go(r, "activate")
    /\ calm' = calm \cup {r}
    /\ UNCHANGED <<rows, owner, spc, rCert, rUser, met, had, lost>>
    /\ UNCHANGED configVars

\* update: throws if the row is gone.
SetActive(r) ==
    /\ pc[r] \in {"activate", "deactivate"}
    /\ active' = [c \in Stores |-> IF c = rCert[r] /\ c \in rows THEN pc[r] = "activate"
                                                                ELSE active[c]]
    /\ IF pc[r] = "activate" THEN Disturb(owner[rCert[r]]) ELSE UNCHANGED calm
    /\ End(r)
    /\ UNCHANGED <<rows, owner, spc, met, had, lost>>
    /\ UNCHANGED configVars

\* delete: throws if the row is gone.  There is no default to pass on: the column that the
\* rest of the handler reads does not exist.
DeleteCertificate(r) ==
    /\ pc[r] = "delete"
    /\ DeleteRows({rCert[r]})
    /\ lost' = IF rCert[r] \in rows THEN lost \cup {owner[rCert[r]]} ELSE lost
    /\ End(r)
    /\ UNCHANGED <<owner, active, mode, spc, met, calm, had>>

-----------------------------------------------------------------------------
(* PUT /api/settings/digital-signature                                       *)

\* PERSONAL takes an active certificate of the user's organization.
StartConfigure(r, u) ==
    \/ Begin(r, "organization", NoCert, u)
    \/ \E c \in OwnedBy(OrgOf[u]) : active[c] /\ Begin(r, "personal", c, u)

\* Faulty variant: the user's id is stored for the certificate's.
SaveConfigSwapped(r) ==
    /\ pc[r] \in {"organization", "personal"}
    /\ mode' = [mode EXCEPT ![rUser[r]] =
                  IF pc[r] = "personal" THEN "PERSONAL" ELSE "ORGANIZATION"]
    /\ chosen' = [chosen EXCEPT ![rUser[r]] = rUser[r]]
    /\ End(r)
    /\ UNCHANGED spc /\ UNCHANGED certVars /\ UNCHANGED history

\* Faulty variant: what was looked up is saved, whether it is still there or not.
SaveConfigUnlinked(r) ==
    /\ pc[r] \in {"organization", "personal"}
    /\ mode' = [mode EXCEPT ![rUser[r]] =
                  IF pc[r] = "personal" THEN "PERSONAL" ELSE "ORGANIZATION"]
    /\ chosen' = [chosen EXCEPT ![rUser[r]] = rCert[r]]
    /\ End(r)
    /\ UNCHANGED spc /\ UNCHANGED certVars /\ UNCHANGED history

\* upsert; the foreign key refuses a certificate that is gone by now.
SaveConfig(r) ==
    /\ pc[r] \in {"organization", "personal"}
    /\ IF rCert[r] \in rows \cup {NoCert}
       THEN /\ mode' = [mode EXCEPT ![rUser[r]] =
                          IF pc[r] = "personal" THEN "PERSONAL" ELSE "ORGANIZATION"]
            /\ chosen' = [chosen EXCEPT ![rUser[r]] = rCert[r]]
       ELSE UNCHANGED configVars
    /\ End(r)
    /\ UNCHANGED <<spc>> /\ UNCHANGED certVars /\ UNCHANGED history

\* Between two statements of a request its process may end.
Crash(r) ==
    /\ pc[r] # "idle"
    /\ End(r)
    /\ calm' = calm \ {r}
    /\ UNCHANGED <<spc, met, had, lost>> /\ UNCHANGED certVars /\ UNCHANGED configVars

-----------------------------------------------------------------------------
Store(s) ==
    \/ \E act \in BOOLEAN : StartStore(s, act)
    \/ FindOld(s) \/ DeleteOld(s) \/ InsertCertificate(s) \/ AbortStore(s)

Request(r) ==
    \/ StartPut(r) \/ DeactivateOthers(r) \/ SetActive(r)
    \/ StartDelete(r) \/ DeleteCertificate(r)
    \/ \E u \in Users : StartConfigure(r, u)
    \/ SaveConfig(r)
    \/ Crash(r)

Next ==
    \/ \E s \in Stores : Store(s)
    \/ \E r \in Requests : Request(r)

Spec == Init /\ [][Next]_vars

-----------------------------------------------------------------------------
(* Properties                                                                *)

CertTypeOK ==
    /\ rows \subseteq Stores
    /\ owner \in [Stores -> Owners]
    /\ active \in [Stores -> BOOLEAN]
    /\ mode \in [Users -> {"none", "ORGANIZATION", "PERSONAL"}]
    /\ chosen \in [Users -> Stores \cup {NoCert}]

RequestTypeOK ==
    /\ spc \in [Stores -> {"idle", "checked", "old", "none", "cleared", "done", "failed"}]
    /\ pc \in [Requests -> {"idle", "others", "activate", "deactivate", "delete",
                            "organization", "personal"}]
    /\ rCert \in [Requests -> Stores \cup {NoCert}]
    /\ rUser \in [Requests -> Users \cup {NoUser}]
    /\ met \in [Stores -> SUBSET Stores]
    /\ calm \subseteq Requests
    /\ had \subseteq Owners /\ lost \subseteq Owners

\* The shape of every variable.
TypeOK == CertTypeOK /\ RequestTypeOK

\* docs/guides/CERTIFICATE-MANAGEMENT.md:33, an upload leaves one certificate: two of one
\* owner exist only if their own uploads ran beside each other, however many others did,
\* failed, or deleted rows meanwhile.
OnlyRacersCoexist ==
    \A a, b \in rows : a # b /\ owner[a] = owner[b] => b \in met[a]

\* An owner that has had a certificate has one now, unless it was deleted on request, an
\* upload died after the delete, or an upload stands between its delete and its insert:
\* the moments in which a document that must be signed cannot be.
CertificateKept ==
    \A o \in had \ lost :
        OwnedBy(o) # {} \/ \E s \in Stores : spc[s] = "cleared" /\ owner[s] = o

\* A user's configuration names a certificate that exists and is the organization's, in
\* PERSONAL mode only, although it was looked up before it was saved and uploads delete
\* certificates meanwhile.
ConfigIsLinked ==
    \A u \in Users : chosen[u] # NoCert =>
        /\ chosen[u] \in rows
        /\ owner[chosen[u]] = OrgOf[u]
        /\ mode[u] = "PERSONAL"

\* An activation leaves its certificate as the only active one of the organization, unless
\* another activation or an upload came between its two statements.
LoneActivationWins ==
    [][\A r \in Requests, c \in rows :
         (/\ pc[r] = "activate" /\ rCert[r] = c /\ r \in calm
          /\ pc'[r] = "idle" /\ c \in rows' /\ active'[c])
         => \A d \in rows' : owner[d] = owner[c] /\ active'[d] => d = c]_vars

=============================================================================

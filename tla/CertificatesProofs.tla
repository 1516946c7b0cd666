------------------------- MODULE CertificatesProofs -------------------------
(***************************************************************************)
(* Proofs about Certificates, for any number of organizations, users,      *)
(* uploads and other requests.                                             *)
(***************************************************************************)
EXTENDS Certificates, TLAPS

\* A row is that of an upload that is done.
RowsAreDone == \A s \in rows : spc[s] = "done"

\* Uploads that have run beside each other have each other in their history; one that has
\* not begun has met nobody.
Met ==
    /\ \A s, t \in Stores : t \in met[s] => s \in met[t]
    /\ \A s \in Stores : spc[s] = "idle" => met[s] = {}

\* ... and those of one owner that are under way have met.
Beside ==
    \A s, t \in Stores : s # t /\ owner[s] = owner[t] /\ Uploading(s) /\ Uploading(t) => t \in met[s]

\* An upload that is about to insert has met whatever certificate of its owner is there.
InsertsBesideMet ==
    \A s \in Stores, b \in rows :
        spc[s] \in {"none", "cleared"} /\ owner[b] = owner[s] => b \in met[s]

RaceInv == RowsAreDone /\ Met /\ Beside /\ InsertsBesideMet /\ OnlyRacersCoexist

\* What the locals of a request are about.
LocalsInv ==
    \A r \in Requests :
        /\ pc[r] \in {"others", "activate", "deactivate", "delete"} => rCert[r] \in Stores
        /\ pc[r] = "personal" =>
             rCert[r] \in Stores /\ rUser[r] \in Users /\ owner[rCert[r]] = OrgOf[rUser[r]]
        /\ pc[r] = "organization" => rCert[r] = NoCert /\ rUser[r] \in Users

\* After an undisturbed activation has deactivated the others, they are still inactive.
CalmInv ==
    \A r \in calm :
        /\ pc[r] = "activate"
        /\ \A d \in rows : owner[d] = owner[rCert[r]] /\ d # rCert[r] => ~active[d]

IInv == TypeOK /\ RaceInv /\ CertificateKept /\ LocalsInv /\ ConfigIsLinked /\ CalmInv

-----------------------------------------------------------------------------
\* The types are established by Init.
LEMMA InitTypeOK == Init => TypeOK
  BY CertificatesAssumption DEF Init, TypeOK, CertTypeOK, RequestTypeOK

\* Every step preserves the types of the table and of the configurations.
LEMMA CertTypeStep == TypeOK /\ LocalsInv /\ [Next]_vars => CertTypeOK'
<1> SUFFICES ASSUME TypeOK, LocalsInv, [Next]_vars PROVE CertTypeOK'  OBVIOUS
<1> USE CertificatesAssumption
<1>1. CASE UNCHANGED vars
  BY <1>1 DEF vars, certVars, configVars, TypeOK, CertTypeOK
<1>2. ASSUME NEW s \in Stores, Store(s) PROVE CertTypeOK'
  <2>1. ASSUME NEW act \in BOOLEAN, StartStore(s, act) PROVE CertTypeOK'
    <3>1. active' \in [Stores -> BOOLEAN]
      BY <2>1, Zenon DEF StartStore, TypeOK, CertTypeOK
    <3> QED  BY <2>1, <3>1 DEF StartStore, configVars, TypeOK, CertTypeOK
  <2>2. CASE FindOld(s)
    BY <2>2 DEF FindOld, certVars, configVars, TypeOK, CertTypeOK
  <2>3. CASE DeleteOld(s)
    BY <2>3 DEF DeleteOld, DeleteRows, OwnedBy, TypeOK, CertTypeOK
  <2>4. CASE InsertCertificate(s)
    BY <2>4 DEF InsertCertificate, configVars, TypeOK, CertTypeOK
  <2>5. CASE AbortStore(s)
    BY <2>5 DEF AbortStore, certVars, configVars, TypeOK, CertTypeOK
  <2> QED  BY <1>2, <2>1, <2>2, <2>3, <2>4, <2>5 DEF Store
<1>3. ASSUME NEW r \in Requests, Request(r) PROVE CertTypeOK'
  <2>1. CASE StartPut(r) \/ StartDelete(r) \/ (\E u \in Users : StartConfigure(r, u))
    BY <2>1 DEF StartPut, StartDelete, StartConfigure, Begin, certVars, configVars,
                TypeOK, CertTypeOK
  <2>2. CASE DeactivateOthers(r)
    <3>1. active' \in [Stores -> BOOLEAN]
      BY <2>2, Zenon DEF DeactivateOthers, TypeOK, CertTypeOK
    <3> QED  BY <2>2, <3>1 DEF DeactivateOthers, configVars, TypeOK, CertTypeOK
  <2>3. CASE SetActive(r)
    <3>1. active' \in [Stores -> BOOLEAN]
      BY <2>3, Zenon DEF SetActive, TypeOK, CertTypeOK
    <3> QED  BY <2>3, <3>1 DEF SetActive, configVars, TypeOK, CertTypeOK
  <2>4. CASE DeleteCertificate(r)
    BY <2>4 DEF DeleteCertificate, DeleteRows, TypeOK, CertTypeOK
  <2>5. CASE SaveConfig(r)
    BY <2>5 DEF SaveConfig, certVars, configVars, LocalsInv, TypeOK, CertTypeOK, RequestTypeOK
  <2>6. CASE Crash(r)
    BY <2>6 DEF Crash, certVars, configVars, TypeOK, CertTypeOK
  <2> QED  BY <1>3, <2>1, <2>2, <2>3, <2>4, <2>5, <2>6 DEF Request
<1> QED  BY <1>1, <1>2, <1>3 DEF Next

\* ... and those of the requests and of the history.
LEMMA RequestTypeStep == TypeOK /\ [Next]_vars => RequestTypeOK'
<1> SUFFICES ASSUME TypeOK, [Next]_vars PROVE RequestTypeOK'  OBVIOUS
<1> USE CertificatesAssumption DEF TypeOK, CertTypeOK, RequestTypeOK
<1>1. CASE UNCHANGED vars
  BY <1>1 DEF vars, requestVars, history
<1>2. ASSUME NEW s \in Stores, Store(s) PROVE RequestTypeOK'
  <2>1. ASSUME NEW act \in BOOLEAN, StartStore(s, act) PROVE RequestTypeOK'
    <3>1. met' \in [Stores -> SUBSET Stores]
      BY <2>1 DEF StartStore
    <3> QED  BY <2>1, <3>1 DEF StartStore, requestVars
  <2>2. CASE FindOld(s)
    BY <2>2 DEF FindOld, requestVars, history
  <2>3. CASE DeleteOld(s)
    BY <2>3 DEF DeleteOld, requestVars, history
  <2>4. CASE InsertCertificate(s)
    BY <2>4 DEF InsertCertificate, Disturb, requestVars
  <2>5. CASE AbortStore(s)
    BY <2>5 DEF AbortStore, requestVars, certVars
  <2> QED  BY <1>2, <2>1, <2>2, <2>3, <2>4, <2>5 DEF Store
<1>3. ASSUME NEW r \in Requests, Request(r) PROVE RequestTypeOK'
  <2>1. CASE StartPut(r)
    BY <2>1 DEF StartPut, Begin, Go, history
  <2>2. CASE StartDelete(r)
    BY <2>2 DEF StartDelete, Begin, Go, history
  <2>3. ASSUME NEW u \in Users, StartConfigure(r, u) PROVE RequestTypeOK'
    BY <2>3 DEF StartConfigure, OwnedBy, Begin, Go, history
  <2>4. CASE DeactivateOthers(r)
    BY <2>4 DEF DeactivateOthers, Go
  <2>5. CASE SetActive(r)
    BY <2>5 DEF SetActive, End, Go, Disturb
  <2>6. CASE DeleteCertificate(r)
    BY <2>6 DEF DeleteCertificate, End, Go
  <2>7. CASE SaveConfig(r)
    BY <2>7 DEF SaveConfig, End, Go, history
  <2>8. CASE Crash(r)
    BY <2>8 DEF Crash, End, Go
  <2> QED  BY <1>3, <2>1, <2>2, <2>3, <2>4, <2>5, <2>6, <2>7, <2>8 DEF Request
<1> QED  BY <1>1, <1>2, <1>3 DEF Next

-----------------------------------------------------------------------------
(* What a step leaves alone                                                  *)

\* An upload changes nothing of another one but what it has met, which only grows, and
\* nothing of a request.
LEMMA StoreFrame ==
  ASSUME TypeOK, NEW s \in Stores, Store(s)
  PROVE  /\ UNCHANGED <<owner, mode, requestVars>>
         /\ rows' \subseteq rows \cup {s}
         /\ \A t \in Stores \ {s} : spc'[t] = spc[t] /\ active'[t] = active[t]
         /\ \A t \in Stores : spc[t] # "idle" => met[t] \subseteq met'[t]
         /\ calm' \subseteq calm /\ had \subseteq had'
<1> USE DEF TypeOK, CertTypeOK, RequestTypeOK
<1>1. ASSUME NEW act \in BOOLEAN, StartStore(s, act)
      PROVE  /\ \A t \in Stores \ {s} : active'[t] = active[t]
             /\ UNCHANGED <<rows, owner, calm, had, lost, configVars, requestVars>>
             /\ \A t \in Stores \ {s} : spc'[t] = spc[t]
             /\ \A t \in Stores : spc[t] # "idle" => met[t] \subseteq met'[t]
  <2>1. \A t \in Stores \ {s} : active'[t] = active[t]
    BY <1>1, Zenon DEF StartStore
  <2> QED  BY <1>1, <2>1 DEF StartStore
<1>2. CASE FindOld(s)
  BY <1>2 DEF FindOld, certVars, configVars, history
<1>3. CASE DeleteOld(s)
  BY <1>3 DEF DeleteOld, DeleteRows, OwnedBy, history
<1>4. CASE InsertCertificate(s)
  BY <1>4 DEF InsertCertificate, configVars, Disturb
<1>5. CASE AbortStore(s)
  BY <1>5 DEF AbortStore, certVars, configVars
<1>6. CASE \E act \in BOOLEAN : StartStore(s, act)
  BY <1>1, <1>6 DEF configVars
<1> QED  BY <1>2, <1>3, <1>4, <1>5, <1>6 DEF Store

\* A request changes nothing of an upload or of another request, and inserts no row.
LEMMA RequestFrame ==
  ASSUME TypeOK, NEW r \in Requests, Request(r)
  PROVE  /\ UNCHANGED <<owner, spc, met, had>>
         /\ rows' \subseteq rows
         /\ \A q \in Requests \ {r} : pc'[q] = pc[q] /\ rCert'[q] = rCert[q] /\ rUser'[q] = rUser[q]
<1> USE DEF TypeOK, CertTypeOK, RequestTypeOK
<1>1. CASE StartPut(r) \/ StartDelete(r) \/ (\E u \in Users : StartConfigure(r, u))
  BY <1>1 DEF StartPut, StartDelete, StartConfigure, Begin, Go, certVars, history
<1>2. CASE DeactivateOthers(r)
  BY <1>2 DEF DeactivateOthers, Go
<1>3. CASE SetActive(r)
  BY <1>3 DEF SetActive, End, Go
<1>4. CASE DeleteCertificate(r)
  BY <1>4 DEF DeleteCertificate, DeleteRows, End, Go
<1>5. CASE SaveConfig(r)
  BY <1>5 DEF SaveConfig, End, Go, certVars, history
<1>6. CASE Crash(r)
  BY <1>6 DEF Crash, End, Go, certVars
<1> QED  BY <1>1, <1>2, <1>3, <1>4, <1>5, <1>6 DEF Request

-----------------------------------------------------------------------------
(* The invariant                                                             *)

\* A step keeps what the locals of the requests are about.
LEMMA LocalsStep == TypeOK /\ LocalsInv /\ [Next]_vars => LocalsInv'
<1> SUFFICES ASSUME TypeOK, LocalsInv, [Next]_vars PROVE LocalsInv'  OBVIOUS
<1> USE CertificatesAssumption
<1>1. CASE UNCHANGED vars
  BY <1>1 DEF vars, certVars, requestVars, LocalsInv
<1>2. ASSUME NEW s \in Stores, Store(s) PROVE LocalsInv'
  BY <1>2, StoreFrame DEF requestVars, LocalsInv
<1>3. ASSUME NEW r \in Requests, Request(r) PROVE LocalsInv'
  <2> USE DEF TypeOK, CertTypeOK, RequestTypeOK
  <2>1. owner' = owner /\ \A q \in Requests \ {r} :
          pc'[q] = pc[q] /\ rCert'[q] = rCert[q] /\ rUser'[q] = rUser[q]
    BY <1>3, RequestFrame
  <2>2. CASE StartPut(r) \/ StartDelete(r)
    BY <2>1, <2>2 DEF StartPut, StartDelete, Begin, Go, LocalsInv
  <2>3. ASSUME NEW u \in Users, StartConfigure(r, u) PROVE LocalsInv'
    BY <2>1, <2>3 DEF StartConfigure, OwnedBy, Begin, Go, LocalsInv
  <2>4. CASE DeactivateOthers(r)
    BY <2>1, <2>4 DEF DeactivateOthers, Go, LocalsInv
  <2>5. CASE SetActive(r) \/ DeleteCertificate(r) \/ SaveConfig(r) \/ Crash(r)
    <3>1. pc'[r] = "idle"
      BY <2>5 DEF SetActive, DeleteCertificate, SaveConfig, Crash, End, Go
    <3> QED  BY <2>1, <3>1 DEF LocalsInv
  <2> QED  BY <1>3, <2>2, <2>3, <2>4, <2>5 DEF Request
<1> QED  BY <1>1, <1>2, <1>3 DEF Next

\* A step keeps the account of who has run beside whom.
LEMMA RaceStep == TypeOK /\ RaceInv /\ [Next]_vars => RaceInv'
<1> SUFFICES ASSUME TypeOK, RaceInv, [Next]_vars PROVE RaceInv'  OBVIOUS
<1>1. CASE UNCHANGED vars
  BY <1>1 DEF vars, certVars, history, RaceInv, RowsAreDone, Met, Beside, Uploading,
              InsertsBesideMet, OnlyRacersCoexist
<1>2. ASSUME NEW s \in Stores, Store(s) PROVE RaceInv'
  <2> USE DEF TypeOK, CertTypeOK, RequestTypeOK
  <2>1. /\ owner' = owner /\ rows' \subseteq rows \cup {s}
        /\ \A t \in Stores \ {s} : spc'[t] = spc[t]
        /\ \A t \in Stores : spc[t] # "idle" => met[t] \subseteq met'[t]
    BY <1>2, StoreFrame
  <2>2. CASE \E act \in BOOLEAN : StartStore(s, act)
    <3>1. /\ spc[s] = "idle" /\ spc'[s] = "checked" /\ rows' = rows
          /\ met' = [t \in Stores |->
                       IF t = s THEN {x \in Stores : Uploading(x) /\ owner[x] = owner[s]}
                       ELSE IF t \in {x \in Stores : Uploading(x) /\ owner[x] = owner[s]}
                            THEN met[t] \cup {s} ELSE met[t]]
      BY <2>2 DEF StartStore
    <3>2. s \notin rows /\ ~Uploading(s)
      BY <3>1 DEF RaceInv, RowsAreDone, Uploading
    <3>3. RowsAreDone' /\ InsertsBesideMet' /\ OnlyRacersCoexist'
      BY <2>1, <3>1, <3>2 DEF RaceInv, RowsAreDone, InsertsBesideMet, OnlyRacersCoexist
    <3>4. Met'
      BY <2>1, <3>1, <3>2 DEF RaceInv, Met, Uploading
    <3>5. Beside'
      BY <2>1, <3>1, <3>2, <3>4 DEF RaceInv, Beside, Uploading
    <3> QED  BY <3>3, <3>4, <3>5 DEF RaceInv
  <2>3. CASE FindOld(s)
    <3>1. /\ rows' = rows /\ met' = met /\ spc[s] = "checked"
          /\ spc'[s] = IF OwnedBy(owner[s]) = {} THEN "none" ELSE "old"
      BY <2>3 DEF FindOld, certVars, history
    <3>2. s \notin rows
      BY <3>1 DEF RaceInv, RowsAreDone
    <3>3. RowsAreDone' /\ Met' /\ OnlyRacersCoexist'
      BY <2>1, <3>1, <3>2 DEF RaceInv, RowsAreDone, Met, OnlyRacersCoexist
    <3>4. Beside'
      BY <2>1, <3>1 DEF RaceInv, Beside, Uploading
    <3>5. InsertsBesideMet'
      BY <2>1, <3>1 DEF RaceInv, InsertsBesideMet, OwnedBy
    <3> QED  BY <3>3, <3>4, <3>5 DEF RaceInv
  <2>4. CASE DeleteOld(s)
    <3>1. /\ rows' = rows \ OwnedBy(owner[s]) /\ met' = met
          /\ spc[s] = "old" /\ spc'[s] = "cleared"
      BY <2>4 DEF DeleteOld, DeleteRows, history
    <3>2. RowsAreDone' /\ Met' /\ OnlyRacersCoexist'
      BY <2>1, <3>1 DEF RaceInv, RowsAreDone, Met, OnlyRacersCoexist
    <3>3. Beside'
      BY <2>1, <3>1 DEF RaceInv, Beside, Uploading
    <3>4. InsertsBesideMet'
      BY <2>1, <3>1 DEF RaceInv, InsertsBesideMet, OwnedBy
    <3> QED  BY <3>2, <3>3, <3>4 DEF RaceInv
  <2>5. CASE InsertCertificate(s)
    <3>1. /\ rows' = rows \cup {s} /\ met' = met
          /\ spc[s] \in {"none", "cleared"} /\ spc'[s] = "done"
      BY <2>5 DEF InsertCertificate
    <3>2. RowsAreDone' /\ Met'
      BY <2>1, <3>1 DEF RaceInv, RowsAreDone, Met
    <3>3. OnlyRacersCoexist'
      BY <2>1, <3>1 DEF RaceInv, Met, InsertsBesideMet, OnlyRacersCoexist
    <3>4. Beside'
      BY <2>1, <3>1 DEF RaceInv, Beside, Uploading
    <3>5. InsertsBesideMet'
      BY <2>1, <3>1 DEF RaceInv, InsertsBesideMet, Beside, Uploading
    <3> QED  BY <3>2, <3>3, <3>4, <3>5 DEF RaceInv
  <2>6. CASE AbortStore(s)
    <3>1. rows' = rows /\ met' = met /\ Uploading(s) /\ spc'[s] = "failed"
      BY <2>6 DEF AbortStore, certVars
    <3> QED
      BY <2>1, <3>1 DEF RaceInv, RowsAreDone, Met, Beside, Uploading, InsertsBesideMet,
                        OnlyRacersCoexist
  <2> QED  BY <1>2, <2>2, <2>3, <2>4, <2>5, <2>6 DEF Store
<1>3. ASSUME NEW r \in Requests, Request(r) PROVE RaceInv'
  <2>1. UNCHANGED <<owner, spc, met>> /\ rows' \subseteq rows
    BY <1>3, RequestFrame
  <2> QED
    BY <2>1 DEF RaceInv, RowsAreDone, Met, Beside, Uploading, InsertsBesideMet, OnlyRacersCoexist
<1> QED  BY <1>1, <1>2, <1>3 DEF Next

\* A step keeps the certificate of whoever had one, or records why not.
LEMMA KeptStep == TypeOK /\ LocalsInv /\ CertificateKept /\ [Next]_vars => CertificateKept'
<1> SUFFICES ASSUME TypeOK, LocalsInv, CertificateKept, [Next]_vars PROVE CertificateKept'
  OBVIOUS
<1> USE DEF TypeOK, CertTypeOK, RequestTypeOK
<1>1. CASE UNCHANGED vars
  BY <1>1 DEF vars, certVars, history, CertificateKept, OwnedBy
<1>2. ASSUME NEW s \in Stores, Store(s) PROVE CertificateKept'
  <2>1. owner' = owner /\ \A t \in Stores \ {s} : spc'[t] = spc[t]
    BY <1>2, StoreFrame
  <2>2. CASE \E act \in BOOLEAN : StartStore(s, act)
    <3>1. UNCHANGED <<rows, had, lost>> /\ spc[s] = "idle"
      BY <2>2 DEF StartStore
    <3> QED  BY <2>1, <3>1 DEF CertificateKept, OwnedBy
  <2>3. CASE FindOld(s)
    <3>1. UNCHANGED <<rows, had, lost>> /\ spc[s] = "checked"
      BY <2>3 DEF FindOld, certVars, history
    <3> QED  BY <2>1, <3>1 DEF CertificateKept, OwnedBy
  <2>4. CASE DeleteOld(s)
    <3>1. /\ UNCHANGED <<had, lost>> /\ rows' = rows \ OwnedBy(owner[s])
          /\ spc'[s] = "cleared"
      BY <2>4 DEF DeleteOld, DeleteRows, history
    <3> QED  BY <2>1, <3>1 DEF CertificateKept, OwnedBy
  <2>5. CASE InsertCertificate(s)
    <3>1. /\ had' = had \cup {owner[s]} /\ lost' = lost \ {owner[s]}
          /\ rows' = rows \cup {s}
      BY <2>5 DEF InsertCertificate
    <3> QED  BY <2>1, <3>1 DEF CertificateKept, OwnedBy
  <2>6. CASE AbortStore(s)
    <3>1. /\ UNCHANGED <<rows, had>>
          /\ lost' = IF spc[s] = "cleared" THEN lost \cup {owner[s]} ELSE lost
      BY <2>6 DEF AbortStore, certVars
    <3> QED  BY <2>1, <3>1 DEF CertificateKept, OwnedBy
  <2> QED  BY <1>2, <2>2, <2>3, <2>4, <2>5, <2>6 DEF Store
<1>3. ASSUME NEW r \in Requests, Request(r) PROVE CertificateKept'
  <2>1. UNCHANGED <<owner, spc, had>>
    BY <1>3, RequestFrame
  <2>2. CASE DeleteCertificate(r)
    <3>1. /\ rows' = rows \ {rCert[r]} /\ rCert[r] \in Stores
          /\ lost' = IF rCert[r] \in rows THEN lost \cup {owner[rCert[r]]} ELSE lost
      BY <2>2 DEF DeleteCertificate, DeleteRows, LocalsInv
    <3> QED  BY <2>1, <3>1 DEF CertificateKept, OwnedBy
  <2>3. CASE ~DeleteCertificate(r)
    <3>1. UNCHANGED <<rows, lost>>
      BY <1>3, <2>3 DEF Request, StartPut, StartDelete, StartConfigure, Begin, DeactivateOthers,
                        SetActive, SaveConfig, Crash, certVars, history
    <3> QED  BY <2>1, <3>1 DEF CertificateKept, OwnedBy
  <2> QED  BY <2>2, <2>3
<1> QED  BY <1>1, <1>2, <1>3 DEF Next

\* A step keeps every configuration linked: what is deleted is unlinked with it, and what
\* is saved is there and belongs to the user's organization.
LEMMA ConfigStep == TypeOK /\ LocalsInv /\ ConfigIsLinked /\ [Next]_vars => ConfigIsLinked'
<1> SUFFICES ASSUME TypeOK, LocalsInv, ConfigIsLinked, [Next]_vars PROVE ConfigIsLinked'
  OBVIOUS
<1> USE CertificatesAssumption DEF TypeOK, CertTypeOK, RequestTypeOK
<1>1. ASSUME UNCHANGED <<owner, mode, chosen>>, rows \subseteq rows' PROVE ConfigIsLinked'
  BY <1>1 DEF ConfigIsLinked
<1>2. ASSUME NEW cs, DeleteRows(cs), UNCHANGED <<owner, mode>> PROVE ConfigIsLinked'
  BY <1>2 DEF DeleteRows, ConfigIsLinked
<1>3. CASE UNCHANGED vars
  BY <1>1, <1>3 DEF vars, certVars, configVars
<1>4. ASSUME NEW s \in Stores, Store(s) PROVE ConfigIsLinked'
  <2>1. CASE DeleteOld(s)
    BY <1>2, <2>1 DEF DeleteOld
  <2>2. CASE ~DeleteOld(s)
    BY <1>1, <1>4, <2>2 DEF Store, StartStore, FindOld, InsertCertificate, AbortStore,
                            certVars, configVars
  <2> QED  BY <2>1, <2>2
<1>5. ASSUME NEW r \in Requests, Request(r) PROVE ConfigIsLinked'
  <2>1. CASE DeleteCertificate(r)
    BY <1>2, <2>1 DEF DeleteCertificate
  <2>2. CASE SaveConfig(r)
    <3>1. UNCHANGED <<rows, owner>>
      BY <2>2 DEF SaveConfig, certVars
    <3>2. CASE rCert[r] \notin rows \cup {NoCert}
      BY <1>1, <2>2, <3>1, <3>2 DEF SaveConfig, configVars
    <3>3. CASE rCert[r] \in rows \cup {NoCert} /\ pc[r] = "personal"
      <4>1. /\ rUser[r] \in Users /\ rCert[r] \in rows
            /\ owner[rCert[r]] = OrgOf[rUser[r]]
            /\ mode' = [mode EXCEPT ![rUser[r]] = "PERSONAL"]
            /\ chosen' = [chosen EXCEPT ![rUser[r]] = rCert[r]]
        BY <2>2, <3>3 DEF SaveConfig, LocalsInv
      <4> QED  BY <3>1, <4>1 DEF ConfigIsLinked
    <3>4. CASE rCert[r] \in rows \cup {NoCert} /\ pc[r] = "organization"
      <4>1. /\ rUser[r] \in Users
            /\ mode' = [mode EXCEPT ![rUser[r]] = "ORGANIZATION"]
            /\ chosen' = [chosen EXCEPT ![rUser[r]] = NoCert]
        BY <2>2, <3>4 DEF SaveConfig, LocalsInv
      <4> QED  BY <3>1, <4>1 DEF ConfigIsLinked
    <3> QED  BY <2>2, <3>2, <3>3, <3>4 DEF SaveConfig
  <2>3. CASE ~DeleteCertificate(r) /\ ~SaveConfig(r)
    BY <1>1, <1>5, <2>3 DEF Request, StartPut, StartDelete, StartConfigure, Begin,
                            DeactivateOthers, SetActive, Crash, certVars, configVars
  <2> QED  BY <2>1, <2>2, <2>3
<1> QED  BY <1>3, <1>4, <1>5 DEF Next

\* A step keeps undisturbed activations undisturbed, or takes them off the list.
LEMMA CalmStep == TypeOK /\ RaceInv /\ LocalsInv /\ CalmInv /\ [Next]_vars => CalmInv'
<1> SUFFICES ASSUME TypeOK, RaceInv, LocalsInv, CalmInv, [Next]_vars PROVE CalmInv'  OBVIOUS
<1> USE DEF TypeOK, CertTypeOK, RequestTypeOK
<1>1. CASE UNCHANGED vars
  BY <1>1 DEF vars, certVars, requestVars, history, CalmInv
<1>2. ASSUME NEW s \in Stores, Store(s) PROVE CalmInv'
  <2>1. /\ UNCHANGED <<owner, pc, rCert>> /\ rows' \subseteq rows \cup {s} /\ calm' \subseteq calm
        /\ \A t \in Stores \ {s} : active'[t] = active[t]
    BY <1>2, StoreFrame DEF requestVars
  <2>2. CASE InsertCertificate(s)
    <3>1. calm' = {r \in calm : owner[rCert[r]] # owner[s]}
      BY <2>2 DEF InsertCertificate, Disturb
    <3> QED  BY <2>1, <3>1 DEF CalmInv
  <2>3. CASE ~InsertCertificate(s)
    <3>1. rows' \subseteq rows /\ (s \in rows => active'[s] = active[s])
      <4>1. CASE \E act \in BOOLEAN : StartStore(s, act)
        <5>1. rows' = rows /\ spc[s] = "idle"
          BY <4>1 DEF StartStore
        <5> QED  BY <5>1 DEF RaceInv, RowsAreDone
      <4>2. CASE FindOld(s) \/ DeleteOld(s) \/ AbortStore(s)
        BY <4>2 DEF FindOld, DeleteOld, DeleteRows, AbortStore, certVars
      <4> QED  BY <1>2, <2>3, <4>1, <4>2 DEF Store
    <3> QED  BY <2>1, <3>1 DEF CalmInv
  <2> QED  BY <2>2, <2>3
<1>3. ASSUME NEW r \in Requests, Request(r) PROVE CalmInv'
  <2>1. /\ owner' = owner /\ rows' \subseteq rows
        /\ \A q \in Requests \ {r} : pc'[q] = pc[q] /\ rCert'[q] = rCert[q]
    BY <1>3, RequestFrame
  <2>2. CASE StartPut(r) \/ StartDelete(r) \/ (\E u \in Users : StartConfigure(r, u))
    <3>1. UNCHANGED <<active, calm>> /\ pc[r] = "idle"
      BY <2>2 DEF StartPut, StartDelete, StartConfigure, Begin, certVars, history
    <3> QED  BY <2>1, <3>1 DEF CalmInv
  <2>3. CASE DeactivateOthers(r)
    <3>1. /\ active' = [c \in Stores |-> IF c \in OwnedBy(owner[rCert[r]]) \ {rCert[r]}
                                         THEN FALSE ELSE active[c]]
          /\ rCert' = rCert /\ rows' = rows /\ pc'[r] = "activate" /\ calm' = calm \cup {r}
      BY <2>3 DEF DeactivateOthers, Go
    <3>2. \A d \in rows : ~active[d] => ~active'[d]
      BY <3>1, Zenon
    <3>3. \A d \in rows : owner[d] = owner[rCert[r]] /\ d # rCert[r] => ~active'[d]
      BY <3>1 DEF OwnedBy
    <3> SUFFICES ASSUME NEW q \in calm'
                 PROVE  /\ pc'[q] = "activate"
                        /\ \A d \in rows : owner[d] = owner[rCert[q]] /\ d # rCert[q] => ~active'[d]
      BY <2>1, <3>1 DEF CalmInv
    <3>4. CASE q = r
      BY <3>1, <3>3, <3>4
    <3>5. CASE q # r
      <4>1. q \in calm /\ q \in Requests \ {r}
        BY <3>1, <3>5
      <4> QED  BY <2>1, <3>2, <4>1 DEF CalmInv
    <3> QED  BY <3>4, <3>5
  <2>4. CASE SetActive(r)
    <3>1. \A d \in Stores : d # rCert[r] => active'[d] = active[d]
      BY <2>4, Zenon DEF SetActive
    <3>2. CASE pc[r] = "activate"
      <4>1. calm' = {q \in calm : owner[rCert[q]] # owner[rCert[r]]} /\ rows' = rows
        BY <2>4, <3>2 DEF SetActive, Disturb
      <4> QED  BY <2>1, <3>1, <4>1 DEF CalmInv
    <3>3. CASE pc[r] = "deactivate"
      <4>1. calm' = calm /\ rows' = rows /\ rCert[r] \in Stores
        BY <2>4, <3>3 DEF SetActive, LocalsInv
      <4>2. rCert[r] \in rows => ~active'[rCert[r]]
        BY <2>4, <3>3, <4>1 DEF SetActive
      <4> QED  BY <2>1, <3>1, <3>3, <4>1, <4>2 DEF CalmInv
    <3> QED  BY <2>4, <3>2, <3>3 DEF SetActive
  <2>5. CASE DeleteCertificate(r) \/ SaveConfig(r)
    <3>1. UNCHANGED <<active, calm>> /\ pc[r] # "activate"
      BY <2>5 DEF DeleteCertificate, SaveConfig, certVars, history
    <3> QED  BY <2>1, <3>1 DEF CalmInv
  <2>6. CASE Crash(r)
    <3>1. active' = active /\ calm' = calm \ {r}
      BY <2>6 DEF Crash, certVars
    <3> QED  BY <2>1, <3>1 DEF CalmInv
  <2> QED  BY <1>3, <2>2, <2>3, <2>4, <2>5, <2>6 DEF Request
<1> QED  BY <1>1, <1>2, <1>3 DEF Next

\* The invariant is established by Init and preserved by every step.
LEMMA IInvInductive == (Init => IInv) /\ (IInv /\ [Next]_vars => IInv')
<1>1. Init => IInv
  BY InitTypeOK DEF Init, IInv, RaceInv, RowsAreDone, Met, Beside, Uploading, InsertsBesideMet,
                    OnlyRacersCoexist, CertificateKept, LocalsInv, ConfigIsLinked, CalmInv
<1>2. IInv /\ [Next]_vars => IInv'
  BY CertTypeStep, RequestTypeStep, RaceStep, KeptStep, LocalsStep, ConfigStep, CalmStep
  DEF IInv, TypeOK
<1> QED  BY <1>1, <1>2

\* ... so it holds throughout.
LEMMA Invariance == Spec => []IInv
  BY IInvInductive, PTL DEF Spec

-----------------------------------------------------------------------------
(* Theorems                                                                  *)

\* Every variable keeps its shape, in every interleaving of uploads and requests.
THEOREM CertificatesTypeOK == Spec => []TypeOK
<1>1. IInv => TypeOK  BY DEF IInv
<1> QED  BY <1>1, Invariance, PTL

\* Two certificates of one owner exist only if the two uploads that brought them ran beside
\* each other (storeCertificate, src/lib/certificates).
THEOREM RacersCoexist == Spec => []OnlyRacersCoexist
<1>1. IInv => OnlyRacersCoexist  BY DEF IInv, RaceInv
<1> QED  BY <1>1, Invariance, PTL

\* An owner that has had a certificate is without one only after a deletion, a failed
\* upload, or between the two statements of one.
THEOREM CertificatesAreKept == Spec => []CertificateKept
<1>1. IInv => CertificateKept  BY DEF IInv
<1> QED  BY <1>1, Invariance, PTL

\* A user's signature configuration never names a certificate that is gone or another
\* organization's.
THEOREM ConfigurationsLinked == Spec => []ConfigIsLinked
<1>1. IInv => ConfigIsLinked  BY DEF IInv
<1> QED  BY <1>1, Invariance, PTL

\* An activation nobody disturbed leaves one active certificate.
THEOREM ActivationWins == Spec => LoneActivationWins
<1> DEFINE Wins ==
      \A r \in Requests, c \in rows :
         (/\ pc[r] = "activate" /\ rCert[r] = c /\ r \in calm
          /\ pc'[r] = "idle" /\ c \in rows' /\ active'[c])
         => \A d \in rows' : owner[d] = owner[c] /\ active'[d] => d = c
<1>1. IInv /\ [Next]_vars => [Wins]_vars
  <2> SUFFICES ASSUME IInv, Next,
                      NEW r \in Requests, NEW c \in rows,
                      pc[r] = "activate", rCert[r] = c, r \in calm,
                      pc'[r] = "idle", c \in rows', active'[c],
                      NEW d \in rows', owner[d] = owner[c], active'[d]
               PROVE  d = c
    OBVIOUS
  <2> USE DEF IInv, TypeOK, CertTypeOK, RequestTypeOK
  <2>1. \A e \in rows : owner[e] = owner[c] /\ e # c => ~active[e]
    BY DEF CalmInv
  <2>2. PICK q \in Requests : Request(q)
    BY StoreFrame DEF Next, requestVars
  <2>3. q = r /\ rows' \subseteq rows
    BY <2>2, RequestFrame
  <2>4. CASE SetActive(r)
    <3>1. d # c => active'[d] = active[d]
      BY <2>3, <2>4, Zenon DEF SetActive
    <3> QED  BY <2>1, <2>3, <3>1
  <2>5. CASE Crash(r)
    BY <2>1, <2>3, <2>5 DEF Crash, certVars
  <2> QED
    BY <2>2, <2>3, <2>4, <2>5 DEF Request, StartPut, StartDelete, StartConfigure, Begin,
        DeactivateOthers, DeleteCertificate, SaveConfig, Go
<1> QED  BY <1>1, Invariance, PTL DEF Spec, LoneActivationWins

=============================================================================

----------------------------- MODULE EmailProofs -----------------------------
(***************************************************************************)
(* Proofs about EmailDelivery, for any number of mails and handlers, any   *)
(* length of the job's passes and any number of failure answers.           *)
(***************************************************************************)
EXTENDS EmailDelivery, TLAPS

Ended(s) == s \in {"DELIVERED", "BOUNCED", "FAILED"}

\* A tracker that works has a mail; only handlers send.
Working ==
    \A t \in Trackers :
        /\ pc[t] \in {"send", "record"} => t \in Handlers
        /\ pc[t] \in {"send", "record", "ask", "write"} => mail[t] \in Mails

\* A mail that is being sent is nobody else's and has no row; HKA has it from then on.
Sending ==
    \A h \in Handlers :
        /\ pc[h] = "send" => hka[mail[h]] = "none"
        /\ pc[h] = "record" => hka[mail[h]] # "none"
        /\ pc[h] \in {"send", "record"} =>
             /\ status[mail[h]] = "none"
             /\ \A k \in Handlers \ {h} : pc[k] \in {"send", "record"} => mail[k] # mail[h]

\* A mail that is followed has a row, and an answer about its end is still true.
Following ==
    /\ \A m \in Mails : status[m] # "none" => hka[m] # "none"
    /\ \A m \in listed : status[m] # "none"
    /\ \A t \in Trackers :
        /\ pc[t] \in {"ask", "write"} => status[mail[t]] # "none"
        /\ pc[t] = "write" => answer[t] \in DOMAIN EmailStatus
        /\ pc[t] = "write" /\ answer[t] \in Ends => hka[mail[t]] = answer[t]

\* The job has taken the mail it works on off its list.
Listed == pc[Job] \in {"ask", "write"} => mail[Job] \notin listed

Holds(t, m) == (pc[t] \in {"ask", "write"} /\ mail[t] = m) \/ (t = Job /\ m \in listed)

\* What was read of a mail's count is still true, unless somebody has raced.
SeenCurrent ==
    \A m \in Mails \ raced, t \in Trackers : Holds(t, m) => seen[t][m] = retries[m]

\* An answer that the mail is on its way, about one whose end is recorded, is overtaken.
LateIsOvertaken ==
    \A t \in Trackers :
        pc[t] = "write" /\ answer[t] = "ENVIADO" /\ Ended(status[mail[t]]) => t \in overtaken

MailInv == Working /\ Sending /\ Following /\ MailAccounted
CountInv == Listed /\ SeenCurrent /\ CountExact

-----------------------------------------------------------------------------
(* HKA's states and the row's                                                *)

\* What mapHKAToEmailStatus makes of the states that HKA declares.
LEMMA Statuses ==
  /\ DOMAIN EmailStatus = {"ENVIADO", "ENTREGADO", "REBOTADO", "FALLIDO"}
  /\ Ends = {"ENTREGADO", "REBOTADO", "FALLIDO"}
  /\ EmailStatus["ENVIADO"] = "SENT" /\ EmailStatus["ENTREGADO"] = "DELIVERED"
  /\ EmailStatus["REBOTADO"] = "BOUNCED" /\ EmailStatus["FALLIDO"] = "FAILED"
  BY DEF EmailStatus, Ends

\* A step of one tracker leaves the others where they are.
LEMMA TrackerFrame ==
  ASSUME TypeOK, NEW t \in Trackers,
         \/ t \in Handlers /\ Handle(t)
         \/ Track(t)
         \/ t = Job /\ Pass
  PROVE  \A u \in Trackers \ {t} :
           /\ pc'[u] = pc[u] /\ mail'[u] = mail[u] /\ answer'[u] = answer[u] /\ seen'[u] = seen[u]
<1> USE DEF TypeOK
<1>1. CASE t \in Handlers /\ \E m \in Mails : StartSend(t, m) \/ StartTrack(t, m)
  BY <1>1 DEF StartSend, StartTrack
<1>2. CASE SendMail(t)
  BY <1>2 DEF SendMail, End
<1>3. CASE RecordMail(t) \/ WriteStatus(t) \/ Fail(t)
  BY <1>3 DEF RecordMail, WriteStatus, Fail, End
<1>4. CASE Answer(t)
  BY <1>4 DEF Answer
<1>5. CASE t = Job /\ Pass
  BY <1>5 DEF Pass, ListMails, NextListed, EndPass, Restart
<1> QED  BY <1>1, <1>2, <1>3, <1>4, <1>5 DEF Handle, Track

-----------------------------------------------------------------------------
(* Types                                                                     *)

\* The types are established by Init.
LEMMA InitTypeOK == Init => TypeOK
  BY EmailAssumption, Statuses DEF Init, TypeOK, Zero

\* A tracker that ends keeps the types of its program counter and locals.
LEMMA EndTypes ==
  ASSUME TypeOK, NEW t \in Trackers, End(t)
  PROVE  /\ pc' \in [Trackers -> {"idle", "send", "record", "ask", "write", "pass"}]
         /\ mail' \in [Trackers -> Mails \cup {NoMail}]
         /\ answer' \in [Trackers -> {"none", "ENVIADO"} \cup Ends]
         /\ seen' \in [Trackers -> [Mails -> Nat]]
  BY DEF TypeOK, End

\* Every step preserves the types.
LEMMA TypeStep == TypeOK /\ MailInv /\ [Next]_vars => TypeOK'
<1> SUFFICES ASSUME TypeOK, MailInv, [Next]_vars PROVE TypeOK'  OBVIOUS
<1> USE EmailAssumption, Statuses DEF TypeOK, Trackers
<1>1. CASE UNCHANGED vars
  BY <1>1 DEF vars, rowVars, history
<1>2. ASSUME NEW h \in Handlers, NEW m \in Mails, StartSend(h, m) PROVE TypeOK'
  BY <1>2 DEF StartSend, rowVars, history
<1>3. ASSUME NEW h \in Handlers, SendMail(h) PROVE TypeOK'
  <2>1. mail[h] \in Mails
    BY <1>3 DEF SendMail, MailInv, Working
  <2>2. CASE End(h)
    BY <1>3, <2>1, <2>2, EndTypes DEF SendMail, rowVars
  <2>3. CASE pc' = [pc EXCEPT ![h] = "record"] /\ UNCHANGED <<mail, answer, seen, unrecorded>>
    BY <1>3, <2>3 DEF SendMail, rowVars
  <2> QED  BY <1>3, <2>2, <2>3 DEF SendMail
<1>4. ASSUME NEW h \in Handlers, RecordMail(h) PROVE TypeOK'
  BY <1>4, EndTypes DEF RecordMail, history
<1>5. ASSUME NEW h \in Handlers, NEW m \in Mails, StartTrack(h, m) PROVE TypeOK'
  BY <1>5 DEF StartTrack, rowVars, history
<1>6. ASSUME NEW t \in Trackers, Answer(t) PROVE TypeOK'
  BY <1>6 DEF Answer, rowVars, MailInv, Working
<1>7. ASSUME NEW t \in Trackers, WriteStatus(t) PROVE TypeOK'
  <2>1. /\ mail[t] \in Mails /\ EmailStatus[answer[t]] \in {"SENT", "DELIVERED", "BOUNCED", "FAILED"}
        /\ UNCHANGED <<hka, listed, unrecorded>> /\ End(t)
        /\ status' = [status EXCEPT ![mail[t]] = EmailStatus[answer[t]]]
        /\ retries' \in {[retries EXCEPT ![mail[t]] = seen[t][mail[t]] + 1], retries}
        /\ failures' \in {failures, [failures EXCEPT ![mail[t]] = @ + 1]}
        /\ overtaken' \subseteq Trackers
        /\ raced' \subseteq raced \cup {mail[t]}
    BY <1>7 DEF WriteStatus, Count, MailInv, Working, Following
  <2>2. retries' \in [Mails -> Nat] /\ failures' \in [Mails -> Nat]
    BY <2>1
  <2> QED  BY <2>1, <2>2, EndTypes
<1>8. ASSUME NEW t \in Trackers, Fail(t) PROVE TypeOK'
  BY <1>8, EndTypes DEF Fail, rowVars, MailInv, Working
<1>9. CASE ListMails
  BY <1>9 DEF ListMails, Pending, rowVars, history
<1>10. ASSUME NEW m \in Mails, NextListed(m) PROVE TypeOK'
  BY <1>10 DEF NextListed, rowVars, history
<1>11. CASE EndPass
  BY <1>11 DEF EndPass, rowVars, history
<1>12. CASE Restart
  BY <1>12 DEF Restart, rowVars, Zero
<1>13. ASSUME NEW m \in Mails, Settle(m) PROVE TypeOK'
  BY <1>13 DEF Settle, rowVars, history
<1> QED
  BY <1>1, <1>2, <1>3, <1>4, <1>5, <1>6, <1>7, <1>8, <1>9, <1>10, <1>11, <1>12, <1>13
  DEF Next, Handle, Track, Pass

-----------------------------------------------------------------------------
(* Mails and rows                                                            *)

\* Where a tracker is after it has ended.
LEMMA EndPlace ==
  ASSUME TypeOK, NEW t \in Trackers, End(t)
  PROVE  pc'[t] \in {"idle", "pass"} /\ mail'[t] = NoMail
  BY DEF TypeOK, End

\* A step of a tracker that leaves HKA and the rows alone.
LEMMA QuietStep ==
  ASSUME TypeOK, MailInv, NEW t \in Trackers,
         UNCHANGED <<hka, status>>, listed' \subseteq {m \in Mails : status[m] # "none"},
         unrecorded \subseteq unrecorded',
         pc[t] = "record" => mail[t] \in unrecorded',
         \A u \in Trackers \ {t} : pc'[u] = pc[u] /\ mail'[u] = mail[u] /\ answer'[u] = answer[u],
         \/ pc'[t] \in {"idle", "pass"}
         \/ /\ pc'[t] \in {"ask", "write"} /\ mail'[t] \in Mails /\ status[mail'[t]] # "none"
            /\ pc'[t] = "write" =>
                 answer'[t] = hka[mail'[t]] /\ answer'[t] \in DOMAIN EmailStatus
  PROVE  MailInv'
<1> USE Statuses DEF TypeOK, MailInv, Trackers
<1>1. Working'
  BY DEF Working
<1>2. Sending'
  BY DEF Sending
<1>3. Following'
  BY DEF Following
<1>4. MailAccounted'
  <2> SUFFICES ASSUME NEW m \in Mails, hka[m] # "none", status[m] = "none", m \notin unrecorded'
               PROVE  \E h \in Handlers : pc'[h] = "record" /\ mail'[h] = m
    BY DEF MailAccounted
  <2>1. PICK h \in Handlers : pc[h] = "record" /\ mail[h] = m
    BY DEF MailAccounted
  <2> QED  BY <2>1
<1> QED  BY <1>1, <1>2, <1>3, <1>4

\* Every step keeps mails and rows accounted for.
LEMMA MailStep == TypeOK /\ MailInv /\ [Next]_vars => MailInv'
<1> SUFFICES ASSUME TypeOK, MailInv, [Next]_vars PROVE MailInv'  OBVIOUS
<1>1. CASE UNCHANGED vars
  BY <1>1 DEF vars, rowVars, history, MailInv, Working, Sending, Following, MailAccounted
<1>2. ASSUME NEW h \in Handlers, NEW m \in Mails, StartSend(h, m) PROVE MailInv'
  <2> USE DEF TypeOK, MailInv, Trackers
  <2>1. /\ UNCHANGED <<hka, status, answer, listed, unrecorded>> /\ hka[m] = "none"
        /\ \A k \in Handlers : pc[k] = "send" => mail[k] # m
        /\ pc[h] = "idle" /\ pc'[h] = "send" /\ mail'[h] = m
        /\ \A u \in Trackers \ {h} : pc'[u] = pc[u] /\ mail'[u] = mail[u]
    BY <1>2 DEF StartSend, rowVars, history
  <2>2. Working'
    BY <2>1 DEF Working
  <2>3. Sending'
    BY <2>1 DEF Sending, Following
  <2>4. Following'
    BY <2>1 DEF Following
  <2>5. MailAccounted'
    BY <2>1 DEF MailAccounted
  <2> QED  BY <2>2, <2>3, <2>4, <2>5
<1>3. ASSUME NEW h \in Handlers, SendMail(h) PROVE MailInv'
  <2> USE DEF TypeOK, MailInv, Trackers
  <2>1. /\ UNCHANGED <<status, listed>> /\ pc[h] = "send" /\ mail[h] \in Mails
        /\ hka[mail[h]] = "none" /\ status[mail[h]] = "none"
        /\ \A u \in Trackers \ {h} : pc'[u] = pc[u] /\ mail'[u] = mail[u] /\ answer'[u] = answer[u]
    BY <1>3, TrackerFrame DEF SendMail, rowVars, Handle, Working, Sending
  <2>2. CASE UNCHANGED hka
    <3>1. UNCHANGED unrecorded /\ pc'[h] \in {"idle", "pass"}
      BY <1>3, <2>1, <2>2, EndPlace DEF SendMail
    <3> QED  BY <2>1, <2>2, <3>1, QuietStep DEF Following
  <2>3. CASE hka' = [hka EXCEPT ![mail[h]] = "ENVIADO"]
    <3>1. \/ pc'[h] = "record" /\ mail'[h] = mail[h] /\ unrecorded' = unrecorded
          \/ pc'[h] \in {"idle", "pass"} /\ unrecorded' = unrecorded \cup {mail[h]}
      BY <1>3, <2>1, <2>3, EndPlace DEF SendMail
    <3>2. Working'
      BY <2>1, <3>1 DEF Working
    <3>3. Sending'
      BY <2>1, <2>3, <3>1 DEF Sending
    <3>4. Following'
      BY <2>1, <2>3, <3>1, Statuses DEF Following
    <3>5. MailAccounted'
      BY <2>1, <2>3, <3>1 DEF MailAccounted
    <3> QED  BY <3>2, <3>3, <3>4, <3>5
  <2> QED  BY <1>3, <2>2, <2>3 DEF SendMail
<1>4. ASSUME NEW h \in Handlers, RecordMail(h) PROVE MailInv'
  <2> USE DEF TypeOK, MailInv, Trackers
  <2>1. /\ UNCHANGED <<hka, listed, unrecorded>> /\ pc[h] = "record" /\ mail[h] \in Mails
        /\ status' = [status EXCEPT ![mail[h]] = "SENT"]
        /\ hka[mail[h]] # "none" /\ status[mail[h]] = "none"
        /\ pc'[h] \in {"idle", "pass"}
        /\ \A u \in Trackers \ {h} : pc'[u] = pc[u] /\ mail'[u] = mail[u] /\ answer'[u] = answer[u]
    BY <1>4, TrackerFrame, EndPlace DEF RecordMail, history, Handle, Working, Sending
  <2>2. Working'
    BY <2>1 DEF Working
  <2>3. Sending'
    BY <2>1 DEF Sending, Working
  <2>4. Following'
    BY <2>1 DEF Following
  <2>5. MailAccounted'
    BY <2>1 DEF MailAccounted
  <2> QED  BY <2>2, <2>3, <2>4, <2>5
<1>5. ASSUME NEW h \in Handlers, NEW m \in Mails, StartTrack(h, m) PROVE MailInv'
  <2>1. /\ UNCHANGED <<hka, status, listed, unrecorded>> /\ status[m] # "none"
        /\ h \in Trackers /\ pc[h] = "idle" /\ pc'[h] = "ask" /\ mail'[h] = m
        /\ \A u \in Trackers \ {h} : pc'[u] = pc[u] /\ mail'[u] = mail[u] /\ answer'[u] = answer[u]
    BY <1>5, TrackerFrame DEF StartTrack, rowVars, history, Trackers, Handle, TypeOK
  <2> QED  BY <2>1, QuietStep DEF MailInv, Following, TypeOK
<1>6. ASSUME NEW t \in Trackers, Answer(t) PROVE MailInv'
  <2>1. /\ UNCHANGED <<hka, status, listed, unrecorded, mail>> /\ pc[t] = "ask"
        /\ pc'[t] = "write" /\ answer'[t] = hka[mail[t]]
        /\ mail[t] \in Mails /\ status[mail[t]] # "none" /\ hka[mail[t]] # "none"
        /\ \A u \in Trackers \ {t} : pc'[u] = pc[u] /\ mail'[u] = mail[u] /\ answer'[u] = answer[u]
    BY <1>6, TrackerFrame DEF Answer, rowVars, Track, TypeOK, MailInv, Working, Following
  <2>2. answer'[t] \in DOMAIN EmailStatus
    BY <2>1, Statuses DEF TypeOK
  <2> QED  BY <2>1, <2>2, QuietStep DEF MailInv, Following, TypeOK
<1>7. ASSUME NEW t \in Trackers, WriteStatus(t) PROVE MailInv'
  <2> USE DEF TypeOK, MailInv, Trackers
  <2>1. /\ UNCHANGED <<hka, listed, unrecorded>> /\ pc[t] = "write" /\ mail[t] \in Mails
        /\ status' = [status EXCEPT ![mail[t]] = EmailStatus[answer[t]]]
        /\ status[mail[t]] # "none" /\ hka[mail[t]] # "none"
        /\ answer[t] \in DOMAIN EmailStatus
        /\ answer[t] \in Ends => hka[mail[t]] = answer[t]
        /\ pc'[t] \in {"idle", "pass"}
        /\ \A u \in Trackers \ {t} : pc'[u] = pc[u] /\ mail'[u] = mail[u] /\ answer'[u] = answer[u]
    BY <1>7, TrackerFrame, EndPlace DEF WriteStatus, Track, Working, Following
  <2>2. Working'
    BY <2>1 DEF Working
  <2>3. Sending'
    BY <2>1 DEF Sending, Working
  <2>4. Following'
    BY <2>1, Statuses DEF Following
  <2>5. MailAccounted'
    BY <2>1, Statuses DEF MailAccounted
  <2> QED  BY <2>2, <2>3, <2>4, <2>5
<1>8. ASSUME NEW t \in Trackers, Fail(t) PROVE MailInv'
  <2>1. /\ UNCHANGED <<hka, status, listed>> /\ unrecorded \subseteq unrecorded'
        /\ pc[t] = "record" => mail[t] \in unrecorded'
        /\ pc'[t] \in {"idle", "pass"}
        /\ \A u \in Trackers \ {t} : pc'[u] = pc[u] /\ mail'[u] = mail[u] /\ answer'[u] = answer[u]
    BY <1>8, TrackerFrame, EndPlace DEF Fail, rowVars, Track
  <2> QED  BY <2>1, QuietStep DEF MailInv, Following, TypeOK
<1>9. CASE Pass
  <2> USE EmailAssumption
  <2>1. /\ UNCHANGED <<hka, status, unrecorded>> /\ Job \in Trackers
        /\ pc[Job] # "record"
        /\ \A u \in Trackers \ {Job} :
             pc'[u] = pc[u] /\ mail'[u] = mail[u] /\ answer'[u] = answer[u]
    BY <1>9, TrackerFrame DEF Pass, ListMails, NextListed, EndPass, Restart, rowVars, history,
                              Trackers, MailInv, Working
  <2>2. CASE ListMails
    <3>1. pc'[Job] = "pass" /\ listed' \subseteq {m \in Mails : status[m] # "none"}
      BY <2>1, <2>2 DEF ListMails, Pending, TypeOK
    <3> QED  BY <2>1, <3>1, QuietStep
  <2>3. ASSUME NEW m \in Mails, NextListed(m) PROVE MailInv'
    <3>1. /\ pc'[Job] = "ask" /\ mail'[Job] = m /\ status[m] # "none"
          /\ listed' \subseteq {n \in Mails : status[n] # "none"}
      BY <2>1, <2>3 DEF NextListed, TypeOK, MailInv, Following
    <3> QED  BY <2>1, <3>1, QuietStep
  <2>4. CASE EndPass \/ Restart
    <3>1. pc'[Job] = "idle" /\ listed' \subseteq {m \in Mails : status[m] # "none"}
      BY <2>1, <2>4 DEF EndPass, Restart, TypeOK
    <3> QED  BY <2>1, <3>1, QuietStep
  <2> QED  BY <1>9, <2>2, <2>3, <2>4 DEF Pass
<1>10. ASSUME NEW m \in Mails, Settle(m) PROVE MailInv'
  <2> USE Statuses DEF TypeOK, MailInv
  <2>1. /\ UNCHANGED <<pc, mail, answer, listed, status, unrecorded>> /\ hka[m] = "ENVIADO"
        /\ hka'[m] \in Ends /\ \A n \in Mails \ {m} : hka'[n] = hka[n]
    BY <1>10 DEF Settle, rowVars, history
  <2>2. Working' /\ Sending' /\ Following'
    BY <2>1 DEF Working, Sending, Following, Trackers
  <2>3. MailAccounted'
    BY <2>1 DEF MailAccounted
  <2> QED  BY <2>2, <2>3
<1> QED
  BY <1>1, <1>2, <1>3, <1>4, <1>5, <1>6, <1>7, <1>8, <1>9, <1>10 DEF Next, Handle, Track

-----------------------------------------------------------------------------
(* Counts                                                                    *)

\* A step that writes no row keeps the counts, if whoever holds a mail after it held it
\* before, or reads its count now.
LEMMA QuietCount ==
  ASSUME TypeOK, CountInv, UNCHANGED <<retries, failures, raced>>, Listed',
         \A m \in Mails, t \in Trackers :
            Holds(t, m)' => seen'[t][m] = retries[m] \/ (Holds(t, m) /\ seen'[t][m] = seen[t][m])
  PROVE  CountInv'
  BY DEF CountInv, CountExact, SeenCurrent, TypeOK

\* What a tracker that ends has read of other mails stays.
LEMMA EndSeen ==
  ASSUME TypeOK, MailInv, Listed, NEW t \in Trackers, pc[t] \in {"record", "ask", "write"}, End(t),
         listed' = listed
  PROVE  \A m \in Mails : Holds(t, m)' => Holds(t, m) /\ (pc[t] # "record" => seen'[t][m] = seen[t][m])
<1>1. pc'[t] \in {"idle", "pass"} /\ mail[t] \in Mails
  BY EndPlace DEF MailInv, Working
<1>2. \A m \in Mails \ {mail[t]} : seen'[t][m] = seen[t][m]
  BY DEF End, TypeOK
<1>3. pc[t] \in {"ask", "write"} => (t = Job => mail[t] \notin listed)
  BY DEF Listed
<1> QED  BY <1>1, <1>2, <1>3 DEF Holds

\* Every step keeps the counts.
LEMMA CountStep == TypeOK /\ MailInv /\ CountInv /\ [Next]_vars => CountInv'
<1> SUFFICES ASSUME TypeOK, MailInv, CountInv, [Next]_vars PROVE CountInv'  OBVIOUS
<1> USE EmailAssumption DEF Trackers
<1>1. CASE UNCHANGED vars
  BY <1>1 DEF vars, rowVars, history, CountInv, Listed, SeenCurrent, Holds, CountExact
<1>2. ASSUME NEW h \in Handlers, Handle(h) PROVE CountInv'
  <2>1. /\ UNCHANGED <<retries, failures, raced, listed>>
        /\ \A u \in Trackers \ {h} :
             pc'[u] = pc[u] /\ mail'[u] = mail[u] /\ seen'[u] = seen[u]
        /\ h # Job /\ Job \in Trackers
    BY <1>2, TrackerFrame DEF Handle, StartSend, SendMail, RecordMail, StartTrack, rowVars, history
  <2>2. \A m \in Mails : Holds(h, m)' => seen'[h][m] = retries[m]
    <3>1. CASE (\E m \in Mails : StartSend(h, m)) \/ SendMail(h) \/ RecordMail(h)
      <4>1. pc'[h] \notin {"ask", "write"}
        BY <3>1, EndPlace DEF StartSend, SendMail, RecordMail, TypeOK
      <4> QED  BY <2>1, <4>1 DEF Holds
    <3>2. ASSUME NEW n \in Mails, StartTrack(h, n)
          PROVE  \A m \in Mails : Holds(h, m)' => seen'[h][m] = retries[m]
      BY <2>1, <3>2 DEF StartTrack, Holds, TypeOK
    <3> QED  BY <1>2, <3>1, <3>2 DEF Handle
  <2>3. Listed'
    BY <2>1 DEF CountInv, Listed
  <2> QED  BY <2>1, <2>2, <2>3, QuietCount DEF Holds
<1>3. ASSUME NEW t \in Trackers, Answer(t) PROVE CountInv'
  <2>1. /\ UNCHANGED <<retries, failures, raced, listed, mail, seen>>
        /\ pc[t] = "ask" /\ \A u \in Trackers \ {t} : pc'[u] = pc[u]
    BY <1>3 DEF Answer, rowVars, TypeOK
  <2>2. Listed'
    BY <2>1 DEF CountInv, Listed
  <2>3. \A m \in Mails, u \in Trackers : Holds(u, m)' => Holds(u, m)
    BY <2>1 DEF Holds
  <2> QED  BY <2>1, <2>2, <2>3, QuietCount
<1>4. ASSUME NEW t \in Trackers, WriteStatus(t) PROVE CountInv'
  <2> DEFINE n == mail[t]
             failed == Failed(EmailStatus[answer[t]])
  <2>1. /\ listed' = listed /\ End(t) /\ pc[t] = "write" /\ n \in Mails
        /\ pc'[t] \in {"idle", "pass"}
        /\ \A u \in Trackers \ {t} : pc'[u] = pc[u] /\ mail'[u] = mail[u] /\ seen'[u] = seen[u]
    BY <1>4, TrackerFrame, EndPlace DEF WriteStatus, Track, MailInv, Working
  <2>2. Listed'
    BY <2>1 DEF CountInv, Listed
  <2>3. \A m \in Mails, u \in Trackers :
          Holds(u, m)' => Holds(u, m) /\ seen'[u][m] = seen[u][m]
    BY <2>1, EndSeen DEF Holds, CountInv
  <2>4. CASE ~failed
    <3>1. UNCHANGED <<retries, failures, raced>>
      BY <1>4, <2>4 DEF WriteStatus, Count
    <3> QED  BY <2>2, <2>3, <3>1, QuietCount
  <2>5. CASE failed
    <3>1. /\ retries' = [retries EXCEPT ![n] = seen[t][n] + 1]
          /\ failures' = [failures EXCEPT ![n] = failures[n] + 1]
          /\ raced' = IF Holders(t, n) # {} THEN raced \cup {n} ELSE raced
      BY <1>4, <2>5 DEF WriteStatus, Count
    <3>2. n \notin raced => seen[t][n] = retries[n]
      BY <2>1 DEF CountInv, SeenCurrent, Holds
    <3>3. CountExact'
      BY <2>1, <3>1, <3>2 DEF CountInv, CountExact, TypeOK
    <3>4. SeenCurrent'
      <4> SUFFICES ASSUME NEW m \in Mails \ raced', NEW u \in Trackers, Holds(u, m)'
                   PROVE  seen'[u][m] = retries'[m]
        BY DEF SeenCurrent
      <4>1. Holds(u, m) /\ seen'[u][m] = seen[u][m] /\ m \notin raced
        BY <2>3, <3>1
      <4>2. CASE m # n
        BY <3>1, <4>1, <4>2 DEF CountInv, SeenCurrent, TypeOK
      <4>3. CASE m = n
        <5>1. Holders(t, n) = {}
          BY <3>1, <4>3
        <5>2. u \notin Trackers \ {t} \/ ~(pc[u] \in {"ask", "write"} /\ mail[u] = n)
          BY <5>1 DEF Holders
        <5>3. n \notin listed
          BY <5>1 DEF Holders
        <5>4. u = t
          BY <4>1, <4>3, <5>2, <5>3 DEF Holds
        <5> QED  BY <2>1, <4>3, <5>3, <5>4 DEF Holds
      <4> QED  BY <4>2, <4>3
    <3> QED  BY <2>2, <3>3, <3>4 DEF CountInv
  <2> QED  BY <2>4, <2>5
<1>5. ASSUME NEW t \in Trackers, Fail(t) PROVE CountInv'
  <2>1. /\ UNCHANGED <<retries, failures, raced, listed>> /\ End(t)
        /\ pc[t] \in {"record", "ask", "write"} /\ pc'[t] \in {"idle", "pass"}
        /\ pc[t] = "record" => t # Job
        /\ \A u \in Trackers \ {t} : pc'[u] = pc[u] /\ mail'[u] = mail[u] /\ seen'[u] = seen[u]
    BY <1>5, TrackerFrame, EndPlace DEF Fail, rowVars, Track, MailInv, Working
  <2>2. Listed'
    BY <2>1 DEF CountInv, Listed
  <2>3. \A m \in Mails, u \in Trackers :
          Holds(u, m)' => Holds(u, m) /\ seen'[u][m] = seen[u][m]
    BY <2>1, EndSeen DEF Holds, CountInv
  <2> QED  BY <2>1, <2>2, <2>3, QuietCount
<1>6. CASE Pass
  <2>1. /\ UNCHANGED <<retries, failures, raced>> /\ Job \in Trackers
        /\ \A u \in Trackers \ {Job} :
             pc'[u] = pc[u] /\ mail'[u] = mail[u] /\ seen'[u] = seen[u]
    BY <1>6, TrackerFrame DEF Pass, ListMails, NextListed, EndPass, Restart, rowVars, history
  <2>2. ASSUME Listed',
               \A m \in Mails : Holds(Job, m)' =>
                  seen'[Job][m] = retries[m] \/ (Holds(Job, m) /\ seen'[Job][m] = seen[Job][m])
        PROVE  CountInv'
    BY <2>1, <2>2, QuietCount DEF Holds
  <2>3. CASE ListMails
    <3>1. pc'[Job] = "pass" /\ \A m \in listed' : m \in Mails => seen'[Job][m] = retries[m]
      BY <2>1, <2>3 DEF ListMails, TypeOK
    <3> QED  BY <2>2, <3>1 DEF Holds, Listed
  <2>4. ASSUME NEW n \in Mails, NextListed(n) PROVE CountInv'
    <3>1. /\ listed' = listed \ {n} /\ n \in listed /\ mail'[Job] = n /\ seen' = seen
      BY <2>1, <2>4 DEF NextListed, TypeOK
    <3> QED  BY <2>2, <3>1 DEF Holds, Listed
  <2>5. CASE EndPass \/ Restart
    <3>1. pc'[Job] = "idle" /\ listed' = {}
      BY <2>1, <2>5 DEF EndPass, Restart, TypeOK
    <3> QED  BY <2>2, <3>1 DEF Holds, Listed
  <2> QED  BY <1>6, <2>3, <2>4, <2>5 DEF Pass
<1>7. ASSUME NEW m \in Mails, Settle(m) PROVE CountInv'
  BY <1>7 DEF Settle, rowVars, history, CountInv, Listed, SeenCurrent, Holds, CountExact
<1> QED  BY <1>1, <1>2, <1>3, <1>4, <1>5, <1>6, <1>7 DEF Next, Track

-----------------------------------------------------------------------------
(* Late answers                                                              *)

\* Every step keeps the account of late answers.
LEMMA LateStep == TypeOK /\ MailInv /\ LateIsOvertaken /\ [Next]_vars => LateIsOvertaken'
<1> SUFFICES ASSUME TypeOK, MailInv, LateIsOvertaken, [Next]_vars PROVE LateIsOvertaken'
  OBVIOUS
<1> USE EmailAssumption DEF TypeOK, Trackers
<1>1. CASE UNCHANGED vars
  BY <1>1 DEF vars, rowVars, history, LateIsOvertaken
<1>2. ASSUME NEW t \in Trackers,
             \A u \in Trackers \ {t} :
                pc'[u] = pc[u] /\ mail'[u] = mail[u] /\ answer'[u] = answer[u],
             overtaken \ {t} \subseteq overtaken', pc'[t] # "write",
             \A m \in Mails : Ended(status'[m]) => Ended(status[m])
      PROVE  LateIsOvertaken'
  BY <1>2 DEF LateIsOvertaken, MailInv, Working
<1>3. ASSUME NEW t \in Trackers, Answer(t) PROVE LateIsOvertaken'
  <2>1. /\ UNCHANGED <<status, mail>> /\ answer'[t] = hka[mail[t]] /\ mail[t] \in Mails
        /\ overtaken' = overtaken \ {t}
        /\ \A u \in Trackers \ {t} : pc'[u] = pc[u] /\ answer'[u] = answer[u]
    BY <1>3 DEF Answer, rowVars, MailInv, Working
  <2>2. answer'[t] = "ENVIADO" => ~Ended(status[mail[t]])
    BY <2>1 DEF MailInv, MailAccounted, Ended
  <2> QED  BY <2>1, <2>2 DEF LateIsOvertaken
<1>4. ASSUME NEW t \in Trackers, WriteStatus(t) PROVE LateIsOvertaken'
  <2>1. /\ status' = [status EXCEPT ![mail[t]] = EmailStatus[answer[t]]] /\ mail[t] \in Mails
        /\ overtaken' = (overtaken \ {t})
             \cup {u \in Trackers \ {t} : mail[u] = mail[t] /\ pc[u] = "write"}
        /\ pc'[t] # "write"
        /\ \A u \in Trackers \ {t} : pc'[u] = pc[u] /\ mail'[u] = mail[u] /\ answer'[u] = answer[u]
    BY <1>4, TrackerFrame, EndPlace DEF WriteStatus, Track, MailInv, Working
  <2> QED  BY <2>1 DEF LateIsOvertaken, MailInv, Working
<1>5. ASSUME NEW m \in Mails, Settle(m) PROVE LateIsOvertaken'
  BY <1>5 DEF Settle, rowVars, history, LateIsOvertaken
<1>6. ASSUME NEW h \in Handlers, Handle(h) PROVE LateIsOvertaken'
  <2>1. \A u \in Trackers \ {h} : pc'[u] = pc[u] /\ mail'[u] = mail[u] /\ answer'[u] = answer[u]
    BY <1>6, TrackerFrame
  <2>2. overtaken' = overtaken /\ pc'[h] # "write"
    BY <1>6, EndPlace DEF Handle, StartSend, SendMail, RecordMail, StartTrack, history
  <2>3. \A m \in Mails : Ended(status'[m]) => Ended(status[m])
    BY <1>6 DEF Handle, StartSend, SendMail, RecordMail, StartTrack, rowVars, Ended
  <2> QED  BY <1>2, <2>1, <2>2, <2>3
<1>7. CASE Pass
  <2>1. \A u \in Trackers \ {Job} : pc'[u] = pc[u] /\ mail'[u] = mail[u] /\ answer'[u] = answer[u]
    BY <1>7, TrackerFrame
  <2>2. overtaken \ {Job} \subseteq overtaken' /\ pc'[Job] # "write" /\ status' = status
    BY <1>7 DEF Pass, ListMails, NextListed, EndPass, Restart, rowVars, history
  <2> QED  BY <1>2, <2>1, <2>2
<1>8. ASSUME NEW t \in Trackers, Fail(t) PROVE LateIsOvertaken'
  <2>1. \A u \in Trackers \ {t} : pc'[u] = pc[u] /\ mail'[u] = mail[u] /\ answer'[u] = answer[u]
    BY <1>8, TrackerFrame DEF Track
  <2>2. overtaken \ {t} \subseteq overtaken' /\ pc'[t] # "write" /\ status' = status
    BY <1>8, EndPlace DEF Fail, rowVars
  <2> QED  BY <1>2, <2>1, <2>2
<1>9. CASE \E t \in Trackers : Track(t)
  BY <1>3, <1>4, <1>8, <1>9 DEF Track
<1> QED  BY <1>1, <1>5, <1>6, <1>7, <1>9 DEF Next

-----------------------------------------------------------------------------
(* Theorems                                                                  *)

IInv == TypeOK /\ MailInv /\ CountInv /\ LateIsOvertaken

\* The invariant holds throughout.
LEMMA Invariance == Spec => []IInv
<1>1. Init => IInv
  <2> SUFFICES ASSUME Init PROVE IInv  OBVIOUS
  <2>1. TypeOK
    BY InitTypeOK
  <2>2. MailInv /\ LateIsOvertaken
    BY EmailAssumption DEF Init, MailInv, Working, Sending, Following, MailAccounted,
                           LateIsOvertaken, Trackers
  <2>3. CountInv
    BY EmailAssumption DEF Init, CountInv, Listed, SeenCurrent, Holds, CountExact, Zero, Trackers
  <2> QED  BY <2>1, <2>2, <2>3 DEF IInv
<1>2. IInv /\ [Next]_vars => IInv'
  BY TypeStep, MailStep, CountStep, LateStep DEF IInv
<1> QED  BY <1>1, <1>2, PTL DEF Spec

\* Every variable keeps its shape, whoever sends and tracks.
THEOREM EmailTypeOK == Spec => []TypeOK
<1>1. IInv => TypeOK  BY DEF IInv
<1> QED  BY <1>1, Invariance, PTL

\* No mail HKA has taken is unaccounted for, and no row says a mail ended otherwise than it
\* did (email/send, email/track and the tracking job).
THEOREM MailsAreAccounted == Spec => []MailAccounted
<1>1. IInv => MailAccounted  BY DEF IInv, MailInv
<1> QED  BY <1>1, Invariance, PTL

\* A failure that nobody else was about to count too is counted once.
THEOREM CountsAreExact == Spec => []CountExact
<1>1. IInv => CountExact  BY DEF IInv, CountInv
<1> QED  BY <1>1, Invariance, PTL

\* Only an answer older than the recorded end replaces it.
THEOREM EndsStay == Spec => EndStays
<1> DEFINE Stays ==
      \A m \in Mails :
         status[m] \in {"DELIVERED", "BOUNCED", "FAILED"} /\ status'[m] # status[m] =>
           \E t \in overtaken : pc[t] = "write" /\ mail[t] = m
<1>1. IInv /\ [Next]_vars => [Stays]_vars
  <2> SUFFICES ASSUME IInv, Next, NEW m \in Mails,
                      Ended(status[m]), status'[m] # status[m]
               PROVE  \E t \in overtaken : pc[t] = "write" /\ mail[t] = m
    BY DEF Ended
  <2> USE DEF IInv, TypeOK
  <2>1. ASSUME NEW t \in Trackers, WriteStatus(t)
        PROVE  \E u \in overtaken : pc[u] = "write" /\ mail[u] = m
    <3>1. /\ pc[t] = "write" /\ mail[t] = m /\ status'[m] = EmailStatus[answer[t]]
          /\ answer[t] \in DOMAIN EmailStatus
          /\ answer[t] \in Ends => hka[m] = answer[t]
      BY <2>1 DEF WriteStatus, MailInv, Working, Following
    <3>2. answer[t] = "ENVIADO"
      BY <3>1, Statuses DEF MailInv, MailAccounted, Ended
    <3> QED  BY <3>1, <3>2 DEF LateIsOvertaken
  <2>2. ASSUME NEW h \in Handlers, RecordMail(h) PROVE FALSE
    BY <2>2 DEF RecordMail, MailInv, Sending, Ended
  <2>3. CASE status' = status
    BY <2>3
  <2> QED
    BY <2>1, <2>2, <2>3 DEF Next, Handle, StartSend, StartTrack, SendMail, Track, Answer, Fail,
         Pass, ListMails, NextListed, EndPass, Restart, Settle, rowVars
<1> QED  BY <1>1, Invariance, PTL DEF Spec, EndStays

=============================================================================

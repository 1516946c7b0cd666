---------------------------- MODULE EmailDelivery ----------------------------
(***************************************************************************)
(* Mailing a certified invoice and following the mail.  A handler (the     *)
(* user's POST email/send, or the invoice worker after a certification)    *)
(* has HKA send the mail and then inserts the EmailDelivery row.  The      *)
(* status is then asked of HKA by users (POST email/track) and every ten   *)
(* minutes by the tracking job, each of which writes what it was told.     *)
(*                                                                         *)
(* A mail is named by HKA's tracking id.  Its invoice stays: a certified   *)
(* one is not deleted.                                                     *)
(***************************************************************************)
EXTENDS Naturals, FiniteSets

CONSTANTS Mails,
          Handlers,   \* requests and worker jobs; a finished one is used again
          Job,        \* the tracking job: concurrency is 1
          Take,       \* how many rows a pass of the job looks at: 100
          MaxAnswers, \* bound: failure answers after which users ask no more
          NoMail

ASSUME EmailAssumption ==
    /\ Job \notin Handlers
    /\ NoMail \notin Mails
    /\ Take \in Nat \ {0} /\ MaxAnswers \in Nat

Trackers == Handlers \cup {Job}

VARIABLES
    hka,       \* external: what has become of the mail
    status, retries, \* email_deliveries: status, retryCount; status "none" means no row
    pc, mail, answer, \* handlers and the job: program counter, the mail, HKA's answer
    seen,      \* the retryCount each of them read, of each mail
    listed,    \* the rows that the pass of the job has still to look at
    unrecorded, \* history: mails whose handler failed after HKA had taken them
    overtaken, \* history: trackers whose answer is older than what another has written since
    raced,     \* history: mails whose failure was counted by one while another held the row
    failures   \* history: how many failure answers were written

rowVars == <<status, retries>>
history == <<unrecorded, overtaken, raced, failures>>
vars == <<hka, rowVars, pc, mail, answer, seen, listed, history>>

Zero == [m \in Mails |-> 0]

Init ==
    /\ hka = [m \in Mails |-> "none"]
    /\ status = [m \in Mails |-> "none"]
    /\ retries = Zero /\ failures = Zero
    /\ pc = [t \in Trackers |-> "idle"]
    /\ mail = [t \in Trackers |-> NoMail]
    /\ answer = [t \in Trackers |-> "none"]
    /\ seen = [t \in Trackers |-> Zero]
    /\ listed = {}
    /\ unrecorded = {} /\ overtaken = {} /\ raced = {}

-----------------------------------------------------------------------------
(* HKA                                                                       *)

\* Faulty variant: a bounce keeps HKA's name.
EmailStatusRaw == [ENVIADO |-> "SENT", ENTREGADO |-> "DELIVERED",
                   REBOTADO |-> "REBOTADO", FALLIDO |-> "FAILED"]

\* mapHKAToEmailStatus, for the states that HKA's interface declares.
EmailStatus == [ENVIADO |-> "SENT", ENTREGADO |-> "DELIVERED",
                REBOTADO |-> "BOUNCED", FALLIDO |-> "FAILED"]

Ends == DOMAIN EmailStatus \ {"ENVIADO"}

\* The mail arrives, comes back, or cannot be sent.
Settle(m) ==
    /\ hka[m] = "ENVIADO"
    /\ \E e \in Ends : hka' = [hka EXCEPT ![m] = e]
    /\ UNCHANGED <<pc, mail, answer, seen, listed>>
    /\ UNCHANGED rowVars /\ UNCHANGED history

-----------------------------------------------------------------------------
(* Sending                                                                   *)

\* The invoice is CERTIFIED and has a cufe, and the address is well formed.
StartSend(h, m) ==
    /\ pc[h] = "idle" /\ hka[m] = "none"
    /\ \A k \in Handlers : pc[k] = "send" => mail[k] # m \* HKA's ids are unique
    /\ pc' = [pc EXCEPT ![h] = "send"]
    /\ mail' = [mail EXCEPT ![h] = m]
    /\ UNCHANGED <<hka, answer, seen, listed>> /\ UNCHANGED rowVars /\ UNCHANGED history

End(t) ==
    /\ pc' = [pc EXCEPT ![t] = IF t = Job THEN "pass" ELSE "idle"]
    /\ mail' = [mail EXCEPT ![t] = NoMail]
    /\ answer' = [answer EXCEPT ![t] = "none"]
    /\ seen' = [seen EXCEPT ![t][mail[t]] = 0]

\* Faulty variant: the handler ends with HKA's answer.
SendOnly(h) ==
    /\ pc[h] = "send"
    /\ hka' = [hka EXCEPT ![mail[h]] = "ENVIADO"]
    /\ End(h)
    /\ UNCHANGED <<listed, unrecorded, overtaken, raced, failures>> /\ UNCHANGED rowVars

\* enviarCorreoHKA: HKA takes the mail, takes it and the answer is lost, or refuses it.
SendMail(h) ==
    /\ pc[h] = "send"
    /\ \/ /\ hka' = [hka EXCEPT ![mail[h]] = "ENVIADO"]
          /\ pc' = [pc EXCEPT ![h] = "record"]
          /\ UNCHANGED <<mail, answer, seen, unrecorded>>
       \/ /\ hka' = [hka EXCEPT ![mail[h]] = "ENVIADO"]
          /\ unrecorded' = unrecorded \cup {mail[h]}
          /\ End(h)
       \/ End(h) /\ UNCHANGED <<hka, unrecorded>>
    /\ UNCHANGED <<listed, overtaken, raced, failures>> /\ UNCHANGED rowVars

RecordMail(h) ==
    /\ pc[h] = "record"
    /\ status' = [status EXCEPT ![mail[h]] = "SENT"]
    /\ End(h)
    /\ UNCHANGED <<hka, retries, listed>> /\ UNCHANGED history

-----------------------------------------------------------------------------
(* Tracking                                                                  *)

\* The row is found by the invoice and the tracking id.  The bound: nobody asks again
\* after so many failure answers.
StartTrack(h, m) ==
    /\ pc[h] = "idle" /\ status[m] # "none"
    /\ failures[m] < MaxAnswers
    /\ pc' = [pc EXCEPT ![h] = "ask"]
    /\ mail' = [mail EXCEPT ![h] = m]
    /\ seen' = [seen EXCEPT ![h][m] = retries[m]]
    /\ UNCHANGED <<hka, answer, listed>> /\ UNCHANGED rowVars /\ UNCHANGED history

\* Faulty variant: only mails that failed before are followed.
PendingFailed == {m \in Mails : status[m] = "FAILED"}

Pending == {m \in Mails : status[m] = "SENT"}

\* findMany with take and without an order: any of the rows, as many as fit.
ListMails ==
    /\ pc[Job] = "idle"
    /\ \E ms \in SUBSET Pending :
         /\ Cardinality(ms) <= Take
         /\ Cardinality(ms) < Take => ms = Pending
         /\ listed' = ms
         /\ seen' = [seen EXCEPT ![Job] = [m \in Mails |-> IF m \in ms THEN retries[m] ELSE 0]]
    /\ pc' = [pc EXCEPT ![Job] = "pass"]
    /\ UNCHANGED <<hka, mail, answer>> /\ UNCHANGED rowVars /\ UNCHANGED history

NextListed(m) ==
    /\ pc[Job] = "pass" /\ m \in listed
    /\ listed' = listed \ {m}
    /\ pc' = [pc EXCEPT ![Job] = "ask"]
    /\ mail' = [mail EXCEPT ![Job] = m]
    /\ UNCHANGED <<hka, answer, seen>> /\ UNCHANGED rowVars /\ UNCHANGED history

\* The next pass is ten minutes away.
EndPass ==
    /\ pc[Job] = "pass" /\ listed = {}
    /\ pc' = [pc EXCEPT ![Job] = "idle"]
    /\ UNCHANGED <<hka, mail, answer, seen, listed>>
    /\ UNCHANGED rowVars /\ UNCHANGED history

\* rastrearCorreoHKA answers.
Answer(t) ==
    /\ pc[t] = "ask"
    /\ answer' = [answer EXCEPT ![t] = hka[mail[t]]]
    /\ pc' = [pc EXCEPT ![t] = "write"]
    /\ overtaken' = overtaken \ {t}
    /\ UNCHANGED <<hka, mail, seen, listed, unrecorded, raced, failures>>
    /\ UNCHANGED rowVars

Failed(s) == s \in {"BOUNCED", "FAILED"}

\* The others that have read the row of m and may yet write it.
Holders(t, m) ==
    {u \in Trackers \ {t} : pc[u] \in {"ask", "write"} /\ mail[u] = m}
        \cup (IF m \in listed THEN {Job} ELSE {})

\* Faulty variant: a failure is not counted on top of those before it.
CountFirst(t, m, s) == IF Failed(s) THEN [retries EXCEPT ![m] = 1] ELSE retries

\* A failure is counted on top of the count that was read.
Count(t, m, s) == IF Failed(s) THEN [retries EXCEPT ![m] = seen[t][m] + 1] ELSE retries

\* The row's status is what HKA answered.
WriteStatus(t) ==
    LET m == mail[t]
        s == EmailStatus[answer[t]]
    IN  /\ pc[t] = "write"
        /\ status' = [status EXCEPT ![m] = s]
        /\ retries' = Count(t, m, s)
        /\ failures' = IF Failed(s) THEN [failures EXCEPT ![m] = @ + 1] ELSE failures
        /\ overtaken' = (overtaken \ {t}) \cup {u \in Trackers \ {t} : mail[u] = m /\ pc[u] = "write"}
        /\ raced' = IF Failed(s) /\ Holders(t, m) # {} THEN raced \cup {m} ELSE raced
        /\ End(t)
        /\ UNCHANGED <<hka, listed, unrecorded>>

\* Faulty variant: a mail about which HKA did not answer is pending again.
FailPending(t) ==
    /\ pc[t] \in {"record", "ask", "write"}
    /\ unrecorded' = IF pc[t] = "record" THEN unrecorded \cup {mail[t]} ELSE unrecorded
    /\ status' = IF pc[t] = "ask" THEN [status EXCEPT ![mail[t]] = "SENT"] ELSE status
    /\ overtaken' = overtaken \ {t}
    /\ End(t)
    /\ UNCHANGED <<hka, retries, listed, raced, failures>>

\* HKA does not answer, or the database fails: a handler ends, the job goes on with its
\* list.
Fail(t) ==
    /\ pc[t] \in {"record", "ask", "write"}
    /\ unrecorded' = IF pc[t] = "record" THEN unrecorded \cup {mail[t]} ELSE unrecorded
    /\ overtaken' = overtaken \ {t}
    /\ End(t)
    /\ UNCHANGED <<hka, listed, raced, failures>> /\ UNCHANGED rowVars

\* The worker's process ends; it schedules the job again when it is started.
Restart ==
    /\ pc[Job] # "idle"
    /\ pc' = [pc EXCEPT ![Job] = "idle"]
    /\ mail' = [mail EXCEPT ![Job] = NoMail]
    /\ answer' = [answer EXCEPT ![Job] = "none"]
    /\ seen' = [seen EXCEPT ![Job] = Zero]
    /\ listed' = {}
    /\ overtaken' = overtaken \ {Job}
    /\ UNCHANGED <<hka, unrecorded, raced, failures>> /\ UNCHANGED rowVars

-----------------------------------------------------------------------------
Handle(h) ==
    \/ \E m \in Mails : StartSend(h, m) \/ StartTrack(h, m)
    \/ SendMail(h) \/ RecordMail(h)

Track(t) == Answer(t) \/ WriteStatus(t) \/ Fail(t)

Pass == ListMails \/ (\E m \in Mails : NextListed(m)) \/ EndPass \/ Restart

Next ==
    \/ \E h \in Handlers : Handle(h)
    \/ \E t \in Trackers : Track(t)
    \/ Pass
    \/ \E m \in Mails : Settle(m)

Spec == Init /\ [][Next]_vars

\* The job repeats, and neither HKA nor a restart fails it on the same mail for ever;
\* users and the mail itself owe nothing.
JobFairness ==
    /\ WF_vars(ListMails) /\ WF_vars(EndPass)
    /\ \A m \in Mails :
         /\ SF_vars(NextListed(m))
         /\ SF_vars(mail[Job] = m /\ Answer(Job))
         /\ SF_vars(mail[Job] = m /\ WriteStatus(Job))

FairSpec == Spec /\ JobFairness

-----------------------------------------------------------------------------
(* Properties                                                                *)

\* The shape of every variable.
TypeOK ==
    /\ hka \in [Mails -> {"none", "ENVIADO"} \cup Ends]
    /\ status \in [Mails -> {"none", "SENT", "DELIVERED", "BOUNCED", "FAILED"}]
    /\ retries \in [Mails -> Nat] /\ failures \in [Mails -> Nat]
    /\ pc \in [Trackers -> {"idle", "send", "record", "ask", "write", "pass"}]
    /\ mail \in [Trackers -> Mails \cup {NoMail}]
    /\ answer \in [Trackers -> {"none", "ENVIADO"} \cup Ends]
    /\ seen \in [Trackers -> [Mails -> Nat]]
    /\ listed \subseteq Mails
    /\ unrecorded \subseteq Mails /\ raced \subseteq Mails /\ overtaken \subseteq Trackers

\* Every mail that HKA took has a row, unless its handler has still to insert it or failed
\* on the way; and a row that says how a mail ended says what really became of it, however
\* many askers write in whatever order.
MailAccounted ==
    \A m \in Mails :
        /\ hka[m] # "none" /\ status[m] = "none" =>
             m \in unrecorded \/ \E h \in Handlers : pc[h] = "record" /\ mail[h] = m
        /\ status[m] = "SENT" => hka[m] # "none"
        /\ status[m] = "DELIVERED" => hka[m] = "ENTREGADO"
        /\ status[m] = "BOUNCED" => hka[m] = "REBOTADO"
        /\ status[m] = "FAILED" => hka[m] = "FALLIDO"

\* retryCount is the number of failure answers written, as long as nobody counted one while
\* another held the row: the job reads the count up to a hundred mails before it writes it.
CountExact == \A m \in Mails \ raced : retries[m] = failures[m]

\* A mail whose end is recorded goes back to SENT only by an answer older than the one it
\* replaces.
EndStays ==
    [][\A m \in Mails :
         status[m] \in {"DELIVERED", "BOUNCED", "FAILED"} /\ status'[m] # status[m] =>
           \E t \in overtaken : pc[t] = "write" /\ mail[t] = m]_vars

\* Without anybody asking, the row of every mail that has come to its end says so before
\* long, and then for good: late answers are corrected.
EndIsRecorded ==
    \A m \in Mails :
        (hka[m] \in Ends /\ status[m] # "none")
          ~> [](hka[m] \in Ends /\ status[m] = EmailStatus[hka[m]])

=============================================================================

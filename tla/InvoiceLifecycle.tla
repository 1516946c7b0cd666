-------------------------- MODULE InvoiceLifecycle --------------------------
(***************************************************************************)
(* The life of one row of the invoices table.  Six API handlers and the    *)
(* BullMQ worker read its status, decide, await something (Redis, HKA, the *)
(* database) and then write the status without looking at it again.  Every *)
(* action is the code between two awaits; a handler that was interrupted   *)
(* by the end of its process simply never takes its next action.           *)
(*                                                                         *)
(* The other invoices appear only where the database makes them meet: a    *)
(* unique cufe or hkaProtocol that another row has makes a write fail.  The *)
(* organization exists throughout.                                         *)
(***************************************************************************)
EXTENDS Naturals

CONSTANTS Requests,    \* API requests in flight; a finished one is used again
          Workers,     \* BullMQ workers
          MaxAttempts, \* attempts of a job
          MaxStalled   \* maxStalledCount of the worker

ASSUME LifecycleAssumption ==
    /\ Requests \cap Workers = {}
    /\ MaxAttempts \in Nat \ {0}
    /\ MaxStalled \in Nat

VARIABLES
    status,      \* the enum InvoiceStatus, or DELETED when the row is gone
    cufe,        \* "none" (null or ''), "own" (generated here) or "dgi" (answered by HKA)
    certifiedAt, \* TRUE when it is not null
    job,         \* the job 'invoice-<id>' of the queue
    attempts,    \* its failed attempts
    stalls,      \* its stalled counter
    pc,          \* where each handler is
    testMode,    \* HKA_MODO_PRUEBA, read when the process starts
    accepted,    \* history: documents HKA accepted for this invoice, up to 2
    annulled,    \* history: HKA annulled the document
    mishap       \* history: what has gone wrong, see below

rowVars == <<status, cufe, certifiedAt>>
jobVars == <<job, attempts, stalls>>
hkaVars == <<accepted, annulled>>
vars == <<status, cufe, certifiedAt, job, attempts, stalls, pc, testMode, accepted,
          annulled, mishap>>

Handlers == Requests \cup Workers

Init ==
    /\ status = "DRAFT" /\ cufe = "none" /\ certifiedAt = FALSE
    /\ job = "none" /\ attempts = 0 /\ stalls = 0
    /\ pc = [p \in Handlers |-> "idle"]
    /\ testMode \in BOOLEAN
    /\ accepted = 0 /\ annulled = FALSE /\ mishap = {}

-----------------------------------------------------------------------------
(* "overlap":    a handler started while another, or a job, was under way    *)
(* "crash":      a handler died                                             *)
(* "unrecorded": an outcome could not be written to the row                 *)
(* "deduped":    queue.add found a job of that id and added nothing         *)

Busy == job \in {"waiting", "active"} \/ \E q \in Handlers : pc[q] # "idle"

\* A request passes its checks and goes on at pc l.
Begin(r, l) ==
    /\ pc[r] = "idle"
    /\ pc' = [pc EXCEPT ![r] = l]
    /\ mishap' = IF Busy THEN mishap \cup {"overlap"} ELSE mishap
    /\ UNCHANGED rowVars /\ UNCHANGED jobVars /\ UNCHANGED hkaVars /\ UNCHANGED testMode

Go(p, l) == pc' = [pc EXCEPT ![p] = l]

\* prisma.invoice.update throws when the row does not exist.
RowGone == status = "DELETED"

\* A handler's single write to the status, after which it is at l; without a row it
\* throws, and is at m.
Write(p, s, l, m) ==
    \/ ~RowGone /\ status' = s /\ Go(p, l)
    \/ RowGone /\ UNCHANGED status /\ Go(p, m)

-----------------------------------------------------------------------------
(* The requests                                                              *)

\* Faulty variant: a cancelled invoice may be processed too.
ProcessCancelled(r) ==
    /\ status \notin {"CERTIFIED", "PROCESSING", "DELETED"}
    /\ Begin(r, "approve") \/ Begin(r, "load")

\* POST /api/invoices/[id]/process: with requireApproval the row only becomes QUEUED,
\* otherwise it is processed here and now.
StartProcess(r) ==
    /\ status \notin {"CERTIFIED", "PROCESSING", "CANCELLED", "DELETED"}
    /\ Begin(r, "approve") \/ Begin(r, "load")

Approve(r) ==
    /\ pc[r] = "approve"
    /\ Write(r, "QUEUED", "idle", "idle")
    /\ UNCHANGED <<cufe, certifiedAt, testMode, mishap>>
    /\ UNCHANGED jobVars /\ UNCHANGED hkaVars

\* Faulty variant: a cancelled invoice may be retried too.
RetryCancelled(r) ==
    /\ status \in {"ERROR", "REJECTED", "CANCELLED"}
    /\ Begin(r, "reset")

\* POST /api/invoices/[id]/retry: back to DRAFT, then processed.
StartRetry(r) ==
    /\ status \in {"ERROR", "REJECTED"}
    /\ Begin(r, "reset")

Reset(r) ==
    /\ pc[r] = "reset"
    /\ Write(r, "DRAFT", "load", "idle")
    /\ UNCHANGED <<cufe, certifiedAt, testMode, mishap>>
    /\ UNCHANGED jobVars /\ UNCHANGED hkaVars

\* POST /api/documentos/enviar: the job first, the status after it.
StartEnviar(r) ==
    /\ status = "DRAFT"
    /\ Begin(r, "enqueue")

\* queue.add ignores an id that the queue still has, finished jobs included.
Enqueue(r) ==
    /\ pc[r] = "enqueue"
    /\ Go(r, "mark")
    /\ \/ /\ job = "none"
          /\ job' = "waiting"
          /\ UNCHANGED <<attempts, stalls, mishap>>
       \/ /\ job # "none"
          /\ mishap' = mishap \cup {"deduped"}
          /\ UNCHANGED jobVars
    /\ UNCHANGED rowVars /\ UNCHANGED hkaVars /\ UNCHANGED <<testMode>>

Mark(r) ==
    /\ pc[r] = "mark"
    /\ Write(r, "PROCESSING", "idle", "idle")
    /\ UNCHANGED <<cufe, certifiedAt, testMode, mishap>>
    /\ UNCHANGED jobVars /\ UNCHANGED hkaVars

\* POST /api/invoices/[id]/cancel checks the row; POST /api/documentos/anular takes
\* whatever cufe and invoiceId it is given.
StartCancel(r) ==
    /\ status = "CERTIFIED" /\ cufe # "none" /\ certifiedAt
    /\ Begin(r, "cancel")

StartAnular(r) == Begin(r, "annul")

\* anularDocumento: too late or no answer; refused, which is recorded like success; or
\* accepted.  A request of anular may name another document, or no row to update.
AnulacionDocumento(r) ==
    /\ pc[r] \in {"cancel", "annul"}
    /\ \/ Go(r, "idle") /\ UNCHANGED <<annulled, mishap>>
       \/ Go(r, "record") /\ UNCHANGED <<annulled, mishap>>
       \/ \E named \in BOOLEAN :
            /\ pc[r] = "cancel" => named
            /\ annulled' = (annulled \/ (named /\ accepted > 0))
            /\ \/ Go(r, IF pc[r] = "cancel" THEN "recordOk" ELSE "record") /\ UNCHANGED mishap
               \/ pc[r] = "annul" /\ Go(r, "idle") /\ mishap' = mishap \cup {"unrecorded"}
    /\ UNCHANGED rowVars /\ UNCHANGED jobVars /\ UNCHANGED <<testMode, accepted>>

RecordAnulacion(r) ==
    /\ pc[r] \in {"record", "recordOk"}
    /\ Write(r, "CANCELLED", IF pc[r] = "recordOk" THEN "confirm" ELSE "idle", "idle")
    /\ UNCHANGED <<cufe, certifiedAt, testMode, mishap>>
    /\ UNCHANGED jobVars /\ UNCHANGED hkaVars

\* The cancel route writes CANCELLED again, with the reason and the protocol.
ConfirmCancel(r) ==
    /\ pc[r] = "confirm"
    /\ Write(r, "CANCELLED", "idle", "idle")
    /\ UNCHANGED <<cufe, certifiedAt, testMode, mishap>>
    /\ UNCHANGED jobVars /\ UNCHANGED hkaVars

\* Faulty variant: certified invoices may be deleted.
NonDeletableInProcess == {"PROCESSING", "QUEUED"}

\* DELETE /api/invoices/[id]: a log entry, then the row, whatever its status is now.
NonDeletable == {"PROCESSING", "CERTIFIED", "QUEUED"}

StartDelete(r) ==
    /\ status \notin NonDeletable \cup {"DELETED"}
    /\ Begin(r, "log")

LogDeletion(r) ==
    /\ pc[r] = "log"
    /\ Go(r, IF RowGone THEN "idle" ELSE "remove")
    /\ UNCHANGED rowVars /\ UNCHANGED jobVars /\ UNCHANGED hkaVars
    /\ UNCHANGED <<testMode, mishap>>

Remove(r) ==
    /\ pc[r] = "remove"
    /\ Write(r, "DELETED", "idle", "idle")
    /\ UNCHANGED <<cufe, certifiedAt, testMode, mishap>>
    /\ UNCHANGED jobVars /\ UNCHANGED hkaVars

-----------------------------------------------------------------------------
(* The queue and its worker                                                  *)

TakeJob(w) ==
    /\ job = "waiting" /\ pc[w] = "idle"
    /\ job' = "active"
    /\ Go(w, "load")
    /\ mishap' = IF \E q \in Handlers : pc[q] # "idle" THEN mishap \cup {"overlap"}
                                                      ELSE mishap
    /\ UNCHANGED rowVars /\ UNCHANGED hkaVars /\ UNCHANGED <<attempts, stalls, testMode>>

\* Faulty variants: the stalled counter does not count; or it has no limit.
StalledUncounted ==
    /\ job = "active"
    /\ \A w \in Workers : pc[w] = "idle"
    /\ job' = "waiting"
    /\ UNCHANGED rowVars /\ UNCHANGED hkaVars
    /\ UNCHANGED <<attempts, stalls, pc, testMode, mishap>>

StalledUnlimited ==
    /\ job = "active"
    /\ \A w \in Workers : pc[w] = "idle"
    /\ stalls' = stalls + 1
    /\ job' = "waiting"
    /\ UNCHANGED rowVars /\ UNCHANGED hkaVars
    /\ UNCHANGED <<attempts, pc, testMode, mishap>>

\* The lock of a job whose worker died expires: the job runs again, or has failed.
StalledCheck ==
    /\ job = "active"
    /\ \A w \in Workers : pc[w] = "idle"
    /\ stalls' = stalls + 1
    /\ job' = IF stalls < MaxStalled THEN "waiting" ELSE "failed"
    /\ UNCHANGED rowVars /\ UNCHANGED hkaVars
    /\ UNCHANGED <<attempts, pc, testMode, mishap>>

\* removeOnComplete and removeOnFail: after an hour, or a day.
EvictJob ==
    /\ job \in {"completed", "failed"}
    /\ job' = "none" /\ attempts' = 0 /\ stalls' = 0
    /\ UNCHANGED rowVars /\ UNCHANGED hkaVars /\ UNCHANGED <<pc, testMode, mishap>>

\* processInvoice is over, after e-mails and logs that leave the row alone: it returns
\* to its caller, or throws to it, and a job that throws is tried again.
Finish(p) ==
    /\ pc[p] = "return"
    /\ Go(p, "idle")
    /\ job' = IF p \in Workers THEN "completed" ELSE job
    /\ UNCHANGED rowVars /\ UNCHANGED hkaVars /\ UNCHANGED <<attempts, stalls, testMode, mishap>>

Throw(p) ==
    /\ pc[p] = "throw"
    /\ Go(p, "idle")
    /\ \/ /\ p \in Workers
          /\ attempts' = attempts + 1
          /\ job' = IF attempts + 1 < MaxAttempts THEN "waiting" ELSE "failed"
          /\ UNCHANGED stalls
       \/ p \notin Workers /\ UNCHANGED jobVars
    /\ UNCHANGED rowVars /\ UNCHANGED hkaVars /\ UNCHANGED <<testMode, mishap>>

-----------------------------------------------------------------------------
(* processInvoice, run by process, by retry and by the worker                *)

\* Faulty variant: a certified invoice is processed again.
LoadUnchecked(p) ==
    /\ pc[p] = "load"
    /\ \/ RowGone /\ Go(p, "fail")
       \/ ~RowGone /\ \E l \in {"saveXml", "xmlErrors", "fail"} : Go(p, l)
    /\ UNCHANGED rowVars /\ UNCHANGED jobVars /\ UNCHANGED hkaVars
    /\ UNCHANGED <<testMode, mishap>>

\* Only CERTIFIED is checked.  A missing customer throws; the XML may have errors.
Load(p) ==
    /\ pc[p] = "load"
    /\ \/ RowGone /\ Go(p, "fail")
       \/ status = "CERTIFIED" /\ Go(p, "return")
       \/ /\ status \notin {"DELETED", "CERTIFIED"}
          /\ \E l \in {"saveXml", "xmlErrors", "fail"} : Go(p, l)
    /\ UNCHANGED rowVars /\ UNCHANGED jobVars /\ UNCHANGED hkaVars
    /\ UNCHANGED <<testMode, mishap>>

SaveXmlErrors(p) ==
    /\ pc[p] = "xmlErrors"
    /\ Write(p, "ERROR", "return", "fail")
    /\ UNCHANGED <<cufe, certifiedAt, testMode, mishap>>
    /\ UNCHANGED jobVars /\ UNCHANGED hkaVars

\* Faulty variant: the cufe is stored and the status left as it is.
SaveXmlOnly(p) ==
    /\ pc[p] = "saveXml"
    /\ \/ ~RowGone /\ cufe' = "own" /\ (Go(p, "send") \/ Go(p, "keepDraft"))
       \/ Go(p, "fail") /\ UNCHANGED cufe
    /\ UNCHANGED <<status, certifiedAt, testMode, mishap>>
    /\ UNCHANGED jobVars /\ UNCHANGED hkaVars

\* The XML, its own cufe and PROCESSING; the cufe may be another invoice's.  Whether to
\* send is the organization's setting when the request, or the job, was made.
SaveXml(p) ==
    /\ pc[p] = "saveXml"
    /\ \/ /\ ~RowGone
          /\ status' = "PROCESSING" /\ cufe' = "own"
          /\ Go(p, "send") \/ Go(p, "keepDraft")
       \/ Go(p, "fail") /\ UNCHANGED <<status, cufe>>
    /\ UNCHANGED <<certifiedAt, testMode, mishap>>
    /\ UNCHANGED jobVars /\ UNCHANGED hkaVars

KeepDraft(p) ==
    /\ pc[p] = "keepDraft"
    /\ Write(p, "DRAFT", "return", "fail")
    /\ UNCHANGED <<cufe, certifiedAt, testMode, mishap>>
    /\ UNCHANGED jobVars /\ UNCHANGED hkaVars

\* enviarDocumento under withHKACredentials, which may find no credentials.  In test
\* mode the answer is simulated; otherwise the resolved credentials lack the fields
\* that are validated, and it always throws.
Send(p) ==
    /\ pc[p] = "send"
    /\ \/ Go(p, "giveUp") /\ UNCHANGED accepted
       \/ testMode /\ Go(p, "certify") /\ accepted' = IF accepted = 0 THEN 1 ELSE 2
       \/ testMode /\ Go(p, "reject") /\ UNCHANGED accepted
       \/ ~testMode /\ Go(p, "sendFailed") /\ UNCHANGED accepted
    /\ UNCHANGED rowVars /\ UNCHANGED jobVars /\ UNCHANGED <<testMode, annulled, mishap>>

\* The answer is recorded; a unique column, or the row, may make that fail.
Certify(p) ==
    /\ pc[p] = "certify"
    /\ \/ /\ ~RowGone
          /\ status' = "CERTIFIED" /\ cufe' = "dgi" /\ certifiedAt' = TRUE
          /\ Go(p, "return")
          /\ UNCHANGED mishap
       \/ /\ Go(p, "sendFailed")
          /\ mishap' = mishap \cup {"unrecorded"}
          /\ UNCHANGED rowVars
    /\ UNCHANGED jobVars /\ UNCHANGED hkaVars /\ UNCHANGED testMode

Reject(p) ==
    /\ pc[p] = "reject"
    /\ \/ /\ ~RowGone
          /\ status' = "REJECTED" /\ cufe' = "none" /\ certifiedAt' = FALSE
          /\ Go(p, "return")
       \/ Go(p, "sendFailed") /\ UNCHANGED rowVars
    /\ UNCHANGED jobVars /\ UNCHANGED hkaVars /\ UNCHANGED <<testMode, mishap>>

\* enviarDocumento's catch writes ERROR and rethrows; processInvoice's writes it again.
SendFailed(p) ==
    /\ pc[p] = "sendFailed"
    /\ Write(p, "ERROR", "giveUp", "giveUp")
    /\ UNCHANGED <<cufe, certifiedAt, testMode, mishap>>
    /\ UNCHANGED jobVars /\ UNCHANGED hkaVars

\* Faulty variant: processInvoice reports the failure and leaves the row as it is.
GiveUpSilently(p) ==
    /\ pc[p] = "giveUp"
    /\ Go(p, "return")
    /\ UNCHANGED rowVars /\ UNCHANGED jobVars /\ UNCHANGED hkaVars
    /\ UNCHANGED <<testMode, mishap>>

GiveUp(p) ==
    /\ pc[p] = "giveUp"
    /\ Write(p, "ERROR", "return", "fail")
    /\ UNCHANGED <<cufe, certifiedAt, testMode, mishap>>
    /\ UNCHANGED jobVars /\ UNCHANGED hkaVars

\* The outer catch: ERROR if that can be written, then the error goes to the caller.
Fail(p) ==
    /\ pc[p] = "fail"
    /\ Go(p, "throw")
    /\ \/ ~RowGone /\ status' = "ERROR" /\ UNCHANGED mishap
       \/ UNCHANGED status /\ mishap' = mishap \cup {"unrecorded"}
    /\ UNCHANGED <<cufe, certifiedAt, testMode>> /\ UNCHANGED jobVars /\ UNCHANGED hkaVars

\* The process of a handler ends; a worker leaves its job active.
Crash(p) ==
    /\ pc[p] # "idle"
    /\ Go(p, "idle")
    /\ mishap' = mishap \cup {"crash"} \cup (IF pc[p] = "certify" THEN {"unrecorded"} ELSE {})
    /\ UNCHANGED rowVars /\ UNCHANGED jobVars /\ UNCHANGED hkaVars /\ UNCHANGED <<testMode>>

-----------------------------------------------------------------------------
Start(r) ==
    \/ StartProcess(r) \/ StartRetry(r) \/ StartEnviar(r)
    \/ StartCancel(r) \/ StartAnular(r) \/ StartDelete(r)

Request(r) ==
    \/ Approve(r) \/ Reset(r) \/ Enqueue(r) \/ Mark(r)
    \/ AnulacionDocumento(r) \/ RecordAnulacion(r) \/ ConfirmCancel(r)
    \/ LogDeletion(r) \/ Remove(r)

ProcessInvoice(p) ==
    \/ Load(p) \/ SaveXmlErrors(p) \/ SaveXml(p) \/ KeepDraft(p) \/ Send(p)
    \/ Certify(p) \/ Reject(p) \/ SendFailed(p) \/ GiveUp(p) \/ Fail(p)
    \/ Finish(p) \/ Throw(p)

Next ==
    \/ \E r \in Requests : Start(r) \/ Request(r)
    \/ \E w \in Workers : TakeJob(w)
    \/ \E p \in Handlers : ProcessInvoice(p) \/ Crash(p)
    \/ StalledCheck
    \/ EvictJob

Spec == Init /\ [][Next]_vars

\* BullMQ hands waiting jobs to its worker and checks for stalled ones; a worker that
\* lives runs on.
FairSpec ==
    /\ Spec
    /\ WF_vars(StalledCheck)
    /\ \A w \in Workers : WF_vars(TakeJob(w)) /\ WF_vars(ProcessInvoice(w))

-----------------------------------------------------------------------------
(* Properties                                                                *)

Statuses == {"DRAFT", "QUEUED", "PROCESSING", "CERTIFIED", "REJECTED", "CANCELLED",
             "ERROR", "DELETED"}

\* The shape of every variable.
TypeOK ==
    /\ status \in Statuses /\ cufe \in {"none", "own", "dgi"} /\ certifiedAt \in BOOLEAN
    /\ job \in {"none", "waiting", "active", "completed", "failed"}
    /\ attempts \in 0..MaxAttempts /\ stalls \in 0..(MaxStalled + 1)
    /\ pc \in [Handlers -> {"idle", "approve", "reset", "enqueue", "mark", "cancel", "annul",
                            "record", "recordOk", "confirm", "log", "remove", "load",
                            "xmlErrors", "saveXml", "keepDraft", "send", "certify", "reject",
                            "sendFailed", "giveUp", "fail", "return", "throw"}]
    /\ testMode \in BOOLEAN
    /\ accepted \in 0..2 /\ annulled \in BOOLEAN
    /\ mishap \subseteq {"overlap", "crash", "unrecorded", "deduped"}

\* A certified row carries the cufe that HKA answered and the date of certification,
\* although other handlers write cufe and status at any time: cancelling sends that cufe.
CertifiedIsComplete ==
    status = "CERTIFIED" => cufe = "dgi" /\ certifiedAt /\ accepted > 0

\* HKA accepts an invoice twice only if two handlers overlapped on it or an acceptance
\* could not be written down: no sequence of process, retry, enviar and job retries.
AcceptedOnce == accepted = 2 => mishap \cap {"overlap", "unrecorded"} # {}

\* Nothing rests in PROCESSING, a status that process, retry, enviar and delete all
\* refuse, unless something went wrong: no sequence of calls strands an invoice.
NothingStranded ==
    mishap = {} /\ ~Busy => status # "PROCESSING"

\* What HKA annulled is not valid here: it stays CANCELLED until it is deleted.
AnnulledIsCancelled ==
    annulled /\ ~Busy /\ mishap \cap {"overlap", "crash", "unrecorded"} = {} =>
        status \in {"CANCELLED", "DELETED"}

\* Once certified, an invoice is only ever cancelled: crashes, failed writes, retries of
\* jobs and repeated calls do not take it back, as long as no two handlers overlap.
CertifiedIsFinal ==
    [][status = "CERTIFIED" /\ "overlap" \notin mishap' =>
         status' \in {"CERTIFIED", "CANCELLED"}]_vars

\* A job that was queued is over at some point, whatever its attempts do and although
\* its workers may die: both counters are bounded.
JobEnds == job = "waiting" ~> job \in {"completed", "failed", "none"}

\* app/api/invoices/[id]/route.ts:67: a certified invoice cannot be deleted, it must be
\* cancelled.
CertifiedNeverDeleted == [][(status = "CERTIFIED") => (status' # "DELETED")]_vars

\* app/api/invoices/[id]/cancel/route.ts:96-98: a document that HKA accepted becomes
\* CANCELLED when HKA accepted its annulment.  Looked at where nothing went wrong.
CancelledWasAnnulled ==
    mishap = {} /\ status = "CANCELLED" /\ accepted > 0 => annulled

-----------------------------------------------------------------------------
(* The contract that this implements                                         *)

Stage == CASE status = "CERTIFIED" -> "certified" [] status = "CANCELLED" -> "cancelled"
           [] status = "DELETED" -> "deleted" [] OTHER -> "open"

Contract == INSTANCE InvoiceContract WITH
    stage <- Stage, documents <- accepted, void <- mishap \cap {"overlap", "unrecorded"} # {}

\* The six routes and the worker keep the contract: one accepted document, certified after
\* that, then at most cancelled and deleted.  Crashes, retries, stalled jobs and repeated
\* calls do not void it, only overlapping handlers and outcomes that were not written do.
ImplementsContract == Contract!Spec

=============================================================================

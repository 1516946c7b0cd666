--------------------------- MODULE LifecycleProofs ---------------------------
(***************************************************************************)
(* Proofs about InvoiceLifecycle, for any number of requests, workers,     *)
(* attempts and stalled checks.  The handlers check a status and write it  *)
(* later, so the argument is about who is alone: without an overlap at     *)
(* most one handler is under way, what it checked is still so, and the job *)
(* of the queue is at rest while a request runs.                           *)
(***************************************************************************)
EXTENDS InvoiceLifecycle, TLAPS

\* Where a handler relies on a status that it, or its request, saw uncertified.
Unfinished == {"approve", "reset", "enqueue", "mark", "log", "remove", "saveXml",
               "xmlErrors", "keepDraft", "send", "certify", "reject", "sendFailed",
               "giveUp", "fail"}

\* Where a handler may be whose invoice is cancelled or deleted.
Afterwards == {"idle", "annul", "record", "recordOk", "confirm", "log", "remove"}

\* Where processInvoice is on its way to give the invoice a final status.
Underway == {"load", "saveXml", "xmlErrors", "keepDraft", "send", "certify", "reject",
             "sendFailed", "giveUp", "fail"}

\* A job is in the hands of at most one worker, and a worker that runs has it.
WorkerHasJob == \A w \in Workers : pc[w] # "idle" =>
    /\ job = "active"
    /\ \A v \in Workers : pc[v] # "idle" => v = w

\* A job that may run again has an attempt left.
JobCounted ==
    /\ job = "none" => attempts = 0 /\ stalls = 0
    /\ job \in {"waiting", "active"} => attempts < MaxAttempts /\ stalls <= MaxStalled

\* The types, and what keeps them.
TypeInv == TypeOK /\ WorkerHasJob /\ JobCounted

Alone == "overlap" \notin mishap
Calm == Alone /\ "unrecorded" \notin mishap

\* A certify step has an acceptance to record.
AcceptedFirst == \A p \in Handlers : pc[p] = "certify" => accepted > 0

OneHandler == Alone => \A p, q \in Handlers : pc[p] # "idle" /\ pc[q] # "idle" => p = q

\* The check a handler made still holds.
ChecksHold == Alone => \A p \in Handlers : pc[p] \in Unfinished => status # "CERTIFIED"

\* No request runs while the queue has work, but the one that just queued it.
QueueAtRest == Alone =>
    \A r \in Requests : pc[r] \notin {"idle", "mark"} => job \notin {"waiting", "active"}

\* An accepted document is about to be recorded, recorded, or was so before the
\* invoice was cancelled or deleted.
Settled == Calm /\ accepted > 0 =>
    /\ accepted = 1
    /\ \/ \E p \in Handlers : pc[p] = "certify"
       \/ status = "CERTIFIED"
       \/ /\ status \in {"CANCELLED", "DELETED"}
          /\ job \notin {"waiting", "active"}
          /\ \A p \in Handlers : pc[p] \in Afterwards

\* PROCESSING has someone to end it.
Attended == mishap = {} =>
    /\ \A r \in Requests : pc[r] = "mark" => job = "waiting"
    /\ status = "PROCESSING" => job = "waiting" \/ \E p \in Handlers : pc[p] \in Underway

\* An annulment is about to be recorded, or was so.
AnnulmentKept == annulled /\ Calm /\ "crash" \notin mishap =>
    \/ \E r \in Requests : pc[r] \in {"record", "recordOk"}
    \/ /\ status \in {"CANCELLED", "DELETED"}
       /\ job \notin {"waiting", "active"}
       /\ \A p \in Handlers : pc[p] \in Afterwards

\* Who is alone, and what holds of the row then.
AloneInv ==
    /\ CertifiedIsComplete /\ AcceptedFirst
    /\ OneHandler /\ ChecksHold /\ QueueAtRest
    /\ Settled /\ Attended /\ AnnulmentKept

-----------------------------------------------------------------------------
(* Initially                                                                 *)

LEMMA InitEstablishes == Init => TypeInv /\ AloneInv
<1> SUFFICES ASSUME Init PROVE TypeInv /\ AloneInv  OBVIOUS
<1>1. TypeInv
  <2>1. TypeOK
    <3>1. attempts \in 0..MaxAttempts /\ stalls \in 0..(MaxStalled + 1)
          BY LifecycleAssumption DEF Init
    <3>2. certifiedAt \in BOOLEAN /\ testMode \in BOOLEAN /\ annulled \in BOOLEAN
          BY Zenon DEF Init
    <3>3. accepted \in 0..2 /\ status \in Statuses /\ job = "none" /\ cufe = "none" /\ mishap = {}
          BY DEF Init, Statuses
    <3>4. pc = [p \in Handlers |-> "idle"]
          BY DEF Init
    <3> QED  BY <3>1, <3>2, <3>3, <3>4 DEF TypeOK
  <2>2. WorkerHasJob /\ JobCounted
        BY LifecycleAssumption DEF Init, WorkerHasJob, JobCounted, Handlers
  <2> QED  BY <2>1, <2>2 DEF TypeInv
<1>2. AloneInv
      BY DEF Init, AloneInv, CertifiedIsComplete, AcceptedFirst, OneHandler, ChecksHold,
             QueueAtRest, Settled, Attended, AnnulmentKept, Alone, Calm, Unfinished, Handlers
<1> QED  BY <1>1, <1>2

-----------------------------------------------------------------------------
(* The types, one step per action.                                           *)

LEMMA TypeStep == TypeInv /\ [Next]_vars => TypeInv'
<1> SUFFICES ASSUME TypeInv, [Next]_vars PROVE TypeInv'  OBVIOUS
<1> USE LifecycleAssumption DEF TypeInv, TypeOK, WorkerHasJob, JobCounted, Handlers, Statuses
<1>1. ASSUME NEW r \in Requests, StartProcess(r) PROVE TypeInv'
  <2>1. CASE Begin(r, "approve")
        BY <2>1 DEF Begin, Busy, rowVars, jobVars, hkaVars
  <2>2. CASE Begin(r, "load")
        BY <2>2 DEF Begin, Busy, rowVars, jobVars, hkaVars
  <2> QED  BY <1>1, <2>1, <2>2 DEF StartProcess
<1>2. ASSUME NEW r \in Requests, StartRetry(r) PROVE TypeInv'
      BY <1>2 DEF StartRetry, Begin, Busy, rowVars, jobVars, hkaVars
<1>3. ASSUME NEW r \in Requests, StartEnviar(r) PROVE TypeInv'
      BY <1>3 DEF StartEnviar, Begin, Busy, rowVars, jobVars, hkaVars
<1>4. ASSUME NEW r \in Requests, StartCancel(r) PROVE TypeInv'
      BY <1>4 DEF StartCancel, Begin, Busy, rowVars, jobVars, hkaVars
<1>5. ASSUME NEW r \in Requests, StartAnular(r) PROVE TypeInv'
      BY <1>5 DEF StartAnular, Begin, Busy, rowVars, jobVars, hkaVars
<1>6. ASSUME NEW r \in Requests, StartDelete(r) PROVE TypeInv'
      BY <1>6 DEF StartDelete, Begin, Busy, rowVars, jobVars, hkaVars, NonDeletable
<1>7. ASSUME NEW r \in Requests, Approve(r) PROVE TypeInv'
      BY <1>7 DEF Approve, Write, Go, RowGone, jobVars, hkaVars
<1>8. ASSUME NEW r \in Requests, Reset(r) PROVE TypeInv'
      BY <1>8 DEF Reset, Write, Go, RowGone, jobVars, hkaVars
<1>9. ASSUME NEW r \in Requests, Enqueue(r) PROVE TypeInv'
  <2>1. pc' = [pc EXCEPT ![r] = "mark"] /\ UNCHANGED <<rowVars, hkaVars, testMode>>
        BY <1>9 DEF Enqueue, Go
  <2>2. CASE job = "none" /\ job' = "waiting" /\ UNCHANGED <<attempts, stalls, mishap>>
        BY <1>9, <2>1, <2>2 DEF Enqueue, rowVars, hkaVars
  <2>3. CASE job # "none" /\ mishap' = mishap \cup {"deduped"} /\ UNCHANGED jobVars
        BY <1>9, <2>1, <2>3 DEF Enqueue, rowVars, jobVars, hkaVars
  <2> QED  BY <1>9, <2>2, <2>3 DEF Enqueue
<1>10. ASSUME NEW r \in Requests, Mark(r) PROVE TypeInv'
      BY <1>10 DEF Mark, Write, Go, RowGone, jobVars, hkaVars
<1>11. ASSUME NEW r \in Requests, AnulacionDocumento(r) PROVE TypeInv'
  <2>1. \E l \in {"idle", "record", "recordOk"} : pc' = [pc EXCEPT ![r] = l]
        BY <1>11 DEF AnulacionDocumento, Go
  <2>2. annulled' \in BOOLEAN /\ mishap' \in {mishap, mishap \cup {"unrecorded"}}
        BY <1>11 DEF AnulacionDocumento
  <2>3. UNCHANGED <<status, cufe, certifiedAt, job, attempts, stalls, testMode, accepted>>
        BY <1>11 DEF AnulacionDocumento, rowVars, jobVars
  <2> QED  BY <2>1, <2>2, <2>3
<1>12. ASSUME NEW r \in Requests, RecordAnulacion(r) PROVE TypeInv'
      BY <1>12 DEF RecordAnulacion, Write, Go, RowGone, jobVars, hkaVars
<1>13. ASSUME NEW r \in Requests, ConfirmCancel(r) PROVE TypeInv'
      BY <1>13 DEF ConfirmCancel, Write, Go, RowGone, jobVars, hkaVars
<1>14. ASSUME NEW r \in Requests, LogDeletion(r) PROVE TypeInv'
      BY <1>14 DEF LogDeletion, Go, RowGone, rowVars, jobVars, hkaVars
<1>15. ASSUME NEW r \in Requests, Remove(r) PROVE TypeInv'
      BY <1>15 DEF Remove, Write, Go, RowGone, jobVars, hkaVars
<1>16. ASSUME NEW w \in Workers, TakeJob(w) PROVE TypeInv'
      BY <1>16 DEF TakeJob, Go, rowVars, hkaVars
<1>17. ASSUME NEW p \in Handlers, Load(p) PROVE TypeInv'
      BY <1>17 DEF Load, Go, RowGone, rowVars, jobVars, hkaVars
<1>18. ASSUME NEW p \in Handlers, SaveXmlErrors(p) PROVE TypeInv'
      BY <1>18 DEF SaveXmlErrors, Write, Go, RowGone, jobVars, hkaVars
<1>19. ASSUME NEW p \in Handlers, SaveXml(p) PROVE TypeInv'
      BY <1>19 DEF SaveXml, Go, RowGone, jobVars, hkaVars
<1>20. ASSUME NEW p \in Handlers, KeepDraft(p) PROVE TypeInv'
      BY <1>20 DEF KeepDraft, Write, Go, RowGone, jobVars, hkaVars
<1>21. ASSUME NEW p \in Handlers, Send(p) PROVE TypeInv'
      BY <1>21 DEF Send, Go, rowVars, jobVars
<1>22. ASSUME NEW p \in Handlers, Certify(p) PROVE TypeInv'
  <2>1. \E l \in {"return", "sendFailed"} : pc' = [pc EXCEPT ![p] = l]
        BY <1>22 DEF Certify, Go
  <2>2. pc[p] # "idle" /\ UNCHANGED <<job, attempts, stalls, accepted, annulled, testMode>>
        BY <1>22 DEF Certify, jobVars, hkaVars
  <2>3. status' \in Statuses /\ cufe' \in {"none", "own", "dgi"} /\ certifiedAt' \in BOOLEAN
        BY <1>22 DEF Certify, rowVars
  <2>4. mishap' \in {mishap, mishap \cup {"unrecorded"}}
        BY <1>22 DEF Certify
  <2> QED  BY <2>1, <2>2, <2>3, <2>4
<1>23. ASSUME NEW p \in Handlers, Reject(p) PROVE TypeInv'
  <2>1. \E l \in {"return", "sendFailed"} : pc' = [pc EXCEPT ![p] = l]
        BY <1>23 DEF Reject, Go
  <2>2. /\ pc[p] # "idle"
        /\ UNCHANGED <<job, attempts, stalls, accepted, annulled, testMode, mishap>>
        BY <1>23 DEF Reject, jobVars, hkaVars
  <2>3. status' \in Statuses /\ cufe' \in {"none", "own", "dgi"} /\ certifiedAt' \in BOOLEAN
        BY <1>23 DEF Reject, rowVars
  <2> QED  BY <2>1, <2>2, <2>3
<1>24. ASSUME NEW p \in Handlers, SendFailed(p) PROVE TypeInv'
      BY <1>24 DEF SendFailed, Write, Go, RowGone, jobVars, hkaVars
<1>25. ASSUME NEW p \in Handlers, GiveUp(p) PROVE TypeInv'
      BY <1>25 DEF GiveUp, Write, Go, RowGone, jobVars, hkaVars
<1>26. ASSUME NEW p \in Handlers, Fail(p) PROVE TypeInv'
      BY <1>26 DEF Fail, Go, RowGone, jobVars, hkaVars
<1>27. ASSUME NEW p \in Handlers, Finish(p) PROVE TypeInv'
      BY <1>27 DEF Finish, Go, rowVars, hkaVars
<1>28. ASSUME NEW p \in Handlers, Throw(p) PROVE TypeInv'
      BY <1>28 DEF Throw, Go, rowVars, jobVars, hkaVars
<1>29. ASSUME NEW p \in Handlers, Crash(p) PROVE TypeInv'
      BY <1>29 DEF Crash, Go, rowVars, jobVars, hkaVars
<1>30. CASE StalledCheck
      BY <1>30 DEF StalledCheck, rowVars, hkaVars
<1>31. CASE EvictJob
      BY <1>31 DEF EvictJob, rowVars, hkaVars
<1>32. CASE UNCHANGED vars
      BY <1>32 DEF vars
<1> QED
    BY <1>1, <1>2, <1>3, <1>4, <1>5, <1>6, <1>7, <1>8, <1>9, <1>10, <1>11, <1>12, <1>13,
       <1>14, <1>15, <1>16, <1>17, <1>18, <1>19, <1>20, <1>21, <1>22, <1>23, <1>24, <1>25,
       <1>26, <1>27, <1>28, <1>29, <1>30, <1>31, <1>32
    DEF Next, Start, Request, ProcessInvoice

-----------------------------------------------------------------------------
(* Who is alone, one step per action.                                        *)

LEMMA AloneStep == TypeInv /\ AloneInv /\ [Next]_vars => AloneInv'
<1> SUFFICES ASSUME TypeInv, AloneInv, [Next]_vars PROVE AloneInv'  OBVIOUS
<1> USE LifecycleAssumption
    DEF TypeInv, TypeOK, WorkerHasJob, AloneInv, Handlers, CertifiedIsComplete,
        AcceptedFirst, OneHandler, ChecksHold, QueueAtRest, Settled, Attended,
        AnnulmentKept, Alone, Calm, Unfinished, Afterwards, Underway, Busy, Statuses
<1>1. ASSUME NEW r \in Requests, StartProcess(r) PROVE AloneInv'
      BY <1>1 DEF StartProcess, Begin, Busy, rowVars, jobVars, hkaVars
<1>2. ASSUME NEW r \in Requests, StartRetry(r) PROVE AloneInv'
      BY <1>2 DEF StartRetry, Begin, Busy, rowVars, jobVars, hkaVars
<1>3. ASSUME NEW r \in Requests, StartEnviar(r) PROVE AloneInv'
      BY <1>3 DEF StartEnviar, Begin, Busy, rowVars, jobVars, hkaVars
<1>4. ASSUME NEW r \in Requests, StartCancel(r) PROVE AloneInv'
      BY <1>4 DEF StartCancel, Begin, Busy, rowVars, jobVars, hkaVars
<1>5. ASSUME NEW r \in Requests, StartAnular(r) PROVE AloneInv'
      BY <1>5 DEF StartAnular, Begin, Busy, rowVars, jobVars, hkaVars
<1>6. ASSUME NEW r \in Requests, StartDelete(r) PROVE AloneInv'
      BY <1>6 DEF StartDelete, Begin, Busy, rowVars, jobVars, hkaVars, NonDeletable
<1>7. ASSUME NEW r \in Requests, Approve(r) PROVE AloneInv'
      BY <1>7 DEF Approve, Write, Go, RowGone, jobVars, hkaVars
<1>8. ASSUME NEW r \in Requests, Reset(r) PROVE AloneInv'
      BY <1>8 DEF Reset, Write, Go, RowGone, jobVars, hkaVars
<1>9. ASSUME NEW r \in Requests, Enqueue(r) PROVE AloneInv'
      BY <1>9 DEF Enqueue, Go, rowVars, jobVars, hkaVars
<1>10. ASSUME NEW r \in Requests, Mark(r) PROVE AloneInv'
      BY <1>10 DEF Mark, Write, Go, RowGone, jobVars, hkaVars
<1>11. ASSUME NEW r \in Requests, AnulacionDocumento(r) PROVE AloneInv'
      BY <1>11 DEF AnulacionDocumento, Go, rowVars, jobVars
<1>12. ASSUME NEW r \in Requests, RecordAnulacion(r) PROVE AloneInv'
      BY <1>12 DEF RecordAnulacion, Write, Go, RowGone, jobVars, hkaVars
<1>13. ASSUME NEW r \in Requests, ConfirmCancel(r) PROVE AloneInv'
      BY <1>13 DEF ConfirmCancel, Write, Go, RowGone, jobVars, hkaVars
<1>14. ASSUME NEW r \in Requests, LogDeletion(r) PROVE AloneInv'
      BY <1>14 DEF LogDeletion, Go, RowGone, rowVars, jobVars, hkaVars
<1>15. ASSUME NEW r \in Requests, Remove(r) PROVE AloneInv'
      BY <1>15 DEF Remove, Write, Go, RowGone, jobVars, hkaVars
<1>16. ASSUME NEW w \in Workers, TakeJob(w) PROVE AloneInv'
      BY <1>16 DEF TakeJob, Go, rowVars, hkaVars
<1>17. ASSUME NEW p \in Handlers, Load(p) PROVE AloneInv'
      BY <1>17 DEF Load, Go, RowGone, rowVars, jobVars, hkaVars
<1>18. ASSUME NEW p \in Handlers, SaveXmlErrors(p) PROVE AloneInv'
      BY <1>18 DEF SaveXmlErrors, Write, Go, RowGone, jobVars, hkaVars
<1>19. ASSUME NEW p \in Handlers, SaveXml(p) PROVE AloneInv'
      BY <1>19 DEF SaveXml, Go, RowGone, jobVars, hkaVars
<1>20. ASSUME NEW p \in Handlers, KeepDraft(p) PROVE AloneInv'
      BY <1>20 DEF KeepDraft, Write, Go, RowGone, jobVars, hkaVars
<1>21. ASSUME NEW p \in Handlers, Send(p) PROVE AloneInv'
      BY <1>21 DEF Send, Go, rowVars, jobVars
<1>22. ASSUME NEW p \in Handlers, Certify(p) PROVE AloneInv'
      BY <1>22 DEF Certify, Go, RowGone, rowVars, jobVars, hkaVars
<1>23. ASSUME NEW p \in Handlers, Reject(p) PROVE AloneInv'
      BY <1>23 DEF Reject, Go, RowGone, rowVars, jobVars, hkaVars
<1>24. ASSUME NEW p \in Handlers, SendFailed(p) PROVE AloneInv'
      BY <1>24 DEF SendFailed, Write, Go, RowGone, jobVars, hkaVars
<1>25. ASSUME NEW p \in Handlers, GiveUp(p) PROVE AloneInv'
      BY <1>25 DEF GiveUp, Write, Go, RowGone, jobVars, hkaVars
<1>26. ASSUME NEW p \in Handlers, Fail(p) PROVE AloneInv'
      BY <1>26 DEF Fail, Go, RowGone, jobVars, hkaVars
<1>27. ASSUME NEW p \in Handlers, Finish(p) PROVE AloneInv'
      BY <1>27 DEF Finish, Go, rowVars, hkaVars
<1>28. ASSUME NEW p \in Handlers, Throw(p) PROVE AloneInv'
      BY <1>28 DEF Throw, Go, rowVars, jobVars, hkaVars
<1>29. ASSUME NEW p \in Handlers, Crash(p) PROVE AloneInv'
      BY <1>29 DEF Crash, Go, rowVars, jobVars, hkaVars
<1>30. CASE StalledCheck
      BY <1>30 DEF StalledCheck, rowVars, hkaVars
<1>31. CASE EvictJob
      BY <1>31 DEF EvictJob, rowVars, hkaVars
<1>32. CASE UNCHANGED vars
      BY <1>32 DEF vars
<1> QED
    BY <1>1, <1>2, <1>3, <1>4, <1>5, <1>6, <1>7, <1>8, <1>9, <1>10, <1>11, <1>12, <1>13,
       <1>14, <1>15, <1>16, <1>17, <1>18, <1>19, <1>20, <1>21, <1>22, <1>23, <1>24, <1>25,
       <1>26, <1>27, <1>28, <1>29, <1>30, <1>31, <1>32
    DEF Next, Start, Request, ProcessInvoice

-----------------------------------------------------------------------------
(* The inductive invariant of the specification.                             *)
THEOREM LifecycleInvariant == Spec => [](TypeInv /\ AloneInv)
<1>1. (TypeInv /\ AloneInv) /\ [Next]_vars => (TypeInv /\ AloneInv)'
      BY TypeStep, AloneStep
<1> QED  BY InitEstablishes, <1>1, PTL DEF Spec

(* Every variable keeps its shape: the stalled counter and the attempts that *)
(* BullMQ keeps (lib/queue/invoice-queue.ts:44, lib/workers/invoice-worker.ts *)
(* :20) stay within their limits.                                            *)
THEOREM LifecycleTypeOK == Spec => []TypeOK
<1>1. TypeInv /\ AloneInv => TypeOK  BY DEF TypeInv
<1> QED  BY LifecycleInvariant, <1>1, PTL

(* A certified row carries the cufe HKA answered and its date, whichever     *)
(* handlers overlapped (lib/hka/methods/enviar-documento.ts:466).            *)
THEOREM LifecycleCertifiedIsComplete == Spec => []CertifiedIsComplete
<1>1. TypeInv /\ AloneInv => CertifiedIsComplete  BY DEF AloneInv
<1> QED  BY LifecycleInvariant, <1>1, PTL

(* HKA accepts an invoice twice only after an overlap or an unrecorded       *)
(* acceptance, for any number of requests, workers and attempts.             *)
THEOREM LifecycleAcceptedOnce == Spec => []AcceptedOnce
<1>1. TypeInv /\ AloneInv => AcceptedOnce
      BY DEF TypeInv, TypeOK, AloneInv, Settled, Calm, Alone, AcceptedOnce
<1> QED  BY LifecycleInvariant, <1>1, PTL

(* No sequence of calls leaves an invoice in PROCESSING with nobody to end   *)
(* it (lib/workers/invoice-processor.ts:189).                                *)
THEOREM LifecycleNothingStranded == Spec => []NothingStranded
<1>1. TypeInv /\ AloneInv => NothingStranded
      BY DEF AloneInv, Attended, Underway, NothingStranded, Busy
<1> QED  BY LifecycleInvariant, <1>1, PTL

(* What HKA annulled stays cancelled (lib/hka/methods/anular-documento.ts:64),*)
(* unless handlers overlapped, died or could not write.                      *)
THEOREM LifecycleAnnulledIsCancelled == Spec => []AnnulledIsCancelled
<1>1. TypeInv /\ AloneInv => AnnulledIsCancelled
  <2> SUFFICES ASSUME AloneInv, annulled, ~Busy,
                      mishap \cap {"overlap", "crash", "unrecorded"} = {}
               PROVE  status \in {"CANCELLED", "DELETED"}
      BY DEF AnnulledIsCancelled
  <2>1. \A r \in Requests : pc[r] = "idle"
      BY DEF Busy, Handlers
  <2> QED  BY <2>1 DEF AloneInv, AnnulmentKept, Calm, Alone
<1> QED  BY LifecycleInvariant, <1>1, PTL

-----------------------------------------------------------------------------
(* Which steps write the status of a certified row.                          *)

LEMMA CertifiedStep ==
    TypeInv /\ AloneInv /\ [Next]_vars =>
        (status = "CERTIFIED" /\ "overlap" \notin mishap' =>
             status' \in {"CERTIFIED", "CANCELLED"})
<1> SUFFICES ASSUME TypeInv, AloneInv, [Next]_vars, status = "CERTIFIED",
                    "overlap" \notin mishap'
             PROVE  status' \in {"CERTIFIED", "CANCELLED"}
    OBVIOUS
<1>1. ASSUME NEW p \in Handlers, pc[p] \in Unfinished PROVE "overlap" \in mishap
      BY <1>1 DEF AloneInv, ChecksHold, Alone
<1>2. ASSUME NEW r \in Requests, Start(r) PROVE UNCHANGED status
      BY <1>2 DEF Start, StartProcess, StartRetry, StartEnviar, StartCancel, StartAnular,
                  StartDelete, Begin, rowVars
<1>3. ASSUME NEW r \in Requests, Request(r) PROVE status' \in {"CERTIFIED", "CANCELLED"}
  <2>1. CASE AnulacionDocumento(r)
        BY <2>1 DEF AnulacionDocumento, rowVars
  <2>2. CASE RecordAnulacion(r) \/ ConfirmCancel(r)
        BY <2>2 DEF RecordAnulacion, ConfirmCancel, Write
  <2>3. CASE Approve(r) \/ Reset(r) \/ Enqueue(r) \/ Mark(r) \/ LogDeletion(r) \/ Remove(r)
    <3>1. pc[r] \in Unfinished /\ mishap \subseteq mishap'
          BY <2>3 DEF Approve, Reset, Enqueue, Mark, LogDeletion, Remove, Unfinished
    <3> QED  BY <1>1, <3>1 DEF Handlers
  <2> QED  BY <1>3, <2>1, <2>2, <2>3 DEF Request
<1>4. ASSUME NEW p \in Handlers, ProcessInvoice(p) PROVE status' \in {"CERTIFIED", "CANCELLED"}
  <2>1. CASE Load(p) \/ Finish(p) \/ Throw(p)
        BY <2>1 DEF Load, Finish, Throw, rowVars
  <2>2. CASE SaveXmlErrors(p) \/ SaveXml(p) \/ KeepDraft(p) \/ Send(p) \/ Certify(p)
             \/ Reject(p) \/ SendFailed(p) \/ GiveUp(p) \/ Fail(p)
    <3>1. pc[p] \in Unfinished
          BY <2>2 DEF SaveXmlErrors, SaveXml, KeepDraft, Send, Certify, Reject, SendFailed,
                      GiveUp, Fail, Unfinished
    <3>2. mishap \subseteq mishap'
          BY <2>2 DEF SaveXmlErrors, SaveXml, KeepDraft, Send, Certify, Reject, SendFailed,
                      GiveUp, Fail
    <3> QED  BY <1>1, <3>1, <3>2
  <2> QED  BY <1>4, <2>1, <2>2 DEF ProcessInvoice
<1>5. ASSUME \/ \E w \in Workers : TakeJob(w)
             \/ \E p \in Handlers : Crash(p)
             \/ StalledCheck \/ EvictJob \/ UNCHANGED vars
      PROVE  UNCHANGED status
      BY <1>5 DEF TakeJob, Crash, StalledCheck, EvictJob, vars, rowVars
<1> QED  BY <1>2, <1>3, <1>4, <1>5 DEF Next

(* Once certified, an invoice is only ever cancelled, as long as no two      *)
(* handlers overlap: the checks of process, retry, enviar and delete         *)
(* (app/api/invoices/[id]/route.ts:63) are then still true when they write.  *)
THEOREM LifecycleCertifiedIsFinal == Spec => CertifiedIsFinal
<1>1. TypeInv /\ AloneInv /\ [Next]_vars =>
        [status = "CERTIFIED" /\ "overlap" \notin mishap' =>
             status' \in {"CERTIFIED", "CANCELLED"}]_vars
      BY CertifiedStep
<1> QED  BY LifecycleInvariant, <1>1, PTL DEF Spec, CertifiedIsFinal

-----------------------------------------------------------------------------
(* The contract.                                                             *)

\* Where a handler works on an invoice that it, or its request, saw neither cancelled nor
\* deleted.
Working == (Unfinished \ {"log", "remove"}) \cup {"load"}

\* While nobody overlaps, nobody works on an invoice that was cancelled or deleted, and no
\* job waits to.
WorkIsOpen == Alone =>
    /\ \A p \in Handlers : pc[p] \in Working => status \notin {"CANCELLED", "DELETED"}
    /\ job \in {"waiting", "active"} => status \notin {"CANCELLED", "DELETED"}

LEMMA WorkStep == TypeInv /\ AloneInv /\ WorkIsOpen /\ [Next]_vars => WorkIsOpen'
<1> SUFFICES ASSUME TypeInv, AloneInv, WorkIsOpen, [Next]_vars PROVE WorkIsOpen'  OBVIOUS
<1> USE LifecycleAssumption
    DEF TypeInv, TypeOK, WorkerHasJob, AloneInv, Handlers, OneHandler, ChecksHold,
        QueueAtRest, WorkIsOpen, Working, Alone, Unfinished, Statuses
<1>1. ASSUME NEW r \in Requests, StartProcess(r) PROVE WorkIsOpen'
      BY <1>1 DEF StartProcess, Begin, Busy, rowVars, jobVars, hkaVars
<1>2. ASSUME NEW r \in Requests, StartRetry(r) PROVE WorkIsOpen'
      BY <1>2 DEF StartRetry, Begin, Busy, rowVars, jobVars, hkaVars
<1>3. ASSUME NEW r \in Requests, StartEnviar(r) PROVE WorkIsOpen'
      BY <1>3 DEF StartEnviar, Begin, Busy, rowVars, jobVars, hkaVars
<1>4. ASSUME NEW r \in Requests, StartCancel(r) PROVE WorkIsOpen'
      BY <1>4 DEF StartCancel, Begin, Busy, rowVars, jobVars, hkaVars
<1>5. ASSUME NEW r \in Requests, StartAnular(r) PROVE WorkIsOpen'
      BY <1>5 DEF StartAnular, Begin, Busy, rowVars, jobVars, hkaVars
<1>6. ASSUME NEW r \in Requests, StartDelete(r) PROVE WorkIsOpen'
      BY <1>6 DEF StartDelete, Begin, Busy, rowVars, jobVars, hkaVars, NonDeletable
<1>7. ASSUME NEW r \in Requests, Approve(r) PROVE WorkIsOpen'
      BY <1>7 DEF Approve, Write, Go, RowGone, jobVars, hkaVars
<1>8. ASSUME NEW r \in Requests, Reset(r) PROVE WorkIsOpen'
      BY <1>8 DEF Reset, Write, Go, RowGone, jobVars, hkaVars
<1>9. ASSUME NEW r \in Requests, Enqueue(r) PROVE WorkIsOpen'
      BY <1>9 DEF Enqueue, Go, rowVars, jobVars, hkaVars
<1>10. ASSUME NEW r \in Requests, Mark(r) PROVE WorkIsOpen'
      BY <1>10 DEF Mark, Write, Go, RowGone, jobVars, hkaVars
<1>11. ASSUME NEW r \in Requests, AnulacionDocumento(r) PROVE WorkIsOpen'
      BY <1>11 DEF AnulacionDocumento, Go, rowVars, jobVars
<1>12. ASSUME NEW r \in Requests, RecordAnulacion(r) PROVE WorkIsOpen'
      BY <1>12 DEF RecordAnulacion, Write, Go, RowGone, jobVars, hkaVars
<1>13. ASSUME NEW r \in Requests, ConfirmCancel(r) PROVE WorkIsOpen'
      BY <1>13 DEF ConfirmCancel, Write, Go, RowGone, jobVars, hkaVars
<1>14. ASSUME NEW r \in Requests, LogDeletion(r) PROVE WorkIsOpen'
      BY <1>14 DEF LogDeletion, Go, RowGone, rowVars, jobVars, hkaVars
<1>15. ASSUME NEW r \in Requests, Remove(r) PROVE WorkIsOpen'
      BY <1>15 DEF Remove, Write, Go, RowGone, jobVars, hkaVars
<1>16. ASSUME NEW w \in Workers, TakeJob(w) PROVE WorkIsOpen'
      BY <1>16 DEF TakeJob, Go, rowVars, hkaVars
<1>17. ASSUME NEW p \in Handlers, Load(p) PROVE WorkIsOpen'
  <2>1. pc[p] = "load" /\ \E l \in {"saveXml", "xmlErrors", "fail", "return"} :
          pc' = [pc EXCEPT ![p] = l]
        BY <1>17 DEF Load, Go
  <2>2. UNCHANGED <<status, job, mishap>>
        BY <1>17 DEF Load, rowVars, jobVars
  <2>3. ASSUME NEW q \in Handlers, pc'[q] \in Working PROVE pc[q] \in Working
    <3>1. CASE q = p  BY <2>1, <3>1
    <3>2. CASE q # p
      <4>1. pc'[q] = pc[q]
        <5>1. pc = [h \in Handlers |-> pc[h]]  OBVIOUS
        <5> QED  BY ONLY <2>1, <5>1, <3>2, q \in Handlers
      <4> QED  BY <4>1, <2>3
    <3> QED  BY <3>1, <3>2
  <2> QED  BY <2>2, <2>3
<1>18. ASSUME NEW p \in Handlers, SaveXmlErrors(p) PROVE WorkIsOpen'
      BY <1>18 DEF SaveXmlErrors, Write, Go, RowGone, jobVars, hkaVars
<1>19. ASSUME NEW p \in Handlers, SaveXml(p) PROVE WorkIsOpen'
      BY <1>19 DEF SaveXml, Go, RowGone, jobVars, hkaVars
<1>20. ASSUME NEW p \in Handlers, KeepDraft(p) PROVE WorkIsOpen'
      BY <1>20 DEF KeepDraft, Write, Go, RowGone, jobVars, hkaVars
<1>21. ASSUME NEW p \in Handlers, Send(p) PROVE WorkIsOpen'
      BY <1>21 DEF Send, Go, rowVars, jobVars
<1>22. ASSUME NEW p \in Handlers, Certify(p) PROVE WorkIsOpen'
      BY <1>22 DEF Certify, Go, RowGone, rowVars, jobVars, hkaVars
<1>23. ASSUME NEW p \in Handlers, Reject(p) PROVE WorkIsOpen'
      BY <1>23 DEF Reject, Go, RowGone, rowVars, jobVars, hkaVars
<1>24. ASSUME NEW p \in Handlers, SendFailed(p) PROVE WorkIsOpen'
      BY <1>24 DEF SendFailed, Write, Go, RowGone, jobVars, hkaVars
<1>25. ASSUME NEW p \in Handlers, GiveUp(p) PROVE WorkIsOpen'
      BY <1>25 DEF GiveUp, Write, Go, RowGone, jobVars, hkaVars
<1>26. ASSUME NEW p \in Handlers, Fail(p) PROVE WorkIsOpen'
      BY <1>26 DEF Fail, Go, RowGone, jobVars, hkaVars
<1>27. ASSUME NEW p \in Handlers, Finish(p) PROVE WorkIsOpen'
      BY <1>27 DEF Finish, Go, rowVars, hkaVars
<1>28. ASSUME NEW p \in Handlers, Throw(p) PROVE WorkIsOpen'
      BY <1>28 DEF Throw, Go, rowVars, jobVars, hkaVars
<1>29. ASSUME NEW p \in Handlers, Crash(p) PROVE WorkIsOpen'
      BY <1>29 DEF Crash, Go, rowVars, jobVars, hkaVars
<1>30. CASE StalledCheck
      BY <1>30 DEF StalledCheck, rowVars, hkaVars
<1>31. CASE EvictJob
      BY <1>31 DEF EvictJob, rowVars, hkaVars
<1>32. CASE UNCHANGED vars
      BY <1>32 DEF vars
<1> QED
    BY <1>1, <1>2, <1>3, <1>4, <1>5, <1>6, <1>7, <1>8, <1>9, <1>10, <1>11, <1>12, <1>13,
       <1>14, <1>15, <1>16, <1>17, <1>18, <1>19, <1>20, <1>21, <1>22, <1>23, <1>24, <1>25,
       <1>26, <1>27, <1>28, <1>29, <1>30, <1>31, <1>32
    DEF Next, Start, Request, ProcessInvoice

\* What the contract calls void.
Voided == mishap \cap {"overlap", "unrecorded"} # {}

\* A voided contract allows every step that keeps the types.
LEMMA VoidStep == TypeInv' /\ Voided' => [Contract!Next]_(Contract!contract)
<1> SUFFICES ASSUME TypeInv', Voided' PROVE Contract!Void  BY DEF Contract!Next
<1>1. Stage' \in Contract!Stages
      BY DEF Stage, Contract!Stages
<1>2. accepted' \in 0..2 /\ annulled' \in BOOLEAN
      BY Zenon DEF TypeInv, TypeOK
<1>3. (mishap \cap {"overlap", "unrecorded"} # {})' = TRUE
      BY DEF Voided
<1> QED  BY <1>1, <1>2, <1>3 DEF Contract!Void

\* A handler that nobody overlapped with.
LEMMA OnlyHandler ==
    ASSUME TypeInv, AloneInv, ~Voided, NEW p \in Handlers, pc[p] # "idle"
    PROVE  /\ \A q \in Handlers : pc[q] # "idle" => q = p
           /\ pc[p] \in Unfinished => status # "CERTIFIED"
           /\ accepted > 0 /\ pc[p] # "certify" =>
                accepted = 1 /\ status \in {"CERTIFIED", "CANCELLED", "DELETED"}
<1>1. Calm /\ Alone
      BY DEF Voided, Calm, Alone
<1>2. \A q \in Handlers : pc[q] # "idle" => q = p
      BY <1>1 DEF AloneInv, OneHandler
<1>3. pc[p] \in Unfinished => status # "CERTIFIED"
      BY <1>1 DEF AloneInv, ChecksHold
<1>4. ASSUME accepted > 0, pc[p] # "certify"
      PROVE  accepted = 1 /\ status \in {"CERTIFIED", "CANCELLED", "DELETED"}
  <2>1. \A q \in Handlers : pc[q] # "certify"
        BY <1>2, <1>4
  <2> QED  BY <1>1, <1>4, <2>1 DEF AloneInv, Settled
<1> QED  BY <1>2, <1>3, <1>4

\* A step that leaves stage and documents alone stutters.
LEMMA Stutter ==
    UNCHANGED <<Stage, accepted, annulled>> /\ ~Voided /\ ~Voided'
        => [Contract!Next]_(Contract!contract)
<1> SUFFICES ASSUME UNCHANGED <<Stage, accepted, annulled>>, ~Voided, ~Voided'
             PROVE  UNCHANGED Contract!contract
    OBVIOUS
<1>1. (mishap \cap {"overlap", "unrecorded"} # {})' = (mishap \cap {"overlap", "unrecorded"} # {})
      BY DEF Voided
<1> QED  BY <1>1 DEF Contract!contract

\* Who writes an open status found the row open.
LEMMA OpenWrite ==
    ASSUME TypeInv, AloneInv, WorkIsOpen, TypeInv', ~Voided, ~Voided',
           NEW p \in Handlers, pc[p] \in Working \cap Unfinished,
           status' \notin {"CERTIFIED", "CANCELLED", "DELETED"}, UNCHANGED <<accepted, annulled>>
    PROVE  [Contract!Next]_(Contract!contract)
<1>1. status \notin {"CERTIFIED", "CANCELLED", "DELETED"}
      BY DEF AloneInv, ChecksHold, WorkIsOpen, Alone, Voided
<1>2. Stage = "open" /\ Stage' = "open"
      BY <1>1 DEF Stage
<1> QED  BY <1>2, Stutter

\* Every step keeps the contract, or comes when it is void.
LEMMA ContractStep ==
    TypeInv /\ AloneInv /\ WorkIsOpen /\ TypeInv' /\ [Next]_vars
        => [Contract!Next]_(Contract!contract)
<1> SUFFICES ASSUME TypeInv, AloneInv, WorkIsOpen, TypeInv', [Next]_vars, ~Voided'
             PROVE  [Contract!Next]_(Contract!contract)
    BY VoidStep
<1>0. ~Voided
  <2>1. mishap \subseteq mishap'
        BY DEF Next, vars, Start, StartProcess, StartRetry, StartEnviar, StartCancel, StartAnular,
               StartDelete, Begin, Request, Approve, Reset, Enqueue, Mark, AnulacionDocumento,
               RecordAnulacion, ConfirmCancel, LogDeletion, Remove, TakeJob, ProcessInvoice,
               Load, SaveXmlErrors, SaveXml, KeepDraft, Send, Certify, Reject, SendFailed,
               GiveUp, Fail, Finish, Throw, Crash, StalledCheck, EvictJob
  <2> QED  BY <2>1 DEF Voided
<1>a. (mishap \cap {"overlap", "unrecorded"} # {})' = (mishap \cap {"overlap", "unrecorded"} # {})
      BY <1>0 DEF Voided
<1>1. CASE UNCHANGED <<status, accepted, annulled>>
      BY <1>0, <1>1, Stutter DEF Stage
<1>2. ASSUME NEW p \in Handlers,
             \/ Approve(p) \/ Reset(p) \/ Mark(p) \/ SaveXmlErrors(p) \/ SaveXml(p)
             \/ KeepDraft(p) \/ Reject(p) \/ SendFailed(p) \/ GiveUp(p) \/ Fail(p)
      PROVE  [Contract!Next]_(Contract!contract)
  <2>1. pc[p] \in Working \cap Unfinished /\ UNCHANGED <<accepted, annulled>>
        BY <1>2 DEF Approve, Reset, Mark, SaveXmlErrors, SaveXml, KeepDraft, Reject,
                    SendFailed, GiveUp, Fail, hkaVars, Working, Unfinished
  <2>2. status' = status \/ status' \in {"QUEUED", "DRAFT", "PROCESSING", "ERROR", "REJECTED"}
        BY <1>2 DEF Approve, Reset, Mark, SaveXmlErrors, SaveXml, KeepDraft, Reject,
                    SendFailed, GiveUp, Fail, Write, rowVars
  <2> QED  BY <1>0, <1>1, <2>1, <2>2, OpenWrite
<1>3. ASSUME NEW p \in Handlers, Send(p)
      PROVE  [Contract!Next]_(Contract!contract)
  <2>1. pc[p] = "send" /\ UNCHANGED <<status, annulled>>
        BY <1>3 DEF Send, rowVars
  <2>2. status \notin {"CERTIFIED", "CANCELLED", "DELETED"}
        BY <1>0, <2>1 DEF AloneInv, ChecksHold, WorkIsOpen, Working, Unfinished, Alone, Voided
  <2>3. accepted = 0
        BY <1>0, <2>1, <2>2, OnlyHandler DEF TypeInv, TypeOK
  <2>4. CASE accepted' = 1
        BY <1>a, <2>1, <2>2, <2>3, <2>4 DEF Stage, Contract!Accept, Contract!Next
  <2> QED  BY <1>1, <1>3, <2>1, <2>3, <2>4 DEF Send
<1>4. ASSUME NEW p \in Handlers, Certify(p)
      PROVE  [Contract!Next]_(Contract!contract)
  <2>1. pc[p] = "certify" /\ status' = "CERTIFIED" /\ UNCHANGED <<accepted, annulled>>
        BY <1>4 DEF Certify, hkaVars, Voided
  <2>2. status \notin {"CERTIFIED", "CANCELLED", "DELETED"}
        BY <1>0, <2>1 DEF AloneInv, ChecksHold, WorkIsOpen, Working, Unfinished, Alone, Voided
  <2>3. accepted = 1
        BY <1>0, <2>1 DEF AloneInv, AcceptedFirst, Settled, Calm, Alone, Voided
  <2> QED  BY <1>a, <2>1, <2>2, <2>3 DEF Stage, Contract!Certify, Contract!Next
<1>5. ASSUME NEW r \in Requests, AnulacionDocumento(r)
      PROVE  [Contract!Next]_(Contract!contract)
  <2>1. pc[r] \in {"cancel", "annul"} /\ UNCHANGED <<status, accepted>>
        BY <1>5 DEF AnulacionDocumento, rowVars
  <2>2. annulled' = annulled \/ (annulled' = TRUE /\ accepted > 0)
        BY <1>5 DEF AnulacionDocumento, TypeInv, TypeOK
  <2>3. CASE annulled' = TRUE /\ accepted > 0
    <3>1. accepted = 1 /\ status \in {"CERTIFIED", "CANCELLED", "DELETED"}
          BY <1>0, <2>1, <2>3, OnlyHandler DEF Handlers
    <3> QED  BY <1>a, <2>1, <2>3, <3>1 DEF Stage, Contract!Annul, Contract!Next
  <2> QED  BY <1>1, <2>1, <2>2, <2>3
<1>6. ASSUME NEW r \in Requests, RecordAnulacion(r) \/ ConfirmCancel(r)
      PROVE  [Contract!Next]_(Contract!contract)
  <2>1. /\ pc[r] \in {"record", "recordOk", "confirm"} /\ UNCHANGED <<accepted, annulled>>
        /\ status' = status \/ (status # "DELETED" /\ status' = "CANCELLED")
        BY <1>6 DEF RecordAnulacion, ConfirmCancel, Write, RowGone, hkaVars
  <2>2. CASE status \notin {"CANCELLED", "DELETED"} /\ status' = "CANCELLED"
    <3>1. status = "CERTIFIED" \/ accepted = 0
          BY <1>0, <2>1, <2>2, OnlyHandler DEF Handlers, TypeInv, TypeOK
    <3> QED  BY <1>a, <2>1, <2>2, <3>1 DEF Stage, Contract!Cancel, Contract!Next
  <2> QED  BY <1>1, <2>1, <2>2
<1>7. ASSUME NEW r \in Requests, Remove(r)
      PROVE  [Contract!Next]_(Contract!contract)
  <2>1. /\ pc[r] = "remove" /\ UNCHANGED <<accepted, annulled>>
        /\ status' = status \/ (status # "DELETED" /\ status' = "DELETED")
        BY <1>7 DEF Remove, Write, RowGone, hkaVars
  <2>2. CASE status # "DELETED" /\ status' = "DELETED"
    <3>1. status = "CANCELLED" \/ (status \notin {"CERTIFIED", "CANCELLED"} /\ accepted = 0)
          BY <1>0, <2>1, <2>2, OnlyHandler DEF Handlers, Unfinished, TypeInv, TypeOK
    <3> QED  BY <1>a, <2>1, <2>2, <3>1 DEF Stage, Contract!Delete, Contract!Next
  <2> QED  BY <1>1, <2>1, <2>2
<1>8. ASSUME \/ \E r \in Requests : Start(r) \/ Enqueue(r) \/ LogDeletion(r)
             \/ \E w \in Workers : TakeJob(w)
             \/ \E p \in Handlers : Load(p) \/ Finish(p) \/ Throw(p) \/ Crash(p)
             \/ StalledCheck \/ EvictJob \/ UNCHANGED vars
      PROVE  UNCHANGED <<status, accepted, annulled>>
      BY <1>8 DEF Start, StartProcess, StartRetry, StartEnviar, StartCancel, StartAnular,
                  StartDelete, Begin, Enqueue, LogDeletion, TakeJob, Load, Finish, Throw, Crash,
                  StalledCheck, EvictJob, vars, rowVars, hkaVars
<1> QED
    BY <1>1, <1>2, <1>3, <1>4, <1>5, <1>6, <1>7, <1>8
    DEF Next, Request, ProcessInvoice, Handlers

(* The handlers of an invoice keep their contract (app/api/invoices/[id] and *)
(* lib/workers): every run of theirs is one of the contract.                 *)
THEOREM LifecycleImplementsContract == Spec => ImplementsContract
<1>1. Init => WorkIsOpen
      BY DEF Init, WorkIsOpen, Working, Unfinished
<1>2. Init => Contract!Init
  <2> SUFFICES ASSUME Init PROVE Contract!Init  OBVIOUS
  <2>1. status = "DRAFT" /\ accepted = 0 /\ annulled = FALSE /\ mishap = {}
        BY DEF Init
  <2> QED  BY <2>1 DEF Contract!Init, Stage
<1>3. Spec => []WorkIsOpen
      BY <1>1, WorkStep, LifecycleInvariant, PTL DEF Spec
<1>4. Spec => Contract!Spec
      BY <1>2, <1>3, ContractStep, LifecycleInvariant, PTL DEF Spec, Contract!Spec
<1> QED  BY <1>4 DEF ImplementsContract

=============================================================================

----------------------------- MODULE Documents -----------------------------
(* The receipt of a paid order (src/documents): PAYMENT_SUCCEEDED queues a     *)
(* create job, whose end queues the rendering, whose end queues the mail. The  *)
(* workers of the queue step through a handler between its awaits; any step    *)
(* may throw, the process may stop, and the queue may take a slow worker for   *)
(* dead and hand its job to another.                                           *)
EXTENDS Naturals, FiniteSets, JobQueue

CONSTANTS
  Orders,       \* the orders that are paid
  WithEmail,    \* those of them that have an address to mail
  Workers,      \* the processes that take the queue's jobs
  Attempts,     \* attempts of each kind of job (create 5, render-pdf 3, send-email 3)
  MaxEvents,    \* bound: PAYMENT_SUCCEEDED of one order
  MaxNumber,    \* bound: numbers drawn from shop_receipt_seq
  MaxFaults     \* bound: processes that stop or lose the lock of their job

VARIABLES
  paidEvents,   \* PAYMENT_SUCCEEDED events published, per order
  jobs,         \* the queue
  number,       \* the last number of the sequence
  docs,         \* the document rows: their number stands for their id
  pdf, sent,    \* documents with pdfStoragePath, with emailSentAt
  mails,        \* mails handed to the transport, per document
  worker,       \* what each worker is at
  faults,       \* processes stopped and locks lost so far
  unmarked,     \* documents mailed by a run that ended before the mark
  overlapped    \* a job was handed out again while a first run of it went on

vars == <<paidEvents, jobs, number, docs, pdf, sent, mails, worker, faults, unmarked, overlapped>>

Numbers == 1 .. MaxNumber
\* scheduleCreation, schedulePdfRendering and markPdfGenerated name their jobs after what
\* they are about: at most one job of a kind for each order or document.
JobIds == ({"create"} \X Orders) \cup ({"render-pdf", "send-email"} \X Numbers)

Idle == [job |-> <<"idle", 0>>, at |-> "take", doc |-> 0, lock |-> FALSE]

TypeOK ==
  /\ paidEvents \in [Orders -> 0 .. MaxEvents]
  /\ jobs \in [JobIds -> Job]
  /\ number \in 0 .. MaxNumber
  /\ docs \subseteq [number : 1 .. number, order : Orders]
  /\ pdf \subseteq Numbers /\ sent \subseteq Numbers /\ unmarked \subseteq Numbers
  /\ mails \in [Numbers -> Nat]
  /\ \A w \in Workers : worker[w] = Idle \/ worker[w].job \in JobIds
  /\ faults \in 0 .. MaxFaults /\ overlapped \in BOOLEAN

Init ==
  /\ paidEvents = [o \in Orders |-> 0]
  /\ jobs = [j \in JobIds |-> NoJob]
  /\ number = 0 /\ docs = {} /\ pdf = {} /\ sent = {}
  /\ mails = [n \in Numbers |-> 0]
  /\ worker = [w \in Workers |-> Idle]
  /\ faults = 0 /\ unmarked = {} /\ overlapped = FALSE

DocOf(o) == {d.number : d \in {x \in docs : x.order = o}}
OrderOf(n) == (CHOOSE d \in docs : d.number = n).order

Queue(id) == Add(jobs, id)

(* onPaymentSucceeded: builds the input and queues the creation. What throws   *)
(* here is logged and the receipt is never scheduled.                          *)
PaymentSucceeded(o) ==
  /\ paidEvents[o] < MaxEvents
  /\ paidEvents' = [paidEvents EXCEPT ![o] = @ + 1]
  /\ jobs' \in {jobs, Queue(<<"create", o>>)}
  /\ UNCHANGED <<number, docs, pdf, sent, mails, worker, faults, unmarked, overlapped>>

Take(w) ==
  /\ worker[w] = Idle
  /\ \E j \in JobIds :
       /\ jobs[j].state = "waiting"
       /\ jobs' = Taken(jobs, j)
       /\ worker' = [worker EXCEPT ![w] =
            [job |-> j, at |-> j[1], doc |-> IF j[1] = "create" THEN 0 ELSE j[2],
             lock |-> TRUE]]
  /\ UNCHANGED <<paidEvents, number, docs, pdf, sent, mails, faults, unmarked, overlapped>>

Goto(w, at, n) == worker' = [worker EXCEPT ![w].at = at, ![w].doc = n]
Finish(w, q) ==
  /\ worker' = [worker EXCEPT ![w] = Idle]
  /\ jobs' = Done(q, worker[w].job, worker[w].lock)

\* A mutant: only a document that was mailed counts.
ExistsMailed(o) == DocOf(o) \cap sent # {}
Exists(o) == DocOf(o) # {}

(* createDocument looks for the order's document first.                        *)
FindDocument(w) ==
  LET o == worker[w].job[2] IN
  /\ worker[w].at = "create"
  /\ IF Exists(o) THEN \E n \in DocOf(o) : Goto(w, "schedulePdf", n) ELSE Goto(w, "insert", 0)
  /\ UNCHANGED <<paidEvents, jobs, number, docs, pdf, sent, mails, faults, unmarked, overlapped>>

(* The transaction of createDocument: nextval is not undone by a rollback.     *)
InsertDocument(w) ==
  /\ worker[w].at = "insert" /\ number < MaxNumber
  /\ number' = number + 1
  /\ \/ /\ docs' = docs \cup {[number |-> number + 1, order |-> worker[w].job[2]]}
        /\ Goto(w, "schedulePdf", number + 1)
     \/ /\ docs' = docs /\ Goto(w, "throw", 0)
  /\ UNCHANGED <<paidEvents, jobs, pdf, sent, mails, faults, unmarked, overlapped>>

Rendering(w) == Queue(<<"render-pdf", worker[w].doc>>)

(* handleCreate: schedulePdfRendering, whether the document is new or found.   *)
SchedulePdf(w) ==
  /\ worker[w].at = "schedulePdf"
  /\ Finish(w, Rendering(w))
  /\ UNCHANGED <<paidEvents, number, docs, pdf, sent, mails, faults, unmarked, overlapped>>

(* handleRenderPdf: the upload and the update of the row.                      *)
RenderPdf(w) ==
  /\ worker[w].at = "render-pdf"
  /\ pdf' = pdf \cup {worker[w].doc}
  /\ Goto(w, "queueMail", worker[w].doc)
  /\ UNCHANGED <<paidEvents, jobs, number, docs, sent, mails, faults, unmarked, overlapped>>

Mail(w) ==
  IF OrderOf(worker[w].doc) \in WithEmail THEN Queue(<<"send-email", worker[w].doc>>) ELSE jobs

(* The end of markPdfGenerated: an order without an address is not mailed.     *)
QueueMail(w) ==
  /\ worker[w].at = "queueMail"
  /\ Finish(w, Mail(w))
  /\ UNCHANGED <<paidEvents, number, docs, pdf, sent, mails, faults, unmarked, overlapped>>

(* handleSendEmail hands the mail to the transport ...                         *)
SendEmail(w) ==
  /\ worker[w].at = "send-email" /\ worker[w].doc \in pdf
  /\ mails' = [mails EXCEPT ![worker[w].doc] = @ + 1]
  /\ Goto(w, "markSent", worker[w].doc)
  /\ UNCHANGED <<paidEvents, jobs, number, docs, pdf, sent, faults, unmarked, overlapped>>

(* ... and then marks the document as sent.                                    *)
MarkEmailSent(w) ==
  /\ worker[w].at = "markSent"
  /\ sent' = sent \cup {worker[w].doc}
  /\ Finish(w, jobs)
  /\ UNCHANGED <<paidEvents, number, docs, pdf, mails, faults, unmarked, overlapped>>

Unmarks(w) == unmarked' = unmarked \cup (IF worker[w].at = "markSent" THEN {worker[w].doc} ELSE {})

(* A step throws: the handler logs and rethrows, the queue counts the attempt. *)
Throw(w) ==
  /\ worker[w] # Idle
  /\ jobs' = Failed(jobs, worker[w].job, worker[w].lock, Attempts[worker[w].job[1]])
  /\ worker' = [worker EXCEPT ![w] = Idle]
  /\ Unmarks(w)
  /\ UNCHANGED <<paidEvents, number, docs, pdf, sent, mails, faults, overlapped>>

(* The process stops.                                                          *)
Crash(w) ==
  /\ worker[w] # Idle /\ faults < MaxFaults
  /\ faults' = faults + 1
  /\ jobs' = IF worker[w].lock THEN Stalled(jobs, worker[w].job) ELSE jobs
  /\ worker' = [worker EXCEPT ![w] = Idle]
  /\ Unmarks(w)
  /\ UNCHANGED <<paidEvents, number, docs, pdf, sent, mails, overlapped>>

(* The process is slow: the queue hands the job out again while it goes on.    *)
LoseLock(w) ==
  /\ worker[w].lock /\ faults < MaxFaults
  /\ faults' = faults + 1
  /\ jobs' = Stalled(jobs, worker[w].job)
  /\ worker' = [worker EXCEPT ![w].lock = FALSE]
  /\ overlapped' = TRUE
  /\ UNCHANGED <<paidEvents, number, docs, pdf, sent, mails, unmarked>>

Work(w) ==
  \/ Take(w) \/ FindDocument(w) \/ InsertDocument(w) \/ SchedulePdf(w)
  \/ RenderPdf(w) \/ QueueMail(w) \/ SendEmail(w) \/ MarkEmailSent(w) \/ Throw(w)

Next ==
  \/ \E o \in Orders : PaymentSucceeded(o)
  \/ \E w \in Workers : Work(w) \/ Crash(w) \/ LoseLock(w)

Spec == Init /\ [][Next]_vars

-----------------------------------------------------------------------------
(* An order has one receipt, however often its payment is announced and its    *)
(* job repeated, unless the queue ran the job twice at a time: nothing but the *)
(* read of createDocument keeps it so, for entityId is not unique.             *)
OneReceipt == overlapped \/ \A o \in Orders : Cardinality(DocOf(o)) <= 1

(* A document is mailed again only when a run ended between the mail and the   *)
(* mark, or ran beside another.                                                *)
MailedOnce == \A n \in Numbers : mails[n] <= 1 \/ n \in unmarked \/ overlapped

(* Once the queue is at rest, every receipt that was queued has been mailed    *)
(* (or rendered, without an address), unless a job is among the dead letters   *)
(* or the queue gave one up because its workers stopped twice: a stop or an    *)
(* error between two stages never strands a receipt.                           *)
Delivered(o) == \E n \in DocOf(o) : n \in pdf /\ (o \in WithEmail => n \in sent)
AtRest == \A j \in JobIds : jobs[j].state \notin {"waiting", "active"}
GivenUp == \E j \in JobIds : jobs[j].state \in {"dead", "failed"}
NoneStranded ==
  AtRest => \A o \in Orders : jobs[<<"create", o>>].state = "none" \/ Delivered(o) \/ GivenUp
=============================================================================

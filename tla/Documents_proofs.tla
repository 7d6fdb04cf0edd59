-------------------------- MODULE Documents_proofs --------------------------
(* What holds of the receipts for any number of orders, workers and faults.    *)
(* Types: a run at a step of a handler works on that handler's job. What a job *)
(* that is done has left behind (DoneInv) makes NoneStranded true. Who holds a *)
(* job (LockInv) and what one run alone does (OnceInv) give OneReceipt and     *)
(* MailedOnce: the reads and the marks of the handlers are enough as long as   *)
(* the queue runs no job beside itself, which is what overlapped records.      *)
EXTENDS Documents, FiniteSetTheorems, TLAPS

\* What the bounds are.
Limits ==
  /\ MaxEvents \in Nat /\ MaxNumber \in Nat /\ MaxFaults \in Nat

-----------------------------------------------------------------------------
(* The queue. *)

LEMMA CreateId == \A o \in Orders : <<"create", o>> \in JobIds
BY DEF JobIds
LEMMA PdfId == \A n \in Numbers : <<"render-pdf", n>> \in JobIds
BY DEF JobIds
LEMMA MailId == \A n \in Numbers : <<"send-email", n>> \in JobIds
BY DEF JobIds
LEMMA Ids ==
  /\ \A o, p : <<"create", o>> = <<"create", p>> => o = p
  /\ \A n, m : <<"render-pdf", n>> = <<"render-pdf", m>> => n = m
  /\ \A n, m : <<"send-email", n>> = <<"send-email", m>> => n = m
  /\ \A o, n : /\ <<"create", o>> # <<"render-pdf", n>>
               /\ <<"create", o>> # <<"send-email", n>>
               /\ <<"render-pdf", o>> # <<"send-email", n>>
OBVIOUS

LEMMA AddJob ==
  ASSUME NEW q \in [JobIds -> Job], NEW id \in JobIds
  PROVE  /\ Add(q, id) \in [JobIds -> Job]
         /\ Add(q, id)[id].state # "none"
         /\ q[id].state # "none" => Add(q, id)[id] = q[id]
         /\ q[id].state = "none" => Add(q, id)[id].state = "waiting"
         /\ \A j \in JobIds \ {id} : Add(q, id)[j] = q[j]
BY DEF Add, NewJob, NoJob, Job, JobStates, maxStalledCount

LEMMA Added ==
  ASSUME NEW q \in [JobIds -> Job], NEW id \in JobIds, NEW p, p = Add(q, id)
  PROVE  /\ p \in [JobIds -> Job] /\ p[id].state # "none"
         /\ p[id].state = "done" => q[id].state = "done"
         /\ \A j \in JobIds : /\ q[j].state # "none" => p[j].state # "none"
                              /\ p[j].state = "done" => q[j].state = "done"
         /\ \A j \in JobIds : q[j].state # "none" => p[j] = q[j]
         /\ \A j \in JobIds \ {id} : p[j] = q[j]
<1>1. /\ p \in [JobIds -> Job] /\ p[id].state # "none"
      /\ q[id].state # "none" => p[id] = q[id]
      /\ q[id].state = "none" => p[id].state = "waiting"
      /\ \A j \in JobIds \ {id} : p[j] = q[j]
  BY AddJob
<1> QED
  BY <1>1

LEMMA TakeJob ==
  ASSUME NEW q \in [JobIds -> Job], NEW id \in JobIds
  PROVE  /\ Taken(q, id) \in [JobIds -> Job]
         /\ Taken(q, id)[id].state = "active"
         /\ \A j \in JobIds \ {id} : Taken(q, id)[j] = q[j]
BY DEF Taken, Job, JobStates

LEMMA DoneJob ==
  ASSUME NEW q \in [JobIds -> Job], NEW id \in JobIds, NEW lock \in BOOLEAN
  PROVE  /\ Done(q, id, lock) \in [JobIds -> Job]
         /\ IF lock THEN Done(q, id, lock)[id].state = "done" ELSE Done(q, id, lock) = q
         /\ \A j \in JobIds \ {id} : Done(q, id, lock)[j] = q[j]
BY DEF Done, Job, JobStates

LEMMA FailJob ==
  ASSUME NEW q \in [JobIds -> Job], NEW id \in JobIds, NEW lock \in BOOLEAN, NEW n
  PROVE  /\ Failed(q, id, lock, n) \in [JobIds -> Job]
         /\ IF lock THEN Failed(q, id, lock, n)[id].state \in {"dead", "waiting"}
                    ELSE Failed(q, id, lock, n) = q
         /\ \A j \in JobIds \ {id} : Failed(q, id, lock, n)[j] = q[j]
<1> DEFINE state == IF q[id].made + 1 >= n THEN "dead" ELSE "waiting"
           job == [q[id] EXCEPT !.made = q[id].made + 1, !.state = state]
<1>1. CASE ~lock
  BY <1>1 DEF Failed
<1>2. CASE lock
  <2>1. state \in {"dead", "waiting"} /\ q[id] \in Job /\ q[id].made + 1 \in Nat
    BY DEF Job
  <2>2. Failed(q, id, lock, n) = [q EXCEPT ![id] = job]
    BY <1>2 DEF Failed
  <2> DEFINE made == q[id].made + 1
  <2>3. job = [q[id] EXCEPT !.made = made, !.state = state] /\ made \in Nat /\ state \in JobStates
    BY <2>1 DEF JobStates
  <2> HIDE DEF state, made, job
  <2>4. job = [state |-> state, made |-> made, stalls |-> q[id].stalls]
    BY <2>1, <2>3 DEF Job
  <2>5. q[id].stalls \in 0 .. maxStalledCount
    BY <2>1 DEF Job
  <2>6. job \in Job /\ job.state = state
    BY <2>3, <2>4, <2>5 DEF Job
  <2> QED
    BY <1>2, <2>1, <2>2, <2>6
<1> QED
  BY <1>1, <1>2

LEMMA StallJob ==
  ASSUME NEW q \in [JobIds -> Job], NEW id \in JobIds
  PROVE  /\ Stalled(q, id) \in [JobIds -> Job]
         /\ Stalled(q, id)[id].state \in {"failed", "waiting"}
         /\ \A j \in JobIds \ {id} : Stalled(q, id)[j] = q[j]
<1>1. CASE q[id].stalls < maxStalledCount
  <2> DEFINE job == [q[id] EXCEPT !.state = "waiting", !.stalls = q[id].stalls + 1]
  <2>1. q[id] \in Job /\ q[id].stalls + 1 \in 0 .. maxStalledCount
    BY <1>1 DEF Job, maxStalledCount
  <2>2. Stalled(q, id) = [q EXCEPT ![id] = job]
    BY <1>1 DEF Stalled
  <2>3. job \in Job /\ job.state = "waiting"
    BY <2>1 DEF Job, JobStates
  <2> HIDE DEF job
  <2> QED
    BY <2>2, <2>3
<1>2. CASE ~(q[id].stalls < maxStalledCount)
  BY <1>2 DEF Stalled, Job, JobStates
<1> QED
  BY <1>1, <1>2

-----------------------------------------------------------------------------
(* Types. *)

Points ==
  {"create", "insert", "schedulePdf", "throw", "render-pdf", "queueMail", "send-email", "markSent"}
Run == [job : JobIds, at : Points, doc : 0 .. MaxNumber, lock : BOOLEAN]

\* What a run works on, when ds are the documents and ps those with a PDF.
Creates(t, ds) ==
  /\ t.job \in {"create"} \X Orders
  /\ t.at \in {"create", "insert", "schedulePdf", "throw"}
  /\ t.at = "schedulePdf" => \E d \in ds : d.number = t.doc /\ d.order = t.job[2]
Renders(t, ps) ==
  /\ t.doc \in Numbers /\ t.job = <<"render-pdf", t.doc>>
  /\ t.at \in {"render-pdf", "queueMail"}
  /\ t.at = "queueMail" => t.doc \in ps
Mails(t) ==
  /\ t.doc \in Numbers /\ t.job = <<"send-email", t.doc>>
  /\ t.at \in {"send-email", "markSent"}
RunOK(t, ds, ps) == t \in Run /\ (Creates(t, ds) \/ Renders(t, ps) \/ Mails(t))

Shape ==
  /\ DOMAIN worker = Workers
  /\ \A w \in Workers : worker[w] = Idle \/ RunOK(worker[w], docs, pdf)
Types == TypeOK /\ Shape

LEMMA RunGrows ==
  ASSUME NEW t, NEW ds, NEW es, NEW ps, NEW qs, RunOK(t, ds, ps), ds \subseteq es, ps \subseteq qs
  PROVE  RunOK(t, es, qs)
BY DEF RunOK, Creates, Renders, Mails

LEMMA Busy == ASSUME NEW t, NEW ds, NEW ps, RunOK(t, ds, ps) PROVE t # Idle
BY DEF RunOK, Creates, Renders, Mails, Idle

LEMMA IdleRun == Idle.at = "take" /\ Idle.lock = FALSE /\ Idle.doc = 0
BY DEF Idle

(* A worker that is at a step has a run of that step's job. *)
LEMMA AtWork ==
  ASSUME Types, NEW w \in Workers, worker[w] # Idle
  PROVE  /\ RunOK(worker[w], docs, pdf) /\ worker[w] \in Run
         /\ worker[w].job \in JobIds /\ worker[w].lock \in BOOLEAN
         /\ worker[w].at \in {"create", "insert", "schedulePdf", "throw"} => Creates(worker[w], docs)
         /\ worker[w].at \in {"render-pdf", "queueMail"} => Renders(worker[w], pdf)
         /\ worker[w].at \in {"send-email", "markSent"} => Mails(worker[w])
BY DEF Types, Shape, RunOK, Run, Creates, Renders, Mails

(* One worker changes its run, or ends it; documents and PDFs only grow. *)
LEMMA ShapeStep ==
  ASSUME Types, NEW w \in Workers, NEW t, worker' = [worker EXCEPT ![w] = t],
         t = Idle \/ RunOK(t, docs', pdf'), docs \subseteq docs', pdf \subseteq pdf'
  PROVE  Shape'
<1>1. DOMAIN worker' = Workers
  BY DEF Types, Shape
<1>2. ASSUME NEW x \in Workers PROVE worker'[x] = Idle \/ RunOK(worker'[x], docs', pdf')
  <2>1. CASE x = w
    BY <2>1 DEF Types, Shape
  <2>2. CASE x # w
    <3>1. worker'[x] = worker[x]
      BY <2>2 DEF Types, Shape
    <3> QED
      BY <3>1, RunGrows DEF Types, Shape
  <2> QED
    BY <2>1, <2>2
<1> QED
  BY <1>1, <1>2 DEF Shape

(* Where a run goes on. *)
LEMMA Moves ==
  ASSUME Types, NEW w \in Workers, worker[w] # Idle, NEW at \in Points, NEW n \in 0 .. MaxNumber,
         Goto(w, at, n)
  PROVE  \E t \in Run : /\ worker' = [worker EXCEPT ![w] = t]
                        /\ t.job = worker[w].job /\ t.lock = worker[w].lock
                        /\ t.at = at /\ t.doc = n
<1> DEFINE t == [worker[w] EXCEPT !.at = at, !.doc = n]
<1>1. t \in Run /\ t.job = worker[w].job /\ t.lock = worker[w].lock /\ t.at = at /\ t.doc = n
  BY AtWork DEF Run
<1>2. worker' = [worker EXCEPT ![w] = t]
  BY DEF Goto
<1> HIDE DEF t
<1> QED
  BY <1>1, <1>2

\* What is not the workers'.
Rows ==
  /\ paidEvents \in [Orders -> 0 .. MaxEvents]
  /\ jobs \in [JobIds -> Job]
  /\ number \in 0 .. MaxNumber
  /\ docs \subseteq [number : 1 .. number, order : Orders]
  /\ pdf \subseteq Numbers /\ sent \subseteq Numbers /\ unmarked \subseteq Numbers
  /\ mails \in [Numbers -> Nat]
  /\ faults \in 0 .. MaxFaults /\ overlapped \in BOOLEAN

LEMMA RowsShape == Rows /\ Shape => Types
<1> SUFFICES ASSUME Rows, Shape PROVE Types
  OBVIOUS
<1>1. \A w \in Workers : worker[w] = Idle \/ worker[w].job \in JobIds
  BY DEF Shape, RunOK, Run
<1> QED
  BY <1>1 DEF Types, TypeOK, Rows

LEMMA TypesRows == Types => Rows /\ Shape
BY DEF Types, TypeOK, Rows

LEMMA TypesStep == ASSUME Rows', Shape' PROVE Types'
<1>1. (Rows /\ Shape => Types)'
  BY RowsShape, PTL
<1> QED
  BY <1>1

LEMMA JobsTyped == Types => jobs \in [JobIds -> Job]
BY DEF Types, TypeOK

LEMMA InitTypes == Limits /\ Init => Types
<1> SUFFICES ASSUME Limits, Init PROVE Rows /\ Shape
  BY RowsShape
<1>1. jobs \in [JobIds -> Job]
  BY DEF Init, NoJob, Job, JobStates, maxStalledCount
<1>2. Rows
  <2>1. paidEvents \in [Orders -> 0 .. MaxEvents] /\ mails \in [Numbers -> Nat]
    BY DEF Init, Limits
  <2>2. number \in 0 .. MaxNumber /\ faults \in 0 .. MaxFaults
    BY DEF Init, Limits
  <2>3. overlapped \in BOOLEAN
    BY DEF Init
  <2> QED
    BY <1>1, <2>1, <2>2, <2>3 DEF Init, Rows
<1>3. Shape
  BY DEF Init, Shape
<1> QED
  BY <1>2, <1>3

LEMMA DocTyped ==
  ASSUME Limits, Types, NEW d \in docs
  PROVE  d.number \in Numbers /\ d.number <= number /\ d.order \in Orders
<1>1. d \in [number : 1 .. number, order : Orders] /\ number \in 0 .. MaxNumber
  BY DEF Types, TypeOK
<1> QED
  BY <1>1 DEF Limits, Numbers

LEMMA PaymentTypes ==
  ASSUME Limits, Types, NEW o \in Orders, PaymentSucceeded(o) PROVE Types'
<1>1. jobs' \in [JobIds -> Job]
  BY AddJob, CreateId DEF PaymentSucceeded, Queue, Types, TypeOK
<1>2. paidEvents' \in [Orders -> 0 .. MaxEvents]
  BY DEF PaymentSucceeded, Types, TypeOK, Limits
<1>3. Rows'
  BY <1>1, <1>2, TypesRows DEF PaymentSucceeded, Rows
<1>4. Shape'
  BY DEF PaymentSucceeded, Types, Shape
<1> QED
  BY <1>3, <1>4, TypesStep

LEMMA TakeRun ==
  ASSUME Limits, NEW j \in JobIds, NEW ds, NEW ps
  PROVE  LET t == [job |-> j, at |-> j[1], doc |-> IF j[1] = "create" THEN 0 ELSE j[2], lock |-> TRUE]
         IN  RunOK(t, ds, ps)
<1>1. CASE j \in {"create"} \X Orders
  BY <1>1 DEF RunOK, Run, Points, Creates, Limits
<1>2. CASE j \in {"render-pdf", "send-email"} \X Numbers
  BY <1>2 DEF RunOK, Run, Points, Renders, Mails, Numbers, Limits
<1> QED
  BY <1>1, <1>2 DEF JobIds

(* A job that waits is taken by an idle worker. *)
LEMMA Takes ==
  ASSUME Limits, Types, NEW w \in Workers, Take(w)
  PROVE  \E j \in JobIds, t \in Run :
           /\ worker[w] = Idle /\ jobs[j].state = "waiting" /\ jobs' = Taken(jobs, j)
           /\ worker' = [worker EXCEPT ![w] = t] /\ RunOK(t, docs, pdf)
           /\ t.job = j /\ t.lock = TRUE /\ t.at = j[1]
           /\ UNCHANGED <<paidEvents, number, docs, pdf, sent, mails, faults, unmarked, overlapped>>
<1>1. PICK j \in JobIds :
        /\ jobs[j].state = "waiting" /\ jobs' = Taken(jobs, j)
        /\ worker' = [worker EXCEPT ![w] =
             [job |-> j, at |-> j[1], doc |-> IF j[1] = "create" THEN 0 ELSE j[2], lock |-> TRUE]]
  BY DEF Take
<1> DEFINE t == [job |-> j, at |-> j[1], doc |-> IF j[1] = "create" THEN 0 ELSE j[2], lock |-> TRUE]
<1>2. RunOK(t, docs, pdf)
  BY TakeRun
<1>3. t.job = j /\ t.lock = TRUE /\ t.at = j[1] /\ worker' = [worker EXCEPT ![w] = t]
  BY <1>1
<1> HIDE DEF t
<1>4. t \in Run
  BY <1>2 DEF RunOK
<1> QED
  BY <1>1, <1>2, <1>3, <1>4 DEF Take

LEMMA TakeTypes == ASSUME Limits, Types, NEW w \in Workers, Take(w) PROVE Types'
<1>1. PICK j \in JobIds, t \in Run :
        /\ jobs' = Taken(jobs, j) /\ worker' = [worker EXCEPT ![w] = t] /\ RunOK(t, docs, pdf)
        /\ UNCHANGED <<paidEvents, number, docs, pdf, sent, mails, faults, unmarked, overlapped>>
  BY Takes
<1>2. Shape'
  BY <1>1, ShapeStep
<1>3. jobs' \in [JobIds -> Job]
  BY <1>1, TakeJob DEF Types, TypeOK
<1>4. Rows'
  BY <1>1, <1>3, TypesRows DEF Rows
<1> QED
  BY <1>2, <1>4, TypesStep

(* What a worker does that goes on with its job and leaves the queue alone. *)
LEMMA GoesTypes ==
  ASSUME Limits, Types, NEW w \in Workers, worker[w] # Idle,
         NEW at \in Points, NEW n \in 0 .. MaxNumber, Goto(w, at, n),
         \A t \in Run : t.job = worker[w].job /\ t.at = at /\ t.doc = n => RunOK(t, docs', pdf'),
         docs \subseteq docs', pdf \subseteq pdf', Rows'
  PROVE  Types'
<1>1. PICK t \in Run : worker' = [worker EXCEPT ![w] = t] /\ RunOK(t, docs', pdf')
  BY Moves
<1>2. Shape'
  BY <1>1, ShapeStep
<1> QED
  BY <1>2, TypesStep

(* What a worker does that ends its run. *)
LEMMA EndsTypes ==
  ASSUME Types, NEW w \in Workers, worker' = [worker EXCEPT ![w] = Idle],
         UNCHANGED <<docs, pdf>>, Rows'
  PROVE  Types'
BY ShapeStep, TypesStep

LEMMA FindTypes == ASSUME Limits, Types, NEW w \in Workers, FindDocument(w) PROVE Types'
<1>1. /\ worker[w].at = "create" /\ worker[w] # Idle
      /\ UNCHANGED <<paidEvents, jobs, number, docs, pdf, sent, mails, faults, unmarked, overlapped>>
  BY IdleRun DEF FindDocument
<1>2. Rows'
  BY <1>1, TypesRows DEF Rows
<1>3. Creates(worker[w], docs)
  BY <1>1, AtWork
<1>4. CASE Goto(w, "insert", 0)
  <2>1. \A t \in Run : t.job = worker[w].job /\ t.at = "insert" => RunOK(t, docs', pdf')
    BY <1>3 DEF RunOK, Creates
  <2> QED
    BY <1>1, <1>2, <1>4, <2>1, GoesTypes DEF Points, Limits
<1>5. CASE \E n \in DocOf(worker[w].job[2]) : Goto(w, "schedulePdf", n)
  <2>1. PICK d \in docs : d.order = worker[w].job[2] /\ Goto(w, "schedulePdf", d.number)
    BY <1>5 DEF DocOf
  <2>2. d.number \in 0 .. MaxNumber
    BY DocTyped DEF Numbers, Limits
  <2>3. \A t \in Run : t.job = worker[w].job /\ t.at = "schedulePdf" /\ t.doc = d.number => RunOK(t, docs', pdf')
    BY <1>1, <1>3, <2>1 DEF RunOK, Creates
  <2> QED
    BY <1>1, <1>2, <2>1, <2>2, <2>3, GoesTypes DEF Points
<1> QED
  BY <1>4, <1>5 DEF FindDocument

LEMMA InsertTypes == ASSUME Limits, Types, NEW w \in Workers, InsertDocument(w) PROVE Types'
<1> DEFINE n == number + 1
           d == [number |-> n, order |-> worker[w].job[2]]
<1>1. /\ worker[w].at = "insert" /\ worker[w] # Idle /\ number < MaxNumber /\ number' = n
      /\ UNCHANGED <<paidEvents, jobs, pdf, sent, mails, faults, unmarked, overlapped>>
      /\ (docs' = docs \cup {d} /\ Goto(w, "schedulePdf", n)) \/ (docs' = docs /\ Goto(w, "throw", 0))
  BY IdleRun DEF InsertDocument
<1>2. Creates(worker[w], docs)
  BY <1>1, AtWork
<1>3. n \in 1 .. MaxNumber /\ number \in Nat
  BY <1>1 DEF Types, TypeOK, Limits
<1>4. d \in [number : 1 .. n, order : Orders] /\ d.number = n /\ d.order = worker[w].job[2]
  BY <1>2, <1>3 DEF Creates
<1>5. docs \subseteq [number : 1 .. n, order : Orders]
  <2>1. \A e \in docs : e \in [number : 1 .. number, order : Orders]
    BY DEF Types, TypeOK
  <2>2. \A k \in 1 .. number : k \in 1 .. n
    BY <1>3
  <2> HIDE DEF n
  <2> QED
    BY <2>1, <2>2
<1> HIDE DEF n, d
<1>6. Rows'
  <2>1. docs' \subseteq [number : 1 .. number', order : Orders]
    BY <1>1, <1>4, <1>5
  <2>2. number' \in 0 .. MaxNumber
    BY <1>1, <1>3
  <2> QED
    BY <1>1, <2>1, <2>2, TypesRows DEF Rows
<1>7. CASE docs' = docs \cup {d} /\ Goto(w, "schedulePdf", n)
  <2>1. \A t \in Run : t.job = worker[w].job /\ t.at = "schedulePdf" /\ t.doc = n => RunOK(t, docs', pdf')
    BY <1>2, <1>4, <1>7 DEF RunOK, Creates
  <2>2. n \in 0 .. MaxNumber
    BY <1>3
  <2> QED
    BY <1>1, <1>6, <1>7, <2>1, <2>2, GoesTypes DEF Points
<1>8. CASE docs' = docs /\ Goto(w, "throw", 0)
  <2>1. \A t \in Run : t.job = worker[w].job /\ t.at = "throw" => RunOK(t, docs', pdf')
    BY <1>2 DEF RunOK, Creates
  <2> QED
    BY <1>1, <1>6, <1>8, <2>1, GoesTypes DEF Points, Limits
<1> QED
  BY <1>1, <1>7, <1>8

(* A run that finishes: what it queued, and its own job done. *)
LEMMA FinishJobs ==
  ASSUME Types, NEW w \in Workers, worker[w] # Idle, NEW q \in [JobIds -> Job], Finish(w, q)
  PROVE  /\ worker' = [worker EXCEPT ![w] = Idle] /\ jobs' = Done(q, worker[w].job, worker[w].lock)
         /\ jobs' \in [JobIds -> Job]
BY AtWork, DoneJob DEF Finish

LEMMA ScheduleTypes == ASSUME Limits, Types, NEW w \in Workers, SchedulePdf(w) PROVE Types'
<1>1. /\ worker[w].at = "schedulePdf" /\ worker[w] # Idle /\ Finish(w, Queue(<<"render-pdf", worker[w].doc>>))
      /\ UNCHANGED <<paidEvents, number, docs, pdf, sent, mails, faults, unmarked, overlapped>>
  BY IdleRun DEF SchedulePdf, Rendering
<1>2. worker[w].doc \in Numbers
  BY <1>1, AtWork, DocTyped DEF Creates
<1>3. Queue(<<"render-pdf", worker[w].doc>>) \in [JobIds -> Job]
  BY <1>2, AddJob, PdfId DEF Queue, Types, TypeOK
<1>4. Rows'
  BY <1>1, <1>3, FinishJobs, TypesRows DEF Rows
<1> QED
  BY <1>1, <1>3, <1>4, FinishJobs, EndsTypes

LEMMA RenderTypes == ASSUME Limits, Types, NEW w \in Workers, RenderPdf(w) PROVE Types'
<1>1. /\ worker[w].at = "render-pdf" /\ worker[w] # Idle /\ pdf' = pdf \cup {worker[w].doc}
      /\ Goto(w, "queueMail", worker[w].doc)
      /\ UNCHANGED <<paidEvents, jobs, number, docs, sent, mails, faults, unmarked, overlapped>>
  BY IdleRun DEF RenderPdf
<1>2. Renders(worker[w], pdf) /\ worker[w].doc \in 0 .. MaxNumber
  BY <1>1, AtWork DEF Run
<1>3. Rows'
  BY <1>1, <1>2, TypesRows DEF Rows, Renders
<1>4. \A t \in Run : t.job = worker[w].job /\ t.at = "queueMail" /\ t.doc = worker[w].doc => RunOK(t, docs', pdf')
  BY <1>1, <1>2 DEF RunOK, Renders
<1> QED
  BY <1>1, <1>2, <1>3, <1>4, GoesTypes DEF Points

LEMMA MailJobs ==
  ASSUME Types, NEW w \in Workers, worker[w].at = "queueMail"
  PROVE  Mail(w) \in [JobIds -> Job]
BY AtWork, IdleRun, AddJob, MailId DEF Mail, Queue, Types, TypeOK, Renders

LEMMA QueueMailTypes == ASSUME Limits, Types, NEW w \in Workers, QueueMail(w) PROVE Types'
<1>1. /\ worker[w].at = "queueMail" /\ worker[w] # Idle /\ Finish(w, Mail(w))
      /\ UNCHANGED <<paidEvents, number, docs, pdf, sent, mails, faults, unmarked, overlapped>>
  BY IdleRun DEF QueueMail
<1>2. Rows'
  BY <1>1, MailJobs, FinishJobs, TypesRows DEF Rows
<1> QED
  BY <1>1, <1>2, MailJobs, FinishJobs, EndsTypes

LEMMA SendTypes == ASSUME Limits, Types, NEW w \in Workers, SendEmail(w) PROVE Types'
<1>1. /\ worker[w].at = "send-email" /\ worker[w] # Idle
      /\ mails' = [mails EXCEPT ![worker[w].doc] = @ + 1] /\ Goto(w, "markSent", worker[w].doc)
      /\ UNCHANGED <<paidEvents, jobs, number, docs, pdf, sent, faults, unmarked, overlapped>>
  BY IdleRun DEF SendEmail
<1>2. Mails(worker[w]) /\ worker[w].doc \in 0 .. MaxNumber
  BY <1>1, AtWork DEF Run
<1>3. mails' \in [Numbers -> Nat]
  BY <1>1, <1>2 DEF Types, TypeOK, Mails
<1>4. Rows'
  BY <1>1, <1>3, TypesRows DEF Rows
<1>5. \A t \in Run : t.job = worker[w].job /\ t.at = "markSent" /\ t.doc = worker[w].doc => RunOK(t, docs', pdf')
  BY <1>2 DEF RunOK, Mails
<1> QED
  BY <1>1, <1>2, <1>4, <1>5, GoesTypes DEF Points

LEMMA MarkTypes == ASSUME Limits, Types, NEW w \in Workers, MarkEmailSent(w) PROVE Types'
<1>1. /\ worker[w].at = "markSent" /\ worker[w] # Idle /\ sent' = sent \cup {worker[w].doc} /\ Finish(w, jobs)
      /\ UNCHANGED <<paidEvents, number, docs, pdf, mails, faults, unmarked, overlapped>>
  BY IdleRun DEF MarkEmailSent
<1>2. worker[w].doc \in Numbers /\ jobs \in [JobIds -> Job]
  BY <1>1, AtWork DEF Mails, Types, TypeOK
<1>3. Rows'
  BY <1>1, <1>2, FinishJobs, TypesRows DEF Rows
<1> QED
  BY <1>1, <1>2, <1>3, FinishJobs, EndsTypes

LEMMA FinishEffect ==
  ASSUME Types, NEW w \in Workers, worker[w] # Idle, NEW q \in [JobIds -> Job], Finish(w, q)
  PROVE  /\ worker[w].job \in JobIds
         /\ \A j \in JobIds \ {worker[w].job} : jobs'[j] = q[j]
         /\ jobs'[worker[w].job] = q[worker[w].job] \/ jobs'[worker[w].job].state = "done"
         /\ worker[w].lock => jobs'[worker[w].job].state = "done"
         /\ \A j \in JobIds : q[j].state # "none" => jobs'[j].state # "none"
<1> DEFINE id == worker[w].job
           lock == worker[w].lock
<1>1. id \in JobIds /\ lock \in BOOLEAN /\ jobs' = Done(q, id, lock)
  BY AtWork DEF Finish
<1> HIDE DEF id, lock
<1>2. /\ IF lock THEN jobs'[id].state = "done" ELSE jobs' = q
      /\ \A j \in JobIds \ {id} : jobs'[j] = q[j]
  BY <1>1, DoneJob
<1>3. /\ jobs'[id] = q[id] \/ jobs'[id].state = "done"
      /\ lock => jobs'[id].state = "done"
      /\ \A j \in JobIds : q[j].state # "none" => jobs'[j].state # "none"
  BY <1>2
<1> QED
  BY <1>1, <1>2, <1>3 DEF id, lock

(* What a run that ends early adds to the documents mailed and not marked. *)
LEMMA UnmarkedTyped ==
  ASSUME Types, NEW w \in Workers, worker[w] # Idle, Unmarks(w)
  PROVE  unmarked' \subseteq Numbers
BY AtWork DEF Unmarks, Mails, Types, TypeOK

LEMMA ThrowTypes == ASSUME Limits, Types, NEW w \in Workers, Throw(w) PROVE Types'
<1>1. /\ worker[w] # Idle /\ worker' = [worker EXCEPT ![w] = Idle] /\ Unmarks(w)
      /\ UNCHANGED <<paidEvents, number, docs, pdf, sent, mails, faults, overlapped>>
  BY DEF Throw
<1>2. jobs' \in [JobIds -> Job]
  BY AtWork, FailJob DEF Throw, Types, TypeOK
<1>3. Rows'
  BY <1>1, <1>2, UnmarkedTyped, TypesRows DEF Rows
<1> QED
  BY <1>1, <1>3, EndsTypes

LEMMA CrashTypes == ASSUME Limits, Types, NEW w \in Workers, Crash(w) PROVE Types'
<1>1. /\ worker[w] # Idle /\ worker' = [worker EXCEPT ![w] = Idle] /\ Unmarks(w)
      /\ UNCHANGED <<paidEvents, number, docs, pdf, sent, mails, overlapped>>
  BY DEF Crash
<1>2. jobs' \in [JobIds -> Job]
  BY AtWork, StallJob DEF Crash, Types, TypeOK
<1>3. faults' \in 0 .. MaxFaults
  BY DEF Crash, Types, TypeOK, Limits
<1>4. Rows'
  BY <1>1, <1>2, <1>3, UnmarkedTyped, TypesRows DEF Rows
<1> QED
  BY <1>1, <1>4, EndsTypes

(* A run that lost its lock is the same run. *)
LEMMA Loses ==
  ASSUME Types, NEW w \in Workers, LoseLock(w)
  PROVE  /\ worker[w] # Idle /\ worker[w].lock /\ jobs' = Stalled(jobs, worker[w].job) /\ overlapped' = TRUE
         /\ \E t \in Run : /\ worker' = [worker EXCEPT ![w] = t] /\ t.lock = FALSE
                           /\ t.job = worker[w].job /\ t.at = worker[w].at /\ t.doc = worker[w].doc
<1> DEFINE t == [worker[w] EXCEPT !.lock = FALSE]
<1>1. worker[w] # Idle
  BY IdleRun DEF LoseLock
<1>2. t \in Run /\ t.lock = FALSE /\ t.job = worker[w].job /\ t.at = worker[w].at /\ t.doc = worker[w].doc
  BY <1>1, AtWork DEF Run
<1>3. worker' = [worker EXCEPT ![w] = t]
  BY DEF LoseLock
<1> HIDE DEF t
<1> QED
  BY <1>1, <1>2, <1>3 DEF LoseLock

(* A run that ends early, or loses its lock, sends its job back or gives it up. *)
LEMMA BackEffect ==
  ASSUME Types, NEW w \in Workers, Throw(w) \/ Crash(w) \/ LoseLock(w)
  PROVE  /\ worker[w] # Idle /\ worker[w].job \in JobIds
         /\ jobs' \in [JobIds -> Job]
         /\ \A j \in JobIds \ {worker[w].job} : jobs'[j] = jobs[j]
         /\ jobs' = jobs \/ jobs'[worker[w].job].state \in {"dead", "failed", "waiting"}
         /\ ~worker[w].lock => jobs' = jobs
         /\ UNCHANGED <<paidEvents, number, docs, pdf, sent, mails>>
<1> DEFINE id == worker[w].job
           lock == worker[w].lock
           n == Attempts[id[1]]
<1>1. worker[w] # Idle /\ UNCHANGED <<paidEvents, number, docs, pdf, sent, mails>>
  BY Loses DEF Throw, Crash, LoseLock
<1>2. id \in JobIds /\ lock \in BOOLEAN /\ jobs \in [JobIds -> Job]
  BY <1>1, AtWork DEF Types, TypeOK
<1>3. \/ jobs' = Failed(jobs, id, lock, n)
      \/ lock /\ jobs' = Stalled(jobs, id)
      \/ ~lock /\ jobs' = jobs
  BY DEF Throw, Crash, LoseLock
<1> HIDE DEF id, lock, n
<1>4. CASE jobs' = Failed(jobs, id, lock, n)
  <2>1. /\ jobs' \in [JobIds -> Job] /\ \A j \in JobIds \ {id} : jobs'[j] = jobs[j]
        /\ IF lock THEN jobs'[id].state \in {"dead", "waiting"} ELSE jobs' = jobs
    BY <1>2, <1>4, FailJob
  <2> QED
    BY <1>1, <1>2, <2>1 DEF id, lock
<1>5. CASE lock /\ jobs' = Stalled(jobs, id)
  <2>1. /\ jobs' \in [JobIds -> Job] /\ \A j \in JobIds \ {id} : jobs'[j] = jobs[j]
        /\ jobs'[id].state \in {"failed", "waiting"}
    BY <1>2, <1>5, StallJob
  <2> QED
    BY <1>1, <1>2, <1>5, <2>1 DEF id, lock
<1>6. CASE ~lock /\ jobs' = jobs
  BY <1>1, <1>2, <1>6 DEF id, lock
<1> QED
  BY <1>3, <1>4, <1>5, <1>6

LEMMA LoseTypes == ASSUME Limits, Types, NEW w \in Workers, LoseLock(w) PROVE Types'
<1>1. PICK t \in Run : /\ worker' = [worker EXCEPT ![w] = t]
                       /\ t.job = worker[w].job /\ t.at = worker[w].at /\ t.doc = worker[w].doc
  BY Loses
<1>2. /\ UNCHANGED <<paidEvents, number, docs, pdf, sent, mails, unmarked>> /\ overlapped' = TRUE
      /\ worker[w] # Idle
  BY Loses DEF LoseLock
<1>3. RunOK(t, docs', pdf')
  BY <1>1, <1>2, AtWork DEF RunOK, Creates, Renders, Mails
<1>4. Shape'
  BY <1>1, <1>2, <1>3, ShapeStep
<1>5. jobs' \in [JobIds -> Job]
  <2>1. worker[w].job \in JobIds /\ jobs \in [JobIds -> Job] /\ jobs' = Stalled(jobs, worker[w].job)
    BY <1>2, AtWork, Loses DEF Types, TypeOK
  <2> QED
    BY <2>1, StallJob
<1>6. faults' \in 0 .. MaxFaults
  BY DEF LoseLock, Types, TypeOK, Limits
<1>7. Rows'
  BY <1>2, <1>5, <1>6, TypesRows DEF Rows
<1> QED
  BY <1>4, <1>7, TypesStep

LEMMA NextTypes == ASSUME Limits, Types, [Next]_vars PROVE Types'
<1>1. ASSUME UNCHANGED vars PROVE Types'
  BY <1>1, TypesRows, TypesStep DEF vars, Rows, Shape
<1> QED
  BY <1>1, PaymentTypes, TakeTypes, FindTypes, InsertTypes, ScheduleTypes, RenderTypes,
     QueueMailTypes, SendTypes, MarkTypes, ThrowTypes, CrashTypes, LoseTypes DEF Next, Work

LEMMA AlwaysTypes == ASSUME Limits PROVE Spec => []Types
BY InitTypes, NextTypes, PTL DEF Spec

(* The rows, the queue and the workers keep their types, whatever is thrown,   *)
(* stopped or handed out again.                                                *)
THEOREM DocumentTypes == ASSUME Limits PROVE Spec => []TypeOK
<1>1. Types => TypeOK
  BY DEF Types
<1> QED
  BY <1>1, AlwaysTypes, PTL

-----------------------------------------------------------------------------
(* A job that a worker has was queued, and a queued job stays known. *)

Begun == \A w \in Workers : worker[w] # Idle => jobs[worker[w].job].state # "none"
Kept == \A j \in JobIds : jobs[j].state # "none" => jobs'[j].state # "none"

LEMMA BegunStep ==
  ASSUME Types, Begun, Kept, NEW w \in Workers, NEW t, worker' = [worker EXCEPT ![w] = t],
         \/ t = Idle
         \/ worker[w] # Idle /\ t.job = worker[w].job
         \/ jobs'[t.job].state # "none"
  PROVE  Begun'
<1>1. ASSUME NEW x \in Workers, worker'[x] # Idle PROVE jobs'[worker'[x].job].state # "none"
  <2>1. CASE x = w
    <3>1. worker'[x] = t
      BY <2>1 DEF Types, Shape
    <3> QED
      BY <1>1, <2>1, <3>1, AtWork DEF Begun, Kept
  <2>2. CASE x # w
    <3>1. worker'[x] = worker[x]
      BY <2>2 DEF Types, Shape
    <3> QED
      BY <1>1, <3>1, AtWork DEF Begun, Kept
  <2> QED
    BY <2>1, <2>2
<1> QED
  BY <1>1 DEF Begun

LEMMA KeptStill == jobs' = jobs => Kept
BY DEF Kept

LEMMA FinishBegun ==
  ASSUME Types, Begun, NEW w \in Workers, worker[w] # Idle, NEW q \in [JobIds -> Job], Finish(w, q),
         \A j \in JobIds : jobs[j].state # "none" => q[j].state # "none"
  PROVE  Begun' /\ Kept
<1>1. worker' = [worker EXCEPT ![w] = Idle] /\ jobs' = Done(q, worker[w].job, worker[w].lock)
      /\ worker[w].job \in JobIds /\ worker[w].lock \in BOOLEAN
  BY FinishJobs, AtWork
<1>2. Kept
  <2> DEFINE id == worker[w].job
             lock == worker[w].lock
  <2>1. id \in JobIds /\ lock \in BOOLEAN /\ jobs' = Done(q, id, lock)
    BY <1>1
  <2> HIDE DEF id, lock
  <2>2. /\ IF lock THEN jobs'[id].state = "done" ELSE jobs' = q
        /\ \A j \in JobIds \ {id} : jobs'[j] = q[j]
    BY <2>1, DoneJob
  <2>3. ASSUME NEW j \in JobIds, jobs[j].state # "none" PROVE jobs'[j].state # "none"
    <3>1. q[j].state # "none"
      BY <2>3
    <3>2. CASE j = id /\ lock
      BY <2>2, <3>2
    <3>3. CASE j # id \/ ~lock
      BY <2>2, <2>3, <3>1, <3>3
    <3> QED
      BY <2>1, <3>2, <3>3
  <2> QED
    BY <2>3 DEF Kept
<1> QED
  BY <1>1, <1>2, BegunStep

LEMMA NextBegun == ASSUME Limits, Types, Begun, [Next]_vars PROVE Begun'
<1>1. ASSUME NEW o \in Orders, PaymentSucceeded(o) PROVE Begun'
  <2>1. worker' = worker /\ jobs \in [JobIds -> Job] /\ (jobs' = jobs \/ jobs' = Add(jobs, <<"create", o>>))
    BY <1>1 DEF PaymentSucceeded, Queue, Types, TypeOK
  <2> DEFINE id == <<"create", o>>
  <2>2. id \in JobIds
    BY CreateId
  <2> HIDE DEF id
  <2>3. \A j \in JobIds : jobs[j].state # "none" => jobs'[j].state # "none"
    BY <2>1, <2>2, Added DEF id
  <2>4. Kept
    BY <2>3 DEF Kept
  <2> QED
    BY <2>1, <2>4, AtWork DEF Begun, Kept
<1>2. ASSUME NEW w \in Workers, Take(w) PROVE Begun'
  <2>1. PICK j \in JobIds, t \in Run :
          /\ worker[w] = Idle /\ jobs[j].state = "waiting" /\ jobs' = Taken(jobs, j)
          /\ worker' = [worker EXCEPT ![w] = t] /\ RunOK(t, docs, pdf)
          /\ t.job = j /\ t.lock = TRUE /\ t.at = j[1]
          /\ UNCHANGED <<paidEvents, number, docs, pdf, sent, mails, faults, unmarked, overlapped>>
    BY <1>2, Takes
  <2>2. jobs'[j].state = "active" /\ \A i \in JobIds \ {j} : jobs'[i] = jobs[i]
    BY <2>1, TakeJob, JobsTyped
  <2>3. Kept
    BY <2>2 DEF Kept
  <2>4. jobs'[t.job].state # "none"
    BY <2>1, <2>2
  <2> QED
    BY <2>1, <2>3, <2>4, BegunStep
<1>3. ASSUME NEW w \in Workers, worker[w] # Idle, jobs' = jobs, NEW at \in Points, NEW n \in 0 .. MaxNumber,
             Goto(w, at, n)
      PROVE  Begun'
  BY <1>3, Moves, KeptStill, BegunStep
<1>4. ASSUME NEW w \in Workers, FindDocument(w) PROVE Begun'
  <2>1. worker[w].at = "create" /\ worker[w] # Idle /\ jobs' = jobs
    BY <1>4, IdleRun DEF FindDocument
  <2>2. CASE Goto(w, "insert", 0)
    BY <1>3, <2>1, <2>2 DEF Points, Limits
  <2>3. CASE \E n \in DocOf(worker[w].job[2]) : Goto(w, "schedulePdf", n)
    <3>1. PICK d \in docs : Goto(w, "schedulePdf", d.number)
      BY <2>3 DEF DocOf
    <3>2. d.number \in 0 .. MaxNumber
      BY DocTyped DEF Numbers, Limits
    <3> QED
      BY <1>3, <2>1, <3>1, <3>2 DEF Points
  <2> QED
    BY <1>4, <2>2, <2>3 DEF FindDocument
<1>5. ASSUME NEW w \in Workers, InsertDocument(w) PROVE Begun'
  <2>1. /\ worker[w] # Idle /\ jobs' = jobs /\ number + 1 \in 0 .. MaxNumber /\ 0 \in 0 .. MaxNumber
        /\ Goto(w, "schedulePdf", number + 1) \/ Goto(w, "throw", 0)
    BY <1>5, IdleRun DEF InsertDocument, Types, TypeOK, Limits
  <2> QED
    BY <1>3, <2>1 DEF Points
<1>6. ASSUME NEW w \in Workers, SchedulePdf(w) PROVE Begun'
  <2>1. /\ worker[w] # Idle /\ Finish(w, Add(jobs, <<"render-pdf", worker[w].doc>>)) /\ worker[w].at = "schedulePdf"
    BY <1>6, IdleRun DEF SchedulePdf, Rendering, Queue
  <2>2. worker[w].doc \in Numbers
    BY <2>1, AtWork, DocTyped DEF Creates
  <2> DEFINE id == <<"render-pdf", worker[w].doc>>
             q == Add(jobs, id)
  <2>3. id \in JobIds /\ q = Add(jobs, id) /\ Finish(w, q)
    BY <2>1, <2>2, PdfId
  <2> HIDE DEF id, q
  <2>4. q \in [JobIds -> Job] /\ \A j \in JobIds : jobs[j].state # "none" => q[j].state # "none"
    BY <2>3, Added, JobsTyped
  <2> QED
    BY <2>1, <2>3, <2>4, FinishBegun
<1>7. ASSUME NEW w \in Workers, RenderPdf(w) PROVE Begun'
  <2>1. /\ worker[w] # Idle /\ jobs' = jobs /\ Goto(w, "queueMail", worker[w].doc)
    BY <1>7, IdleRun DEF RenderPdf
  <2> QED
    BY <1>3, <2>1, AtWork DEF Points, Run
<1>8. ASSUME NEW w \in Workers, QueueMail(w) PROVE Begun'
  <2>1. /\ worker[w] # Idle /\ Finish(w, Mail(w)) /\ worker[w].at = "queueMail"
    BY <1>8, IdleRun DEF QueueMail
  <2>2. worker[w].doc \in Numbers
    BY <2>1, AtWork DEF Renders
  <2>3. \A j \in JobIds : jobs[j].state # "none" => Mail(w)[j].state # "none"
    <3> DEFINE id == <<"send-email", worker[w].doc>>
    <3>1. id \in JobIds /\ (Mail(w) = jobs \/ Mail(w) = Add(jobs, id))
      BY <2>2, MailId DEF Mail, Queue
    <3> HIDE DEF id
    <3> QED
      BY <3>1, Added, JobsTyped
  <2> QED
    BY <2>1, <2>3, MailJobs, FinishBegun
<1>9. ASSUME NEW w \in Workers, SendEmail(w) PROVE Begun'
  <2>1. /\ worker[w] # Idle /\ jobs' = jobs /\ Goto(w, "markSent", worker[w].doc)
    BY <1>9, IdleRun DEF SendEmail
  <2> QED
    BY <1>3, <2>1, AtWork DEF Points, Run
<1>10. ASSUME NEW w \in Workers, MarkEmailSent(w) PROVE Begun'
  <2>1. worker[w] # Idle /\ Finish(w, jobs) /\ jobs \in [JobIds -> Job]
    BY <1>10, IdleRun DEF MarkEmailSent, Types, TypeOK
  <2> QED
    BY <2>1, FinishBegun
<1>11. ASSUME NEW w \in Workers, Throw(w) \/ Crash(w) \/ LoseLock(w) PROVE Begun'
  <2>1. Kept
    BY <1>11, BackEffect DEF Kept
  <2>2. PICK t : worker' = [worker EXCEPT ![w] = t] /\ (t = Idle \/ t.job = worker[w].job)
    BY <1>11, Loses DEF Throw, Crash
  <2> QED
    BY <1>11, <2>1, <2>2, BackEffect, BegunStep
<1>12. ASSUME UNCHANGED vars PROVE Begun'
  BY <1>12 DEF vars, Begun
<1> QED
  BY <1>1, <1>2, <1>4, <1>5, <1>6, <1>7, <1>8, <1>9, <1>10, <1>11, <1>12
     DEF Next, Work

-----------------------------------------------------------------------------
(* What a job that is done has left behind. *)

CreateJob(o) == jobs[<<"create", o>>].state
PdfJob(n) == jobs[<<"render-pdf", n>>].state
MailJob(n) == jobs[<<"send-email", n>>].state

Unique == \A d, e \in docs : d.number = e.number => d = e
Known == \A n \in Numbers : PdfJob(n) # "none" => n <= number
Created ==
  \A o \in Orders : CreateJob(o) = "done" => \E d \in docs : d.order = o /\ PdfJob(d.number) # "none"
Rendered ==
  \A d \in docs : PdfJob(d.number) = "done" =>
    d.number \in pdf /\ (d.order \in WithEmail => MailJob(d.number) # "none")
Marked == \A n \in Numbers : MailJob(n) = "done" => n \in sent
DoneInv == Unique /\ Known /\ Created /\ Rendered /\ Marked

(* A step that finishes no job and starts no rendering. *)
LEMMA DoneFrame ==
  ASSUME Limits, Types, DoneInv, docs' = docs, number' = number, pdf \subseteq pdf', sent \subseteq sent',
         \A j \in JobIds : /\ jobs'[j].state = "done" => jobs[j].state = "done"
                           /\ jobs[j].state # "none" => jobs'[j].state # "none",
         \A n \in Numbers : jobs'[<<"render-pdf", n>>].state # "none" => jobs[<<"render-pdf", n>>].state # "none"
  PROVE  DoneInv'
<1>1. Unique' /\ Known'
  BY DEF DoneInv, Unique, Known, PdfJob
<1>2. \A d \in docs : /\ d.number \in Numbers
                      /\ <<"render-pdf", d.number>> \in JobIds /\ <<"send-email", d.number>> \in JobIds
  BY DocTyped, PdfId, MailId
<1>3. Created'
  BY <1>2, CreateId DEF DoneInv, Created, CreateJob, PdfJob
<1>4. Rendered'
  BY <1>2 DEF DoneInv, Rendered, PdfJob, MailJob
<1>5. Marked'
  BY MailId DEF DoneInv, Marked, MailJob
<1> QED
  BY <1>1, <1>3, <1>4, <1>5 DEF DoneInv

LEMMA PaymentDone ==
  ASSUME Limits, Types, DoneInv, NEW o \in Orders, PaymentSucceeded(o) PROVE DoneInv'
<1>1. UNCHANGED <<number, docs, pdf, sent>> /\ jobs \in [JobIds -> Job]
      /\ (jobs' = jobs \/ jobs' = Add(jobs, <<"create", o>>))
  BY DEF PaymentSucceeded, Queue, Types, TypeOK
<1>2. CASE jobs' = jobs
  BY <1>1, <1>2, DoneFrame
<1>3. CASE jobs' = Add(jobs, <<"create", o>>)
  <2> DEFINE id == <<"create", o>>
  <2>1. id \in JobIds /\ \A n \in Numbers : <<"render-pdf", n>> # id
    BY CreateId, Ids
  <2>2. jobs' = Add(jobs, id)
    BY <1>3
  <2> HIDE DEF id
  <2>3. /\ \A j \in JobIds \ {id} : jobs'[j] = jobs[j]
        /\ \A j \in JobIds : /\ jobs'[j].state = "done" => jobs[j].state = "done"
                             /\ jobs[j].state # "none" => jobs'[j].state # "none"
    BY <1>1, <2>1, <2>2, Added
  <2>4. \A n \in Numbers : jobs'[<<"render-pdf", n>>] = jobs[<<"render-pdf", n>>]
    BY <2>1, <2>3, PdfId
  <2> QED
    BY <1>1, <2>3, <2>4, DoneFrame
<1> QED
  BY <1>1, <1>2, <1>3

(* One job changes its state, but is not done by it. *)
LEMMA OneJob ==
  ASSUME Limits, Types, DoneInv, NEW j \in JobIds, jobs[j].state # "none" \/ jobs' = jobs,
         jobs' = jobs \/ jobs'[j].state \notin {"none", "done"},
         \A i \in JobIds \ {j} : jobs'[i] = jobs[i],
         docs' = docs, number' = number, pdf \subseteq pdf', sent \subseteq sent'
  PROVE  DoneInv'
<1>1. \A i \in JobIds : /\ jobs'[i].state = "done" => jobs[i].state = "done"
                        /\ jobs[i].state # "none" => jobs'[i].state # "none"
                        /\ jobs'[i].state # "none" => jobs[i].state # "none"
  OBVIOUS
<1> QED
  BY <1>1, PdfId, DoneFrame

LEMMA TakeDone == ASSUME Limits, Types, DoneInv, NEW w \in Workers, Take(w) PROVE DoneInv'
<1>1. PICK j \in JobIds : /\ jobs[j].state = "waiting" /\ jobs' = Taken(jobs, j)
                          /\ UNCHANGED <<number, docs, pdf, sent>>
  BY Takes
<1>2. jobs'[j].state = "active" /\ \A i \in JobIds \ {j} : jobs'[i] = jobs[i]
  BY <1>1, TakeJob DEF Types, TypeOK
<1> QED
  BY <1>1, <1>2, OneJob

(* Steps that leave the queue as it is. *)
LEMMA StillDone ==
  ASSUME Limits, Types, DoneInv, jobs' = jobs, docs' = docs, number' = number,
         pdf \subseteq pdf', sent \subseteq sent'
  PROVE  DoneInv'
BY DoneFrame

LEMMA InsertDone ==
  ASSUME Limits, Types, DoneInv, NEW w \in Workers, InsertDocument(w) PROVE DoneInv'
<1> DEFINE d == [number |-> number + 1, order |-> worker[w].job[2]]
<1>1. UNCHANGED <<jobs, pdf, sent>> /\ number' = number + 1 /\ number \in Nat
      /\ number < MaxNumber /\ (docs' = docs \/ docs' = docs \cup {d})
  BY DEF InsertDocument, Types, TypeOK
<1>2. d.number = number + 1
  OBVIOUS
<1> HIDE DEF d
<1>3. \A e \in docs : e.number <= number /\ e.number \in Nat
  BY DocTyped DEF Numbers
<1>4. Unique'
  BY <1>1, <1>2, <1>3 DEF DoneInv, Unique
<1>5. Known'
  <2>1. \A n \in Numbers : n <= number => n <= number + 1
    BY <1>1 DEF Numbers
  <2> QED
    BY <1>1, <2>1 DEF DoneInv, Known, PdfJob
<1>6. Created'
  BY <1>1 DEF DoneInv, Created, CreateJob, PdfJob
<1>7. Rendered'
  <2>1. PdfJob(number + 1) = "none"
    <3>1. number + 1 \in Numbers /\ ~(number + 1 <= number)
      BY <1>1 DEF Numbers, Limits
    <3> QED
      BY <3>1 DEF DoneInv, Known
  <2> QED
    BY <1>1, <1>2, <2>1 DEF DoneInv, Rendered, PdfJob, MailJob
<1>8. Marked'
  BY <1>1 DEF DoneInv, Marked, MailJob
<1> QED
  BY <1>4, <1>5, <1>6, <1>7, <1>8 DEF DoneInv

LEMMA ScheduleDone ==
  ASSUME Limits, Types, DoneInv, NEW w \in Workers, SchedulePdf(w) PROVE DoneInv'
<1> DEFINE t == worker[w]
           id == <<"render-pdf", t.doc>>
           q == Add(jobs, id)
<1>1. t # Idle /\ UNCHANGED <<number, docs, pdf, sent>> /\ Finish(w, q) /\ t.at = "schedulePdf"
  BY IdleRun DEF SchedulePdf, Rendering, Queue
<1>2. Creates(t, docs) /\ t.lock \in BOOLEAN /\ t.job \in JobIds
  BY <1>1, AtWork
<1>3. PICK d \in docs : d.number = t.doc /\ d.order = t.job[2]
  BY <1>1, <1>2 DEF Creates
<1>4. PICK o \in Orders : t.job = <<"create", o>> /\ d.order = o
  BY <1>2, <1>3 DEF Creates
<1>5. t.doc \in Numbers /\ t.doc <= number /\ id \in JobIds /\ jobs \in [JobIds -> Job]
  BY <1>3, DocTyped, PdfId DEF Types, TypeOK
<1> HIDE DEF q
<1>6. /\ q \in [JobIds -> Job] /\ q[id].state # "none" /\ (q[id].state = "done" => jobs[id].state = "done")
      /\ \A j \in JobIds \ {id} : q[j] = jobs[j]
  BY <1>5, AddJob DEF q
<1>7. /\ \A j \in JobIds \ {t.job} : jobs'[j] = q[j]
      /\ jobs'[t.job] = q[t.job] \/ jobs'[t.job].state = "done"
  BY <1>1, <1>2, <1>6, FinishJobs, DoneJob
<1>8. /\ \A n \in Numbers : jobs'[<<"render-pdf", n>>] = q[<<"render-pdf", n>>]
      /\ \A n \in Numbers : jobs'[<<"send-email", n>>] = jobs[<<"send-email", n>>]
      /\ \A n \in Numbers \ {t.doc} : q[<<"render-pdf", n>>] = jobs[<<"render-pdf", n>>]
      /\ \A p \in Orders \ {o} : jobs'[<<"create", p>>] = jobs[<<"create", p>>]
  BY <1>4, <1>6, <1>7, CreateId, PdfId, MailId, Ids
<1>9. \A e \in docs : e.number \in Numbers
  BY DocTyped
<1>10. Unique'
  BY <1>1 DEF DoneInv, Unique
<1>11. Known'
  BY <1>1, <1>5, <1>8 DEF DoneInv, Known, PdfJob
<1>12. Created'
  <2>1. \A e \in docs : jobs[<<"render-pdf", e.number>>].state # "none" => jobs'[<<"render-pdf", e.number>>].state # "none"
    BY <1>6, <1>8, <1>9
  <2>2. jobs'[<<"render-pdf", d.number>>].state # "none"
    BY <1>3, <1>6, <1>8, <1>9
  <2> QED
    BY <1>1, <1>3, <1>4, <1>8, <2>1, <2>2 DEF DoneInv, Created, CreateJob, PdfJob
<1>13. Rendered'
  BY <1>1, <1>6, <1>8, <1>9 DEF DoneInv, Rendered, PdfJob, MailJob
<1>14. Marked'
  BY <1>1, <1>8 DEF DoneInv, Marked, MailJob
<1> QED
  BY <1>10, <1>11, <1>12, <1>13, <1>14 DEF DoneInv

LEMMA OrderOfDoc == ASSUME Unique, NEW d \in docs PROVE OrderOf(d.number) = d.order
BY DEF Unique, OrderOf

LEMMA QueueMailDone ==
  ASSUME Limits, Types, Begun, DoneInv, NEW w \in Workers, QueueMail(w) PROVE DoneInv'
<1> DEFINE t == worker[w]
           id == <<"send-email", t.doc>>
           q == Mail(w)
<1>1. t # Idle /\ UNCHANGED <<number, docs, pdf, sent>> /\ Finish(w, q) /\ t.at = "queueMail"
  BY IdleRun DEF QueueMail
<1>2. /\ t.lock \in BOOLEAN /\ t.job = <<"render-pdf", t.doc>> /\ t.job \in JobIds
      /\ t.doc \in Numbers /\ t.doc \in pdf
  BY <1>1, AtWork DEF Renders
<1>3. id \in JobIds /\ jobs \in [JobIds -> Job] /\ (q = jobs \/ q = Add(jobs, id))
      /\ (OrderOf(t.doc) \in WithEmail => q = Add(jobs, id))
  BY <1>2, MailId DEF Mail, Queue, Types, TypeOK
<1> HIDE DEF q
<1>4. /\ q \in [JobIds -> Job] /\ (q[id].state = "done" => jobs[id].state = "done")
      /\ jobs[id].state # "none" => q[id].state # "none"
      /\ OrderOf(t.doc) \in WithEmail => q[id].state # "none"
      /\ \A j \in JobIds \ {id} : q[j] = jobs[j]
  <2> HIDE DEF id
  <2>1. CASE q = jobs
    <3>1. OrderOf(t.doc) \in WithEmail => q[id].state # "none"
      BY <1>3, <2>1, Added
    <3> QED
      BY <1>3, <2>1, <3>1
  <2>2. CASE q = Add(jobs, id)
    BY <1>3, <2>2, Added
  <2> QED
    BY <1>3, <2>1, <2>2
<1>5. /\ \A j \in JobIds \ {t.job} : jobs'[j] = q[j]
      /\ jobs'[t.job] = q[t.job] \/ jobs'[t.job].state = "done"
  BY <1>1, <1>4, FinishEffect
<1>6. /\ \A n \in Numbers : jobs'[<<"send-email", n>>] = q[<<"send-email", n>>]
      /\ \A n \in Numbers \ {t.doc} : /\ jobs'[<<"render-pdf", n>>] = jobs[<<"render-pdf", n>>]
                                      /\ jobs'[<<"send-email", n>>] = jobs[<<"send-email", n>>]
      /\ \A o \in Orders : jobs'[<<"create", o>>] = jobs[<<"create", o>>]
      /\ jobs'[t.job] = jobs[t.job] \/ jobs'[t.job].state = "done"
  BY <1>2, <1>4, <1>5, CreateId, PdfId, MailId, Ids
<1>7. jobs[t.job].state # "none"
  BY <1>1 DEF Begun
<1>8. \A e \in docs : e.number \in Numbers
  BY DocTyped
<1>9. Unique'
  BY <1>1 DEF DoneInv, Unique
<1>10. Known'
  BY <1>1, <1>2, <1>6, <1>7 DEF DoneInv, Known, PdfJob
<1>11. Created'
  <2>1. \A e \in docs : jobs[<<"render-pdf", e.number>>].state # "none" => jobs'[<<"render-pdf", e.number>>].state # "none"
    BY <1>2, <1>6, <1>8
  <2> QED
    BY <1>1, <1>6, <2>1 DEF DoneInv, Created, CreateJob, PdfJob
<1>12. Rendered'
  <2>1. ASSUME NEW d \in docs, d.number = t.doc, d.order \in WithEmail PROVE jobs'[id].state # "none"
    BY <1>2, <1>4, <1>6, <2>1, OrderOfDoc DEF DoneInv
  <2>2. ASSUME NEW d \in docs, d.number # t.doc, jobs'[<<"render-pdf", d.number>>].state = "done"
        PROVE  d.number \in pdf /\ (d.order \in WithEmail => jobs'[<<"send-email", d.number>>].state # "none")
    BY <1>6, <1>8, <2>2 DEF DoneInv, Rendered, PdfJob, MailJob
  <2> QED
    BY <1>1, <1>2, <2>1, <2>2 DEF Rendered, PdfJob, MailJob
<1>13. Marked'
  BY <1>1, <1>2, <1>4, <1>6 DEF DoneInv, Marked, MailJob
<1> QED
  BY <1>9, <1>10, <1>11, <1>12, <1>13 DEF DoneInv

LEMMA MarkDone ==
  ASSUME Limits, Types, Begun, DoneInv, NEW w \in Workers, MarkEmailSent(w) PROVE DoneInv'
<1> DEFINE t == worker[w]
<1>1. t # Idle /\ UNCHANGED <<number, docs, pdf>> /\ sent' = sent \cup {t.doc} /\ Finish(w, jobs) /\ t.at = "markSent"
  BY IdleRun DEF MarkEmailSent
<1>2. /\ t.lock \in BOOLEAN /\ t.job = <<"send-email", t.doc>> /\ t.job \in JobIds /\ t.doc \in Numbers
      /\ jobs \in [JobIds -> Job] /\ jobs[t.job].state # "none"
  BY <1>1, AtWork DEF Mails, Types, TypeOK, Begun
<1>3. /\ \A j \in JobIds \ {t.job} : jobs'[j] = jobs[j]
      /\ jobs'[t.job] = jobs[t.job] \/ jobs'[t.job].state = "done"
  BY <1>1, <1>2, FinishEffect
<1>4. /\ \A n \in Numbers \ {t.doc} : jobs'[<<"send-email", n>>] = jobs[<<"send-email", n>>]
      /\ \A n \in Numbers : jobs'[<<"render-pdf", n>>] = jobs[<<"render-pdf", n>>]
      /\ \A o \in Orders : jobs'[<<"create", o>>] = jobs[<<"create", o>>]
  BY <1>2, <1>3, CreateId, PdfId, MailId, Ids
<1>5. \A e \in docs : e.number \in Numbers
  BY DocTyped
<1>6. Unique' /\ Known'
  BY <1>1, <1>4 DEF DoneInv, Unique, Known, PdfJob
<1>7. Created'
  BY <1>1, <1>4, <1>5 DEF DoneInv, Created, CreateJob, PdfJob
<1>8. Rendered'
  BY <1>1, <1>2, <1>3, <1>4, <1>5 DEF DoneInv, Rendered, PdfJob, MailJob
<1>9. Marked'
  BY <1>1, <1>4 DEF DoneInv, Marked, MailJob
<1> QED
  BY <1>6, <1>7, <1>8, <1>9 DEF DoneInv

LEMMA EndsDone ==
  ASSUME Limits, Types, Begun, DoneInv, NEW w \in Workers, Throw(w) \/ Crash(w) \/ LoseLock(w) PROVE DoneInv'
BY BackEffect, OneJob DEF Begun

LEMMA NextDone == ASSUME Limits, Types, Begun, DoneInv, [Next]_vars PROVE DoneInv'
<1>1. ASSUME NEW w \in Workers, FindDocument(w) \/ RenderPdf(w) \/ SendEmail(w) PROVE DoneInv'
  BY <1>1, StillDone DEF FindDocument, RenderPdf, SendEmail
<1>2. ASSUME UNCHANGED vars PROVE DoneInv'
  BY <1>2, StillDone DEF vars
<1> QED
  BY <1>1, <1>2, PaymentDone, TakeDone, InsertDone, ScheduleDone, QueueMailDone, MarkDone, EndsDone
     DEF Next, Work

LEMMA InitDone == Limits /\ Init => Begun /\ DoneInv
<1> SUFFICES ASSUME Limits, Init PROVE Begun /\ DoneInv
  OBVIOUS
<1>1. \A j \in JobIds : jobs[j].state = "none"
  BY DEF Init, NoJob
<1>2. docs = {} /\ \A w \in Workers : worker[w] = Idle
  BY DEF Init
<1> QED
  BY <1>1, <1>2, CreateId, PdfId, MailId
     DEF Begun, DoneInv, Unique, Known, Created, Rendered, Marked, CreateJob, PdfJob, MailJob

LEMMA RestDelivers == ASSUME Limits, Types, DoneInv PROVE NoneStranded
<1> SUFFICES ASSUME AtRest, ~GivenUp, NEW o \in Orders, CreateJob(o) # "none" PROVE Delivered(o)
  BY DEF NoneStranded, CreateJob
<1>1. \A j \in JobIds : jobs[j].state \in {"none", "done"}
  BY DEF AtRest, GivenUp, Types, TypeOK, Job, JobStates
<1>2. PICK d \in docs : d.order = o /\ PdfJob(d.number) # "none"
  BY <1>1, CreateId DEF DoneInv, Created, CreateJob
<1>3. d.number \in Numbers
  BY DocTyped
<1>4. d.number \in pdf /\ (d.order \in WithEmail => MailJob(d.number) # "none")
  BY <1>1, <1>2, <1>3, PdfId DEF DoneInv, Rendered, PdfJob
<1>5. o \in WithEmail => d.number \in sent
  BY <1>1, <1>2, <1>3, <1>4, MailId DEF DoneInv, Marked, MailJob
<1>6. d.number \in DocOf(o)
  BY <1>2 DEF DocOf
<1> QED
  BY <1>4, <1>5, <1>6 DEF Delivered

LEMMA AlwaysBegun == ASSUME Limits PROVE Spec => []Begun
BY InitDone, AlwaysTypes, NextBegun, PTL DEF Spec

(* A queue at rest with nothing given up has rendered every receipt it was     *)
(* asked for, and mailed those that have an address (NoneStranded).            *)
THEOREM ReceiptsDelivered == ASSUME Limits PROVE Spec => []NoneStranded
<1>1. Limits /\ Init => DoneInv
  BY InitDone
<1>2. Types /\ Begun /\ DoneInv /\ [Next]_vars => DoneInv'
  BY NextDone
<1>3. Types /\ DoneInv => NoneStranded
  BY RestDelivers
<1> QED
  BY <1>1, <1>2, <1>3, AlwaysTypes, AlwaysBegun, PTL DEF Spec

-----------------------------------------------------------------------------
(* Who holds a job. *)

Active == \A w \in Workers : worker[w].lock => jobs[worker[w].job].state = "active"
Alone == \A w, x \in Workers : w # x /\ worker[w].lock /\ worker[x].lock => worker[w].job # worker[x].job
Locked == overlapped \/ \A w \in Workers : worker[w] = Idle \/ worker[w].lock
LockInv == Active /\ Alone /\ Locked

(* One worker changes its run; a job at work stays so unless its holder lets go. *)
LEMMA LockStep ==
  ASSUME Types, LockInv, NEW w \in Workers, NEW t, worker' = [worker EXCEPT ![w] = t],
         \A j \in JobIds : jobs[j].state = "active" /\ ~(worker[w].lock /\ worker[w].job = j /\ ~t.lock)
                            => jobs'[j].state = "active",
         t.lock => /\ jobs'[t.job].state = "active"
                   /\ (worker[w].lock /\ t.job = worker[w].job) \/ jobs[t.job].state # "active",
         overlapped => overlapped', t = Idle \/ t.lock \/ overlapped'
  PROVE  LockInv'
<1>1. worker'[w] = t /\ \A x \in Workers \ {w} : worker'[x] = worker[x]
  BY DEF Types, Shape
<1>2. \A x \in Workers : worker[x].lock => worker[x] # Idle
  BY IdleRun
<1>3. \A x \in Workers : worker[x].lock => worker[x].job \in JobIds /\ jobs[worker[x].job].state = "active"
  BY <1>2, AtWork DEF LockInv, Active
<1>4. Active'
  <2>1. ASSUME NEW x \in Workers \ {w}, worker[x].lock PROVE jobs'[worker[x].job].state = "active"
    BY <1>3, <2>1 DEF LockInv, Alone
  <2> QED
    BY <1>1, <2>1 DEF Active
<1>5. Alone'
  <2>1. ASSUME NEW x \in Workers \ {w}, worker[x].lock, t.lock PROVE t.job # worker[x].job
    BY <1>3, <2>1 DEF LockInv, Alone
  <2> QED
    BY <1>1, <2>1 DEF LockInv, Alone
<1>6. Locked'
  BY <1>1 DEF LockInv, Locked
<1> QED
  BY <1>4, <1>5, <1>6 DEF LockInv

(* A worker goes on with its job. *)
LEMMA LockGoes ==
  ASSUME Types, LockInv, NEW w \in Workers, worker[w] # Idle, jobs' = jobs, overlapped' = overlapped,
         NEW at \in Points, NEW n \in 0 .. MaxNumber, Goto(w, at, n)
  PROVE  LockInv'
<1>1. PICK t \in Run : /\ worker' = [worker EXCEPT ![w] = t]
                       /\ t.job = worker[w].job /\ t.lock = worker[w].lock
  BY Moves
<1>2. worker[w].lock => jobs[t.job].state = "active"
  BY <1>1 DEF LockInv, Active
<1>3. t = Idle \/ t.lock \/ overlapped'
  BY <1>1 DEF LockInv, Locked
<1> QED
  BY <1>1, <1>2, <1>3, LockStep

(* A worker ends its run, and lets go of its job. *)
LEMMA LockEnds ==
  ASSUME Types, LockInv, NEW w \in Workers, overlapped' = overlapped, worker' = [worker EXCEPT ![w] = Idle],
         \A j \in JobIds : jobs[j].state = "active" /\ ~(worker[w].lock /\ worker[w].job = j)
                            => jobs'[j].state = "active"
  PROVE  LockInv'
BY LockStep, IdleRun

(* A finished job was the worker's own, or it has not changed. *)
LEMMA FinishLock ==
  ASSUME Types, LockInv, NEW w \in Workers, worker[w] # Idle, NEW q \in [JobIds -> Job], Finish(w, q),
         \A j \in JobIds : jobs[j].state # "none" => q[j] = jobs[j], overlapped' = overlapped
  PROVE  LockInv' /\ \A j \in JobIds : jobs[j].state = "done" => jobs'[j].state = "done"
<1> DEFINE id == worker[w].job
           lock == worker[w].lock
<1>1. id \in JobIds /\ lock \in BOOLEAN /\ jobs' = Done(q, id, lock) /\ worker' = [worker EXCEPT ![w] = Idle]
  BY AtWork DEF Finish
<1> HIDE DEF id, lock
<1>2. /\ IF lock THEN jobs'[id].state = "done" ELSE jobs' = q
      /\ \A j \in JobIds \ {id} : jobs'[j] = q[j]
  BY <1>1, DoneJob
<1>3. \A j \in JobIds : jobs[j].state = "active" /\ ~(lock /\ id = j) => jobs'[j].state = "active"
  BY <1>2
<1>4. LockInv'
  BY <1>1, <1>3, LockEnds DEF id, lock
<1>5. \A j \in JobIds : jobs[j].state = "done" => jobs'[j].state = "done"
  BY <1>1, <1>2
<1> QED
  BY <1>4, <1>5

-----------------------------------------------------------------------------
(* What is done once, while the queue hands no job out beside a run of it. *)

Inserting == \A w \in Workers : worker[w].at = "insert" => \A d \in docs : d.order # worker[w].job[2]
OneEach == \A d, e \in docs : d.order = e.order => d = e
Sending(n) ==
  \/ jobs[<<"send-email", n>>].state = "done"
  \/ \E w \in Workers : worker[w].at = "markSent" /\ worker[w].doc = n
Mailed == \A n \in Numbers : n \in unmarked \/ mails[n] = 0 \/ (mails[n] = 1 /\ Sending(n))
OnceInv == overlapped \/ (Inserting /\ OneEach /\ Mailed)

LEMMA OnceFrame ==
  ASSUME Limits, Types, OnceInv, overlapped' = overlapped, docs' = docs, mails' = mails, unmarked \subseteq unmarked',
         NEW w \in Workers, NEW t, worker' = [worker EXCEPT ![w] = t],
         t.at = "insert" => \A d \in docs : d.order # t.job[2],
         \A j \in JobIds : jobs[j].state = "done" => jobs'[j].state = "done",
         worker[w].at = "markSent" =>
           worker[w].doc \in unmarked' \/ jobs'[<<"send-email", worker[w].doc>>].state = "done"
  PROVE  OnceInv'
<1> SUFFICES ASSUME ~overlapped, Inserting, OneEach, Mailed PROVE Inserting' /\ OneEach' /\ Mailed'
  BY DEF OnceInv
<1>1. worker'[w] = t /\ \A x \in Workers \ {w} : worker'[x] = worker[x]
  BY DEF Types, Shape
<1>2. Inserting'
  BY <1>1 DEF Inserting
<1>3. OneEach'
  BY DEF OneEach
<1>4. ASSUME NEW n \in Numbers, Sending(n)
      PROVE  n \in unmarked' \/ jobs'[<<"send-email", n>>].state = "done"
               \/ \E x \in Workers : worker'[x].at = "markSent" /\ worker'[x].doc = n
  BY <1>1, <1>4, MailId DEF Sending
<1>5. Mailed'
  BY <1>4 DEF Mailed, Sending
<1> QED
  BY <1>2, <1>3, <1>5

LEMMA BackOnce ==
  ASSUME Limits, Types, LockInv, OnceInv, NEW w \in Workers, Throw(w) \/ Crash(w) PROVE LockInv' /\ OnceInv'
<1>1. /\ worker[w] # Idle /\ worker' = [worker EXCEPT ![w] = Idle] /\ overlapped' = overlapped
      /\ unmarked \subseteq unmarked'
      /\ worker[w].at = "markSent" => worker[w].doc \in unmarked'
  BY DEF Throw, Crash, Unmarks
<1>2. /\ worker[w].job \in JobIds
      /\ \A j \in JobIds \ {worker[w].job} : jobs'[j] = jobs[j]
      /\ ~worker[w].lock => jobs' = jobs
      /\ docs' = docs /\ mails' = mails
  BY BackEffect
<1>3. LockInv'
  BY <1>1, <1>2, LockEnds
<1>4. worker[w].lock => jobs[worker[w].job].state = "active"
  BY DEF LockInv, Active
<1>5. \A j \in JobIds : jobs[j].state = "done" => jobs'[j].state = "done"
  BY <1>2, <1>4
<1>6. OnceInv'
  BY <1>1, <1>2, <1>5, IdleRun, OnceFrame
<1> QED
  BY <1>3, <1>6

LEMMA LoseOnce ==
  ASSUME Limits, Types, LockInv, NEW w \in Workers, LoseLock(w) PROVE LockInv' /\ OnceInv'
<1>1. PICK t : worker' = [worker EXCEPT ![w] = t] /\ t.lock = FALSE
  BY Loses
<1>2. worker[w].lock /\ overlapped' = TRUE
  BY Loses
<1>3. worker[w].job \in JobIds /\ \A j \in JobIds \ {worker[w].job} : jobs'[j] = jobs[j]
  BY BackEffect
<1>4. \A j \in JobIds : jobs[j].state = "active" /\ ~(worker[w].lock /\ worker[w].job = j /\ ~t.lock)
                          => jobs'[j].state = "active"
  BY <1>1, <1>2, <1>3
<1>5. LockInv'
  BY <1>1, <1>2, <1>4, LockStep
<1>6. OnceInv'
  BY <1>2 DEF OnceInv
<1> QED
  BY <1>5, <1>6

(* Steps of nobody who works: the queue only gains a job. *)
LEMMA RestOnce ==
  ASSUME Limits, Types, LockInv, OnceInv, UNCHANGED <<worker, docs, mails, unmarked, overlapped>>,
         \A j \in JobIds : jobs[j].state # "none" => jobs'[j] = jobs[j]
  PROVE  LockInv' /\ OnceInv'
<1>1. Active'
  <2>1. ASSUME NEW w \in Workers, worker[w].lock PROVE jobs'[worker[w].job].state = "active"
    <3>1. worker[w].job \in JobIds /\ jobs[worker[w].job].state = "active"
      BY <2>1, IdleRun, AtWork DEF LockInv, Active
    <3> QED
      BY <3>1
  <2> QED
    BY <2>1 DEF Active
<1>2. LockInv'
  BY <1>1 DEF LockInv, Alone, Locked
<1>3. \A n \in Numbers : jobs[<<"send-email", n>>].state = "done" => jobs'[<<"send-email", n>>].state = "done"
  BY MailId
<1>4. Mailed => Mailed'
  BY <1>3 DEF Mailed, Sending
<1>5. OnceInv'
  BY <1>4 DEF OnceInv, Inserting, OneEach
<1> QED
  BY <1>2, <1>5

LEMMA PaymentOnce ==
  ASSUME Limits, Types, LockInv, OnceInv, NEW o \in Orders, PaymentSucceeded(o) PROVE LockInv' /\ OnceInv'
<1> DEFINE id == <<"create", o>>
<1>1. id \in JobIds /\ (jobs' = jobs \/ jobs' = Add(jobs, id))
  BY CreateId DEF PaymentSucceeded, Queue
<1> HIDE DEF id
<1>2. \A j \in JobIds : jobs[j].state # "none" => jobs'[j] = jobs[j]
  BY <1>1, Added, JobsTyped
<1>3. UNCHANGED <<worker, docs, mails, unmarked, overlapped>>
  BY DEF PaymentSucceeded
<1> QED
  BY <1>2, <1>3, RestOnce

LEMMA TakeOnce ==
  ASSUME Limits, Types, LockInv, OnceInv, NEW w \in Workers, Take(w) PROVE LockInv' /\ OnceInv'
<1>1. PICK j \in JobIds, t \in Run :
        /\ worker[w] = Idle /\ jobs[j].state = "waiting" /\ jobs' = Taken(jobs, j)
        /\ worker' = [worker EXCEPT ![w] = t] /\ RunOK(t, docs, pdf)
        /\ t.job = j /\ t.lock = TRUE /\ t.at = j[1]
        /\ UNCHANGED <<paidEvents, number, docs, pdf, sent, mails, faults, unmarked, overlapped>>
  BY Takes
<1>2. jobs'[j].state = "active" /\ \A i \in JobIds \ {j} : jobs'[i] = jobs[i]
  BY <1>1, TakeJob, JobsTyped
<1>3. LockInv'
  <2>1. \A i \in JobIds : jobs[i].state = "active" => jobs'[i].state = "active"
    BY <1>2
  <2>2. jobs'[t.job].state = "active" /\ jobs[t.job].state # "active"
    BY <1>1, <1>2
  <2>3. worker' = [worker EXCEPT ![w] = t] /\ t.lock /\ (overlapped => overlapped')
    BY <1>1
  <2> QED
    BY <2>1, <2>2, <2>3, LockStep
<1>4. t.at # "insert"
  BY <1>1 DEF JobIds
<1>5. \A i \in JobIds : jobs[i].state = "done" => jobs'[i].state = "done"
  BY <1>1, <1>2
<1>6. worker[w].at # "markSent"
  BY <1>1, IdleRun
<1>7. OnceInv'
  BY <1>1, <1>4, <1>5, <1>6, OnceFrame
<1> QED
  BY <1>3, <1>7

(* A worker goes on with its job, and writes no document and no mail. *)
LEMMA GoesOnce ==
  ASSUME Limits, Types, LockInv, OnceInv, NEW w \in Workers, worker[w] # Idle, worker[w].at # "markSent",
         UNCHANGED <<jobs, docs, mails, unmarked, overlapped>>,
         NEW at \in Points, NEW n \in 0 .. MaxNumber, Goto(w, at, n),
         at = "insert" => \A d \in docs : d.order # worker[w].job[2]
  PROVE  LockInv' /\ OnceInv'
<1>1. PICK t \in Run : worker' = [worker EXCEPT ![w] = t] /\ t.job = worker[w].job /\ t.at = at
  BY Moves
<1>2. LockInv'
  BY LockGoes
<1>3. OnceInv'
  BY <1>1, OnceFrame
<1> QED
  BY <1>2, <1>3

LEMMA FindOnce ==
  ASSUME Limits, Types, LockInv, OnceInv, NEW w \in Workers, FindDocument(w) PROVE LockInv' /\ OnceInv'
<1>1. /\ worker[w].at = "create" /\ worker[w] # Idle
      /\ UNCHANGED <<jobs, docs, mails, unmarked, overlapped>>
  BY IdleRun DEF FindDocument
<1>2. CASE Exists(worker[w].job[2])
  <2>1. PICK d \in docs : Goto(w, "schedulePdf", d.number)
    BY <1>2 DEF FindDocument, Exists, DocOf
  <2>2. d.number \in 0 .. MaxNumber
    BY DocTyped DEF Numbers, Limits
  <2> QED
    BY <1>1, <2>1, <2>2, GoesOnce DEF Points
<1>3. CASE ~Exists(worker[w].job[2])
  <2>1. Goto(w, "insert", 0) /\ \A d \in docs : d.order # worker[w].job[2]
    BY <1>3 DEF FindDocument, Exists, DocOf
  <2> QED
    BY <1>1, <2>1, GoesOnce DEF Points, Limits
<1> QED
  BY <1>2, <1>3

LEMMA RenderOnce ==
  ASSUME Limits, Types, LockInv, OnceInv, NEW w \in Workers, RenderPdf(w) PROVE LockInv' /\ OnceInv'
<1>1. /\ worker[w].at = "render-pdf" /\ worker[w] # Idle /\ Goto(w, "queueMail", worker[w].doc)
      /\ UNCHANGED <<jobs, docs, mails, unmarked, overlapped>>
  BY IdleRun DEF RenderPdf
<1>2. worker[w].doc \in 0 .. MaxNumber
  BY <1>1, AtWork DEF Run
<1> QED
  BY <1>1, <1>2, GoesOnce DEF Points

(* The row of an order that had none: while each job has one run, no other run *)
(* of the order's creation is between its look and its row.                    *)
LEMMA InsertOnce ==
  ASSUME Limits, Types, LockInv, OnceInv, NEW w \in Workers, InsertDocument(w) PROVE LockInv' /\ OnceInv'
<1> DEFINE n == number + 1
           d == [number |-> n, order |-> worker[w].job[2]]
<1>1. /\ worker[w].at = "insert" /\ worker[w] # Idle
      /\ UNCHANGED <<jobs, mails, unmarked, overlapped>>
      /\ \/ docs' = docs \cup {d} /\ Goto(w, "schedulePdf", n)
         \/ docs' = docs /\ Goto(w, "throw", 0)
  BY IdleRun DEF InsertDocument
<1>2. n \in 0 .. MaxNumber /\ d.order = worker[w].job[2]
  BY DEF InsertDocument, Types, TypeOK, Limits
<1> HIDE DEF n, d
<1>3. CASE docs' = docs /\ Goto(w, "throw", 0)
  BY <1>1, <1>3, GoesOnce DEF Points, Limits
<1>4. CASE docs' = docs \cup {d} /\ Goto(w, "schedulePdf", n)
  <2>1. LockInv'
    BY <1>1, <1>2, <1>4, LockGoes DEF Points
  <2>2. PICK t \in Run : worker' = [worker EXCEPT ![w] = t] /\ t.at = "schedulePdf"
    BY <1>1, <1>2, <1>4, Moves DEF Points
  <2>3. worker'[w] = t /\ \A x \in Workers \ {w} : worker'[x] = worker[x]
    BY <2>2 DEF Types, Shape
  <2> SUFFICES ASSUME ~overlapped, Inserting, OneEach, Mailed PROVE Inserting' /\ OneEach' /\ Mailed'
    BY <1>1, <2>1 DEF OnceInv
  <2>4. ASSUME NEW x \in Workers \ {w}, worker[x].at = "insert" PROVE worker[x].job[2] # worker[w].job[2]
    <3>1. worker[x] # Idle /\ worker[x].lock /\ worker[w].lock
      BY <1>1, <2>4, IdleRun DEF LockInv, Locked
    <3>2. worker[x].job # worker[w].job
      BY <3>1 DEF LockInv, Alone
    <3>3. Creates(worker[x], docs) /\ Creates(worker[w], docs)
      BY <1>1, <2>4, <3>1, AtWork
    <3> QED
      BY <3>2, <3>3 DEF Creates
  <2>5. Inserting'
    <3>1. ASSUME NEW x \in Workers, worker'[x].at = "insert", NEW e \in docs' PROVE e.order # worker'[x].job[2]
      <4>1. x \in Workers \ {w} /\ worker'[x] = worker[x]
        BY <2>2, <2>3, <3>1
      <4>2. CASE e \in docs
        BY <3>1, <4>1, <4>2 DEF Inserting
      <4>3. CASE e = d
        BY <1>2, <2>4, <3>1, <4>1, <4>3
      <4> QED
        BY <1>4, <3>1, <4>2, <4>3
    <3> QED
      BY <3>1 DEF Inserting
  <2>6. OneEach'
    <3>1. \A e \in docs : e.order # d.order
      BY <1>1, <1>2 DEF Inserting
    <3> QED
      BY <1>4, <3>1 DEF OneEach
  <2>7. Mailed'
    <3>1. \A m : Sending(m) => Sending(m)'
      BY <1>1, <2>3 DEF Sending
    <3> QED
      BY <1>1, <3>1 DEF Mailed
  <2> QED
    BY <2>5, <2>6, <2>7
<1> QED
  BY <1>1, <1>3, <1>4

(* A run that finishes other than by the mark. *)
LEMMA FinishOnce ==
  ASSUME Limits, Types, LockInv, OnceInv, NEW w \in Workers, worker[w] # Idle, worker[w].at # "markSent",
         UNCHANGED <<docs, mails, unmarked, overlapped>>, NEW q \in [JobIds -> Job], Finish(w, q),
         \A j \in JobIds : jobs[j].state # "none" => q[j] = jobs[j]
  PROVE  LockInv' /\ OnceInv'
<1>1. LockInv' /\ \A j \in JobIds : jobs[j].state = "done" => jobs'[j].state = "done"
  BY FinishLock
<1>2. worker' = [worker EXCEPT ![w] = Idle]
  BY DEF Finish
<1>3. OnceInv'
  BY <1>1, <1>2, IdleRun, OnceFrame
<1> QED
  BY <1>1, <1>3

LEMMA ScheduleOnce ==
  ASSUME Limits, Types, LockInv, OnceInv, NEW w \in Workers, SchedulePdf(w) PROVE LockInv' /\ OnceInv'
<1> DEFINE id == <<"render-pdf", worker[w].doc>>
           q == Add(jobs, id)
<1>1. /\ worker[w] # Idle /\ worker[w].at = "schedulePdf" /\ Finish(w, q)
      /\ UNCHANGED <<docs, mails, unmarked, overlapped>>
  BY IdleRun DEF SchedulePdf, Rendering, Queue
<1>2. id \in JobIds /\ q = Add(jobs, id)
  BY <1>1, AtWork, DocTyped, PdfId DEF Creates
<1> HIDE DEF id, q
<1>3. q \in [JobIds -> Job] /\ \A j \in JobIds : jobs[j].state # "none" => q[j] = jobs[j]
  BY <1>2, Added, JobsTyped
<1> QED
  BY <1>1, <1>3, FinishOnce

LEMMA QueueMailOnce ==
  ASSUME Limits, Types, LockInv, OnceInv, NEW w \in Workers, QueueMail(w) PROVE LockInv' /\ OnceInv'
<1> DEFINE id == <<"send-email", worker[w].doc>>
           q == Mail(w)
<1>1. /\ worker[w] # Idle /\ worker[w].at = "queueMail" /\ Finish(w, q)
      /\ UNCHANGED <<docs, mails, unmarked, overlapped>>
  BY IdleRun DEF QueueMail
<1>2. id \in JobIds /\ (q = jobs \/ q = Add(jobs, id))
  BY <1>1, AtWork, MailId DEF Renders, Mail, Queue
<1> HIDE DEF id, q
<1>3. q \in [JobIds -> Job] /\ \A j \in JobIds : jobs[j].state # "none" => q[j] = jobs[j]
  BY <1>2, Added, JobsTyped
<1> QED
  BY <1>1, <1>3, FinishOnce

(* The mail: its job is at work with this run alone, so none went out before,  *)
(* or a run that ended before its mark sent it.                                *)
LEMMA SendOnce ==
  ASSUME Limits, Types, LockInv, OnceInv, NEW w \in Workers, SendEmail(w) PROVE LockInv' /\ OnceInv'
<1> PICK n : n = worker[w].doc
  OBVIOUS
<1>1. /\ worker[w].at = "send-email" /\ worker[w] # Idle /\ Goto(w, "markSent", n)
      /\ mails' = [mails EXCEPT ![n] = mails[n] + 1]
      /\ UNCHANGED <<jobs, docs, unmarked, overlapped>>
  BY IdleRun DEF SendEmail
<1>2. worker[w].job = <<"send-email", n>> /\ n \in Numbers /\ n \in 0 .. MaxNumber
  BY <1>1, AtWork DEF Mails, Run
<1>3. LockInv'
  BY <1>1, <1>2, LockGoes DEF Points
<1>4. PICK t \in Run : worker' = [worker EXCEPT ![w] = t] /\ t.at = "markSent" /\ t.doc = n
  BY <1>1, <1>2, Moves DEF Points
<1>5. worker'[w] = t /\ \A x \in Workers \ {w} : worker'[x] = worker[x]
  BY <1>4 DEF Types, Shape
<1> SUFFICES ASSUME ~overlapped, Inserting, OneEach, Mailed PROVE Inserting' /\ OneEach' /\ Mailed'
  BY <1>1, <1>3 DEF OnceInv
<1>6. Inserting' /\ OneEach'
  BY <1>1, <1>4, <1>5 DEF Inserting, OneEach
<1>7. worker[w].lock /\ jobs[<<"send-email", n>>].state = "active"
  BY <1>1, <1>2 DEF LockInv, Locked, Active
<1>8. ~Sending(n)
  <2>1. ASSUME NEW x \in Workers, worker[x].at = "markSent", worker[x].doc = n PROVE FALSE
    <3>1. worker[x] # Idle /\ worker[x].lock /\ x # w
      BY <1>1, <2>1, IdleRun DEF LockInv, Locked
    <3>2. worker[x].job = <<"send-email", n>>
      BY <2>1, <3>1, AtWork DEF Mails
    <3> QED
      BY <1>2, <1>7, <3>1, <3>2 DEF LockInv, Alone
  <2> QED
    BY <1>7, <2>1 DEF Sending
<1>9. Sending(n)'
  BY <1>4, <1>5 DEF Sending
<1>10. \A m : Sending(m) => Sending(m)'
  BY <1>1, <1>5 DEF Sending
<1>11. mails \in [Numbers -> Nat]
  BY DEF Types, TypeOK
<1>12. ASSUME NEW m \in Numbers PROVE m \in unmarked' \/ mails'[m] = 0 \/ (mails'[m] = 1 /\ Sending(m)')
  <2>1. CASE m = n
    <3>1. m \in unmarked \/ mails[m] = 0
      BY <1>8, <2>1 DEF Mailed
    <3>2. mails[m] = 0 => mails'[m] = 1
      BY <1>1, <1>2, <1>11, <2>1
    <3> QED
      BY <1>1, <1>9, <2>1, <3>1, <3>2
  <2>2. CASE m # n
    BY <1>1, <1>10, <1>11, <2>2 DEF Mailed
  <2> QED
    BY <2>1, <2>2
<1>13. Mailed'
  BY <1>12 DEF Mailed
<1> QED
  BY <1>6, <1>13

LEMMA MarkOnce ==
  ASSUME Limits, Types, LockInv, OnceInv, NEW w \in Workers, MarkEmailSent(w) PROVE LockInv' /\ OnceInv'
<1>1. /\ worker[w] # Idle /\ worker[w].at = "markSent" /\ Finish(w, jobs)
      /\ UNCHANGED <<docs, mails, unmarked, overlapped>>
  BY IdleRun DEF MarkEmailSent
<1>2. jobs \in [JobIds -> Job] /\ worker' = [worker EXCEPT ![w] = Idle]
      /\ worker[w].job = <<"send-email", worker[w].doc>>
  BY <1>1, AtWork, JobsTyped DEF Finish, Mails
<1>3. LockInv' /\ \A j \in JobIds : jobs[j].state = "done" => jobs'[j].state = "done"
  BY <1>1, <1>2, FinishLock
<1>4. worker[w].lock => jobs'[<<"send-email", worker[w].doc>>].state = "done"
  BY <1>1, <1>2, FinishEffect
<1>5. CASE overlapped
  BY <1>1, <1>3, <1>5 DEF OnceInv
<1>6. CASE ~overlapped
  <2>1. worker[w].lock
    BY <1>1, <1>6 DEF LockInv, Locked
  <2> QED
    BY <1>1, <1>2, <1>3, <1>4, <2>1, IdleRun, OnceFrame
<1> QED
  BY <1>5, <1>6

LEMMA NextOnce == ASSUME Limits, Types, LockInv, OnceInv, [Next]_vars PROVE LockInv' /\ OnceInv'
<1>1. ASSUME UNCHANGED vars PROVE LockInv' /\ OnceInv'
  BY <1>1, RestOnce DEF vars
<1> QED
  BY <1>1, PaymentOnce, TakeOnce, FindOnce, InsertOnce, ScheduleOnce, RenderOnce, QueueMailOnce, SendOnce,
     MarkOnce, BackOnce, LoseOnce DEF Next, Work

LEMMA InitOnce == Init => LockInv /\ OnceInv
<1> SUFFICES ASSUME Init PROVE LockInv /\ OnceInv
  OBVIOUS
<1>1. \A w \in Workers : worker[w] = Idle
  BY DEF Init
<1>2. docs = {} /\ \A n \in Numbers : mails[n] = 0
  BY DEF Init
<1>3. LockInv
  BY <1>1, IdleRun DEF LockInv, Active, Alone, Locked
<1>4. OnceInv
  BY <1>2 DEF OnceInv, Inserting, OneEach, Mailed
<1> QED
  BY <1>3, <1>4

LEMMA AlwaysOnce == ASSUME Limits PROVE Spec => [](LockInv /\ OnceInv)
<1>1. Types /\ LockInv /\ OnceInv /\ [Next]_vars => LockInv' /\ OnceInv'
  BY NextOnce
<1> QED
  BY <1>1, InitOnce, AlwaysTypes, PTL DEF Spec

(* An order has one document at most, unless its creation was handed out       *)
(* beside a run that went on (OneReceipt).                                     *)
THEOREM OneReceiptEach == ASSUME Limits PROVE Spec => []OneReceipt
<1>1. OnceInv => OneReceipt
  <2> SUFFICES ASSUME OnceInv, ~overlapped, NEW o \in Orders PROVE Cardinality(DocOf(o)) <= 1
    BY DEF OneReceipt
  <2>1. \A n, m \in DocOf(o) : n = m
    BY DEF OnceInv, OneEach, DocOf
  <2>2. CASE DocOf(o) = {}
    BY <2>2, FS_EmptySet
  <2>3. CASE DocOf(o) # {}
    <3>1. PICK n : n \in DocOf(o)
      BY <2>3
    <3>2. DocOf(o) = {n}
      BY <2>1, <3>1
    <3>3. Cardinality({n}) = 1
      BY FS_Singleton
    <3> QED
      BY <3>2, <3>3
  <2> QED
    BY <2>2, <2>3
<1> QED
  BY <1>1, AlwaysOnce, PTL

(* The invoice is mailed once, unless a run ended between the mail and the     *)
(* mark, or ran beside another (MailedOnce).                                   *)
THEOREM MailsOnce == ASSUME Limits PROVE Spec => []MailedOnce
<1>1. OnceInv => MailedOnce
  BY DEF OnceInv, Mailed, MailedOnce
<1> QED
  BY <1>1, AlwaysOnce, PTL
=============================================================================

------------------------------- MODULE SendIn -------------------------------
(* The jobs of the send-in service (src/send-in): an item the customer posts   *)
(* follows its order from the letterbox to the bench and back, and the desk    *)
(* holds a picture of the design drawn on the customer's photo, drawn by a     *)
(* timer of the process that took the order or else by a sweep.                *)
EXTENDS Naturals, Sequences, FiniteSets

CONSTANTS
  MaxJobs,      \* bound: orders with a send-in line
  Unreadable,   \* jobs whose photo cannot be drawn
  Touched,      \* bound: jobs the desk updates
  Updates,      \* updates of jobs in flight at a time
  Attempts,     \* MOCKUP_ATTEMPTS
  Limit,        \* jobs drawn by one sweep
  MaxEvents     \* bound: lines on a job's timeline

VARIABLES
  job,        \* the jobs: status, tracking number, picture
  timeline,   \* the events of a job: the status each one records
  timer,      \* the attempts left of the picture's timer, per job
  upd,        \* what an update read, and what it will write
  disturbed,  \* jobs that had two updates at a time
  swept       \* a sweep found nothing left to draw, and no job was opened, cancelled or reopened since

vars == <<job, timeline, timer, upd, disturbed, swept>>

Statuses == {"awaiting_item", "received", "in_production", "done", "returned", "delivered",
             "problem", "cancelled"}
SEND_IN_TRANSITIONS ==
  [awaiting_item |-> {"received", "cancelled"},
   received      |-> {"in_production", "problem", "cancelled"},
   in_production |-> {"done", "problem"},
   done          |-> {"returned", "problem"},
   returned      |-> {"delivered"},
   delivered     |-> {},
   problem       |-> {"received", "in_production", "returned", "cancelled"},
   cancelled     |-> {}]

Jobs == DOMAIN job
Ids == 1 .. MaxJobs
Idle == [job |-> 0, seen |-> "none", to |-> "none", tracking |-> "keep"]

TypeOK ==
  /\ job \in Seq([status : Statuses, tracking : BOOLEAN, mockup : BOOLEAN]) /\ Len(job) <= MaxJobs
  /\ timeline \in [Ids -> Seq(Statuses)] /\ timer \in [Ids -> 0 .. Attempts]
  /\ upd \in [Updates -> {Idle} \cup [job : Jobs, seen : Statuses, to : Statuses, tracking : {"keep", "set", "clear"}]]
  /\ disturbed \subseteq Jobs /\ swept \in BOOLEAN

Init ==
  /\ job = <<>> /\ timeline = [j \in Ids |-> <<>>] /\ timer = [j \in Ids |-> 0]
  /\ upd = [u \in Updates |-> Idle]
  /\ disturbed = {} /\ swept = FALSE

(* createJobsForOrder, in the order's transaction: the job, its first event,   *)
(* and the timer of its picture (which a rolled back transaction leaves to     *)
(* find no job and to give up).                                                *)
CreateJob ==
  /\ Len(job) < MaxJobs
  /\ job' = Append(job, [status |-> "awaiting_item", tracking |-> FALSE, mockup |-> FALSE])
  /\ timeline' = [timeline EXCEPT ![Len(job) + 1] = <<"awaiting_item">>]
  /\ timer' = [timer EXCEPT ![Len(job) + 1] = Attempts]
  /\ swept' = FALSE
  /\ UNCHANGED <<upd, disturbed>>

(* renderMockup by the timer: drawn, or (the storage, the photo) tried again.  *)
TimerFires(j) ==
  /\ timer[j] > 0
  /\ \/ /\ j \notin Unreadable
        /\ job' = [job EXCEPT ![j].mockup = TRUE]
        /\ timer' = [timer EXCEPT ![j] = 0]
     \/ /\ timer' = [timer EXCEPT ![j] = @ - 1]
        /\ UNCHANGED job
  /\ UNCHANGED <<timeline, upd, disturbed, swept>>

(* The process stops: its timers are gone, its updates unanswered.             *)
Restart ==
  /\ \E j \in Ids : timer[j] > 0
  /\ timer' = [j \in Ids |-> 0]
  /\ upd' = [u \in Updates |-> Idle]
  /\ UNCHANGED <<job, timeline, disturbed, swept>>

Missing == {j \in Jobs : job[j].status # "cancelled" /\ ~job[j].mockup}
Picked == {j \in Missing : Cardinality({i \in Missing : i > j}) < Limit}

(* renderMissingMockups: the newest of the live jobs without a picture, up to  *)
(* a limit; one that fails is logged and the others go on.                     *)
Sweep ==
  /\ Missing # {}
  /\ \E failing \in {{}} \cup {{j} : j \in Picked} :
       /\ job' = [j \in Jobs |-> IF j \in Picked \ (failing \cup Unreadable)
                                 THEN [job[j] EXCEPT !.mockup = TRUE] ELSE job[j]]
       /\ swept' = (failing = {} /\ Picked \subseteq Unreadable)
  /\ UNCHANGED <<timeline, timer, upd, disturbed>>

Allowed(from, to) == to \in SEND_IN_TRANSITIONS[from]

(* update reads the job and checks what is asked of it: a status (the same, or *)
(* none, for a note), and for "returned" a tracking number now or before.      *)
ReadJob(u, j, to, track) ==
  LET seen == job[j].status IN
  /\ upd[u] = Idle /\ Len(timeline[j]) < MaxEvents
  /\ to # seen => Allowed(seen, to)
  /\ to = "returned" /\ to # seen => track = "set" \/ (track = "keep" /\ job[j].tracking)
  /\ upd' = [upd EXCEPT ![u] = [job |-> j, seen |-> seen, to |-> to, tracking |-> track]]
  /\ disturbed' = disturbed \cup {i \in {j} : \E v \in Updates : upd[v].job = i}
  /\ UNCHANGED <<job, timeline, timer, swept>>

\* A mutant: the event records the status that was read.
RecordsSeen(u) == upd[u].seen
Records(u) == upd[u].to

(* ... and writes the row, with a line on the timeline, and tells the customer. *)
(* The status is written only if it changes.                                   *)
WriteJob(u) ==
  LET r == upd[u] IN
  /\ r # Idle
  /\ job' = [job EXCEPT ![r.job].status = IF r.to = r.seen THEN @ ELSE r.to,
                        ![r.job].tracking = r.tracking = "set" \/ (r.tracking = "keep" /\ @)]
  /\ timeline' = [timeline EXCEPT ![r.job] = Append(@, Records(u))]
  /\ upd' = [upd EXCEPT ![u] = Idle]
  /\ swept' = (swept /\ (job[r.job].status = "cancelled") = (job'[r.job].status = "cancelled"))
  /\ UNCHANGED <<timer, disturbed>>

-----------------------------------------------------------------------------
\* forCustomer and toAdmin: what each side reads of a job; the desk, also what
\* it may make of it next.
forCustomer(j) == [status |-> job[j].status, drawn |-> job[j].mockup, events |-> timeline[j]]
toAdmin(j) == [status |-> job[j].status, drawn |-> job[j].mockup, events |-> timeline[j],
               allowedNext |-> SEND_IN_TRANSITIONS[job[j].status]]

-----------------------------------------------------------------------------
Next ==
  \/ CreateJob \/ Sweep \/ Restart
  \/ \E j \in Jobs : TimerFires(j)
  \/ \E j \in Jobs \cap Touched, u \in Updates :
       \/ \E to \in Statuses \ {"returned"} : ReadJob(u, j, to, "keep")
       \/ \E track \in {"keep", "set", "clear"} : ReadJob(u, j, "returned", track)
  \/ \E u \in Updates : WriteJob(u)

Spec == Init /\ [][Next]_vars

-----------------------------------------------------------------------------
(* What the customer reads is what happened: the last line of a job's timeline *)
(* is its status, and no line follows another that the table of transitions    *)
(* does not allow, nor is the desk offered a status that may not follow the    *)
(* last one, unless two updates of the job were in flight at a time (the       *)
(* status is checked against what was read, and a note repeats it).            *)
TimelineTells ==
  \A j \in Jobs \ disturbed :
    LET t == forCustomer(j).events IN
    /\ t[Len(t)] = forCustomer(j).status
    /\ \A to \in toAdmin(j).allowedNext : Allowed(t[Len(t)], to)
    /\ \A k \in 2 .. Len(t) : t[k] = t[k - 1] \/ t[k] \in SEND_IN_TRANSITIONS[t[k - 1]]

(* Once the sweeps find nothing left to draw, however the timers fared, a live *)
(* job is without its picture only if its photo cannot be drawn, or if it is   *)
(* older than as many of those as a sweep takes: these it never reaches.       *)
DrawnUnlessCrowded ==
  swept => \A j \in Missing \ Unreadable :
             Cardinality({i \in Missing \cap Unreadable : i > j}) >= Limit
=============================================================================

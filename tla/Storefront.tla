----------------------------- MODULE Storefront -----------------------------
(***************************************************************************)
(* The front of the shop as one process runs it: the basket and checkout   *)
(* of a cart (Checkout), the check of a phone that stands in for an email  *)
(* (PhoneVerification), the receipts of paid orders (Documents), the page  *)
(* and thread of an order (OrderAccess), the jobs of items sent in (SendIn)*)
(* and the admin's session (Sessions).  Each has rows and keys of its own, *)
(* so their handlers interleave freely, and none can undo what another     *)
(* promises.  The theorems say so for every value of the constants, from   *)
(* what is proved of each component: of SendIn and OrderAccess here, of    *)
(* the others in their own modules.                                        *)
(***************************************************************************)
EXTENDS SendIn, Integers, SequenceTheorems, FiniteSetTheorems, WellFoundedInduction, TLAPS

-----------------------------------------------------------------------------
(* The send-in jobs.                                                       *)

\* The bounds and the fill of a sweep are numbers.
Limits == MaxJobs \in Nat /\ Attempts \in Nat /\ Limit \in Nat

Row == [status : Statuses, tracking : BOOLEAN, mockup : BOOLEAN]
Update == [job : Jobs, seen : Statuses, to : Statuses, tracking : {"keep", "set", "clear"}]

\* The rows of the jobs, by number.
LEMMA Rows == job \in Seq(Row) => /\ Len(job) \in Nat /\ Jobs = 1 .. Len(job)
                                  /\ \A j \in Jobs : job[j] \in Row
BY ElementOfSeq, LenProperties DEF Jobs

\* Rows written over leave a list of rows of the same length.
LEMMA Rewritten ==
    ASSUME job \in Seq(Row), NEW f \in [Jobs -> Row]
    PROVE  f \in Seq(Row) /\ Len(f) = Len(job) /\ DOMAIN f = Jobs
<1>1. Jobs = 1 .. Len(job) /\ Len(job) \in Nat
  BY Rows
<1>2. f \in Seq(Row)
  BY <1>1, SeqDef
<1> QED
  BY <1>1, <1>2, LenProperties

LEMMA InitTypes == Limits /\ Init => TypeOK
<1> SUFFICES ASSUME Limits, Init PROVE TypeOK
  OBVIOUS
<1>1. job \in Seq(Row) /\ Len(job) <= MaxJobs
  BY DEF Init, Limits
<1>2. timeline \in [Ids -> Seq(Statuses)] /\ timer \in [Ids -> 0 .. Attempts]
  BY DEF Init, Limits
<1> QED
  BY <1>1, <1>2 DEF Init, TypeOK, Row

LEMMA IdleApart == Limits /\ TypeOK => \A u \in Updates : upd[u] # Idle => upd[u] \in Update
BY DEF TypeOK, Update

LEMMA CreateTypes == Limits /\ TypeOK /\ CreateJob => TypeOK'
<1> SUFFICES ASSUME Limits, TypeOK, CreateJob PROVE TypeOK'
  OBVIOUS
<1> DEFINE new == [status |-> "awaiting_item", tracking |-> FALSE, mockup |-> FALSE]
<1>1. new \in Row /\ job \in Seq(Row) /\ job' = Append(job, new) /\ Len(job) < MaxJobs
  BY DEF CreateJob, TypeOK, Row, Statuses
<1>2. job' \in Seq(Row) /\ Len(job') = Len(job) + 1 /\ Len(job) \in Nat
  BY <1>1, AppendProperties, LenProperties
<1>3. Jobs \subseteq Jobs'
  BY <1>1, <1>2, Rows, LenProperties DEF Jobs
<1>4. Len(job) + 1 \in Ids /\ Len(job') <= MaxJobs
  BY <1>1, <1>2 DEF Ids, Limits
<1>5. timeline' \in [Ids -> Seq(Statuses)] /\ timer' \in [Ids -> 0 .. Attempts]
  <2>1. <<"awaiting_item">> \in Seq(Statuses)
    BY DEF Statuses
  <2> QED
    BY <2>1, <1>4 DEF CreateJob, TypeOK, Limits
<1>6. upd' \in [Updates -> {Idle} \cup Update']
  BY <1>3 DEF CreateJob, TypeOK, Update
<1> QED
  BY <1>2, <1>3, <1>4, <1>5, <1>6 DEF CreateJob, TypeOK, Row, Update

\* A step that writes rows opens no job.
LEMMA SameJobs ==
    ASSUME TypeOK, NEW f \in [Jobs -> Row], job' = f
    PROVE  job' \in Seq(Row) /\ Len(job') = Len(job) /\ Jobs' = Jobs /\ Update' = Update
<1>1. job \in Seq(Row)
  BY DEF TypeOK, Row
<1> QED
  BY <1>1, Rewritten DEF Jobs, Update

LEMMA TimerTypes == Limits /\ TypeOK /\ (\E j \in Jobs : TimerFires(j)) => TypeOK'
<1> SUFFICES ASSUME Limits, TypeOK, NEW j \in Jobs, TimerFires(j) PROVE TypeOK'
  OBVIOUS
<1>1. job \in Seq(Row) /\ Jobs = 1 .. Len(job) /\ \A i \in Jobs : job[i] \in Row
  BY Rows DEF TypeOK, Row
<1>2. j \in Ids
  BY <1>1 DEF TypeOK, Ids, Limits
<1>3. timer' \in [Ids -> 0 .. Attempts]
  <2>1. timer[j] \in 0 .. Attempts /\ timer[j] > 0 /\ timer \in [Ids -> 0 .. Attempts]
    BY <1>2 DEF TimerFires, TypeOK
  <2>2. timer[j] - 1 \in 0 .. Attempts /\ 0 \in 0 .. Attempts
    BY <2>1 DEF Limits
  <2> QED
    BY <2>1, <2>2 DEF TimerFires
<1>4. job' = job \/ job' = [job EXCEPT ![j].mockup = TRUE]
  BY DEF TimerFires
<1>5. job' \in [Jobs -> Row]
  <2>1. job \in [Jobs -> Row]
    BY <1>1 DEF Jobs
  <2>2. [job[j] EXCEPT !.mockup = TRUE] \in Row
    BY <1>1 DEF Row
  <2> QED
    BY <2>1, <2>2, <1>4
<1>6. job' \in Seq(Row) /\ Len(job') = Len(job) /\ Jobs' = Jobs /\ Update' = Update
  BY <1>5, SameJobs
<1> QED
  BY <1>3, <1>6 DEF TimerFires, TypeOK, Row, Update

LEMMA RestartTypes == Limits /\ TypeOK /\ Restart => TypeOK'
BY DEF Limits, TypeOK, Restart, Jobs

LEMMA SweepTypes == Limits /\ TypeOK /\ Sweep => TypeOK'
<1> SUFFICES ASSUME Limits, TypeOK, Sweep PROVE TypeOK'
  OBVIOUS
<1>1. job \in Seq(Row) /\ \A i \in Jobs : job[i] \in Row
  BY Rows DEF TypeOK, Row
<1>2. job' \in [Jobs -> Row]
  BY <1>1 DEF Sweep, Row
<1>3. job' \in Seq(Row) /\ Len(job') = Len(job) /\ Jobs' = Jobs /\ Update' = Update
  BY <1>2, SameJobs
<1>4. swept' \in BOOLEAN
  BY DEF Sweep
<1> QED
  BY <1>3, <1>4 DEF Sweep, TypeOK, Row, Update

LEMMA ReadTypes ==
    ASSUME Limits, TypeOK, NEW u \in Updates, NEW j \in Jobs, NEW to \in Statuses,
           NEW track \in {"keep", "set", "clear"}, ReadJob(u, j, to, track)
    PROVE  TypeOK'
<1>1. job[j].status \in Statuses
  BY Rows DEF TypeOK, Row
<1>2. upd' \in [Updates -> {Idle} \cup Update]
  BY <1>1 DEF ReadJob, TypeOK, Update
<1> QED
  BY <1>2 DEF ReadJob, TypeOK, Update, Jobs

\* What a write makes of a row.
After(r, row) == [row EXCEPT !.status = IF r.to = r.seen THEN row.status ELSE r.to,
                             !.tracking = r.tracking = "set" \/ (r.tracking = "keep" /\ row.tracking)]

\* The row an update writes.
LEMMA Written ==
    ASSUME TypeOK, NEW u \in Updates, WriteJob(u)
    PROVE  /\ upd[u] \in Update
           /\ job' = [job EXCEPT ![upd[u].job] = After(upd[u], job[upd[u].job])]
           /\ job' \in [Jobs -> Row]
<1>1. upd[u] \in Update
  BY DEF WriteJob, TypeOK, Update
<1>2. job \in Seq(Row) /\ \A i \in Jobs : job[i] \in Row
  BY Rows DEF TypeOK, Row
<1>3. job' = [job EXCEPT ![upd[u].job] = After(upd[u], job[upd[u].job])]
  BY <1>1, <1>2 DEF WriteJob, After, Update, Row, Jobs
<1>4. After(upd[u], job[upd[u].job]) \in Row
  BY <1>1, <1>2 DEF After, Update, Row
<1>5. job \in [Jobs -> Row]
  BY <1>2 DEF Jobs
<1> QED
  BY <1>1, <1>3, <1>4, <1>5

LEMMA WriteTypes == Limits /\ TypeOK /\ (\E u \in Updates : WriteJob(u)) => TypeOK'
<1> SUFFICES ASSUME Limits, TypeOK, NEW u \in Updates, WriteJob(u) PROVE TypeOK'
  OBVIOUS
<1>1. job' \in Seq(Row) /\ Len(job') = Len(job) /\ Jobs' = Jobs /\ Update' = Update
  BY Written, SameJobs
<1>2. upd[u].job \in Ids /\ upd[u].to \in Statuses
  BY Written, Rows DEF TypeOK, Update, Row, Ids, Limits
<1>3. timeline' \in [Ids -> Seq(Statuses)]
  BY <1>2, AppendProperties DEF WriteJob, Records, TypeOK
<1>4. swept' \in BOOLEAN
  BY DEF WriteJob, TypeOK
<1> QED
  BY <1>1, <1>3, <1>4 DEF WriteJob, TypeOK, Row, Update

\* The steps of Next, with what they are about.
LEMMA Steps ==
    ASSUME [Next]_vars
    PROVE  \/ UNCHANGED vars
           \/ CreateJob \/ Sweep \/ Restart
           \/ \E j \in Jobs : TimerFires(j)
           \/ \E j \in Jobs, u \in Updates, to \in Statuses, track \in {"keep", "set", "clear"} :
                ReadJob(u, j, to, track)
           \/ \E u \in Updates : WriteJob(u)
BY DEF Next, Statuses

(* Jobs, timelines and updates keep their types (SendInService).            *)
THEOREM JobTypes == ASSUME Limits PROVE Spec => []TypeOK
<1>1. TypeOK /\ [Next]_vars => TypeOK'
  <2> SUFFICES ASSUME TypeOK, [Next]_vars PROVE TypeOK'
    OBVIOUS
  <2>1. CASE UNCHANGED vars
    BY <2>1 DEF vars, TypeOK, Jobs
  <2> QED
    BY <2>1, Steps, CreateTypes, SweepTypes, RestartTypes, TimerTypes, ReadTypes, WriteTypes
<1> QED
  BY <1>1, InitTypes, PTL DEF Spec

\* A timeline tells what happened to its job.
Told(t, status) ==
    /\ t \in Seq(Statuses) /\ Len(t) > 0 /\ t[Len(t)] = status
    /\ \A k \in 2 .. Len(t) : t[k] = t[k - 1] \/ t[k] \in SEND_IN_TRANSITIONS[t[k - 1]]

\* An update in flight, alone on its job, has read what the job still is, and
\* writes it again or what may follow it.
ToldInv ==
    \A j \in Jobs \ disturbed :
        /\ Told(timeline[j], job[j].status)
        /\ \A u \in Updates : upd[u].job = j =>
             /\ upd[u].seen = job[j].status
             /\ upd[u].to = upd[u].seen \/ Allowed(upd[u].seen, upd[u].to)
             /\ \A v \in Updates : upd[v].job = j => u = v

\* A line that may follow the last one.
LEMMA ToldMore ==
    ASSUME NEW t, NEW status, Told(t, status),
           NEW to \in Statuses, to = status \/ Allowed(status, to)
    PROVE  Told(Append(t, to), to)
<1> DEFINE s == Append(t, to)
<1>1. t \in Seq(Statuses) /\ Len(t) \in Nat /\ Len(t) > 0
  BY LenProperties DEF Told
<1>2. /\ s \in Seq(Statuses) /\ Len(s) = Len(t) + 1
      /\ s[Len(t) + 1] = to /\ \A k \in 1 .. Len(t) : s[k] = t[k]
  BY <1>1, AppendProperties
<1>3. ASSUME NEW k \in 2 .. Len(s) PROVE s[k] = s[k - 1] \/ s[k] \in SEND_IN_TRANSITIONS[s[k - 1]]
  <2>1. CASE k = Len(t) + 1
    <3>1. s[k] = to /\ s[k - 1] = status
      BY <1>1, <1>2, <2>1 DEF Told
    <3> QED
      BY <3>1 DEF Allowed
  <2>2. CASE k # Len(t) + 1
    <3>1. k \in 2 .. Len(t) /\ k - 1 \in 1 .. Len(t)
      BY <1>1, <1>2, <1>3, <2>2
    <3> QED
      BY <1>2, <3>1 DEF Told
  <2> QED
    BY <2>1, <2>2
<1> QED
  BY <1>1, <1>2, <1>3 DEF Told

LEMMA InitTold == Init => ToldInv
BY DEF Init, ToldInv, Jobs

\* A step that leaves the timelines, the statuses and the updates.
LEMMA ToldQuiet ==
    ASSUME ToldInv, Jobs' = Jobs, \A j \in Jobs : job'[j].status = job[j].status,
           UNCHANGED <<timeline, upd, disturbed>>
    PROVE  ToldInv'
BY DEF ToldInv, Allowed

LEMMA CreateTold == Limits /\ TypeOK /\ ToldInv /\ CreateJob => ToldInv'
<1> SUFFICES ASSUME Limits, TypeOK, ToldInv, CreateJob, NEW j \in Jobs' \ disturbed' PROVE
        /\ Told(timeline'[j], job'[j].status)
        /\ \A u \in Updates : upd'[u].job = j =>
             /\ upd'[u].seen = job'[j].status
             /\ upd'[u].to = upd'[u].seen \/ Allowed(upd'[u].seen, upd'[u].to)
             /\ \A v \in Updates : upd'[v].job = j => u = v
  BY DEF ToldInv, Allowed
<1> DEFINE new == [status |-> "awaiting_item", tracking |-> FALSE, mockup |-> FALSE]
<1>1. new \in Row /\ job \in Seq(Row) /\ job' = Append(job, new) /\ Len(job) < MaxJobs
  BY DEF CreateJob, TypeOK, Row, Statuses
<1>2. /\ Len(job') = Len(job) + 1 /\ Len(job) \in Nat /\ job'[Len(job) + 1] = new
      /\ \A i \in 1 .. Len(job) : job'[i] = job[i]
      /\ job' \in Seq(Row)
  BY <1>1, AppendProperties, LenProperties
<1>3. Jobs = 1 .. Len(job) /\ Jobs' = 1 .. Len(job) + 1
  BY <1>1, <1>2, LenProperties DEF Jobs
<1>4. Len(job) + 1 \in Ids /\ timeline \in [Ids -> Seq(Statuses)] /\ Jobs \subseteq Ids
  BY <1>1, <1>2, <1>3 DEF Ids, Limits, TypeOK
<1>5. CASE j = Len(job) + 1
  <2>1. timeline'[j] = <<"awaiting_item">> /\ job'[j].status = "awaiting_item"
    BY <1>2, <1>4, <1>5 DEF CreateJob
  <2>2. Told(<<"awaiting_item">>, "awaiting_item")
    BY DEF Told, Statuses
  <2>3. \A u \in Updates : upd'[u].job # j
    <3>1. SUFFICES ASSUME NEW u \in Updates PROVE upd[u].job # j
      BY DEF CreateJob
    <3>2. upd[u].job = 0 \/ upd[u].job \in Jobs
      BY DEF TypeOK, Idle
    <3> QED
      BY <1>2, <1>3, <1>5, <3>2
  <2> QED
    BY <2>1, <2>2, <2>3
<1>6. CASE j # Len(job) + 1
  <2>1. j \in Jobs \ disturbed /\ job'[j] = job[j] /\ timeline'[j] = timeline[j]
    BY <1>2, <1>3, <1>4, <1>6 DEF CreateJob
  <2> QED
    BY <2>1 DEF ToldInv, CreateJob
<1> QED
  BY <1>5, <1>6

LEMMA TimerTold == TypeOK /\ ToldInv /\ (\E j \in Jobs : TimerFires(j)) => ToldInv'
<1> SUFFICES ASSUME TypeOK, ToldInv, NEW j \in Jobs, TimerFires(j) PROVE ToldInv'
  OBVIOUS
<1>1. \A i \in Jobs : job[i] \in Row
  BY Rows DEF TypeOK, Row
<1>2. job' = job \/ job' = [job EXCEPT ![j].mockup = TRUE]
  BY DEF TimerFires
<1>3. Jobs' = Jobs /\ \A i \in Jobs : job'[i].status = job[i].status
  BY <1>1, <1>2 DEF Jobs, Row
<1> QED
  BY <1>3, ToldQuiet DEF TimerFires

LEMMA SweepTold == TypeOK /\ ToldInv /\ Sweep => ToldInv'
<1> SUFFICES ASSUME TypeOK, ToldInv, Sweep PROVE ToldInv'
  OBVIOUS
<1>1. \A i \in Jobs : job[i] \in Row
  BY Rows DEF TypeOK, Row
<1>2. Jobs' = Jobs /\ \A i \in Jobs : job'[i].status = job[i].status
  BY <1>1 DEF Sweep, Jobs, Row
<1> QED
  BY <1>2, ToldQuiet DEF Sweep

LEMMA RestartTold == TypeOK /\ ToldInv /\ Restart => ToldInv'
<1> SUFFICES ASSUME TypeOK, ToldInv, Restart PROVE ToldInv'
  OBVIOUS
<1>1. Jobs = 1 .. Len(job) /\ Len(job) \in Nat /\ Jobs' = Jobs
  BY Rows DEF TypeOK, Row, Restart, Jobs
<1>2. \A u \in Updates : upd'[u].job = 0
  BY DEF Restart, Idle
<1> QED
  BY <1>1, <1>2 DEF ToldInv, Restart

LEMMA ReadTold ==
    ASSUME TypeOK, ToldInv, NEW u \in Updates, NEW j \in Jobs, NEW to \in Statuses,
           NEW track \in {"keep", "set", "clear"}, ReadJob(u, j, to, track)
    PROVE  ToldInv'
<1>1. /\ UNCHANGED <<job, timeline>> /\ Jobs' = Jobs /\ disturbed \subseteq disturbed'
      /\ upd[u] = Idle
      /\ upd' = [upd EXCEPT ![u] =
                   [job |-> j, seen |-> job[j].status, to |-> to, tracking |-> track]]
      /\ to # job[j].status => Allowed(job[j].status, to)
      /\ upd \in [Updates -> {Idle} \cup Update]
  BY DEF ReadJob, Jobs, TypeOK, Update
<1>2. SUFFICES ASSUME NEW i \in Jobs \ disturbed', NEW v \in Updates, upd'[v].job = i
               PROVE /\ upd'[v].seen = job[i].status
                     /\ upd'[v].to = upd'[v].seen \/ Allowed(upd'[v].seen, upd'[v].to)
                     /\ \A x \in Updates : upd'[x].job = i => v = x
  BY <1>1 DEF ToldInv, Allowed
<1>3. CASE i = j
  <2>1. \A x \in Updates : upd[x].job # j
    BY <1>2, <1>3 DEF ReadJob
  <2>2. v = u /\ \A x \in Updates : upd'[x].job = j => x = u
    BY <1>1, <1>2, <1>3, <2>1
  <2> QED
    BY <1>1, <1>3, <2>2
<1>4. CASE i # j
  <2>1. v # u /\ upd'[v] = upd[v] /\ \A x \in Updates : upd'[x].job = i => upd[x].job = i
    BY <1>1, <1>2, <1>4
  <2> QED
    BY <1>1, <1>2, <2>1 DEF ToldInv
<1> QED
  BY <1>3, <1>4

LEMMA WriteTold == Limits /\ TypeOK /\ ToldInv /\ (\E u \in Updates : WriteJob(u)) => ToldInv'
<1> SUFFICES ASSUME Limits, TypeOK, ToldInv, NEW u \in Updates, WriteJob(u) PROVE ToldInv'
  OBVIOUS
<1> DEFINE r == upd[u]
<1>1. /\ r \in Update /\ job' = [job EXCEPT ![r.job] = After(r, job[r.job])]
      /\ job' \in [Jobs -> Row] /\ job \in Seq(Row) /\ Jobs = 1 .. Len(job) /\ Len(job) \in Nat
  BY Written, Rows DEF TypeOK, Row
<1>2. r.job \in Jobs /\ r.to \in Statuses /\ Jobs' = Jobs /\ Jobs \subseteq Ids
  BY <1>1 DEF Update, Jobs, Ids, Limits, TypeOK
<1>3. /\ timeline' = [timeline EXCEPT ![r.job] = Append(timeline[r.job], r.to)]
      /\ upd' = [upd EXCEPT ![u] = Idle] /\ UNCHANGED disturbed
      /\ timeline \in [Ids -> Seq(Statuses)] /\ upd \in [Updates -> {Idle} \cup Update]
  BY DEF WriteJob, Records, TypeOK, Update
<1>4. SUFFICES ASSUME NEW j \in Jobs \ disturbed
               PROVE /\ Told(timeline'[j], job'[j].status)
                     /\ \A v \in Updates : upd'[v].job = j =>
                          /\ upd'[v].seen = job'[j].status
                          /\ upd'[v].to = upd'[v].seen \/ Allowed(upd'[v].seen, upd'[v].to)
                          /\ \A x \in Updates : upd'[x].job = j => v = x
  BY <1>2, <1>3 DEF ToldInv, Allowed
<1>5. CASE j = r.job
  <2>1. /\ Told(timeline[j], job[j].status) /\ r.seen = job[j].status
        /\ r.to = job[j].status \/ Allowed(job[j].status, r.to)
        /\ \A v \in Updates : upd[v].job = j => v = u
    BY <1>5 DEF ToldInv
  <2>2. job'[j].status = r.to
    BY <1>1, <1>5, <2>1 DEF After, Jobs, Row
  <2>3. timeline'[j] = Append(timeline[j], r.to)
    BY <1>2, <1>3, <1>5
  <2>4. Told(timeline'[j], r.to)
    BY <1>2, <2>1, <2>3, ToldMore
  <2>5. \A v \in Updates : upd'[v].job # j
    <3>1. upd'[u].job = 0 /\ j # 0
      BY <1>1, <1>3, <1>4 DEF Idle
    <3> QED
      BY <1>3, <2>1, <3>1
  <2> QED
    BY <2>2, <2>4, <2>5
<1>6. CASE j # r.job
  <2>1. job'[j] = job[j] /\ timeline'[j] = timeline[j]
    BY <1>1, <1>2, <1>3, <1>6 DEF Jobs
  <2>2. \A v \in Updates : upd'[v].job = j => upd'[v] = upd[v]
    <3>1. upd'[u].job = 0 /\ j # 0
      BY <1>1, <1>3, <1>4 DEF Idle
    <3> QED
      BY <1>3, <3>1
  <2> QED
    BY <2>1, <2>2 DEF ToldInv
<1> QED
  BY <1>5, <1>6

(* A timeline tells what happened to its job, for any number of updates     *)
(* that interleave (SendInService.update, forCustomer, toAdmin).           *)
THEOREM TimelinesTell == ASSUME Limits PROVE Spec => []TimelineTells
<1>1. Init => ToldInv
  BY InitTold
<1>2. TypeOK /\ ToldInv /\ [Next]_vars => ToldInv'
  <2> SUFFICES ASSUME TypeOK, ToldInv, [Next]_vars PROVE ToldInv'
    OBVIOUS
  <2>1. CASE UNCHANGED vars
    <3>1. Jobs' = Jobs /\ UNCHANGED <<job, timeline, upd, disturbed>>
      BY <2>1 DEF vars, Jobs
    <3> QED
      BY <3>1, ToldQuiet
  <2> QED
    BY <2>1, Steps, CreateTold, SweepTold, RestartTold, TimerTold, ReadTold, WriteTold
<1>3. ToldInv => TimelineTells
  BY DEF ToldInv, TimelineTells, Told, forCustomer, toAdmin, Allowed
<1> QED
  BY <1>1, <1>2, <1>3, JobTypes, PTL DEF Spec

\* The live jobs newer than j that have no picture.
Newer(j) == {i \in Missing : i > j}

\* However many were drawn or still can be: a job that can be drawn is older
\* than a sweep's fill of jobs without a picture.
CrowdInv == swept => \A j \in Missing \ Unreadable : Cardinality(Newer(j)) >= Limit

\* There are finitely many jobs.
LEMMA NewerFinite == ASSUME TypeOK PROVE
    /\ IsFiniteSet(Missing) /\ Missing \subseteq Nat
    /\ \A j : IsFiniteSet(Newer(j)) /\ Cardinality(Newer(j)) \in Nat
<1>1. Jobs = 1 .. Len(job) /\ Len(job) \in Nat
  BY Rows DEF TypeOK, Row
<1>2. IsFiniteSet(Jobs) /\ Jobs \subseteq Nat
  BY <1>1, FS_Interval
<1>3. IsFiniteSet(Missing) /\ Missing \subseteq Nat
  BY <1>2, FS_Subset DEF Missing
<1> QED
  BY <1>3, FS_Subset, FS_CardinalityType DEF Newer

LEMMA InitCrowd == Init => CrowdInv
BY DEF Init, CrowdInv

\* A step after which the same jobs are without a picture.
LEMMA CrowdQuiet ==
    ASSUME CrowdInv, swept' => swept, Missing' = Missing
    PROVE  CrowdInv'
BY DEF CrowdInv, Newer

\* The timer draws a job: those it stood before were already behind enough
\* others, for it was itself.
LEMMA TimerCrowd ==
    Limits /\ TypeOK /\ TypeOK' /\ CrowdInv /\ (\E j \in Jobs : TimerFires(j)) => CrowdInv'
<1> SUFFICES ASSUME Limits, TypeOK, TypeOK', CrowdInv, NEW j \in Jobs, TimerFires(j) PROVE CrowdInv'
  OBVIOUS
<1>1. Jobs = 1 .. Len(job) /\ Len(job) \in Nat /\ \A i \in Jobs : job[i] \in Row
  BY Rows DEF TypeOK, Row
<1>2. CASE job' = job
  <2>1. Missing' = Missing
    BY <1>2 DEF Missing, Jobs
  <2> QED
    BY <2>1, CrowdQuiet DEF TimerFires
<1>3. CASE j \notin Unreadable /\ job' = [job EXCEPT ![j].mockup = TRUE]
  <2>1. Missing' = Missing \ {j}
    BY <1>1, <1>3 DEF Missing, Jobs, Row
  <2>2. SUFFICES ASSUME swept, NEW i \in Missing' \ Unreadable PROVE Cardinality(Newer(i)') >= Limit
    BY DEF CrowdInv, TimerFires
  <2>3. i \in Missing \ Unreadable /\ i \in Nat /\ j \in Nat
    BY <1>1, <2>1, NewerFinite
  <2>4. CASE j \in Missing /\ j > i
    <3>1. Newer(j) \subseteq Newer(i)'
      <4>1. SUFFICES ASSUME NEW k \in Newer(j) PROVE k \in Missing' /\ k > i
        BY DEF Newer
      <4>2. k \in Missing /\ k > j /\ k \in Nat
        BY NewerFinite DEF Newer
      <4> QED
        BY <2>1, <2>3, <2>4, <4>2
    <3>2. Cardinality(Newer(j)) >= Limit
      BY <1>3, <2>2, <2>4 DEF CrowdInv
    <3>3. IsFiniteSet(Newer(i)')
      BY NewerFinite, <2>1, FS_Subset DEF Newer
    <3>4. Cardinality(Newer(j)) <= Cardinality(Newer(i)') /\ Cardinality(Newer(i)') \in Nat
      BY <3>1, <3>3, FS_Subset, FS_CardinalityType
    <3> QED
      BY <3>2, <3>4, NewerFinite DEF Limits
  <2>5. CASE ~(j \in Missing /\ j > i)
    <3>1. Newer(i)' = Newer(i)
      BY <2>1, <2>5 DEF Newer
    <3> QED
      BY <2>2, <2>3, <3>1 DEF CrowdInv
  <2> QED
    BY <2>4, <2>5
<1> QED
  BY <1>2, <1>3 DEF TimerFires

\* A sweep that draws nothing took the newest, and could draw none of them.
LEMMA SweepCrowd == Limits /\ TypeOK /\ Sweep => CrowdInv'
<1> SUFFICES ASSUME Limits, TypeOK, Sweep, swept'
             PROVE  \A j \in Missing' \ Unreadable : Cardinality(Newer(j)') >= Limit
  BY DEF CrowdInv
<1>1. PICK failing \in {{}} \cup {{j} : j \in Picked} :
         /\ job' = [j \in Jobs |-> IF j \in Picked \ (failing \cup Unreadable)
                                   THEN [job[j] EXCEPT !.mockup = TRUE] ELSE job[j]]
         /\ swept' = (failing = {} /\ Picked \subseteq Unreadable)
  BY DEF Sweep
<1>2. Jobs' = Jobs /\ \A j \in Jobs : job'[j] = job[j]
  BY <1>1 DEF Jobs
<1>3. Missing' = Missing
  BY <1>2 DEF Missing
<1>4. Picked \subseteq Unreadable
  BY <1>1
<1>5. ASSUME NEW j \in Missing \ Unreadable PROVE Cardinality(Newer(j)) >= Limit
  BY <1>4, <1>5, NewerFinite DEF Picked, Newer, Limits
<1>6. \A j : Newer(j)' = Newer(j)
  BY <1>3 DEF Newer
<1> QED
  BY <1>3, <1>5, <1>6

\* What an update writes takes no job from the crowd, but a cancellation, which
\* sets swept back.
LEMMA WriteCrowd == TypeOK /\ CrowdInv /\ (\E u \in Updates : WriteJob(u)) => CrowdInv'
<1> SUFFICES ASSUME TypeOK, CrowdInv, NEW u \in Updates, WriteJob(u) PROVE CrowdInv'
  OBVIOUS
<1> DEFINE r == upd[u]
<1>1. /\ r \in Update /\ job' = [job EXCEPT ![r.job] = After(r, job[r.job])]
      /\ \A i \in Jobs : job[i] \in Row
  BY Written, Rows DEF TypeOK, Row
<1>2. Jobs' = Jobs /\ r.job \in Jobs /\ \A i \in Jobs : job'[i].mockup = job[i].mockup
  BY <1>1 DEF Jobs, After, Row, Update
<1>3. \A i \in Jobs : i # r.job => job'[i] = job[i]
  BY <1>1 DEF Jobs
<1>4. CASE swept'
  <2>1. (job[r.job].status = "cancelled") = (job'[r.job].status = "cancelled")
    BY <1>4 DEF WriteJob
  <2>2. Missing' = Missing
    BY <1>2, <1>3, <2>1 DEF Missing
  <2> QED
    BY <2>2, CrowdQuiet DEF WriteJob
<1> QED
  BY <1>4 DEF CrowdInv

\* The newest job that can be drawn is behind a sweep's fill of those that
\* cannot.
LEMMA CrowdedOut == Limits /\ TypeOK /\ CrowdInv => DrawnUnlessCrowded
<1> SUFFICES ASSUME Limits, TypeOK, CrowdInv, swept, NEW j \in Missing \ Unreadable
             PROVE Cardinality({i \in Missing \cap Unreadable : i > j}) >= Limit
  BY DEF DrawnUnlessCrowded
<1> DEFINE Left == {Len(job) - i : i \in Missing \ Unreadable}
<1>1. Jobs = 1 .. Len(job) /\ Len(job) \in Nat /\ Missing \subseteq Jobs
  BY Rows DEF TypeOK, Row, Missing
<1>2. Left \in SUBSET Nat /\ Left # {}
  BY <1>1
<1>3. PICK n \in Left : \A k \in Left : n <= k
  <2>1. PICK n \in Left : \A k \in Left : <<k, n>> \notin OpToRel(<, Nat)
    <3> HIDE DEF Left
    <3> QED BY <1>2, NatLessThanWellFounded, WFMin
  <2>2. \A k \in Left : ~ (k < n)
    <3> HIDE DEF Left
    <3> QED BY <1>2, <2>1 DEF OpToRel
  <2> HIDE DEF Left
  <2> QED
    BY <1>2, <2>2
<1>4. PICK m \in Missing \ Unreadable : n = Len(job) - m
  BY <1>3
<1>5. \A i \in Missing \ Unreadable : i <= m
  <2>1. SUFFICES ASSUME NEW i \in Missing \ Unreadable PROVE i <= m
    OBVIOUS
  <2>2. Len(job) - i \in Left
    OBVIOUS
  <2>3. Len(job) - m <= Len(job) - i
    BY <1>3, <1>4, <2>2
  <2> QED
    BY <1>1, <2>3
<1>6. Newer(m) \subseteq {i \in Missing \cap Unreadable : i > j}
  <2>1. SUFFICES ASSUME NEW k \in Newer(m) PROVE k \in Missing \cap Unreadable /\ k > j
    OBVIOUS
  <2>2. k \in Missing /\ k > m /\ k \in Nat /\ m \in Nat /\ j \in Nat
    BY NewerFinite DEF Newer
  <2>3. j <= m
    BY <1>5
  <2>4. k \in Unreadable
    BY <1>5, <2>2
  <2> QED
    BY <2>2, <2>3, <2>4
<1>7. IsFiniteSet({i \in Missing \cap Unreadable : i > j})
  BY NewerFinite, FS_Subset
<1>8. Cardinality(Newer(m)) <= Cardinality({i \in Missing \cap Unreadable : i > j})
      /\ Cardinality({i \in Missing \cap Unreadable : i > j}) \in Nat
  BY <1>6, <1>7, FS_Subset, FS_CardinalityType
<1>9. Cardinality(Newer(m)) >= Limit /\ Cardinality(Newer(m)) \in Nat
  BY <1>4, NewerFinite DEF CrowdInv
<1> QED
  BY <1>8, <1>9 DEF Limits

(* Sweeps that find nothing left to draw have drawn all they can reach      *)
(* (SendInService.renderMissingMockups).                                   *)
THEOREM DrawnAll == ASSUME Limits PROVE Spec => []DrawnUnlessCrowded
<1>1. TypeOK /\ TypeOK' /\ CrowdInv /\ [Next]_vars => CrowdInv'
  <2> SUFFICES ASSUME TypeOK, TypeOK', CrowdInv, [Next]_vars PROVE CrowdInv'
    OBVIOUS
  <2>1. CASE \/ UNCHANGED vars
             \/ Restart
             \/ \E j \in Jobs, u \in Updates, to \in Statuses,
                   track \in {"keep", "set", "clear"} : ReadJob(u, j, to, track)
    <3>1. Missing' = Missing /\ swept' = swept
      BY <2>1 DEF vars, Restart, ReadJob, Missing, Jobs
    <3> QED
      BY <3>1, CrowdQuiet
  <2>2. CASE CreateJob
    BY <2>2 DEF CreateJob, CrowdInv
  <2> QED
    BY <2>1, <2>2, Steps, SweepCrowd, TimerCrowd, WriteCrowd
<1> QED
  BY <1>1, InitCrowd, CrowdedOut, JobTypes, PTL DEF Spec

-----------------------------------------------------------------------------
(* Who may follow an order.                                                *)

CONSTANTS Followed, Emails, Handsets, Visitors, MaxPerHour, MaxContacts, MaxOutages

VARIABLES contact, links, grants, sockets, ask, quota, moves, outages, had, linked, wrote

Access == INSTANCE OrderAccess WITH
    Orders <- Followed, Phones <- Handsets, MaxEdits <- MaxContacts, MaxFaults <- MaxOutages,
    order <- contact, edits <- moves, faults <- outages, sent <- linked

AccessLimits ==
    /\ Access!None \notin Followed \cup Emails \cup Handsets
    /\ IsFiniteSet(Visitors)
    /\ MaxPerHour \in Nat \ {0} /\ MaxContacts \in Nat /\ MaxOutages \in Nat

\* Whoever names one of these contacts knows the order by a contact it has had.
Known(o, cs) == had[o] \cap cs # {}

\* An order has a contact, and has had those it has.
HeldInv ==
    \A o \in Followed : contact[o] # Access!NoContact /\ Access!Contacts(o) \subseteq had[o]

\* A link goes to a contact of its order, and came to whoever reads one.
LinkedInv ==
    \A v \in Visitors :
        /\ ask[v].at # "idle" => ask[v].to \in had[ask[v].order]
        /\ \A o \in links[v] : Known(o, v.reads)

GrantedInv ==
    \A v \in Visitors : \A g \in grants[v] :
        Known(g.order, Access!Named(v)) /\ (g.level = "full" => Known(g.order, v.reads))

ThreadInv ==
    /\ \A v \in Visitors : \A o \in sockets[v] : Known(o, Access!Named(v))
    /\ \A v \in Visitors, o \in Followed : <<v, o>> \in wrote => Known(o, Access!Named(v))

EarnedInv == HeldInv /\ LinkedInv /\ GrantedInv /\ ThreadInv

LEMMA AccessInitTypes == AccessLimits /\ Access!Init => Access!TypeOK
<1> SUFFICES ASSUME AccessLimits, Access!Init PROVE Access!TypeOK
  OBVIOUS
<1>1. \A o \in Followed : Access!Contacts(o) \subseteq Emails \cup Handsets
  BY DEF Access!Init, Access!Contacts
<1> QED
  BY <1>1 DEF Access!Init, Access!TypeOK, AccessLimits, Access!Counts

LEMMA SessionTypes ==
    ASSUME Access!TypeOK, NEW v \in Visitors, NEW o \in Followed,
           NEW g \in grants[v] \cup {Access!NoGrant},
           NEW token \in BOOLEAN, NEW c, Access!session(v, o, g, token, c)
    PROVE  Access!TypeOK'
<1>1. Access!levelFor(o, g, token, c) \in {"status", "full"}
  BY DEF Access!session, Access!levelFor, Access!TypeOK, Access!Grants, Access!NoGrant
<1>2. [order |-> o, level |-> Access!levelFor(o, g, token, c)] \in Access!Grants
  BY <1>1 DEF Access!Grants
<1> QED
  BY <1>2 DEF Access!session, Access!TypeOK

LEMMA LinkTypes ==
    ASSUME AccessLimits, Access!TypeOK, NEW v \in Visitors, NEW o \in Followed, NEW g,
           NEW c, Access!accessLink(v, o, g, c),
           \A q \in Followed : contact[q] # Access!NoContact
    PROVE  Access!TypeOK'
<1> DEFINE to == IF Access!phoneMatches(o, c) \/ contact[o].email = Access!None
                 THEN contact[o].phone ELSE contact[o].email
<1>1. to \in Emails \cup Handsets
  BY DEF Access!TypeOK, Access!phoneMatches, Access!NoContact
<1>2. ask' = [ask EXCEPT ![v] = [at |-> "count", order |-> o, to |-> to]]
  BY DEF Access!accessLink
<1> HIDE DEF to
<1>3. ask' \in [Visitors -> {Access!Idle} \cup Access!Asking]
  BY <1>1, <1>2 DEF Access!TypeOK, Access!Asking
<1> QED
  BY <1>3 DEF Access!accessLink, Access!TypeOK

\* Idle or at a step of a request.
LEMMA Asked ==
    ASSUME Access!TypeOK, NEW v \in Visitors, ask[v].at # "idle"
    PROVE  ask[v] \in Access!Asking
BY DEF Access!TypeOK, Access!Idle

LEMMA GoTypes ==
    ASSUME Access!TypeOK, NEW v \in Visitors, NEW at \in {"idle", "expire", "send"},
           ask[v].at # "idle", Access!Go(v, at)
    PROVE  ask' \in [Visitors -> {Access!Idle} \cup Access!Asking]
BY Asked DEF Access!Go, Access!TypeOK, Access!Asking

LEMMA CountTypes ==
    ASSUME AccessLimits, Access!TypeOK, NEW v \in Visitors, Access!countLink(v)
    PROVE  Access!TypeOK'
<1>1. ask[v].order \in Followed /\ ask[v].at # "idle"
  BY Asked DEF Access!countLink, Access!Asking
<1>2. quota[ask[v].order] \in Access!Counts
  BY <1>1 DEF Access!TypeOK
<1>3. \E at \in {"idle", "expire", "send"} : Access!Go(v, at)
  <2> DEFINE n == quota[ask[v].order].n + 1
  <2>1. \/ Access!Go(v, IF n = 1 THEN "expire" ELSE IF Access!Within(n) THEN "send" ELSE "idle")
        \/ Access!Go(v, "idle")
    BY DEF Access!countLink
  <2> HIDE DEF n
  <2> QED
    BY <2>1
<1>4. quota' \in [Followed -> Access!Counts]
  <2> DEFINE q == ask[v].order
  <2>1. CASE quota' = [quota EXCEPT ![q].n = quota[q].n + 1] /\ quota[q].n <= MaxPerHour
    <3>1. quota[q].n + 1 \in 0 .. MaxPerHour + 1
      BY <1>2, <2>1 DEF AccessLimits, Access!Counts
    <3>2. [quota[q] EXCEPT !.n = quota[q].n + 1] \in Access!Counts
      BY <1>2, <3>1 DEF Access!Counts
    <3> QED
      BY <1>1, <2>1, <3>2 DEF Access!TypeOK
  <2>2. CASE quota' = quota
    BY <2>2 DEF Access!TypeOK
  <2>3. CASE quota[q].n <= MaxPerHour /\ quota' = [quota EXCEPT ![q].n = quota[q].n + 1]
    BY <2>1, <2>3
  <2> QED
    BY <2>2, <2>3 DEF Access!countLink
<1>5. outages' \in 0 .. MaxOutages
  BY DEF Access!countLink, Access!TypeOK, AccessLimits
<1> QED
  BY <1>1, <1>3, <1>4, <1>5, GoTypes DEF Access!countLink, Access!TypeOK

LEMMA ExpireTypes ==
    ASSUME AccessLimits, Access!TypeOK, NEW v \in Visitors, Access!expireLink(v)
    PROVE  Access!TypeOK'
<1>1. ask[v].order \in Followed /\ ask[v].at # "idle"
  BY Asked DEF Access!expireLink, Access!Asking
<1>2. \E at \in {"idle", "expire", "send"} : Access!Go(v, at)
  BY DEF Access!expireLink
<1>3. quota' \in [Followed -> Access!Counts]
  <2>1. quota[ask[v].order] \in Access!Counts
    BY <1>1 DEF Access!TypeOK
  <2>2. [quota[ask[v].order] EXCEPT !.ends = TRUE] \in Access!Counts
    BY <2>1 DEF Access!Counts
  <2> QED
    BY <1>1, <2>2 DEF Access!expireLink, Access!TypeOK
<1>4. outages' \in 0 .. MaxOutages
  BY DEF Access!expireLink, Access!TypeOK, AccessLimits
<1> QED
  BY <1>1, <1>2, <1>3, <1>4, GoTypes DEF Access!expireLink, Access!TypeOK

LEMMA SendTypes ==
    ASSUME Access!TypeOK, NEW v \in Visitors, Access!sendLink(v)
    PROVE  Access!TypeOK'
<1>1. ask[v].order \in Followed /\ ask[v].at # "idle"
  BY Asked DEF Access!sendLink, Access!Asking
<1>2. ask' \in [Visitors -> {Access!Idle} \cup Access!Asking]
  BY <1>1, GoTypes DEF Access!sendLink
<1>3. links' \in [Visitors -> SUBSET Followed]
  BY <1>1 DEF Access!sendLink, Access!TypeOK
<1>4. linked' \in [Followed -> Nat]
  <2>1. linked[ask[v].order] + 1 \in Nat
    BY <1>1 DEF Access!TypeOK
  <2> QED
    BY <1>1, <2>1 DEF Access!sendLink, Access!TypeOK
<1> QED
  BY <1>2, <1>3, <1>4 DEF Access!sendLink, Access!TypeOK

LEMMA HourTypes ==
    ASSUME AccessLimits, Access!TypeOK, NEW o \in Followed, Access!HourEnds(o)
    PROVE  Access!TypeOK'
<1>1. [n |-> 0, ends |-> FALSE] \in Access!Counts
  BY DEF AccessLimits, Access!Counts
<1> QED
  BY <1>1 DEF Access!HourEnds, Access!TypeOK

LEMMA ChangeTypes ==
    ASSUME AccessLimits, Access!TypeOK, NEW o \in Followed,
           NEW email \in Emails \cup {Access!None},
             NEW phone \in Handsets \cup {Access!None},
           Access!changeContact(o, email, phone)
    PROVE  Access!TypeOK'
<1>1. moves' \in 0 .. MaxContacts
  BY DEF Access!changeContact, Access!TypeOK, AccessLimits
<1>2. had' \in [Followed -> SUBSET (Emails \cup Handsets)]
  BY DEF Access!changeContact, Access!TypeOK
<1> QED
  BY <1>1, <1>2 DEF Access!changeContact, Access!TypeOK

LEMMA ThreadTypes ==
    ASSUME Access!TypeOK, NEW v \in Visitors, NEW o \in Followed,
           Access!wsTicket(v, o) \/ Access!disconnect(v, o) \/ Access!sendMessage(v, o)
    PROVE  Access!TypeOK'
<1>1. CASE Access!wsTicket(v, o)
  BY <1>1 DEF Access!wsTicket, Access!TypeOK
<1>2. CASE Access!disconnect(v, o)
  BY <1>2 DEF Access!disconnect, Access!TypeOK
<1>3. CASE Access!sendMessage(v, o)
  BY <1>3 DEF Access!sendMessage, Access!TypeOK
<1> QED
  BY <1>1, <1>2, <1>3

LEMMA GrantEndTypes ==
    ASSUME Access!TypeOK, NEW v \in Visitors, NEW g, Access!GrantEnds(v, g)
    PROVE  Access!TypeOK'
BY DEF Access!GrantEnds, Access!TypeOK

LEMMA NextTypes ==
    ASSUME AccessLimits, Access!TypeOK, EarnedInv, [Access!Next]_(Access!vars)
    PROVE  Access!TypeOK'
<1>1. CASE UNCHANGED Access!vars
  BY <1>1 DEF Access!vars, Access!TypeOK
<1>2. CASE \E v \in Visitors, o \in Followed : \E g \in grants[v] \cup {Access!NoGrant},
             c \in Access!Named(v) \cup {Access!None}, token \in BOOLEAN :
             Access!session(v, o, g, token, c)
  BY <1>2, SessionTypes
<1>3. CASE \E v \in Visitors, o \in Followed : \E g \in grants[v] \cup {Access!NoGrant},
             c \in Access!Named(v) \cup {Access!None} :
             Access!accessLink(v, o, g, c)
  BY <1>3, LinkTypes DEF EarnedInv, HeldInv
<1>4. CASE \E v \in Visitors, o \in Followed :
             Access!wsTicket(v, o) \/ Access!disconnect(v, o) \/ Access!sendMessage(v, o)
  BY <1>4, ThreadTypes
<1>5. CASE \E v \in Visitors :
             Access!countLink(v) \/ Access!expireLink(v) \/ Access!sendLink(v)
  BY <1>5, CountTypes, ExpireTypes, SendTypes
<1>6. CASE \E v \in Visitors : \E g \in grants[v] : Access!GrantEnds(v, g)
  BY <1>6, GrantEndTypes
<1>7. CASE \E o \in Followed : Access!HourEnds(o)
  BY <1>7, HourTypes
<1>8. CASE \E o \in Followed, email \in Emails \cup {Access!None},
             phone \in Handsets \cup {Access!None} : Access!changeContact(o, email, phone)
  BY <1>8, ChangeTypes
<1> QED
  BY <1>1, <1>2, <1>3, <1>4, <1>5, <1>6, <1>7, <1>8 DEF Access!Next

-----------------------------------------------------------------------------
LEMMA InitEarned == AccessLimits /\ Access!Init => EarnedInv
<1> SUFFICES ASSUME AccessLimits, Access!Init PROVE EarnedInv
  OBVIOUS
<1>1. HeldInv
  BY DEF Access!Init, HeldInv
<1> QED
  BY <1>1 DEF Access!Init, EarnedInv, LinkedInv, GrantedInv, ThreadInv, Access!Idle

\* A contact of an order is one it has had.
LEMMA Matched ==
    ASSUME AccessLimits, Access!TypeOK, HeldInv, NEW o \in Followed, NEW c,
           Access!emailMatches(o, c) \/ Access!phoneMatches(o, c)
    PROVE  c \in had[o]
<1>1. c \in Access!Contacts(o)
  BY DEF Access!emailMatches, Access!phoneMatches, Access!Contacts, AccessLimits
<1> QED
  BY <1>1 DEF HeldInv

\* What the order was known by, it is known by.
LEMMA EarnedKept ==
    ASSUME HeldInv, UNCHANGED <<contact, had>>
    PROVE  HeldInv' /\ \A o, cs : Known(o, cs)' <=> Known(o, cs)
BY DEF HeldInv, Known, Access!Contacts

LEMMA SessionEarned ==
    ASSUME AccessLimits, Access!TypeOK, EarnedInv, NEW v \in Visitors, NEW o \in Followed,
           NEW g \in grants[v] \cup {Access!NoGrant},
           NEW token \in BOOLEAN, NEW c \in Access!Named(v) \cup {Access!None},
             Access!session(v, o, g, token, c)
    PROVE  EarnedInv'
<1> DEFINE level == Access!levelFor(o, g, token, c)
<1>1. Known(o, Access!Named(v)) /\ (level = "full" => Known(o, v.reads))
  <2>1. CASE g # Access!NoGrant /\ Access!GrantFor(g, o)
    BY <2>1 DEF EarnedInv, GrantedInv, Access!levelFor, Access!GrantFor
  <2>2. CASE ~(g # Access!NoGrant /\ Access!GrantFor(g, o)) /\ token
    <3>1. Known(o, v.reads)
      BY <2>2 DEF Access!session, EarnedInv, LinkedInv
    <3> QED
      BY <3>1 DEF Known, Access!Named
  <2>3. CASE ~(g # Access!NoGrant /\ Access!GrantFor(g, o)) /\ ~token
    <3>1. Access!emailMatches(o, c) \/ Access!phoneMatches(o, c)
      BY <2>3 DEF Access!session, Access!levelFor
    <3>2. level = "status" /\ c # Access!None
      BY <2>3, <3>1 DEF Access!levelFor, Access!session
    <3>3. c \in had[o]
      BY <3>1, Matched DEF EarnedInv
    <3> QED
      BY <3>2, <3>3 DEF Known
  <2> QED
    BY <2>1, <2>2, <2>3
<1>2. \A w \in Visitors :
        grants'[w] \subseteq grants[w] \cup {x \in {[order |-> o, level |-> level]} : w = v}
  BY DEF Access!session, Access!TypeOK
<1> HIDE DEF level
<1>3. HeldInv' /\ \A q, cs : Known(q, cs)' <=> Known(q, cs)
  BY EarnedKept DEF Access!session, EarnedInv
<1>4. GrantedInv'
  <2> SUFFICES ASSUME NEW w \in Visitors, NEW h \in grants'[w]
               PROVE  /\ Known(h.order, Access!Named(w))
                      /\ (h.level = "full" => Known(h.order, w.reads))
    BY <1>3 DEF GrantedInv
  <2>1. CASE h \in grants[w]
    BY <2>1 DEF EarnedInv, GrantedInv
  <2>2. CASE w = v /\ h = [order |-> o, level |-> level]
    BY <1>1, <2>2
  <2> QED
    BY <1>2, <2>1, <2>2
<1>5. LinkedInv' /\ ThreadInv'
  BY <1>3 DEF Access!session, EarnedInv, LinkedInv, ThreadInv
<1> QED
  BY <1>3, <1>4, <1>5 DEF EarnedInv

LEMMA LinkEarned ==
    ASSUME AccessLimits, Access!TypeOK, EarnedInv, NEW v \in Visitors, NEW o \in Followed,
           NEW g, NEW c, Access!accessLink(v, o, g, c)
    PROVE  EarnedInv'
<1> DEFINE to == IF Access!phoneMatches(o, c) \/ contact[o].email = Access!None
                 THEN contact[o].phone ELSE contact[o].email
<1>1. to \in had[o]
  <2>1. contact[o].email # Access!None \/ contact[o].phone # Access!None
    BY DEF EarnedInv, HeldInv, Access!TypeOK, Access!NoContact
  <2>2. to # Access!None
    BY <2>1 DEF Access!phoneMatches, AccessLimits
  <2> QED
    BY <2>2 DEF EarnedInv, HeldInv, Access!Contacts
<1>2. ask' = [ask EXCEPT ![v] = [at |-> "count", order |-> o, to |-> to]]
  BY DEF Access!accessLink
<1> HIDE DEF to
<1>3. HeldInv' /\ \A q, cs : Known(q, cs)' <=> Known(q, cs)
  BY EarnedKept DEF Access!accessLink, EarnedInv
<1>4. LinkedInv'
  BY <1>1, <1>2, <1>3 DEF Access!accessLink, EarnedInv, LinkedInv, Access!TypeOK
<1>5. GrantedInv' /\ ThreadInv'
  BY <1>3 DEF Access!accessLink, EarnedInv, GrantedInv, ThreadInv
<1> QED
  BY <1>3, <1>4, <1>5 DEF EarnedInv

\* A request that goes on asks for the same order, at the same contact.
LEMMA OnwardEarned ==
    ASSUME Access!TypeOK, EarnedInv, NEW v \in Visitors, NEW at, Access!Go(v, at),
           ask[v].at # "idle",
           UNCHANGED <<contact, links, grants, sockets, had, wrote>>
    PROVE  EarnedInv'
<1>1. HeldInv' /\ \A q, cs : Known(q, cs)' <=> Known(q, cs)
  BY EarnedKept DEF EarnedInv
<1>2. \A w \in Visitors : ask'[w].at # "idle" =>
        ask[w].at # "idle" /\ ask'[w].to = ask[w].to /\ ask'[w].order = ask[w].order
  <2>1. ask[v] \in Access!Asking
    BY Asked
  <2> QED
    BY <2>1 DEF Access!Go, Access!TypeOK, Access!Idle
<1>3. LinkedInv'
  BY <1>1, <1>2 DEF EarnedInv, LinkedInv
<1>4. GrantedInv' /\ ThreadInv'
  BY <1>1 DEF EarnedInv, GrantedInv, ThreadInv
<1> QED
  BY <1>1, <1>3, <1>4 DEF EarnedInv

LEMMA SendEarned ==
    ASSUME Access!TypeOK, EarnedInv, NEW v \in Visitors, Access!sendLink(v)
    PROVE  EarnedInv'
<1>1. HeldInv' /\ \A q, cs : Known(q, cs)' <=> Known(q, cs)
  BY EarnedKept DEF EarnedInv, Access!sendLink
<1>2. \A w \in Visitors : ask'[w].at # "idle" =>
        ask[w].at # "idle" /\ ask'[w].to = ask[w].to /\ ask'[w].order = ask[w].order
  BY DEF Access!sendLink, Access!Go, Access!TypeOK, Access!Idle
<1>3. \A w \in Visitors : \A o \in links'[w] : Known(o, w.reads)
  <2>1. SUFFICES ASSUME NEW w \in Visitors, NEW o \in links'[w], o \notin links[w]
                 PROVE  Known(o, w.reads)
    BY DEF EarnedInv, LinkedInv
  <2>2. o = ask[v].order /\ ask[v].to \in w.reads /\ ask[v].at # "idle"
    BY <2>1 DEF Access!sendLink, Access!Readers
  <2> QED
    BY <2>2 DEF EarnedInv, LinkedInv, Known
<1>4. LinkedInv'
  <2>1. had' = had
    BY DEF Access!sendLink
  <2> QED
    BY <1>1, <1>2, <1>3, <2>1 DEF EarnedInv, LinkedInv
<1>5. GrantedInv' /\ ThreadInv'
  BY <1>1 DEF EarnedInv, GrantedInv, ThreadInv, Access!sendLink
<1> QED
  BY <1>1, <1>4, <1>5 DEF EarnedInv

LEMMA ThreadEarned ==
    ASSUME Access!TypeOK, EarnedInv, NEW v \in Visitors, NEW o \in Followed,
           Access!wsTicket(v, o) \/ Access!disconnect(v, o) \/ Access!sendMessage(v, o)
    PROVE  EarnedInv'
<1>1. UNCHANGED <<contact, links, grants, ask, had>>
  BY DEF Access!wsTicket, Access!disconnect, Access!sendMessage
<1>2. HeldInv' /\ \A q, cs : Known(q, cs)' <=> Known(q, cs)
  BY <1>1, EarnedKept DEF EarnedInv
<1>3. LinkedInv' /\ GrantedInv'
  BY <1>1, <1>2 DEF EarnedInv, LinkedInv, GrantedInv
<1>4. ThreadInv'
  <2>1. CASE Access!wsTicket(v, o)
    <3>1. Known(o, Access!Named(v))
      BY <2>1 DEF Access!wsTicket, Access!Opens, EarnedInv, GrantedInv
    <3> QED
      BY <1>2, <2>1, <3>1 DEF Access!wsTicket, EarnedInv, ThreadInv, Access!TypeOK
  <2>2. CASE Access!disconnect(v, o)
    BY <1>2, <2>2 DEF Access!disconnect, EarnedInv, ThreadInv, Access!TypeOK
  <2>3. CASE Access!sendMessage(v, o)
    <3>1. Known(o, Access!Named(v))
      BY <2>3 DEF Access!sendMessage, Access!Opens, EarnedInv, GrantedInv, ThreadInv
    <3> QED
      BY <1>2, <2>3, <3>1 DEF Access!sendMessage, EarnedInv, ThreadInv
  <2> QED
    BY <2>1, <2>2, <2>3
<1> QED
  BY <1>2, <1>3, <1>4 DEF EarnedInv

LEMMA GrantEndEarned ==
    ASSUME Access!TypeOK, EarnedInv, NEW v \in Visitors, NEW g, Access!GrantEnds(v, g)
    PROVE  EarnedInv'
<1>1. HeldInv' /\ \A q, cs : Known(q, cs)' <=> Known(q, cs)
  BY EarnedKept DEF EarnedInv, Access!GrantEnds
<1>2. \A w \in Visitors : grants'[w] \subseteq grants[w]
  BY DEF Access!GrantEnds, Access!TypeOK
<1>3. GrantedInv'
  BY <1>1, <1>2 DEF EarnedInv, GrantedInv
<1>4. LinkedInv' /\ ThreadInv'
  BY <1>1 DEF EarnedInv, LinkedInv, ThreadInv, Access!GrantEnds
<1> QED
  BY <1>1, <1>3, <1>4 DEF EarnedInv

LEMMA ChangeEarned ==
    ASSUME AccessLimits, Access!TypeOK, EarnedInv, NEW o \in Followed,
           NEW email \in Emails \cup {Access!None},
           NEW phone \in Handsets \cup {Access!None}, Access!changeContact(o, email, phone)
    PROVE  EarnedInv'
<1>1. \A q \in Followed :
        /\ had[q] \subseteq had'[q]
        /\ contact'[q] = IF q = o THEN [email |-> email, phone |-> phone] ELSE contact[q]
  BY DEF Access!changeContact, Access!TypeOK
<1>2. had'[o] = had[o] \cup ({email, phone} \ {Access!None})
  BY DEF Access!changeContact, Access!TypeOK
<1>3. HeldInv'
  <2>1. {email, phone} # {Access!None} => email # Access!None \/ phone # Access!None
    OBVIOUS
  <2>2. Access!NoContact.email = Access!None /\ Access!NoContact.phone = Access!None
    BY DEF Access!NoContact
  <2>3. [email |-> email, phone |-> phone] # Access!NoContact
    BY <2>1, <2>2 DEF Access!changeContact
  <2> QED
    BY <1>1, <1>2, <2>3 DEF EarnedInv, HeldInv, Access!Contacts
<1>4. \A q \in Followed : \A cs : Known(q, cs) => Known(q, cs)'
  BY <1>1 DEF Known
<1>5. LinkedInv'
  <2>1. \A w \in Visitors : links[w] \subseteq Followed
          /\ (ask[w].at # "idle" => ask[w].order \in Followed)
    BY DEF Access!TypeOK, Access!Idle, Access!Asking
  <2> QED
    BY <1>1, <1>4, <2>1 DEF Access!changeContact, EarnedInv, LinkedInv
<1>6. GrantedInv'
  <2>1. \A w \in Visitors : \A g \in grants[w] : g.order \in Followed
    BY DEF Access!TypeOK, Access!Grants
  <2> QED
    BY <1>4, <2>1 DEF Access!changeContact, EarnedInv, GrantedInv
<1>7. ThreadInv'
  <2>1. \A w \in Visitors : sockets[w] \subseteq Followed
    BY DEF Access!TypeOK
  <2> QED
    BY <1>4, <2>1 DEF Access!changeContact, EarnedInv, ThreadInv
<1> QED
  BY <1>3, <1>5, <1>6, <1>7 DEF EarnedInv

LEMMA NextEarned ==
    ASSUME AccessLimits, Access!TypeOK, EarnedInv, [Access!Next]_(Access!vars)
    PROVE  EarnedInv'
<1>1. CASE UNCHANGED Access!vars
  BY <1>1, EarnedKept DEF Access!vars, EarnedInv, LinkedInv, GrantedInv, ThreadInv
<1>2. CASE \E v \in Visitors, o \in Followed : \E g \in grants[v] \cup {Access!NoGrant},
             c \in Access!Named(v) \cup {Access!None}, token \in BOOLEAN :
             Access!session(v, o, g, token, c)
  BY <1>2, SessionEarned
<1>3. CASE \E v \in Visitors, o \in Followed : \E g \in grants[v] \cup {Access!NoGrant},
             c \in Access!Named(v) \cup {Access!None} :
             Access!accessLink(v, o, g, c)
  BY <1>3, LinkEarned
<1>4. CASE \E v \in Visitors, o \in Followed :
             Access!wsTicket(v, o) \/ Access!disconnect(v, o) \/ Access!sendMessage(v, o)
  BY <1>4, ThreadEarned
<1>5. CASE \E v \in Visitors : Access!countLink(v) \/ Access!expireLink(v)
  <2> SUFFICES ASSUME NEW v \in Visitors, Access!countLink(v) \/ Access!expireLink(v)
               PROVE  EarnedInv'
    BY <1>5
  <2>1. ask[v].at # "idle" /\ (\E at : Access!Go(v, at))
          /\ UNCHANGED <<contact, links, grants, sockets, had, wrote>>
    BY DEF Access!countLink, Access!expireLink
  <2> QED
    BY <2>1, OnwardEarned
<1>6. CASE \E v \in Visitors : Access!sendLink(v)
  BY <1>6, SendEarned
<1>7. CASE \E v \in Visitors : \E g \in grants[v] : Access!GrantEnds(v, g)
  BY <1>7, GrantEndEarned
<1>8. CASE \E o \in Followed : Access!HourEnds(o)
  BY <1>8, EarnedKept DEF Access!HourEnds, EarnedInv, LinkedInv, GrantedInv, ThreadInv
<1>9. CASE \E o \in Followed, email \in Emails \cup {Access!None},
             phone \in Handsets \cup {Access!None} : Access!changeContact(o, email, phone)
  BY <1>9, ChangeEarned
<1> QED
  BY <1>1, <1>2, <1>3, <1>4, <1>5, <1>6, <1>7, <1>8, <1>9 DEF Access!Next


-----------------------------------------------------------------------------
\* The requests for an order's link that were counted and not answered yet.
Mailing(o) == {v \in Visitors : ask[v].order = o /\ ask[v].at \in {"expire", "send"}}

\* Each link sent or about to be sent was counted within the hour's limit.
CountedOf(o) ==
    /\ linked[o] + Cardinality(Mailing(o)) <= quota[o].n
    /\ linked[o] + Cardinality(Mailing(o)) <= MaxPerHour
    /\ quota[o].n > 0 /\ ~ quota[o].ends =>
         outages > 0 \/ \E v \in Visitors : ask[v].order = o /\ ask[v].at = "expire"
CountedInv == \A o \in Followed : CountedOf(o)

LEMMA InitCounted == AccessLimits /\ Access!Init => CountedInv
<1> SUFFICES ASSUME AccessLimits, Access!Init, NEW o \in Followed PROVE CountedOf(o)
  BY DEF CountedInv
<1>1. Mailing(o) = {}
  BY DEF Access!Init, Mailing, Access!Idle
<1> QED
  BY <1>1, FS_EmptySet DEF Access!Init, CountedOf, AccessLimits

\* There are finitely many visitors.
LEMMA MailingFinite == ASSUME AccessLimits, NEW o PROVE
    /\ IsFiniteSet(Mailing(o)) /\ Cardinality(Mailing(o)) \in Nat
    /\ IsFiniteSet(Mailing(o)') /\ Cardinality(Mailing(o)') \in Nat
<1>1. Mailing(o) \subseteq Visitors /\ Mailing(o)' \subseteq Visitors
  BY DEF Mailing
<1> QED
  BY <1>1, FS_Subset, FS_CardinalityType DEF AccessLimits

\* A step that leaves the counts alone, and begins and ends no mailing.
LEMMA CountedQuiet ==
    ASSUME CountedInv, UNCHANGED <<quota, linked, outages>>,
           \A v \in Visitors :
               ask'[v].at \in {"expire", "send"} \/ ask[v].at \in {"expire", "send"} => ask'[v] = ask[v]
    PROVE  CountedInv'
<1> SUFFICES ASSUME NEW o \in Followed PROVE CountedOf(o)'
  BY DEF CountedInv
<1>1. Mailing(o)' = Mailing(o)
  BY DEF Mailing
<1> QED
  BY <1>1 DEF CountedInv, CountedOf

LEMMA CountCounted ==
    ASSUME AccessLimits, Access!TypeOK, CountedInv, NEW v \in Visitors, Access!countLink(v)
    PROVE  CountedInv'
<1> DEFINE q == ask[v].order
<1>1. /\ q \in Followed /\ quota[q].n \in 0 .. MaxPerHour + 1 /\ quota[q].ends \in BOOLEAN
      /\ outages \in Nat
      /\ (\A o \in Followed : linked[o] \in Nat) /\ ask[v] \in Access!Asking
  BY Asked DEF Access!countLink, Access!TypeOK, AccessLimits, Access!Asking, Access!Counts
<1> SUFFICES ASSUME NEW o \in Followed PROVE CountedOf(o)'
  BY DEF CountedInv
<1>2. v \notin Mailing(o)
  BY DEF Mailing, Access!countLink
<1>3. \A w \in Visitors \ {v} : ask'[w] = ask[w]
  BY DEF Access!countLink, Access!Go, Access!TypeOK
<1>7. ask[v].at # "expire"
  BY DEF Access!countLink
<1>4. CASE o # q
  <2>1. ask'[v].order # o \/ ask'[v].at = "idle"
    BY <1>1, <1>4 DEF Access!countLink, Access!TypeOK, Access!Go, Access!Idle, Access!Asking
  <2>2. Mailing(o)' = Mailing(o)
    BY <1>2, <1>3, <2>1 DEF Mailing
  <2>3. quota'[o] = quota[o] /\ linked' = linked
    BY <1>1, <1>4 DEF Access!countLink, Access!TypeOK
  <2>4. outages' \in Nat /\ outages' >= outages
    BY <1>1 DEF Access!countLink
  <2>5. \A w \in Visitors : ask[w].order = o => w # v
    BY <1>4
  <2> QED
    BY <1>1, <1>3, <2>2, <2>3, <2>4, <2>5 DEF CountedInv, CountedOf
<1>5. CASE /\ o = q /\ quota[q].n <= MaxPerHour
           /\ quota' = [quota EXCEPT ![q].n = quota[q].n + 1]
           /\ Access!Go(v, IF quota[q].n + 1 = 1 THEN "expire"
                           ELSE IF Access!Within(quota[q].n + 1) THEN "send" ELSE "idle")
           /\ UNCHANGED outages
  <2>1. quota'[q].n = quota[q].n + 1 /\ quota'[q].ends = quota[q].ends /\ linked' = linked
    BY <1>1, <1>5 DEF Access!TypeOK, Access!countLink
  <2>2. CASE quota[q].n + 1 <= MaxPerHour
    <3>1. Mailing(o)' = Mailing(o) \cup {v}
            /\ (quota[q].n = 0 => ask'[v].order = q /\ ask'[v].at = "expire")
      BY <1>1, <1>3, <1>5, <2>2 DEF Mailing, Access!Go, Access!Within, Access!TypeOK
    <3>2. Cardinality(Mailing(o)') = Cardinality(Mailing(o)) + 1
      BY <3>1, <1>2, MailingFinite, FS_AddElement
    <3>3. Cardinality(Mailing(o)) \in Nat
      BY MailingFinite
    <3>4. CASE quota[q].n = 0
      BY <1>1, <1>5, <2>1, <2>2, <3>1, <3>2, <3>3, <3>4 DEF CountedInv, CountedOf
    <3>5. CASE quota[q].n # 0
      <4>1. quota[q].n > 0 /\ quota[q].n \in Nat
        BY <1>1, <3>5
      <4>2. ~ quota'[o].ends =>
              outages' > 0 \/ \E w \in Visitors : ask'[w].order = o /\ ask'[w].at = "expire"
        BY <1>3, <1>5, <1>7, <2>1, <4>1 DEF CountedInv, CountedOf
      <4>3. linked[o] + Cardinality(Mailing(o)) <= quota[q].n
        BY <1>5 DEF CountedInv, CountedOf
      <4>4. linked[o] \in Nat /\ linked'[o] = linked[o] /\ quota'[o].n = quota[q].n + 1
        BY <1>1, <1>5, <2>1
      <4> HIDE DEF q
      <4> QED
        BY <2>2, <3>2, <3>3, <4>1, <4>2, <4>3, <4>4 DEF CountedOf, AccessLimits
    <3> QED
      BY <3>4, <3>5
  <2>3. CASE quota[q].n + 1 > MaxPerHour
    <3>1. quota[q].n + 1 # 1 /\ ask'[v] = Access!Idle
      BY <1>1, <1>5, <2>3 DEF Access!Go, Access!Within, Access!TypeOK, AccessLimits
    <3>2. Mailing(o)' = Mailing(o)
      BY <1>2, <1>3, <3>1 DEF Mailing, Access!Idle
    <3>3. quota[q].n > 0 /\ quota[q].n \in Nat /\ Cardinality(Mailing(o)) \in Nat
      BY <1>1, <3>1, MailingFinite
    <3>4. ~ quota'[o].ends =>
            outages' > 0 \/ \E w \in Visitors : ask'[w].order = o /\ ask'[w].at = "expire"
      BY <1>3, <1>5, <1>7, <2>1, <3>3 DEF CountedInv, CountedOf
    <3> QED
      BY <1>1, <1>5, <2>1, <3>2, <3>3, <3>4 DEF CountedInv, CountedOf
  <2> QED
    BY <1>1, <2>2, <2>3 DEF AccessLimits
<1>6. CASE o = q /\ Access!Go(v, "idle") /\ UNCHANGED quota /\ outages' >= outages
  <2>1. Mailing(o)' = Mailing(o) /\ linked' = linked
    BY <1>1, <1>2, <1>3, <1>6 DEF Mailing, Access!Go, Access!Idle, Access!TypeOK,
       Access!countLink
  <2>2. outages > 0 => outages' > 0
    BY <1>1 DEF Access!countLink
  <2>3. \A w \in Visitors : ask[w].at = "expire" => ask'[w] = ask[w]
    BY <1>3, <1>7
  <2> QED
    BY <1>6, <2>1, <2>2, <2>3 DEF CountedInv, CountedOf
<1> QED
  BY <1>1, <1>4, <1>5, <1>6 DEF Access!countLink

LEMMA ExpireCounted ==
    ASSUME AccessLimits, Access!TypeOK, CountedInv, NEW v \in Visitors, Access!expireLink(v)
    PROVE  CountedInv'
<1> DEFINE q == ask[v].order
<1>1. q \in Followed /\ outages \in Nat /\ ask[v].at = "expire"
        /\ (\A o \in Followed : linked[o] \in Nat /\ quota[o].n \in Nat)
      /\ ask[v] \in Access!Asking
  BY Asked DEF Access!expireLink, Access!TypeOK, AccessLimits, Access!Asking, Access!Counts
<1> SUFFICES ASSUME NEW o \in Followed PROVE CountedOf(o)'
  BY DEF CountedInv
<1>2. \A w \in Visitors \ {v} : ask'[w] = ask[w]
  BY DEF Access!expireLink, Access!Go, Access!TypeOK
<1>3. linked' = linked /\ quota'[o].n = quota[o].n /\ (o # q => quota'[o] = quota[o])
        /\ outages' \in Nat /\ outages' >= outages
  BY <1>1 DEF Access!expireLink, Access!TypeOK, Access!Counts
<1>4. Mailing(o)' \subseteq Mailing(o)
  BY <1>1, <1>2 DEF Mailing, Access!expireLink, Access!Go, Access!Idle, Access!TypeOK,
     Access!Asking
<1>5. Cardinality(Mailing(o)') <= Cardinality(Mailing(o))
        /\ Cardinality(Mailing(o)') \in Nat /\ Cardinality(Mailing(o)) \in Nat
  BY <1>4, MailingFinite, FS_Subset
<1>6. quota'[o].n > 0 /\ ~ quota'[o].ends =>
        outages' > 0 \/ \E w \in Visitors : ask'[w].order = o /\ ask'[w].at = "expire"
  <2>1. CASE quota' = [quota EXCEPT ![q].ends = TRUE]
    <3>1. o = q => quota'[o].ends
      BY <1>1, <2>1 DEF Access!TypeOK
    <3>2. \A w \in Visitors : ask[w].order = o /\ o # q => w # v
      OBVIOUS
    <3> QED
      BY <1>1, <1>2, <1>3, <3>1, <3>2 DEF CountedInv, CountedOf
  <2>2. CASE outages' = outages + 1
    BY <1>1, <2>2
  <2> QED
    BY <2>1, <2>2 DEF Access!expireLink
<1>7. linked[o] + Cardinality(Mailing(o)) <= quota[o].n
        /\ linked[o] + Cardinality(Mailing(o)) <= MaxPerHour
  BY DEF CountedInv, CountedOf
<1>8. linked[o] \in Nat /\ quota[o].n \in Nat /\ linked'[o] = linked[o]
  BY <1>1, <1>3
<1> QED
  BY <1>3, <1>5, <1>6, <1>7, <1>8 DEF CountedOf, AccessLimits

LEMMA SendCounted ==
    ASSUME AccessLimits, Access!TypeOK, CountedInv, NEW v \in Visitors, Access!sendLink(v)
    PROVE  CountedInv'
<1> DEFINE q == ask[v].order
<1>1. q \in Followed /\ ask[v].at = "send"
        /\ (\A o \in Followed : linked[o] \in Nat /\ quota[o].n \in Nat)
  BY Asked DEF Access!sendLink, Access!TypeOK, AccessLimits, Access!Asking, Access!Counts
<1> SUFFICES ASSUME NEW o \in Followed PROVE CountedOf(o)'
  BY DEF CountedInv
<1>2. (\A w \in Visitors \ {v} : ask'[w] = ask[w]) /\ ask'[v].at = "idle"
  BY DEF Access!sendLink, Access!Go, Access!Idle, Access!TypeOK
<1>3. UNCHANGED <<quota, outages>> /\ linked'[o] = linked[o] + (IF o = q THEN 1 ELSE 0)
  BY <1>1 DEF Access!sendLink, Access!TypeOK
<1>4. CASE o # q
  <2>1. Mailing(o)' = Mailing(o)
    BY <1>2, <1>4 DEF Mailing
  <2> QED
    BY <1>1, <1>2, <1>3, <1>4, <2>1 DEF CountedInv, CountedOf
<1>5. CASE o = q
  <2>1. v \in Mailing(o) /\ Mailing(o)' = Mailing(o) \ {v}
    BY <1>1, <1>2, <1>5 DEF Mailing
  <2>2. Cardinality(Mailing(o)') = Cardinality(Mailing(o)) - 1
          /\ Cardinality(Mailing(o)) \in Nat
    BY <2>1, MailingFinite, FS_RemoveElement
  <2>3. quota'[o].n > 0 /\ ~ quota'[o].ends =>
          outages' > 0 \/ \E w \in Visitors : ask'[w].order = o /\ ask'[w].at = "expire"
    <3>1. \A w \in Visitors : ask[w].at = "expire" => w # v
      BY <1>1
    <3> QED
      BY <1>2, <1>3, <3>1 DEF CountedInv, CountedOf
  <2>4. linked[o] \in Nat /\ quota[o].n \in Nat /\ linked'[o] = linked[o] + 1
          /\ quota' = quota
    BY <1>1, <1>3, <1>5
  <2> QED
    BY <2>2, <2>3, <2>4 DEF CountedInv, CountedOf
<1> QED
  BY <1>4, <1>5

LEMMA HourCounted ==
    ASSUME AccessLimits, Access!TypeOK, CountedInv, NEW q \in Followed, Access!HourEnds(q)
    PROVE  CountedInv'
<1> SUFFICES ASSUME NEW o \in Followed PROVE CountedOf(o)'
  BY DEF CountedInv
<1>1. Mailing(o)' = Mailing(o) /\ UNCHANGED <<ask, outages>>
  BY DEF Mailing, Access!HourEnds
<1>2. CASE o # q
  BY <1>1, <1>2 DEF Access!HourEnds, CountedInv, CountedOf, Access!TypeOK
<1>3. CASE o = q
  <2>1. Mailing(o) = {} /\ quota'[o].n = 0 /\ linked'[o] = 0
    BY <1>3 DEF Access!HourEnds, Mailing, Access!TypeOK
  <2> QED
    BY <1>1, <2>1, FS_EmptySet DEF CountedOf, AccessLimits
<1> QED
  BY <1>2, <1>3

LEMMA NextCounted ==
    ASSUME AccessLimits, Access!TypeOK, CountedInv, [Access!Next]_(Access!vars)
    PROVE  CountedInv'
<1>1. CASE UNCHANGED <<ask, quota, linked, outages>>
  BY <1>1, CountedQuiet
<1>2. CASE \E v \in Visitors, o \in Followed : \E g \in grants[v] \cup {Access!NoGrant},
             c \in Access!Named(v) \cup {Access!None} :
             Access!accessLink(v, o, g, c)
  <2>1. \A v \in Visitors :
          ask'[v].at \in {"expire", "send"} \/ ask[v].at \in {"expire", "send"} => ask'[v] = ask[v]
    BY <1>2 DEF Access!accessLink, Access!Idle, Access!TypeOK
  <2> QED
    BY <1>2, <2>1, CountedQuiet DEF Access!accessLink
<1>3. CASE \E v \in Visitors :
             Access!countLink(v) \/ Access!expireLink(v) \/ Access!sendLink(v)
  BY <1>3, CountCounted, ExpireCounted, SendCounted
<1>4. CASE \E o \in Followed : Access!HourEnds(o)
  BY <1>4, HourCounted
<1>5. CASE \E v \in Visitors, o \in Followed :
             Access!wsTicket(v, o) \/ Access!disconnect(v, o) \/ Access!sendMessage(v, o)
  BY <1>1, <1>5 DEF Access!wsTicket, Access!disconnect, Access!sendMessage
<1>6. CASE \E v \in Visitors, o \in Followed : \E g \in grants[v] \cup {Access!NoGrant},
             c \in Access!Named(v) \cup {Access!None} :
             \E token \in BOOLEAN : Access!session(v, o, g, token, c)
  BY <1>1, <1>6 DEF Access!session
<1>7. CASE \E v \in Visitors : \E g \in grants[v] : Access!GrantEnds(v, g)
  BY <1>1, <1>7 DEF Access!GrantEnds
<1>8. CASE \E o \in Followed, email \in Emails \cup {Access!None},
             phone \in Handsets \cup {Access!None} : Access!changeContact(o, email, phone)
  BY <1>1, <1>8 DEF Access!changeContact
<1>9. CASE UNCHANGED Access!vars
  BY <1>1, <1>9 DEF Access!vars
<1> QED
  BY <1>2, <1>3, <1>4, <1>5, <1>6, <1>7, <1>8, <1>9 DEF Access!Next

-----------------------------------------------------------------------------
LEMMA AccessInv ==
    AccessLimits => (Access!Spec => [](Access!TypeOK /\ EarnedInv /\ CountedInv))
<1> SUFFICES ASSUME AccessLimits
             PROVE  Access!Spec => [](Access!TypeOK /\ EarnedInv /\ CountedInv)
  OBVIOUS
<1>1. Access!Init => Access!TypeOK /\ EarnedInv /\ CountedInv
  BY AccessInitTypes, InitEarned, InitCounted
<1>2. Access!TypeOK /\ EarnedInv /\ CountedInv /\ [Access!Next]_(Access!vars)
        => (Access!TypeOK /\ EarnedInv /\ CountedInv)'
  BY NextTypes, NextEarned, NextCounted
<1> QED
  BY <1>1, <1>2, PTL DEF Access!Spec

LEMMA Earned ==
    AccessLimits /\ Access!TypeOK /\ EarnedInv /\ CountedInv => Access!AccessProven
<1> SUFFICES ASSUME AccessLimits, Access!TypeOK, EarnedInv, CountedInv
             PROVE  Access!AccessProven
  OBVIOUS
<1>1. ASSUME NEW v \in Visitors, NEW o \in Followed,
             o \in links[v] \/ [order |-> o, level |-> "full"] \in grants[v]
      PROVE  had[o] \cap v.reads # {}
  BY <1>1 DEF EarnedInv, LinkedInv, GrantedInv, Known
<1>2. ASSUME NEW v \in Visitors, NEW o \in Followed,
             NEW g \in grants[v] \cup {Access!NoGrant}, NEW token \in BOOLEAN,
             NEW c \in Access!Named(v) \cup {Access!None},
             Access!trackOrder(v, o, g, token, c) # Access!None
      PROVE  had[o] \cap Access!Named(v) # {}
  <2>1. Access!isAuthorized(v, o, g, token, c)
    BY <1>2 DEF Access!trackOrder
  <2>2. CASE Access!GrantFor(g, o)
    <3>1. g \in grants[v] /\ g.order = o
      BY <2>2 DEF Access!GrantFor, Access!NoGrant, AccessLimits
    <3> QED
      BY <3>1 DEF EarnedInv, GrantedInv, Known
  <2>3. CASE o \in links[v]
    BY <2>3 DEF EarnedInv, LinkedInv, Known, Access!Named
  <2>4. CASE Access!emailMatches(o, c)
    <3>1. c \in had[o] /\ c # Access!None
      BY <2>4, Matched DEF EarnedInv, Access!emailMatches, AccessLimits
    <3> QED
      BY <3>1
  <2> QED
    BY <2>1, <2>2, <2>3, <2>4 DEF Access!isAuthorized
<1>3. ASSUME NEW v \in Visitors, NEW o \in Followed,
             Access!Opens(v, o) \/ o \in sockets[v] \/ <<v, o>> \in wrote
      PROVE  had[o] \cap Access!Named(v) # {}
  BY <1>3 DEF Access!Opens, EarnedInv, GrantedInv, ThreadInv, Known
<1>4. ASSUME NEW o \in Followed PROVE linked[o] <= MaxPerHour
  BY MailingFinite DEF CountedInv, CountedOf, Access!TypeOK, AccessLimits
<1> QED
  BY <1>1, <1>2, <1>3, <1>4 DEF Access!AccessProven, CountedInv, CountedOf

(* Contacts, links, grants, requests and counts keep their types           *)
(* (OrderAccessService).                                                   *)
THEOREM AccessTypes == ASSUME AccessLimits PROVE Access!Spec => []Access!TypeOK
<1> QED
  BY AccessInv, PTL

(* What a visitor holds of an order was earned by a contact it has had, and*)
(* the links sent stay within the hour's count (OrderAccessService,        *)
(* SupportOrderController).                                                *)
THEOREM AccessEarned == ASSUME AccessLimits PROVE Access!Spec => []Access!AccessProven
<1> QED
  BY AccessInv, Earned, PTL

(* A number typed with + or 00, or as at home, is one phone (phone.ts).      *)
LEMMA SamePhones == Access!PhonesMatch
<1> SUFFICES ASSUME NEW p \in {"33", "39"}, NEW zero \in BOOLEAN, NEW n \in {1, 2}
             PROVE LET abroad(lead) == [lead |-> lead, cc |-> p,
                                        zero |-> zero /\ p \in Access!KeepsLeadingZero, n |-> n]
                       home == [lead |-> "", cc |-> Access!None, zero |-> zero, n |-> n]
                   IN  \A a, b \in {abroad("+"), abroad("00"), home} :
                           /\ Access!samePhone(a, b, p)
                           /\ ~ Access!samePhone(a, [b EXCEPT !.n = 3], p)
  BY DEF Access!PhonesMatch
<1> DEFINE kept == zero /\ p \in Access!KeepsLeadingZero
           abroad(lead) == [lead |-> lead, cc |-> p, zero |-> kept, n |-> n]
           home == [lead |-> "", cc |-> Access!None, zero |-> zero, n |-> n]
           E(m) == [cc |-> p, zero |-> kept, n |-> m]
<1>1. p # Access!None /\ n # 3
  BY DEF Access!None
<1>2. \A t \in {abroad("+"), abroad("00"), home} :
        Access!toE164(t, p) = E(n) /\ Access!toE164([t EXCEPT !.n = 3], p) = E(3)
  <2>1. Access!National(zero, p) = kept
    BY DEF Access!National
  <2> HIDE DEF kept
  <2>2. Access!toE164(home, p) = E(n) /\ Access!toE164([home EXCEPT !.n = 3], p) = E(3)
    BY <1>1, <2>1 DEF Access!toE164
  <2>3. ASSUME NEW l \in {"+", "00"}
        PROVE  /\ Access!toE164(abroad(l), p) = E(n)
               /\ Access!toE164([abroad(l) EXCEPT !.n = 3], p) = E(3)
    BY DEF Access!toE164
  <2> HIDE DEF home, abroad, E
  <2> QED
    BY <2>2, <2>3
<1>3. E(n) # E(3) /\ E(n) # Access!Unplaced
  BY <1>1 DEF Access!Unplaced
<1> HIDE DEF E, kept, home, abroad
<1>4. \A a, b \in {abroad("+"), abroad("00"), home} :
        Access!samePhone(a, b, p) /\ ~ Access!samePhone(a, [b EXCEPT !.n = 3], p)
  BY <1>2, <1>3 DEF Access!samePhone
<1> QED
  BY <1>4 DEF abroad, home, kept

-----------------------------------------------------------------------------
(* Side by side.                                                           *)

CONSTANTS
    \* Checkout
    Designs, Others, Threshold, Stock, Requests, Kinds, MaxQty, MaxEdits, MaxStalls,
    Tabs, Countries, Fee, FreeAbove, MaxOrders, MaxCalls,
    \* PhoneVerification
    Carts, Phones, PhoneRequests, MaxAttempts, MaxSends, MaxCodes, MaxWrong, MaxCrashes,
    \* Documents
    Orders, WithEmail, Workers, JobAttempts, MaxPayments, MaxNumber, MaxStops,
    \* Sessions
    Browsers, Refreshes, MaxTokens, MaxTicks, MaxFaults

VARIABLES
    cart, lines, nextId, available, req, abandonment, reminder, reminded, stalls, edits, asked, muddled,
    orders, stripe, tab, closing, session, calls, drifted, stale, raced,
    codes, pending, cooldown, sends, verified, confirmed, phoneReq, proved, wrong,
    overlapped, leaked, crashes,
    paidEvents, jobs, number, docs, pdf, sent, mails, worker, stops, unmarked, rerun,
    account, tokens, cookie, refreshing, ticks, faults, signedIn, unsettled

Checkout == INSTANCE Checkout_proofs WITH job <- abandonment
Phone == INSTANCE PhoneVerification_proofs WITH Requests <- PhoneRequests, req <- phoneReq
Documents == INSTANCE Documents_proofs WITH
    Attempts <- JobAttempts, MaxEvents <- MaxPayments, MaxFaults <- MaxStops,
    faults <- stops, overlapped <- rerun
Sessions == INSTANCE Sessions_proofs WITH
    Requests <- Refreshes, req <- refreshing, disturbed <- unsettled

\* The variables of each component.
cartVars == <<cart, lines, nextId, available, req, abandonment, reminder, reminded, stalls, edits,
              asked, muddled, orders, stripe, tab, closing, session, calls, drifted, stale, raced>>
phoneVars == <<codes, pending, cooldown, sends, verified, confirmed, phoneReq, proved, wrong,
               overlapped, leaked, crashes>>
receiptVars == <<paidEvents, jobs, number, docs, pdf, sent, mails, worker, stops, unmarked, rerun>>
accessVars == <<contact, links, grants, sockets, ask, quota, moves, outages, had, linked, wrote>>
adminVars == <<account, tokens, cookie, refreshing, ticks, faults, signedIn, unsettled>>
shopVars == <<vars, cartVars, phoneVars, receiptVars, accessVars, adminVars>>

ShopInit ==
    Init /\ Checkout!Init /\ Phone!Init /\ Documents!Init /\ Access!Init /\ Sessions!Init

ShopNext ==
    \/ Next /\ UNCHANGED <<cartVars, phoneVars, receiptVars, accessVars, adminVars>>
    \/ Checkout!Next /\ UNCHANGED <<vars, phoneVars, receiptVars, accessVars, adminVars>>
    \/ Phone!Next /\ UNCHANGED <<vars, cartVars, receiptVars, accessVars, adminVars>>
    \/ Documents!Next /\ UNCHANGED <<vars, cartVars, phoneVars, accessVars, adminVars>>
    \/ Access!Next /\ UNCHANGED <<vars, cartVars, phoneVars, receiptVars, adminVars>>
    \/ Sessions!Next /\ UNCHANGED <<vars, cartVars, phoneVars, receiptVars, accessVars>>

ShopSpec == ShopInit /\ [][ShopNext]_shopVars

-----------------------------------------------------------------------------
(* The components' properties.                                             *)

ShopTypes ==
    TypeOK /\ Checkout!TypeOK /\ Phone!TypeOK /\ Documents!TypeOK /\ Access!TypeOK /\ Sessions!TypeOK

\* A basket whose requests came one at a time and ended holds the units that
\* were asked for, each at the price of its tier (CartService).
BasketTrue == Checkout!BasketTrue

\* An order adds up to the lines it holds, unless it was resumed on another
\* basket, and its customer is charged its total, unless the total moved after
\* the form was priced (CheckoutService, ShopPaymentService.mintOrReuseIntent).
OrderCharged == Checkout!LinesAddUp /\ Checkout!ChargedAsShown

\* A cart has one open order, unless two requests built one at once, and one
\* reminder, which reopens no cart that was paid (CheckoutService.initiate,
\* CartAbandonmentProcessor).
OneOpenOrder == Checkout!OneOpenOrder /\ Checkout!RemindedOnce

\* A confirmed phone belongs to who typed its code back, a code takes no more
\* wrong guesses than allowed, and the count of a number ends
\* (PhoneVerificationService).
PhoneProved == Phone!PhoneProved /\ Phone!AttemptsBounded /\ Phone!QuotaEnds

\* An order has one receipt, mailed again only after an unmarked mail, and a
\* queue at rest has delivered what it did not give up (DocumentService,
\* DocumentProcessor).
ReceiptOnce == Documents!OneReceipt /\ Documents!MailedOnce /\ Documents!NoneStranded

\* An order is shown, and its thread is opened, to who can name a contact it has
\* had, and its link to who reads one; links are no more than allowed in an hour,
\* whose count ends; a number is the same phone however it was typed
\* (OrderAccessService, OrdersPublicController, phone.ts).
OrderShown == Access!AccessProven /\ Access!PhonesMatch

\* The timeline of an item sent in tells what happened to it, and the sweeps leave
\* undrawn only what crowds them (SendInService).
JobsTold == TimelineTells /\ DrawnUnlessCrowded

\* An admin's browser that has its answers can go on refreshing until it signs
\* out (AuthService).
StaysSignedIn == Sessions!StaysSignedIn

-----------------------------------------------------------------------------
(* What the components prove of themselves holds side by side: a step is a *)
(* step of one component and a stutter of the others.                      *)

\* The components' assumptions on their bounds and on the names of lines.
ShopLimits == Limits /\ AccessLimits /\ Checkout!Limits /\ Phone!Limits /\ Documents!Limits


(* Seen through its own variables, the storefront is each component.       *)
LEMMA SideBySide == ShopSpec => /\ Spec /\ Checkout!Spec /\ Phone!Spec
                                /\ Documents!Spec /\ Access!Spec /\ Sessions!Spec
<1>1. ShopInit => /\ Init /\ Checkout!Init /\ Phone!Init
                  /\ Documents!Init /\ Access!Init /\ Sessions!Init
  BY DEF ShopInit
<1>2. [ShopNext]_shopVars => /\ [Next]_vars
                             /\ [Checkout!Next]_(Checkout!vars)
                             /\ [Phone!Next]_(Phone!vars)
                             /\ [Documents!Next]_(Documents!vars)
                             /\ [Access!Next]_(Access!vars)
                             /\ [Sessions!Next]_(Sessions!vars)
  BY DEF ShopNext, shopVars, cartVars, phoneVars, receiptVars, accessVars, adminVars,
         Checkout!vars, Checkout!basketVars, Checkout!orderVars,
         Phone!vars, Phone!redis, Phone!ghosts, Documents!vars,
         Access!vars, Sessions!vars, Sessions!data, Sessions!counts
<1> QED
  BY <1>1, <1>2, PTL
     DEF ShopSpec, Spec, Checkout!Spec, Phone!Spec, Documents!Spec, Access!Spec, Sessions!Spec

(* Every component keeps its types.                                        *)
THEOREM StorefrontTypes == ASSUME ShopLimits PROVE ShopSpec => []ShopTypes
<1>1. Checkout!Spec => []Checkout!TypeOK
  BY Checkout!CheckoutTypes DEF ShopLimits
<1>2. Phone!Spec => []Phone!TypeOK
  BY Phone!PhoneTypes DEF ShopLimits
<1>3. Documents!Spec => []Documents!TypeOK
  BY Documents!DocumentTypes DEF ShopLimits
<1>4. Sessions!Spec => []Sessions!TypeOK
  BY Sessions!SessionTypes
<1>5. Spec => []TypeOK
  BY JobTypes DEF ShopLimits
<1>6. Access!Spec => []Access!TypeOK
  BY AccessTypes DEF ShopLimits
<1> QED
  BY SideBySide, <1>1, <1>2, <1>3, <1>4, <1>5, <1>6, PTL DEF ShopTypes

(* Baskets hold what was asked for (CartService), for any designs, other   *)
(* products and requests.                                                  *)
THEOREM BasketsKept == ASSUME ShopLimits PROVE ShopSpec => []BasketTrue
<1>1. Checkout!Spec => []Checkout!BasketTrue
  BY Checkout!BasketsTrue DEF ShopLimits
<1> QED
  BY SideBySide, <1>1, PTL DEF BasketTrue

(* Orders charge for the lines they hold, and customers are charged what   *)
(* they are shown (CheckoutService), for any number of tabs.               *)
THEOREM ChargesRight == ASSUME ShopLimits PROVE ShopSpec => []OrderCharged
<1>1. Checkout!Spec => []Checkout!LinesAddUp
  BY Checkout!OrdersAddUp DEF ShopLimits
<1>2. Checkout!Spec => []Checkout!ChargedAsShown
  BY Checkout!ChargesAsShown DEF ShopLimits
<1> QED
  BY SideBySide, <1>1, <1>2, PTL DEF OrderCharged

(* A cart has one open order and one reminder, for any number of tabs.     *)
THEOREM OneAtATime == ASSUME ShopLimits PROVE ShopSpec => []OneOpenOrder
<1>1. Checkout!Spec => []Checkout!OneOpenOrder
  BY Checkout!OneOrderOpen DEF ShopLimits
<1>2. Checkout!Spec => []Checkout!RemindedOnce
  BY Checkout!RemindsOnce
<1> QED
  BY SideBySide, <1>1, <1>2, PTL DEF OneOpenOrder

(* Phones are proved, guesses bounded and counts ended, for any carts,     *)
(* phones and requests (PhoneVerificationService).                         *)
THEOREM PhonesChecked == ASSUME ShopLimits PROVE ShopSpec => []PhoneProved
<1>1. Phone!Spec => []Phone!PhoneProved
  BY Phone!PhonesProved DEF ShopLimits
<1>2. Phone!Spec => []Phone!AttemptsBounded
  BY Phone!GuessesBounded DEF ShopLimits
<1>3. Phone!Spec => []Phone!QuotaEnds
  BY Phone!QuotasEnd DEF ShopLimits
<1> QED
  BY SideBySide, <1>1, <1>2, <1>3, PTL DEF PhoneProved

(* Receipts are written once, mailed once and delivered, for any orders,   *)
(* workers and failures (DocumentProcessor).                               *)
THEOREM ReceiptsSent == ASSUME ShopLimits PROVE ShopSpec => []ReceiptOnce
<1>1. Documents!Spec => []Documents!OneReceipt
  BY Documents!OneReceiptEach DEF ShopLimits
<1>2. Documents!Spec => []Documents!MailedOnce
  BY Documents!MailsOnce DEF ShopLimits
<1>3. Documents!Spec => []Documents!NoneStranded
  BY Documents!ReceiptsDelivered DEF ShopLimits
<1> QED
  BY SideBySide, <1>1, <1>2, <1>3, PTL DEF ReceiptOnce

(* Orders are shown to who knows their contacts and reads their links      *)
(* (OrderAccessService), for any visitors, orders and limit of links.      *)
THEOREM OrdersShown == ASSUME ShopLimits PROVE ShopSpec => []OrderShown
<1>1. Access!Spec => []Access!AccessProven
  BY AccessEarned DEF ShopLimits
<1>2. Access!PhonesMatch
  BY SamePhones
<1> QED
  BY SideBySide, <1>1, <1>2, PTL DEF OrderShown

(* The timelines of items sent in tell what happened, and every design that  *)
(* can be drawn is, but behind a sweep's fill of those that cannot, for any  *)
(* number of jobs and updates (SendInService).                             *)
THEOREM JobsFollowed == ASSUME ShopLimits PROVE ShopSpec => []JobsTold
<1>1. Spec => []TimelineTells
  BY TimelinesTell DEF ShopLimits
<1>2. Spec => []DrawnUnlessCrowded
  BY DrawnAll DEF ShopLimits
<1> QED
  BY SideBySide, <1>1, <1>2, PTL DEF JobsTold

(* Admins stay signed in, for any browsers, tabs and refreshes             *)
(* (AuthService).                                                          *)
THEOREM AdminsStay == ShopSpec => []StaysSignedIn
<1>1. Sessions!Spec => []Sessions!StaysSignedIn
  BY Sessions!SessionsStay
<1> QED
  BY SideBySide, <1>1, PTL DEF StaysSignedIn
=============================================================================

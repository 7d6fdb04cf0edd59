----------------------------- MODULE Newsletter -----------------------------
(* A newsletter campaign (src/newsletter): an admin schedules, cancels or      *)
(* sends it; the job turns the audience into recipient rows page by page and   *)
(* mails whoever is pending, while subscribers come and go. The handlers of    *)
(* the admin and of the job interleave between their awaits, a run may throw,  *)
(* its process may stop, and the queue may hand its job out a second time.     *)
EXTENDS Naturals, FiniteSets, JobQueue

CONSTANTS
  Subscribers,  \* addresses, numbered in the order of their ids
  Processes,    \* the workers of newsletter-campaign
  Attempts,     \* attempts of the job (3)
  MaxSends,     \* bound: calls of schedule and sendNow
  MaxMoves,     \* bound: calls that change a subscriber
  MaxFaults     \* bound: runs that throw, stop or lose the job's lock

VARIABLES
  subs,         \* status of each address
  campaign,     \* NewsletterCampaign: its status and bullJobId ("none": deleted)
  queue,        \* the job campaign-<id>
  rows,         \* NewsletterCampaignRecipient: its status, per address
  run,          \* what each worker is at
  admin,        \* the admin's call in flight
  posts,        \* mails handed to the transport, per address
  counts,       \* the bounded calls so far
  loyal,        \* addresses subscribed since the campaign was last taken up
  paged,        \* somebody left the audience while it was paged through
  unnoted,      \* addresses mailed by a run that ended before the mark
  doubled       \* the job was handed out again while a run of it went on

vars == <<subs, campaign, queue, rows, run, admin, posts, counts, loyal, paged, unnoted, doubled>>
World == <<subs, counts, loyal, paged>>
Marks == <<unnoted, doubled>>

Job1 == "campaign"
Off == [at |-> "off", offset |-> 0, whom |-> 0, lock |-> FALSE]
Subscribed == {s \in Subscribers : subs[s] = "subscribed"}
Pending == {s \in Subscribers : rows[s] = "pending"}

TypeOK ==
  /\ subs \in [Subscribers -> {"absent", "subscribed", "unsubscribed"}]
  /\ campaign.status \in {"draft", "scheduled", "sending", "sent", "none"}
  /\ campaign.jobId \in BOOLEAN
  /\ queue \in [{Job1} -> Job]
  /\ rows \in [Subscribers -> {"none", "pending", "sent", "failed"}]
  /\ \A p \in Processes : run[p].offset \in 0 .. Cardinality(Subscribers) /\ run[p].lock \in BOOLEAN
  /\ admin \in {"idle", "schedule", "cancel"}
  /\ posts \in [Subscribers -> Nat]
  /\ loyal \subseteq Subscribed /\ unnoted \subseteq Subscribers
  /\ paged \in BOOLEAN /\ doubled \in BOOLEAN

Init ==
  /\ subs \in {[s \in Subscribers |-> "subscribed"], [s \in Subscribers |-> IF s = 1 THEN "absent" ELSE "unsubscribed"]}
  /\ campaign = [status |-> "draft", jobId |-> FALSE]
  /\ queue = [j \in {Job1} |-> NoJob]
  /\ rows = [s \in Subscribers |-> "none"]
  /\ run = [p \in Processes |-> Off] /\ admin = "idle"
  /\ posts = [s \in Subscribers |-> 0]
  /\ counts = [sends |-> 0, moves |-> 0, faults |-> 0]
  /\ loyal = {} /\ unnoted = {} /\ paged = FALSE /\ doubled = FALSE

-----------------------------------------------------------------------------
(* NewsletterService: subscribe leaves an address it knows as it is, an        *)
(* unsubscribed one too; only an admin resubscribes one; delete keeps the      *)
(* recipient rows and their addresses.                                         *)
Become(s, status) ==
  /\ counts.moves < MaxMoves /\ counts' = [counts EXCEPT !.moves = counts.moves + 1]
  /\ subs' = [subs EXCEPT ![s] = status]
  /\ loyal' = IF status = "subscribed" THEN loyal ELSE loyal \ {s}
  /\ paged' = (paged \/ (subs[s] = "subscribed" /\ status # "subscribed"
                          /\ \E p \in Processes : run[p].at = "page"))
  /\ UNCHANGED <<campaign, queue, rows, run, admin, posts, Marks>>

Subscribe(s) == subs[s] = "absent" /\ Become(s, "subscribed")
Unsubscribe(s) == subs[s] = "subscribed" /\ Become(s, "unsubscribed")
Resubscribe(s) == subs[s] = "unsubscribed" /\ Become(s, "subscribed")
RemoveSubscriber(s) == subs[s] # "absent" /\ Become(s, "absent")

-----------------------------------------------------------------------------
(* schedule and sendNow: the job first, then the campaign, whatever became of  *)
(* it in between.                                                              *)
Schedule ==
  /\ admin = "idle" /\ campaign.status = "draft" /\ counts.sends < MaxSends
  /\ queue' = Add(queue, Job1) /\ admin' = "schedule"
  /\ counts' = [counts EXCEPT !.sends = counts.sends + 1]
  /\ UNCHANGED <<subs, campaign, rows, run, posts, loyal, paged, Marks>>

(* cancel: job.remove throws for a job that a worker holds, and the call ends. *)
Cancel ==
  /\ admin = "idle" /\ campaign.status = "scheduled"
  /\ (campaign.jobId => queue[Job1].state # "active")
  /\ queue' = IF campaign.jobId THEN [queue EXCEPT ![Job1] = NoJob] ELSE queue
  /\ admin' = "cancel"
  /\ UNCHANGED <<campaign, rows, run, posts, World, Marks>>

Written ==
  /\ admin # "idle" /\ campaign.status # "none"
  /\ campaign' = IF admin = "schedule" THEN [status |-> "scheduled", jobId |-> TRUE]
                 ELSE [status |-> "draft", jobId |-> FALSE]
  /\ admin' = "idle"
  /\ UNCHANGED <<queue, rows, run, posts, World, Marks>>

(* remove: a draft goes, and its recipient rows with it.                       *)
Remove ==
  /\ admin = "idle" /\ campaign.status = "draft"
  /\ campaign' = [status |-> "none", jobId |-> FALSE]
  /\ rows' = [s \in Subscribers |-> "none"]
  /\ UNCHANGED <<queue, run, admin, posts, World, Marks>>

-----------------------------------------------------------------------------
Goto(p, at, offset, whom) ==
  run' = [run EXCEPT ![p].at = at, ![p].offset = offset, ![p].whom = whom]
\* removeOnComplete: a job that is done leaves its id free.
Over(p) ==
  /\ run' = [run EXCEPT ![p] = Off]
  /\ queue' = IF run[p].lock THEN [queue EXCEPT ![Job1] = NoJob] ELSE queue

(* process: a campaign that is gone is skipped, any other is now sending.      *)
Process(p) ==
  /\ run[p] = Off /\ queue[Job1].state = "waiting"
  /\ \/ /\ campaign.status = "none"
        /\ queue' = [queue EXCEPT ![Job1] = NoJob]
        /\ UNCHANGED <<campaign, run, loyal, paged>>
     \/ /\ campaign.status # "none"
        /\ queue' = Taken(queue, Job1)
        /\ campaign' = [campaign EXCEPT !.status = "sending"]
        /\ run' = [run EXCEPT ![p] = [Off EXCEPT !.at = "page", !.lock = TRUE]]
        /\ loyal' = Subscribed /\ paged' = FALSE
  /\ UNCHANGED <<subs, rows, admin, posts, counts, Marks>>

\* ORDER BY id LIMIT 1 OFFSET k (200 in the code)
Paged(k) == {s \in Subscribed : Cardinality({t \in Subscribed : t < s}) = k}

LastPage(page) == page = {}

\* A mutant: createMany without skipDuplicates replaces the rows it finds.
Anew(page) == [s \in Subscribers |-> IF s \in page THEN "pending" ELSE rows[s]]
Created(page) == [s \in Subscribers |-> IF s \in page /\ rows[s] = "none" THEN "pending" ELSE rows[s]]

(* materializeRecipients with iterateSubscribers: one page, one createMany.    *)
Materialize(p) ==
  LET page == Paged(run[p].offset) IN
  /\ run[p].at = "page" /\ campaign.status # "none"
  /\ IF LastPage(page) THEN Goto(p, "batch", 0, 0) /\ UNCHANGED rows
     ELSE Goto(p, "page", run[p].offset + Cardinality(page), 0) /\ rows' = Created(page)
  /\ UNCHANGED <<campaign, queue, admin, posts, World, Marks>>

(* The next batch of pending rows (of one row; 50 in the code).                *)
Batch(p) ==
  /\ run[p].at = "batch"
  /\ \E s \in Pending : Goto(p, "mail", 0, s)
  /\ UNCHANGED <<campaign, queue, rows, admin, posts, World, Marks>>

(* sendToRecipient: the mail, then the mark; what throws is marked as failed.  *)
SendToRecipient(p) ==
  /\ run[p].at = "mail"
  /\ \/ /\ posts' = [posts EXCEPT ![run[p].whom] = posts[run[p].whom] + 1]
        /\ Goto(p, "mark", 0, run[p].whom)
     \/ Goto(p, "markFailed", 0, run[p].whom) /\ UNCHANGED posts
  /\ UNCHANGED <<campaign, queue, rows, admin, World, Marks>>

Mark(p) ==
  /\ run[p].at \in {"mark", "markFailed"} /\ rows[run[p].whom] # "none"
  /\ rows' = [rows EXCEPT ![run[p].whom] = IF run[p].at = "mark" THEN "sent" ELSE "failed"]
  /\ Goto(p, "batch", 0, 0)
  /\ UNCHANGED <<campaign, queue, admin, posts, World, Marks>>

Complete(p) ==
  /\ run[p].at = "batch" /\ Pending = {} /\ campaign.status # "none"
  /\ campaign' = [campaign EXCEPT !.status = "sent"]
  /\ Over(p)
  /\ UNCHANGED <<rows, admin, posts, World, Marks>>

Broken(p) ==
  /\ run[p].at # "off"
  /\ counts' = [counts EXCEPT !.faults = counts.faults + 1]
  /\ unnoted' = IF run[p].at = "mark" THEN unnoted \cup {run[p].whom} ELSE unnoted
  /\ UNCHANGED <<subs, campaign, rows, admin, posts, loyal, paged>>

(* A statement throws (a deleted campaign or row, for one): the attempt counts.*)
Throw(p) ==
  /\ counts.faults < MaxFaults \/ campaign.status = "none"
  /\ Broken(p)
  /\ run' = [run EXCEPT ![p] = Off]
  /\ queue' = Failed(queue, Job1, run[p].lock, Attempts)
  /\ UNCHANGED doubled

Crash(p) ==
  /\ counts.faults < MaxFaults /\ Broken(p)
  /\ run' = [run EXCEPT ![p] = Off]
  /\ queue' = IF run[p].lock THEN Stalled(queue, Job1) ELSE queue
  /\ UNCHANGED doubled

LoseLock(p) ==
  /\ counts.faults < MaxFaults /\ run[p].lock
  /\ counts' = [counts EXCEPT !.faults = counts.faults + 1]
  /\ run' = [run EXCEPT ![p].lock = FALSE]
  /\ queue' = Stalled(queue, Job1) /\ doubled' = TRUE
  /\ UNCHANGED <<subs, campaign, rows, admin, posts, loyal, paged, unnoted>>

Next ==
  \/ \E s \in Subscribers : Subscribe(s) \/ Unsubscribe(s) \/ Resubscribe(s) \/ RemoveSubscriber(s)
  \/ Schedule \/ Cancel \/ Written \/ Remove
  \/ \E p \in Processes : \/ Process(p) \/ Materialize(p) \/ Batch(p) \/ SendToRecipient(p)
                          \/ Mark(p) \/ Complete(p) \/ Throw(p) \/ Crash(p) \/ LoseLock(p)

Spec == Init /\ [][Next]_vars

-----------------------------------------------------------------------------
(* However often the campaign is scheduled, taken back, sent again or retried, *)
(* an address gets one mail, unless a run ended between a mail and its mark or *)
(* ran beside another; and a campaign that says it was sent has mailed, or     *)
(* marked as failed, everyone who stayed subscribed while it ran, unless       *)
(* somebody left while the audience was paged through by offset.               *)
MailedAtMostOnce == \A s \in Subscribers : posts[s] <= 1 \/ s \in unnoted \/ doubled
NobodyMissed ==
  campaign.status = "sent" /\ ~doubled /\ ~paged
    => \A s \in loyal : rows[s] \in {"sent", "failed"}
ReachedOnce == MailedAtMostOnce /\ NobodyMissed
=============================================================================

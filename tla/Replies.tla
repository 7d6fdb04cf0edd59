------------------------------ MODULE Replies ------------------------------
(***************************************************************************)
(* Who is told of a message in a support thread: the shop of a customer's, *)
(* the customer of the shop's answer on an order (SupportNotification-     *)
(* Processor, on the jobs SupportConversationsService.createMessage adds). *)
(* One thread; a run of a job is cut where it waits.                       *)
(***************************************************************************)
EXTENDS JobQueue, Integers, Sequences, FiniteSets

CONSTANTS
    Kinds,        \* of the thread: "order", with its customer, or "general", the widget's
    Reach,        \* what the customer may have: sets of "email", "phone"
    Workers, Attempts,
    MaxMessages, MaxEdits, MaxFaults   \* bounds

VARIABLES
    kind, reach,
    wanted,       \* the desk takes this thread's event
    messages,     \* by whom, and read or not
    delayed,      \* jobs in their first minutes
    queue,        \* message -> its job
    marks,        \* lastGuestNotifiedAt, lastNotifiedAt: never, recent or old
    run,          \* what each worker is at
    log,          \* message -> the support log's last word on it
    edits, faults,
    \* history
    told,         \* message -> notices sent about it
    last,         \* when each side was last told: never, recent or old
    notices,      \* notices to each side in this window
    again,        \* sides one of whose runs was cut or repeated in this window, or met another
    failed,       \* messages one of whose notices did not leave
    hushed        \* messages passed over for a notice that was never sent

vars == <<kind, reach, wanted, messages, delayed, queue, marks, run, log, edits, faults, told, last, notices, failed, again, hushed>>
thread == <<kind, reach, wanted, messages>>
heard == <<told, last, notices, failed>>

Sides == {"guest", "admin"}
Ids == 1 .. MaxMessages
Idle == [at |-> "idle", m |-> 0]
ToWhom(m) == IF messages[m].by = "guest" THEN "admin" ELSE "guest"
Running(who) == {w \in Workers : run[w].m # 0 /\ ToWhom(run[w].m) = who}
Go(w, at) == run' = [run EXCEPT ![w].at = at]
Leave(w) == run' = [run EXCEPT ![w] = Idle] /\ queue' = Done(queue, run[w].m, TRUE)
Fault == faults < MaxFaults /\ faults' = faults + 1

-----------------------------------------------------------------------------
\* createMessage: a customer's message rings the shop at once; an answer waits
\* a little, and only on an order.
createMessage(by) ==
    LET m == Len(messages) + 1 IN
    /\ m <= MaxMessages
    /\ messages' = Append(messages, [by |-> by, read |-> FALSE])
    /\ IF by = "guest" THEN queue' = Add(queue, m) /\ UNCHANGED delayed
       ELSE IF kind = "order" THEN queue' = Add(queue, m) /\ delayed' = delayed \cup {m}
       ELSE UNCHANGED <<queue, delayed>>
    /\ UNCHANGED <<kind, reach, wanted, marks, run, log, edits, faults, heard, again, hushed>>
DelayEnds(m) ==
    /\ m \in delayed /\ delayed' = delayed \ {m}
    /\ UNCHANGED <<thread, queue, marks, run, log, edits, faults, heard, again, hushed>>
markMessagesRead(by) ==
    /\ \E m \in DOMAIN messages : messages[m].by = by /\ ~ messages[m].read
    /\ messages' = [m \in DOMAIN messages |-> IF messages[m].by = by THEN [messages[m] EXCEPT !.read = TRUE] ELSE messages[m]]
    /\ UNCHANGED <<kind, reach, wanted, delayed, queue, marks, run, log, edits, faults, heard, again, hushed>>

-----------------------------------------------------------------------------
(* A worker takes a job.  notifyGuest passes over what was read, and what  *)
(* comes within the window; notifyAdmin only the latter.                   *)

\* A mutant: the window is not looked at.
NeverRecent(mark) == FALSE
Recent(mark) == mark = "recent"
Passes(w, m, why) ==
    /\ queue' = Done(Taken(queue, m), m, TRUE)
    /\ log' = [log EXCEPT ![m] = why]
    /\ UNCHANGED <<run, again>>
process(w, m) ==
    LET who == ToWhom(m) IN
    /\ run[w] = Idle /\ queue[m].state = "waiting" /\ m \notin delayed
    /\ IF who = "guest" /\ messages[m].read THEN Passes(w, m, "read") /\ UNCHANGED hushed
       ELSE IF Recent(marks[who])
       THEN Passes(w, m, "window") /\ hushed' = IF last[who] = "recent" THEN hushed ELSE hushed \cup {m}
       ELSE /\ queue' = Taken(queue, m)
            /\ run' = [run EXCEPT ![w] = [at |-> IF who = "guest" THEN "mail" ELSE "recipients", m |-> m]]
            /\ again' = IF Running(who) # {} THEN again \cup {who} ELSE again
            /\ UNCHANGED <<log, hushed>>
    /\ UNCHANGED <<thread, delayed, marks, edits, faults, heard>>

Tell(m) ==
    LET who == ToWhom(m) IN
    /\ told' = [told EXCEPT ![m] = @ + 1] /\ last' = [last EXCEPT ![who] = "recent"]
    /\ notices' = [notices EXCEPT ![who] = @ + 1]
    /\ UNCHANGED failed
NotSent(m) == Fault /\ failed' = failed \cup {m} /\ UNCHANGED <<told, last, notices>>
\* A run that throws is tried again, until its attempts are spent.
Throw(w, why) ==
    /\ queue' = Failed(queue, run[w].m, TRUE, Attempts)
    /\ again' = again \cup {ToWhom(run[w].m)} /\ run' = [run EXCEPT ![w] = Idle]
    /\ log' = [log EXCEPT ![run[w].m] = why]

\* The mail, which throws if it fails; then the text, which does not.
mailGuest(w) ==
    /\ run[w].at = "mail"
    /\ \/ /\ IF "email" \in reach THEN Tell(run[w].m) ELSE UNCHANGED heard
          /\ Go(w, "text") /\ UNCHANGED <<queue, again, log, faults>>
       \/ "email" \in reach /\ NotSent(run[w].m) /\ Throw(w, "failed")
    /\ UNCHANGED <<thread, delayed, marks, edits, hushed>>
textGuest(w) ==
    /\ run[w].at = "text" /\ Go(w, "mark")
    /\ \/ /\ IF "phone" \in reach THEN /\ told' = [told EXCEPT ![run[w].m] = @ + 1] /\ last' = [last EXCEPT !.guest = "recent"]
                                       /\ notices' = [notices EXCEPT !.guest = IF "email" \in reach THEN @ ELSE @ + 1]
                                       /\ UNCHANGED failed
             ELSE UNCHANGED heard
          /\ UNCHANGED faults
       \/ "phone" \in reach /\ NotSent(run[w].m)
    /\ UNCHANGED <<thread, delayed, queue, marks, log, edits, again, hushed>>
markGuest(w) ==
    /\ run[w].at = "mark" /\ ToWhom(run[w].m) = "guest"
    /\ \/ marks' = [marks EXCEPT !.guest = "recent"] /\ Leave(w) /\ UNCHANGED <<again, log, faults>>
       \/ Fault /\ Throw(w, "failed") /\ UNCHANGED marks
    /\ UNCHANGED <<thread, delayed, edits, heard, hushed>>

resolveRecipients(w) ==
    /\ run[w].at = "recipients"
    /\ IF wanted THEN Go(w, "notify") /\ UNCHANGED <<queue, log>>
       ELSE Leave(w) /\ log' = [log EXCEPT ![run[w].m] = "off"]
    /\ UNCHANGED <<thread, delayed, marks, edits, faults, heard, again, hushed>>
\* notify keeps its failures to itself.
notify(w) ==
    /\ run[w].at = "notify" /\ Go(w, "mark")
    /\ \/ Tell(run[w].m) /\ UNCHANGED faults
       \/ NotSent(run[w].m)
    /\ UNCHANGED <<thread, delayed, queue, marks, log, edits, again, hushed>>
markAdmin(w) ==
    /\ run[w].at = "mark" /\ ToWhom(run[w].m) = "admin"
    /\ \/ marks' = [marks EXCEPT !.admin = "recent"] /\ Leave(w) /\ log' = [log EXCEPT ![run[w].m] = "sent"] /\ UNCHANGED <<again, faults>>
       \/ Fault /\ Throw(w, "failed") /\ UNCHANGED marks
    /\ UNCHANGED <<thread, delayed, edits, heard, hushed>>

-----------------------------------------------------------------------------
updateSettings ==
    /\ edits < MaxEdits /\ edits' = edits + 1
    /\ wanted' = ~ wanted
    /\ UNCHANGED <<kind, reach, messages, delayed, queue, marks, run, log, faults, heard, again, hushed>>
\* GUEST_NOTIFY_COOLDOWN_MS, or smsCooldownMin, since the last notice: longer
\* than a run takes.
Old(when) == IF when = "recent" THEN "old" ELSE when
WindowEnds(who) ==
    /\ "recent" \in {marks[who], last[who]} /\ Running(who) = {}
    /\ marks' = [marks EXCEPT ![who] = Old(@)] /\ last' = [last EXCEPT ![who] = Old(@)]
    /\ notices' = [notices EXCEPT ![who] = 0]
    /\ again' = again \ {who}
    /\ UNCHANGED <<thread, delayed, queue, run, log, edits, faults, told, failed, hushed>>
Crash(w) ==
    /\ Fault /\ run[w] # Idle
    /\ queue' = Stalled(queue, run[w].m)
    /\ again' = again \cup {ToWhom(run[w].m)} /\ run' = [run EXCEPT ![w] = Idle]
    /\ UNCHANGED <<thread, delayed, marks, log, edits, heard, hushed>>

Init ==
    /\ kind \in Kinds /\ reach \in (IF kind = "order" THEN Reach ELSE {{}}) /\ wanted = TRUE
    /\ messages = <<>> /\ delayed = {} /\ queue = [m \in Ids |-> NoJob]
    /\ marks = [who \in Sides |-> "never"] /\ run = [w \in Workers |-> Idle] /\ log = [m \in Ids |-> "none"]
    /\ edits = 0 /\ faults = 0
    /\ told = [m \in Ids |-> 0] /\ last = marks /\ notices = [who \in Sides |-> 0] /\ failed = {} /\ again = {} /\ hushed = {}

Next ==
    \/ \E by \in Sides : createMessage(by) \/ markMessagesRead(by) \/ WindowEnds(by)
    \/ \E m \in Ids : DelayEnds(m) \/ \E w \in Workers : process(w, m)
    \/ \E w \in Workers : mailGuest(w) \/ textGuest(w) \/ markGuest(w) \/ resolveRecipients(w) \/ notify(w) \/ markAdmin(w) \/ Crash(w)
    \/ updateSettings

Spec == Init /\ [][Next]_vars

-----------------------------------------------------------------------------
TypeOK ==
    /\ Len(messages) <= MaxMessages /\ queue \in [Ids -> Job]
    /\ \A who \in Sides : {marks[who], last[who]} \subseteq {"never", "recent", "old"}
    /\ \A w \in Workers : run[w].m \in 0 .. Len(messages)

\* Lines in a row are one notice to each side in a window, unless a run was cut
\* or repeated, or met another.
OnePerWindow == \A who \in Sides : notices[who] <= 1 \/ who \in again
\* A message whose job is done reached whom it was for, unless it had been read,
\* the desk does not want it, the customer cannot be reached, or a notice was
\* sent in the same window; only a failure of the network makes it less.
AllHear ==
    /\ hushed # {} => failed # {}
    /\ \A m \in DOMAIN messages :
         queue[m].state = "done" /\ told[m] = 0 =>
           \/ log[m] = "read" /\ messages[m].read
           \/ log[m] = "window" \/ m \in failed
           \/ IF ToWhom(m) = "admin" THEN log[m] = "off" ELSE reach = {}
=============================================================================

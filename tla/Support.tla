------------------------------ MODULE Support ------------------------------
(* A conversation with the shop (src/support): of the storefront's widget, or  *)
(* of one order. Customers' sockets connect before or after the thread exists, *)
(* customers and admins write, read, archive and delete at the same time, and  *)
(* the hourly sweep closes what it found idle. A handler is split at the       *)
(* awaits where another can change what it read.                               *)
EXTENDS Naturals, FiniteSets

CONSTANTS
  Kinds,        \* SupportConversationKind: a subset of {"general", "order"}
  Sockets,      \* the customer's tabs
  Readers,      \* sides that open the thread: of {"admin", "guest"}
  MaxMessages,  \* bound: messages written
  MaxThreads,   \* bound: rows created, a deletion makes room for another
  MaxChanges    \* bound: admin calls that set the status or delete

VARIABLES
  kind,
  thread,       \* the row: id 0 when there is none
  threads,      \* ids given so far
  messages,     \* SupportMessage rows: who wrote, whether readAt is set
  sock,         \* each socket: its state and its socket.data.conversationId
  call,         \* message:send, admin:order:message:send, the attachments form
  reader,       \* conversation:active of the admin and of the customer
  sweep,        \* the row autoCloseConversations found idle
  screen,       \* messages each socket was sent
  due,          \* per message: the sockets connected when its row was written
  written, changes,
  crossed,      \* a reading overlapped a writing
  buried        \* an admin wrote in an archived thread or reopened it by hand,
                \* or archived one under a message being written

vars == <<kind, thread, threads, messages, sock, call, reader, sweep, screen, due,
          written, changes, crossed, buried>>
Shown == <<screen, due>>
History == <<crossed, buried>>

Callers == Sockets \cup {"admin", "form"}
By(c) == IF c = "admin" THEN "admin" ELSE "guest"
Quiet == [at |-> "idle", id |-> 0, msg |-> 0, reopens |-> FALSE]
NoThread == [id |-> 0, status |-> "open", archived |-> FALSE, admin |-> 0, guest |-> 0]
Statuses == {"open", "waiting_admin", "waiting_guest", "closed", "archived"}
Numbers == 1 .. MaxMessages

TypeOK ==
  /\ kind \in Kinds
  /\ thread \in [id : 0 .. MaxThreads, status : Statuses, archived : BOOLEAN,
                 admin : 0 .. MaxMessages, guest : 0 .. MaxMessages]
  /\ messages \subseteq [n : Numbers, by : {"admin", "guest"}, read : BOOLEAN]
  /\ sock \in [Sockets -> [at : {"off", "joining", "on"}, conv : 0 .. MaxThreads]]
  /\ \A c \in Callers : call[c].at \in {"idle", "add", "update", "emit"}
  /\ reader \in [Readers -> 0 .. MaxThreads] /\ sweep \in 0 .. MaxThreads
  /\ screen \in [Sockets -> SUBSET Numbers] /\ due \in [Numbers -> SUBSET Sockets]

Init ==
  /\ kind \in Kinds /\ thread = NoThread /\ threads = 0 /\ messages = {}
  /\ sock = [s \in Sockets |-> [at |-> "off", conv |-> 0]]
  /\ call = [c \in Callers |-> Quiet]
  /\ reader = [r \in Readers |-> 0] /\ sweep = 0
  /\ screen = [s \in Sockets |-> {}] /\ due = [n \in Numbers |-> {}]
  /\ written = 0 /\ changes = 0 /\ crossed = FALSE /\ buried = FALSE

-----------------------------------------------------------------------------
(* handleConnection: the thread is looked up, then the rooms are joined: the   *)
(* order's whether or not there is a thread, the conversation's if there is.   *)
Connect(s) ==
  /\ sock[s].at = "off"
  /\ sock' = [sock EXCEPT ![s] = [at |-> "joining", conv |-> thread.id]]
  /\ UNCHANGED <<kind, thread, threads, messages, call, reader, sweep, Shown, written, changes, History>>

Join(s) ==
  /\ sock[s].at = "joining"
  /\ sock' = [sock EXCEPT ![s].at = "on"]
  /\ UNCHANGED <<kind, thread, threads, messages, call, reader, sweep, Shown, written, changes, History>>

\* bootstrap, messagesFor: what the thread holds, as far back as is asked.
bootstrap == {m.n : m \in messages}
\* handleGuestSync: a tab that is back asks for what it missed.
Sync(s) ==
  /\ sock[s].at = "on"
  /\ screen' = [screen EXCEPT ![s] = @ \cup bootstrap]
  /\ UNCHANGED <<kind, thread, threads, messages, sock, call, reader, sweep, due, written, changes, History>>

Online == {s \in Sockets : sock[s].at = "on"}

Room == {s \in Online : sock[s].conv = thread.id \/ kind = "order"}

-----------------------------------------------------------------------------
Opens(c) == IF c \in Sockets THEN sock[c].conv = 0 ELSE thread.id = 0

(* A first message opens the thread. The order's row is unique by orderId, and *)
(* a lost race goes on with the winner's; the widget's is unique by guestToken *)
(* and the loser is refused. The admin cannot open a widget's thread, nor can  *)
(* its customer send a form.                                                   *)
Send(c) ==
  /\ call[c] = Quiet /\ written < MaxMessages
  /\ IF c \in Sockets THEN sock[c].at = "on" ELSE kind = "order" \/ (c = "admin" /\ thread.id # 0)
  /\ Opens(c) /\ thread.id # 0 => kind = "order"
  /\ IF Opens(c) /\ thread.id = 0
     THEN /\ threads < MaxThreads /\ threads' = threads + 1
          /\ thread' = [NoThread EXCEPT !.id = threads + 1, !.status = "waiting_admin"]
     ELSE UNCHANGED <<thread, threads>>
  /\ call' = [call EXCEPT ![c] =
       [Quiet EXCEPT !.at = "add", !.id = IF Opens(c) THEN thread'.id
                                          ELSE IF c \in Sockets THEN sock[c].conv ELSE thread.id]]
  /\ written' = written + 1
  /\ UNCHANGED <<kind, messages, sock, reader, sweep, Shown, changes, History>>

\* The row is gone: the statement throws and the answer is SERVER_ERROR.
Refused(c) ==
  /\ call[c].id # thread.id
  /\ call' = [call EXCEPT ![c] = Quiet]
  /\ UNCHANGED <<thread, messages, sock, Shown, History>>

\* A mutant: a message does not bring an archived thread back.
StaysArchived(status) == status = "closed"
Reopens(status) == status \in {"closed", "archived"}

(* addMessage: the row of the message, and what the thread's status is ...     *)
AddMessage(c) ==
  /\ call[c].at = "add"
  /\ \/ Refused(c)
     \/ LET n == Cardinality(messages) + 1 IN
        /\ call[c].id = thread.id
        /\ messages' = messages \cup {[n |-> n, by |-> By(c), read |-> FALSE]}
        /\ due' = [due EXCEPT ![n] = Online]
        /\ call' = [call EXCEPT ![c].at = "update", ![c].msg = n,
                                ![c].reopens = Reopens(thread.status)]
        /\ crossed' = (crossed \/ \E r \in Readers : reader[r] # 0)
        /\ UNCHANGED <<thread, sock, screen, buried>>
  /\ UNCHANGED <<kind, threads, reader, sweep, written, changes>>

(* ... then the counters and the status of the thread.                         *)
UpdateThread(c) ==
  /\ call[c].at = "update"
  /\ \/ Refused(c)
     \/ /\ call[c].id = thread.id
        /\ thread' = IF c = "admin"
             THEN [thread EXCEPT !.guest = thread.guest + 1, !.status = "waiting_guest"]
             ELSE [thread EXCEPT !.admin = thread.admin + 1, !.status = "waiting_admin",
                                 !.archived = thread.archived /\ ~call[c].reopens]
        /\ call' = [call EXCEPT ![c].at = "emit"]
        /\ crossed' = (crossed \/ \E r \in Readers : reader[r] # 0)
        /\ buried' = (buried \/ (c = "admin" /\ thread.archived))
        /\ UNCHANGED <<messages, sock, Shown>>
  /\ UNCHANGED <<kind, threads, reader, sweep, written, changes>>

(* The handler joins its socket to the conversation and emits message:new.     *)
Emit(c) ==
  /\ call[c].at = "emit"
  /\ \/ Refused(c)
     \/ /\ call[c].id = thread.id
        /\ sock' = IF c \in Sockets THEN [sock EXCEPT ![c].conv = thread.id] ELSE sock
        /\ screen' = [s \in Sockets |-> IF s \in Room THEN screen[s] \cup {call[c].msg} ELSE screen[s]]
        /\ call' = [call EXCEPT ![c] = Quiet]
        /\ UNCHANGED <<thread, messages, due, History>>
  /\ UNCHANGED <<kind, threads, reader, sweep, written, changes>>

-----------------------------------------------------------------------------
Writing == \E c \in Callers : call[c].at = "update"

(* markMessagesRead: the other side's messages are marked as read ...          *)
MarkRead(r) ==
  /\ reader[r] = 0 /\ thread.id # 0
  /\ messages' = {[m EXCEPT !.read = m.read \/ m.by # r] : m \in messages}
  /\ reader' = [reader EXCEPT ![r] = thread.id]
  /\ crossed' = (crossed \/ Writing)
  /\ UNCHANGED <<kind, thread, threads, sock, call, sweep, Shown, written, changes, buried>>

Zeroed(k) == 0

(* ... and its counter is zeroed, whatever was written in between.             *)
ZeroCounter(r) ==
  /\ reader[r] # 0
  /\ thread' = IF reader[r] # thread.id THEN thread
               ELSE IF r = "admin" THEN [thread EXCEPT !.admin = Zeroed(thread.admin)]
               ELSE [thread EXCEPT !.guest = Zeroed(thread.guest)]
  /\ reader' = [reader EXCEPT ![r] = 0]
  /\ UNCHANGED <<kind, threads, messages, sock, call, sweep, Shown, written, changes, History>>

-----------------------------------------------------------------------------
(* setStatus: archiving sets archivedAt, and reopening does not clear it.      *)
SetStatus(status) ==
  /\ thread.id # 0 /\ changes < MaxChanges /\ changes' = changes + 1
  /\ thread' = [thread EXCEPT !.status = status, !.archived = thread.archived \/ status = "archived"]
  /\ buried' = (buried \/ (thread.archived /\ status \notin {"closed", "archived"})
                       \/ (status = "archived" /\ Writing))
  /\ UNCHANGED <<kind, threads, messages, sock, call, reader, sweep, Shown, written, crossed>>

(* deleteConversation, with its messages.                                      *)
Delete ==
  /\ thread.id # 0 /\ changes < MaxChanges /\ changes' = changes + 1
  /\ thread' = NoThread /\ messages' = {} /\ due' = [n \in Numbers |-> {}]
  /\ screen' = [s \in Sockets |-> {}]
  /\ UNCHANGED <<kind, threads, sock, call, reader, sweep, written, History>>

(* autoCloseConversations: what was found idle is closed, without a second     *)
(* look. Only the widget's threads are closed.                                 *)
FindIdle ==
  /\ sweep = 0 /\ kind = "general" /\ thread.id # 0 /\ ~thread.archived
  /\ thread.status \in {"open", "waiting_admin", "waiting_guest"}
  /\ sweep' = thread.id
  /\ UNCHANGED <<kind, thread, threads, messages, sock, call, reader, Shown, written, changes, History>>

AutoClose ==
  /\ sweep # 0
  /\ thread' = IF sweep = thread.id THEN [thread EXCEPT !.status = "closed"] ELSE thread
  /\ sweep' = 0
  /\ UNCHANGED <<kind, threads, messages, sock, call, reader, Shown, written, changes, History>>

Next ==
  \/ \E s \in Sockets : Connect(s) \/ Join(s) \/ Sync(s)
  \/ \E c \in Callers : Send(c) \/ AddMessage(c) \/ UpdateThread(c) \/ Emit(c)
  \/ \E r \in Readers : MarkRead(r) \/ ZeroCounter(r)
  \/ \E status \in Statuses : SetStatus(status)
  \/ Delete \/ FindIdle \/ AutoClose

Spec == Init /\ [][Next]_vars

-----------------------------------------------------------------------------
(* What the inbox shows is what is there: at rest each counter is the number   *)
(* of the other side's unread messages unless a reading overlapped a writing,  *)
(* and a thread whose customer waits for an answer is not hidden among the     *)
(* archived ones, unless an admin's call put it there.                         *)
Unread(by) == Cardinality({m \in messages : m.by = by /\ ~m.read})
AtRest == (\A c \in Callers : call[c] = Quiet) /\ (\A r \in Readers : reader[r] = 0)
BadgeTells == AtRest /\ ~crossed => thread.admin = Unread("guest") /\ thread.guest = Unread("admin")
NotHidden == thread.status = "waiting_admin" /\ thread.archived => buried
InboxTrue == BadgeTells /\ NotHidden

(* Once a message on an order has been sent, every tab of its customer that    *)
(* was connected when it was written shows it, also those that connected       *)
(* before anybody had written (emitToConversation).                            *)
TabsSee ==
  kind = "order" =>
    \A m \in messages : (\A c \in Callers : call[c].msg # m.n) => \A s \in due[m.n] : m.n \in screen[s]
=============================================================================

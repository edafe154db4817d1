---------------------------- MODULE DashboardFeed ----------------------------
(***************************************************************************)
(* The live feed of the dashboard: ws_endpoint of python/lapinq/server.py, *)
(* one coroutine per browser, over lapinq_tasks.  A trigger notifies the   *)
(* server of inserts and updates; the server sets one asyncio.Event that   *)
(* all the sockets clear and wait for.  A socket that is not waiting when  *)
(* the event is set, or clears it for another, misses the change; a        *)
(* deletion notifies nobody, and the listening connection may be lost.     *)
(* Every wait ends after two seconds.                                      *)
(*                                                                         *)
(* The contents of the table are the number of changes made to it.  What a *)
(* socket shows is two HTML fragments, read by two statements: the cards   *)
(* (queue_stats) and the rows (list_tasks or get_task).                    *)
(***************************************************************************)
EXTENDS Naturals

CONSTANTS
  Sockets,      \* browsers
  Filters,      \* what a browser may ask for
  IdFilters,    \* those that name a task: the rows are read before the cards
  NoFilter,     \* the filter of a new connection
  MaxChanges,   \* bound: changes of the table
  MaxMessages   \* bound: filters the browsers send

VARIABLES
  table,        \* changes made so far
  notices,      \* notifications on their way to the server
  event,        \* notification_event is set
  down,         \* shutting_down
  sock,         \* the coroutines
  messages      \* filters still to be sent

feedVars == <<table, notices, event, down, sock, messages>>
dbVars == <<table, notices>>

ASSUME FeedAssumption ==
  /\ NoFilter \in Filters \ IdFilters
  /\ "none" \notin Filters
  /\ {MaxChanges, MaxMessages} \subseteq Nat

\* pc is the await the coroutine is at: "auth", "send" (the beginning of _send),
\* "stats" and "tasks" (its statements), "loop", "armed" and "waiting".  cards
\* and rows hold what _send has read, last what was sent, with the filter it was
\* read for; inbox is the message receive_json will return; woken: the wait for
\* the event is over; found: the rows are those of one task, found by its id.
\* base is a history: the table when _send began.
Fresh ==
  [pc |-> "closed", filter |-> NoFilter, inbox |-> "none", cards |-> 0, rows |-> 0,
   changed |-> TRUE, last |-> [filter |-> NoFilter, cards |-> 0, rows |-> 0],
   woken |-> FALSE, found |-> FALSE, base |-> 0]

FeedInit ==
  /\ table = 0
  /\ notices = 0
  /\ event = FALSE
  /\ down = FALSE
  /\ sock = [s \in Sockets |-> Fresh]
  /\ messages = MaxMessages

Open(s) == sock[s].pc # "closed"

At(s, pc) == sock[s].pc = pc

Become(s, x) == sock' = [sock EXCEPT ![s] = x]

-----------------------------------------------------------------------------
(* The database and the listener                                           *)

\* INSERT and UPDATE fire the trigger, DELETE does not; without the listener's
\* connection no change is heard of.
ChangeTable(notify) ==
  /\ table < MaxChanges
  /\ table' = table + 1
  /\ notices' = IF notify THEN notices + 1 ELSE notices
  /\ UNCHANGED <<event, down, sock, messages>>

\* The callback of listen_for_changes: Event.set ends every wait that has begun.
Deliver ==
  /\ notices > 0
  /\ notices' = notices - 1
  /\ event' = TRUE
  /\ sock' = [s \in Sockets |-> [sock[s] EXCEPT !.woken = @ \/ sock[s].pc = "waiting"]]
  /\ UNCHANGED <<table, down, messages>>

\* The listener's connection breaks and takes the notifications with it; the
\* changes after it are among those that notify nobody.
LoseListener ==
  /\ notices > 0
  /\ notices' = 0
  /\ UNCHANGED <<table, event, down, sock, messages>>

ShutDown ==
  /\ down' = TRUE
  /\ UNCHANGED <<dbVars, event, sock, messages>>

-----------------------------------------------------------------------------
(* The coroutine of a socket                                               *)

Connect(s) ==
  /\ At(s, "closed") /\ ~down
  /\ Become(s, [Fresh EXCEPT !.pc = "auth"])
  /\ UNCHANGED <<dbVars, event, down, messages>>

\* _require_auth: a valid token within ten seconds, or the socket is closed.
Authenticate(s) ==
  /\ At(s, "auth")
  /\ \E pc \in {"send", "closed"} : Become(s, [Fresh EXCEPT !.pc = pc])
  /\ UNCHANGED <<dbVars, event, down, messages>>

BeginSendAnyway(s) ==
  /\ At(s, "send")
  /\ Become(s, [sock[s] EXCEPT !.pc = IF sock[s].filter \in IdFilters THEN "tasks" ELSE "stats",
                               !.base = table])
  /\ UNCHANGED <<dbVars, event, down, messages>>

\* _send up to its first statement.
BeginSend(s) ==
  /\ At(s, "send")
  /\ \/ down /\ Become(s, Fresh)
     \/ /\ ~down
        /\ Become(s, [sock[s] EXCEPT !.pc = IF sock[s].filter \in IdFilters THEN "tasks"
                                            ELSE "stats",
                                     !.base = table])
  /\ UNCHANGED <<dbVars, event, down, messages>>

Differs(x) == x.rows # x.last.rows \/ x.changed

\* The fragments differ from the ones sent last, or the filter was set.
Different(x) == x.cards # x.last.cards \/ x.rows # x.last.rows \/ x.changed

\* _send after its last statement: to the browser if there is news.  What was
\* read is forgotten.
Sent(x) ==
  [x EXCEPT !.pc = "loop", !.changed = FALSE, !.cards = 0, !.rows = 0,
            !.last = IF Different(x)
                       THEN [filter |-> x.filter, cards |-> x.cards, rows |-> x.rows]
                       ELSE @]

\* queue_stats.  A task found by its id was serialised when it was read and is
\* serialised again now: its dates are strings by then, isoformat raises and the
\* socket is closed with 1011.
ReadStats(s) ==
  /\ At(s, "stats")
  /\ LET x == [sock[s] EXCEPT !.cards = table]
     IN Become(s, IF x.found THEN Fresh
                  ELSE IF x.filter \in IdFilters THEN Sent(x)
                  ELSE [x EXCEPT !.pc = "tasks"])
  /\ UNCHANGED <<dbVars, event, down, messages>>

\* list_tasks, or get_task for a whole id; a part of one is looked for in the
\* list.
ReadTasks(s) ==
  /\ At(s, "tasks")
  /\ LET x == [sock[s] EXCEPT !.rows = table]
     IN \/ x.filter \notin IdFilters /\ Become(s, Sent(x))
        \/ /\ x.filter \in IdFilters
           /\ \E found \in BOOLEAN : Become(s, [x EXCEPT !.pc = "stats", !.found = found])
  /\ UNCHANGED <<dbVars, event, down, messages>>

\* The loop clears the event for all and creates the task that will wait for it.
Arm(s) ==
  /\ At(s, "loop")
  /\ event' = FALSE
  /\ Become(s, [sock[s] EXCEPT !.pc = "armed", !.base = 0])
  /\ UNCHANGED <<dbVars, down, messages>>

\* That task runs: over at once if the event is set again by now.
BeginWait(s) ==
  /\ At(s, "armed")
  /\ Become(s, [sock[s] EXCEPT !.pc = "waiting", !.woken = event])
  /\ UNCHANGED <<dbVars, event, down, messages>>

\* A message that is there ends the wait as well and is looked at first.
Wake(s) ==
  /\ At(s, "waiting") /\ sock[s].woken /\ sock[s].inbox = "none"
  /\ Become(s, [sock[s] EXCEPT !.pc = "send", !.woken = FALSE])
  /\ UNCHANGED <<dbVars, event, down, messages>>

\* A message of the browser: the filters it names are set.
Receive(s) ==
  /\ At(s, "waiting") /\ sock[s].inbox # "none"
  /\ Become(s, [sock[s] EXCEPT !.pc = "send", !.changed = TRUE, !.woken = FALSE,
                               !.filter = sock[s].inbox, !.inbox = "none"])
  /\ UNCHANGED <<dbVars, event, down, messages>>

TimeoutNever(s) == FALSE /\ UNCHANGED feedVars

\* asyncio.wait(..., timeout=2)
Timeout(s) ==
  /\ At(s, "waiting") /\ ~sock[s].woken /\ sock[s].inbox = "none"
  /\ Become(s, [sock[s] EXCEPT !.pc = "send", !.woken = FALSE])
  /\ UNCHANGED <<dbVars, event, down, messages>>

\* The browser goes away, or a statement of _send fails and the socket is
\* closed with 1011.
Close(s) ==
  /\ sock[s].pc \in {"auth", "stats", "tasks", "waiting"}
  /\ Become(s, Fresh)
  /\ UNCHANGED <<dbVars, event, down, messages>>

\* The filter in force sent again is no case of its own: a round it starts leaves
\* what one started by the event leaves.
SendFilter(s, f) ==
  /\ Open(s) /\ sock[s].pc # "auth"
  /\ sock[s].inbox = "none" /\ messages > 0 /\ f # sock[s].filter
  /\ Become(s, [sock[s] EXCEPT !.inbox = f])
  /\ messages' = messages - 1
  /\ UNCHANGED <<dbVars, event, down>>

-----------------------------------------------------------------------------
Run(s) ==
  \/ Authenticate(s) \/ BeginSend(s) \/ ReadStats(s) \/ ReadTasks(s)
  \/ Arm(s) \/ BeginWait(s) \/ Wake(s) \/ Receive(s) \/ Timeout(s)

FeedNext ==
  \/ \E s \in Sockets : Run(s) \/ Connect(s) \/ Close(s)
  \/ \E s \in Sockets, f \in Filters : SendFilter(s, f)
  \/ \E notify \in BOOLEAN : ChangeTable(notify)
  \/ Deliver \/ LoseListener \/ ShutDown

\* The event loop runs every coroutine, the statements return and the timer
\* fires.  Nothing is assumed of notifications.
FeedSpec == FeedInit /\ [][FeedNext]_feedVars /\ \A s \in Sockets : WF_feedVars(Run(s))

-----------------------------------------------------------------------------
(* Properties                                                              *)

\* A round shows the table at least as it was when the round began, cards and
\* rows, for the filter in force: whatever the order of the two statements and
\* the changes between them, comparing with what was sent last never holds
\* back news.  So a missed notification costs one round, at most two seconds.
RoundIsFresh ==
  \A s \in Sockets : At(s, "loop") =>
    /\ sock[s].last.filter = sock[s].filter
    /\ sock[s].last.cards >= sock[s].base
    /\ sock[s].last.rows >= sock[s].base

\* The browser has been shown the table as it was after n changes or later.
Shows(s, n) == sock[s].last.cards >= n /\ sock[s].last.rows >= n

\* A browser that stays connected is eventually shown the table as it was after
\* each change or later, although notifications are missed, are not sent or are
\* lost, and although the table may change between the two statements of every
\* round.  Only a browser that asks for one task by its id and gets it is not:
\* its socket closes.
EventuallyShown ==
  \A s \in Sockets, n \in 1..MaxChanges :
    (Open(s) /\ table >= n) ~> (Shows(s, n) \/ ~Open(s))

\* When the server stops every socket is closed, without a browser's help.
ShutdownClosesSockets == \A s \in Sockets : down ~> ~Open(s)
=============================================================================

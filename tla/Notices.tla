------------------------------- MODULE Notices -------------------------------
(***************************************************************************)
(* In-app notifications of one user: the rows notification-service keeps   *)
(* (notifications.ts), the event stream it tells an open page about them   *)
(* with (sse.ts, routes.ts), and the list and unread count of that page    *)
(* (useNotifications in frontend/app/lib/hooks/use-api-data.ts, drawn by   *)
(* ui/components/notifications).                                           *)
(*                                                                         *)
(* The page has its data from three sources that overtake each other:      *)
(* reads of the whole list and of the count, which SWR repeats when the    *)
(* user comes back to the page and drops when the page changed the data    *)
(* meanwhile; the stream; and the answers to what the user clicked on.     *)
(***************************************************************************)
EXTENDS Naturals, Sequences, FiniteSets

CONSTANTS
    Note,     \* notifications of the user
    Silent,   \* those of a marketing campaign, which nobody is told about
    Slot,     \* bounds the user's calls in flight
    MaxClicks,\* bounds what the user clicks on
    Nothing   \* no notification

ASSUME NoticesAssumption ==
    /\ IsFiniteSet(Note) /\ Silent \subseteq Note /\ Nothing \notin Note
    /\ MaxClicks \in Nat

VARIABLES
    row,      \* the notifications table
    due,      \* inserted and about to be broadcast
    loop,     \* published to Redis and on their way back to the same process
    stream,   \* the page's EventSource
    line,     \* events written to the stream and not read yet
    loaded,   \* whether the page has a list
    list,     \* the entries of the list: the flags shown for each id
    count,    \* the unread count on the bell
    fetch,    \* the read of the list and of the count in flight
    calls,    \* what the user clicked on and is waiting for
    clicks,   \* what the user has clicked on
    told,     \* history: what this stream carried, as far as it got through
    ticked    \* history: what the user marked as read and the page was told so

server == <<row, due, loop>>
page == <<loaded, list, count>>
history == <<told, ticked>>
vars == <<server, stream, line, page, fetch, calls, clicks, history>>

Kept == {n \in Note : row[n] \in {"unread", "read"}}
Unread == {n \in Note : row[n] = "unread"}

Flag == {"unread", "read"}
Entries == [Note -> Seq(Flag)]
NoEntries == [n \in Note |-> << >>]
Listed == {n \in Note : list[n] # << >>}
ShownUnread(n) == \E i \in DOMAIN list[n] : list[n][i] = "unread"

\* useApiGet: SWR reads a key once at a time.
Keys == {"list", "count"}
NotAsked == [stage |-> "none", entries |-> NoEntries, number |-> 0]
Asked == [NotAsked EXCEPT !.stage = "asked"]
Dropped == [NotAsked EXCEPT !.stage = "dropped"]

\* Mutant: the cache is written without SWR's mutate.
DroppingNone(K) == fetch' = fetch

\* SWR throws a read away if its key was mutated since the read was asked for.
Dropping(K) ==
    fetch' = [k \in Keys |-> IF k \in K /\ fetch[k].stage # "none"
                             THEN Dropped ELSE fetch[k]]

-----------------------------------------------------------------------------
(* The service.                                                            *)

\* createNotification; whoever called it broadcasts afterwards, except for a
\* marketing campaign.
Create(n) ==
    /\ row[n] = "none"
    /\ row' = [row EXCEPT ![n] = "unread"]
    /\ due' = due \union ({n} \ Silent)
    /\ UNCHANGED <<loop, stream, line, page, fetch, calls, history, clicks>>

\* broadcastLocal: to the connections the process has at that moment.
Write(n) ==
    IF stream = "open"
    THEN line' = Append(line, n) /\ told' = told \union {n}
    ELSE UNCHANGED <<line, told>>

\* broadcast: to the own connections, and to every process through Redis.
Broadcast(n) ==
    /\ n \in due /\ due' = due \ {n}
    /\ Write(n)
    /\ loop' = loop \union {n}
    /\ UNCHANGED <<row, stream, page, fetch, calls, ticked, clicks>>

\* The subscription hears what the process itself published, too.
ComeBack(n) ==
    /\ n \in loop /\ loop' = loop \ {n}
    /\ Write(n)
    /\ UNCHANGED <<row, due, stream, page, fetch, calls, ticked, clicks>>

\* GET stream, addClient
Subscribe ==
    /\ stream = "opening" /\ stream' = "open"
    /\ UNCHANGED <<server, line, page, fetch, calls, history, clicks>>

\* The service restarts: what it was about to send is lost, and so is the
\* connection.
Restart ==
    /\ due' = {} /\ loop' = {}
    /\ stream' = IF stream = "closed" THEN "closed" ELSE "broken"
    /\ line' = << >> /\ told' = {}
    /\ UNCHANGED <<row, page, fetch, calls, ticked, clicks>>

\* listNotifications, getUnreadCount
ServeFetch(k) ==
    /\ fetch[k].stage = "asked"
    /\ fetch' = [fetch EXCEPT ![k].stage = "served",
           ![k].entries = IF k = "count" THEN NoEntries ELSE
               [n \in Note |-> IF n \in Kept THEN <<row[n]>> ELSE << >>],
           ![k].number = IF k = "count" THEN Cardinality(Unread) ELSE 0]
    /\ UNCHANGED <<server, stream, line, page, calls, history, clicks>>

\* markRead, markAllRead, dismiss, clearAll
Updated(c) ==
    [n \in Note |->
        CASE c.op = "markAsRead" /\ n = c.note /\ row[n] = "unread" -> "read"
          [] c.op = "markAllAsRead" /\ row[n] = "unread" -> "read"
          [] c.op = "dismiss" /\ n = c.note -> "dismissed"
          [] c.op = "clearAll" /\ n \in Kept -> "dismissed"
          [] OTHER -> row[n]]

ServeCall(s) ==
    /\ calls[s].stage = "sent"
    /\ row' = Updated(calls[s])
    /\ calls' = [calls EXCEPT ![s].stage = "served"]
    /\ UNCHANGED <<due, loop, stream, line, page, fetch, history, clicks>>

-----------------------------------------------------------------------------
(* The page.                                                               *)

\* SWR reads both keys again when the window gets the focus.
Focus ==
    /\ fetch' = [k \in Keys |-> IF fetch[k].stage = "none" THEN Asked ELSE fetch[k]]
    /\ UNCHANGED <<server, stream, line, page, calls, history, clicks>>

AnswerFetch(k) ==
    /\ fetch[k].stage = "served"
    /\ fetch' = [fetch EXCEPT ![k] = NotAsked]
    /\ IF k = "list"
       THEN list' = fetch[k].entries /\ loaded' = TRUE /\ UNCHANGED count
       ELSE count' = fetch[k].number /\ UNCHANGED <<loaded, list>>
    /\ UNCHANGED <<server, stream, line, calls, history, clicks>>

\* A read that failed, or that SWR throws away, changes nothing.
FailFetch(k) ==
    /\ fetch[k].stage # "none"
    /\ fetch' = [fetch EXCEPT ![k] = NotAsked]
    /\ UNCHANGED <<server, stream, line, page, calls, history, clicks>>

\* The effect opens the stream once the list is there.
OpenStream ==
    /\ loaded /\ stream = "closed" /\ stream' = "opening"
    /\ UNCHANGED <<server, line, page, fetch, calls, history, clicks>>

\* onerror closes the stream for good.
Break ==
    /\ stream \in {"opening", "open"} /\ stream' = "broken"
    /\ line' = << >> /\ told' = {}
    /\ UNCHANGED <<server, page, fetch, calls, ticked, clicks>>

\* Mutant: no look at the list.
IsNewAlways(n) == TRUE

\* An event is new unless its id is in the list.
IsNew(n) == list[n] = << >>

\* Mutant: no floor.
CountDownFreely == count' = count - 1
CountDown == count' = IF count = 0 THEN 0 ELSE count - 1

Receive ==
    /\ stream = "open" /\ line # << >>
    /\ line' = Tail(line)
    /\ LET n == Head(line) IN
       IF IsNew(n)
       THEN /\ list' = [list EXCEPT ![n] = <<"unread">> \o @]
            /\ count' = count + 1 /\ Dropping(Keys)
       ELSE UNCHANGED <<list, count, fetch>>
    /\ UNCHANGED <<server, stream, loaded, calls, history, clicks>>

\* The buttons: a tick on an unread entry, a cross on every entry, "mark all"
\* while the count is not zero, "clear all" while there are entries.
Offers(op, n) ==
    CASE op = "markAsRead" -> n # Nothing /\ ShownUnread(n)
      [] op = "dismiss" -> n # Nothing /\ n \in Listed
      [] op = "markAllAsRead" -> n = Nothing /\ count > 0
      [] op = "clearAll" -> n = Nothing /\ Listed # {}
OpsOf == {"markAsRead", "dismiss", "markAllAsRead", "clearAll"}

Idle == [op |-> "none", note |-> Nothing, stage |-> "none"]
Click(s, op, n) ==
    /\ clicks < MaxClicks /\ clicks' = clicks + 1
    /\ calls[s] = Idle /\ loaded /\ Offers(op, n)
    /\ calls' = [calls EXCEPT ![s] = [op |-> op, note |-> n, stage |-> "sent"]]
    /\ UNCHANGED <<server, stream, line, page, fetch, history>>

AllRead(flags) == [i \in DOMAIN flags |-> "read"]
Forget(s) == calls' = [calls EXCEPT ![s] = Idle]

\* The second halves of markAsRead, dismiss, markAllAsRead and clearAll.
AnswerMarkAsRead(s) ==
    LET n == calls[s].note IN
    /\ calls[s].op = "markAsRead" /\ calls[s].stage = "served" /\ Forget(s)
    /\ list' = [list EXCEPT ![n] = AllRead(@)]
    /\ ticked' = ticked \union ({n} \cap Listed)
    /\ CountDown /\ Dropping(Keys)
    /\ UNCHANGED <<server, stream, line, loaded, told, clicks>>

AnswerDismiss(s) ==
    LET n == calls[s].note IN
    /\ calls[s].op = "dismiss" /\ calls[s].stage = "served" /\ Forget(s)
    /\ list' = [list EXCEPT ![n] = << >>]
    /\ told' = told \ {n} /\ ticked' = ticked \ {n}
    /\ IF list[n] # << >> /\ list[n][1] = "unread"
       THEN CountDown /\ Dropping(Keys)
       ELSE Dropping({"list"}) /\ UNCHANGED count
    /\ UNCHANGED <<server, stream, line, loaded, clicks>>

AnswerMarkAllAsRead(s) ==
    /\ calls[s].op = "markAllAsRead" /\ calls[s].stage = "served" /\ Forget(s)
    /\ list' = [n \in Note |-> AllRead(list[n])]
    /\ ticked' = ticked \union {n \in Listed : row[n] = "read"}
    /\ count' = 0
    /\ Dropping(Keys)
    /\ UNCHANGED <<server, stream, line, loaded, told, clicks>>

AnswerClearAll(s) ==
    /\ calls[s].op = "clearAll" /\ calls[s].stage = "served" /\ Forget(s)
    /\ list' = NoEntries /\ loaded' = TRUE /\ told' = {} /\ ticked' = {}
    /\ count' = 0
    /\ Dropping(Keys)
    /\ UNCHANGED <<server, stream, line, clicks>>

\* An error answer, or none: the page leaves everything as it is.
FailCall(s) ==
    /\ calls[s] # Idle /\ Forget(s)
    /\ UNCHANGED <<server, stream, line, page, fetch, history, clicks>>

-----------------------------------------------------------------------------
\* A page is opened; some notifications were there before.
Init ==
    /\ row \in [Note -> {"none", "unread", "read", "dismissed"}]
    /\ due = {} /\ loop = {}
    /\ stream = "closed" /\ line = << >>
    /\ loaded = FALSE /\ list = NoEntries /\ count = 0
    /\ fetch = [k \in Keys |-> Asked]
    /\ calls = [s \in Slot |-> Idle]
    /\ clicks = 0 /\ told = {} /\ ticked = {}

Service ==
    \/ \E n \in Note : Create(n) \/ Broadcast(n) \/ ComeBack(n)
    \/ Subscribe \/ Restart
    \/ \E k \in Keys : ServeFetch(k)
    \/ \E s \in Slot : ServeCall(s)

Answer(s) == AnswerMarkAsRead(s) \/ AnswerDismiss(s) \/ AnswerMarkAllAsRead(s)
             \/ AnswerClearAll(s) \/ FailCall(s)

Page ==
    \/ Focus \/ OpenStream \/ Break \/ Receive
    \/ \E k \in Keys : AnswerFetch(k) \/ FailFetch(k)
    \/ \E s \in Slot : Answer(s)
    \/ \E s \in Slot, op \in OpsOf, n \in Note \union {Nothing} : Click(s, op, n)

Next == Service \/ Page
Spec == Init /\ [][Next]_vars

-----------------------------------------------------------------------------
(* Properties.                                                             *)

Fetch == [stage: {"none", "asked", "served", "dropped"}, entries: Entries, number: Nat]
CallType == [op: OpsOf \union {"none"}, note: Note \union {Nothing},
             stage: {"none", "sent", "served"}]

TypeOK ==
    /\ row \in [Note -> {"none", "unread", "read", "dismissed"}]
    /\ due \in SUBSET (Note \ Silent) /\ loop \in SUBSET (Note \ Silent)
    /\ stream \in {"closed", "opening", "open", "broken"}
    /\ line \in Seq(Note)
    /\ loaded \in BOOLEAN /\ list \in Entries /\ count \in Nat
    /\ fetch \in [Keys -> Fetch]
    /\ calls \in [Slot -> CallType]
    /\ clicks \in 0 .. MaxClicks
    /\ told \in SUBSET Note /\ ticked \in SUBSET Note

\* A notification is never in the list twice, although every event reaches the
\* page twice (sse.ts:60-65, once directly and once through Redis) and reads of
\* the list come in between: "Dedup by id" (use-api-data.ts:390).
NoTwice == \A n \in Note : Len(list[n]) <= 1

\* What the stream has told the page stays in its list until it is dismissed:
\* no read of the list that was asked for earlier takes it out again. Clearing
\* the whole list is the exception: it also takes out what came since the
\* service cleared the table (use-api-data.ts:462-472).
ToldStaysListed ==
    stream = "open" =>
        \A n \in told \cap Kept : n \in Listed \/ \E i \in DOMAIN line : line[i] = n

\* An entry whose tick was answered does not become unread again, whatever
\* reads and events were on their way, until it is dismissed.
TickedStaysRead == \A n \in ticked : row[n] = "read" => ~ShownUnread(n)
=============================================================================

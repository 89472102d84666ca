------------------------------- MODULE EventBus -------------------------------
(***************************************************************************)
(* The event bus: publish_event, the outbox and its relay (shared-lib/      *)
(* shared_eventbus), the broker's queues, and the consumers that claim an   *)
(* event in processed_events before they handle it (product-service/        *)
(* products/eventbus.py, notification-service/src/consumer.ts).             *)
(*                                                                          *)
(* A process serves one request at a time and publishes the events of the   *)
(* request's transaction after its commit; a second thread of the process   *)
(* relays the rows of the outbox.  What one loop iteration of the relay     *)
(* deletes becomes visible only when its transaction commits.               *)
(*                                                                          *)
(* A consumer works on several messages at once.  It acknowledges each one   *)
(* over the channel it has when it is ready, whatever channel the message    *)
(* came over; without a channel, or if the broker does not know the delivery *)
(* tag, nobody catches the error and the process ends.                       *)
(*                                                                          *)
(* Left out: what an event says; the expiry of processed_events (a day, or  *)
(* a week) and of the in-memory copy of it; the audit queue, which keeps    *)
(* every message it gets; a queue is a bag, because consumers run their     *)
(* handlers concurrently and nothing below depends on the order.            *)
(***************************************************************************)
EXTENDS Integers, Sequences, FiniteSets

CONSTANTS
    Event,       \* events, each with an event_id of its own
    Queue,       \* durable queues
    Process,     \* gunicorn workers of one service
    Slot,        \* BOUND: messages of a queue being worked on at once
    RoutingKey,  \* RoutingKey[e]
    Binding,     \* Binding[q]: the routing key a queue is bound with
    Handlers,    \* Handlers[q]: the keys of its consumer's table of handlers
    Bundle,      \* sequences of events that one request publishes
    NoEvent,
    Limit,       \* rows relay_pending takes at a time
    Mishap,      \* what the surroundings may do, see below
    MaxOutages,  \* BOUND: times the broker goes down
    MaxAccidents \* BOUND: mishaps in one behaviour

\* kill:         a worker, with its relay thread, or a consumer is killed
\* storeFails:   the outbox row cannot be written either
\* claimFails:   processed_events cannot be written, or its answer is lost
\* handlerFails: a handler raises an exception
MishapKind == {"kill", "storeFails", "claimFails", "handlerFails"}

Entries(b) == {b[i] : i \in 1 .. Len(b)}

ASSUME EventBusAssumption ==
    /\ NoEvent \notin Event
    /\ IsFiniteSet(Slot)
    /\ Bundle \subseteq Seq(Event)
    /\ \A b \in Bundle : \A i, j \in 1 .. Len(b) : b[i] = b[j] => i = j
    /\ Limit \in Nat /\ MaxOutages \in Nat /\ MaxAccidents \in Nat
    /\ Mishap \subseteq MishapKind

VARIABLES
    committed,  \* history: events whose transaction committed
    owed,       \* on_commit callbacks a process has still to run
    storing,    \* the event whose publication failed just now
    outbox,     \* eventbus_outbox
    nextId,     \* its next primary key
    relayOn,    \* processes whose relay thread runs ("_running")
    relay,      \* their open transactions
    up,         \* the broker can be reached
    stale,      \* processes whose cached connection died with the broker
    queue,      \* messages waiting, by queue and event
    linked,     \* queues whose consumer has a channel
    handler,    \* messages being worked on
    claimed,    \* processed_events of a queue's consumer
    handled,    \* history: handlers that ran to their end
    missed,     \* history: deliveries that will not happen any more
    refused,    \* history: deliveries of which a copy is gone that nobody claimed
    outages, accidents

senderVars == <<committed, owed, storing>>
relayVars  == <<outbox, nextId, relayOn, relay>>
brokerVars == <<up, stale, queue>>
readerVars == <<linked, handler, claimed, handled>>
vars == <<senderVars, relayVars, brokerVars, readerVars, missed, refused,
          outages, accidents>>

RowType == [id: Nat, event: Event]
Closed == [open |-> FALSE, left |-> {}, sent |-> {}]

\* A message in a consumer's hands: whether its delivery tag is of the present
\* channel, and whether the broker keeps it until it is acknowledged, or has it
\* again.
Work == [pc: {"idle", "taken", "claimed", "refused", "done"},
         event: Event \cup {NoEvent}, here: BOOLEAN, kept: BOOLEAN]
Empty == [pc |-> "idle", event |-> NoEvent, here |-> FALSE, kept |-> FALSE]
Awaited(h) == h.here /\ h.kept

-----------------------------------------------------------------------------
(* Helpers. *)

Accident(kind) ==
    /\ kind \in Mishap /\ accidents < MaxAccidents
    /\ accidents' = accidents + 1

\* Topic routing: the queues an event is copied to.
Receives(q, e) == Binding[q] = RoutingKey[e]
Routed(e) ==
    [q \in Queue |-> [queue[q] EXCEPT ![e] =
                        IF Receives(q, e) THEN @ + 1 ELSE @]]

\* The deliveries of the events in E.
Deliveries(E) == {d \in Queue \X E : Receives(d[1], d[2])}

\* Rows a process holds locks on: skip_locked passes over them.
Held(p) == relay[p].left \cup relay[p].sent
Unlocked == {r \in outbox : \A p \in Process : r \notin Held(p)}

\* ORDER BY id LIMIT n.
Oldest(S) == {r \in S : Cardinality({x \in S : x.id < r.id}) < Limit}

\* Row r after an attempt to send it: deleted if that went well.  (Mutant: in
\* either case.)
DeletedAnyway(p, r, ok) == relay[p].sent \cup {r}
Deleted(p, r, ok) == IF ok THEN relay[p].sent \cup {r} ELSE relay[p].sent

\* store() and _ensure_relay.  (Mutants: the row is not written, the thread is
\* not started.)
StoredNowhere(e) == outbox
Stored(e) == outbox \cup {[id |-> nextId, event |-> e]}
RelayLeftAlone(p) == relayOn
RelayEnsured(p) == relayOn \cup {p}

\* Messages a queue can deliver.  (Mutant: whether or not there are any.)
ReadyAll(q) == Event
Ready(q) == {e \in Event : queue[q][e] > 0}

\* The consumer finds a handler for a message by its routing key.  (Mutant: it
\* looks for the name of the queue.)
DispatchesByQueue(q, e) == q \in Handlers[q]
Dispatches(q, e) == RoutingKey[e] \in Handlers[q]

\* The event_id is in processed_events already.  (Mutant: nobody looks.)
DuplicateNever(q, e) == FALSE
Duplicate(q, e) == e \in claimed[q]

\* What a queue gets back when the connection of its consumer is gone.
Unacked(q, e) ==
    Cardinality({s \in Slot : handler[q][s].event = e /\ Awaited(handler[q][s])})
Returned(q) == [e \in Event |-> queue[q][e] + Unacked(q, e)]

\* What dies with a consumer: events it has claimed and not handled, and messages
\* acknowledged in place of others before anybody claimed their events.
Unfinished(q) ==
    {<<q, handler[q][s].event>> : s \in {x \in Slot : handler[q][x].pc = "claimed"}}
Unclaimed(q) ==
    {<<q, handler[q][s].event>> : s \in {x \in Slot :
        handler[q][x].pc \in {"taken", "refused"} /\ ~handler[q][x].kept}}

-----------------------------------------------------------------------------
(* Publishing. *)

\* A request's transaction commits; its on_commit callbacks are due.
Commit(p, b) ==
    /\ owed[p] = << >> /\ storing[p] = NoEvent
    /\ b # << >> /\ Entries(b) \cap committed = {}
    /\ committed' = committed \cup Entries(b)
    /\ owed' = [owed EXCEPT ![p] = b]
    /\ UNCHANGED <<storing, relayVars, brokerVars, readerVars, missed, refused,
                   outages, accidents>>

\* publish_event: the cached connection works, or it raises an exception (and
\* the next call makes a new one), or the message is written to the dead
\* connection and gone unnoticed: nothing confirms a publication.
Publish(p) ==
    LET e == Head(owed[p])
        alive == up /\ p \notin stale
    IN
    /\ owed[p] # << >> /\ storing[p] = NoEvent
    /\ owed' = [owed EXCEPT ![p] = Tail(@)]
    /\ \/ /\ alive
          /\ queue' = Routed(e)
          /\ UNCHANGED <<storing, missed>>
       \/ /\ ~alive
          /\ storing' = [storing EXCEPT ![p] = e]
          /\ UNCHANGED <<queue, missed>>
       \/ /\ p \in stale
          /\ missed' = missed \cup Deliveries({e})
          /\ UNCHANGED <<storing, queue>>
    /\ stale' = stale \ {p}
    /\ UNCHANGED <<committed, relayVars, up, readerVars, refused, outages, accidents>>

\* outbox.store: a failure to write the row is logged.
Store(p) ==
    LET e == storing[p] IN
    /\ e # NoEvent
    /\ storing' = [storing EXCEPT ![p] = NoEvent]
    /\ \/ /\ outbox' = Stored(e)
          /\ nextId' = nextId + 1
          /\ relayOn' = RelayEnsured(p)
          /\ UNCHANGED <<missed, accidents>>
       \/ /\ Accident("storeFails")
          /\ missed' = missed \cup Deliveries({e})
          /\ UNCHANGED <<outbox, nextId, relayOn>>
    /\ UNCHANGED <<committed, owed, relay, brokerVars, readerVars, refused, outages>>

-----------------------------------------------------------------------------
(* relay_pending. *)

\* SELECT ... FOR UPDATE SKIP LOCKED.
Select(p) ==
    /\ p \in relayOn /\ ~relay[p].open
    /\ Unlocked # {}
    /\ relay' = [relay EXCEPT ![p] =
                   [open |-> TRUE, left |-> Oldest(Unlocked), sent |-> {}]]
    /\ UNCHANGED <<senderVars, outbox, nextId, relayOn, brokerVars, readerVars,
                   missed, refused, outages, accidents>>

\* The oldest row goes out over a connection of its own; the first failure
\* ends the loop.
Send(p) ==
    \E r \in relay[p].left :
        /\ \A x \in relay[p].left : r.id <= x.id
        /\ relay' = [relay EXCEPT
                       ![p].left = IF up THEN @ \ {r} ELSE {},
                       ![p].sent = Deleted(p, r, up)]
        /\ queue' = IF up THEN Routed(r.event) ELSE queue
        /\ UNCHANGED <<senderVars, outbox, nextId, relayOn, up, stale,
                       readerVars, missed, refused, outages, accidents>>

\* The transaction of the loop commits and its rows are gone.
CommitRelay(p) ==
    /\ relay[p].open /\ relay[p].left = {}
    /\ outbox' = outbox \ relay[p].sent
    /\ relay' = [relay EXCEPT ![p] = Closed]
    /\ UNCHANGED <<senderVars, nextId, relayOn, brokerVars, readerVars, missed,
                   refused, outages, accidents>>

\* The worker is killed, with its thread and its open transaction.
Kill(p) ==
    LET gone == Entries(owed[p]) \cup ({storing[p]} \ {NoEvent}) IN
    /\ Accident("kill")
    /\ missed' = missed \cup Deliveries(gone)
    /\ owed' = [owed EXCEPT ![p] = << >>]
    /\ storing' = [storing EXCEPT ![p] = NoEvent]
    /\ relay' = [relay EXCEPT ![p] = Closed]
    /\ relayOn' = relayOn \ {p}
    /\ stale' = stale \ {p}
    /\ UNCHANGED <<committed, outbox, nextId, up, queue, readerVars, refused, outages>>

-----------------------------------------------------------------------------
(* The broker. *)

\* Connections break: messages not acknowledged yet are put back, while the
\* handlers that have them go on.
Outage ==
    /\ up /\ outages < MaxOutages
    /\ up' = FALSE
    /\ outages' = outages + 1
    /\ stale' = Process
    /\ linked' = {}
    /\ queue' = [q \in Queue |-> Returned(q)]
    /\ handler' = [q \in Queue |-> [s \in Slot |-> [handler[q][s] EXCEPT !.here = FALSE]]]
    /\ UNCHANGED <<senderVars, relayVars, claimed, handled, missed, refused, accidents>>

Recover ==
    /\ ~up
    /\ up' = TRUE
    /\ UNCHANGED <<senderVars, relayVars, stale, queue, readerVars, missed,
                   refused, outages, accidents>>

-----------------------------------------------------------------------------
(* A consumer. *)

\* connectOrRetry gets through, in a process that lost its connection or in one
\* that was started again.
Connect(q) ==
    /\ up /\ q \notin linked
    /\ linked' = linked \cup {q}
    /\ UNCHANGED <<senderVars, relayVars, brokerVars, handler, claimed, handled,
                   missed, refused, outages, accidents>>

Deliver(q, s) ==
    /\ q \in linked /\ handler[q][s] = Empty
    /\ \E e \in Ready(q) :
          /\ queue' = [queue EXCEPT ![q][e] = @ - 1]
          /\ handler' = [handler EXCEPT ![q][s] =
                           [pc |-> "taken", event |-> e, here |-> TRUE, kept |-> TRUE]]
    /\ UNCHANGED <<senderVars, relayVars, up, stale, linked, claimed, handled,
                   missed, refused, outages, accidents>>

\* The callback: without a handler, or if the event cannot be claimed, the
\* message is to be refused; a duplicate is to be acknowledged; otherwise the
\* event is claimed.  A claim whose answer is lost is a claim all the same.
Claim(q, s) ==
    LET e == handler[q][s].event
        To(pc) == handler' = [handler EXCEPT ![q][s].pc = pc]
    IN
    /\ handler[q][s].pc = "taken"
    /\ \/ /\ ~Dispatches(q, e)
          /\ To("refused")
          /\ UNCHANGED <<claimed, missed, accidents>>
       \/ /\ Dispatches(q, e) /\ Duplicate(q, e)
          /\ To("done")
          /\ UNCHANGED <<claimed, missed, accidents>>
       \/ /\ Dispatches(q, e) /\ ~Duplicate(q, e)
          /\ To("claimed")
          /\ claimed' = [claimed EXCEPT ![q] = @ \cup {e}]
          /\ UNCHANGED <<missed, accidents>>
       \/ /\ Dispatches(q, e) /\ ~Duplicate(q, e) /\ Accident("claimFails")
          /\ To("done")
          /\ claimed' = [claimed EXCEPT ![q] = @ \cup {e}]
          /\ missed' = missed \cup {<<q, e>>}
       \/ /\ Dispatches(q, e) /\ Accident("claimFails")
          /\ To("refused")
          /\ UNCHANGED <<claimed, missed>>
    /\ UNCHANGED <<senderVars, relayVars, brokerVars, linked, handled, refused, outages>>

\* The handler does its work, or fails; a failed message is refused, or was
\* swallowed by the handler, and does not come again.
Handle(q, s) ==
    LET e == handler[q][s].event IN
    /\ handler[q][s].pc = "claimed"
    /\ handler' = [handler EXCEPT ![q][s].pc = "done"]
    /\ \/ /\ handled' = [handled EXCEPT ![q][e] = @ + 1]
          /\ UNCHANGED <<missed, accidents>>
       \/ /\ Accident("handlerFails")
          /\ missed' = missed \cup {<<q, e>>}
          /\ UNCHANGED handled
    /\ UNCHANGED <<senderVars, relayVars, brokerVars, linked, claimed, refused, outages>>

\* The consumer's process ends and is started again: its messages come again,
\* but what it had claimed and not handled will be taken for a duplicate.
Fall(q) ==
    /\ linked' = linked \ {q}
    /\ queue' = [queue EXCEPT ![q] = Returned(q)]
    /\ missed' = missed \cup Unfinished(q)
    /\ refused' = refused \cup Unclaimed(q)
    /\ handler' = [handler EXCEPT ![q] = [s \in Slot |-> Empty]]

\* ack or nack, over the channel there is: the message is done with; or its tag
\* is that of a channel gone and the broker takes it for another message's, which
\* it forgets; or there is no channel, or it does not know the tag.
Ack(q, s) ==
    LET h == handler[q][s]
        copies == IF h.pc = "refused" THEN {<<q, h.event>>} ELSE {}
    IN
    /\ h.pc \in {"done", "refused"}
    /\ \/ /\ Awaited(h)
          /\ handler' = [handler EXCEPT ![q][s] = Empty]
          /\ refused' = refused \cup copies
          /\ UNCHANGED <<linked, queue, missed>>
       \/ /\ ~h.here /\ q \in linked
          /\ \E t \in Slot :
                /\ Awaited(handler[q][t])
                /\ handler' = [handler EXCEPT ![q][s] = Empty, ![q][t].kept = FALSE]
          /\ refused' = IF h.kept THEN refused ELSE refused \cup copies
          /\ UNCHANGED <<linked, queue, missed>>
       \/ ~Awaited(h) /\ Fall(q)
    /\ UNCHANGED <<senderVars, relayVars, up, stale, claimed, handled, outages, accidents>>

\* The consumer is killed.
Die(q) ==
    /\ Accident("kill")
    /\ Fall(q)
    /\ UNCHANGED <<senderVars, relayVars, up, stale, claimed, handled, outages>>

-----------------------------------------------------------------------------

Init ==
    /\ committed = {}
    /\ owed = [p \in Process |-> << >>]
    /\ storing = [p \in Process |-> NoEvent]
    /\ outbox = {} /\ nextId = 0 /\ relayOn = {}
    /\ relay = [p \in Process |-> Closed]
    /\ up = TRUE /\ stale = {}
    /\ queue = [q \in Queue |-> [e \in Event |-> 0]]
    /\ linked = {}
    /\ handler = [q \in Queue |-> [s \in Slot |-> Empty]]
    /\ claimed = [q \in Queue |-> {}]
    /\ handled = [q \in Queue |-> [e \in Event |-> 0]]
    /\ missed = {} /\ refused = {}
    /\ outages = 0 /\ accidents = 0

Sender(p) == Publish(p) \/ Store(p)
Relay(p)  == Select(p) \/ Send(p) \/ CommitRelay(p)
Consumer(q, s) == Deliver(q, s) \/ Claim(q, s) \/ Handle(q, s) \/ Ack(q, s)

Next ==
    \/ \E p \in Process : \/ \E b \in Bundle : Commit(p, b)
                          \/ Sender(p) \/ Relay(p) \/ Kill(p)
    \/ Outage \/ Recover
    \/ \E q \in Queue : Connect(q) \/ Die(q) \/ \E s \in Slot : Consumer(q, s)

Spec == Init /\ [][Next]_vars

\* Whatever is not killed goes on, and the broker comes back.
Fairness ==
    /\ \A p \in Process : WF_vars(Sender(p)) /\ WF_vars(Relay(p))
    /\ WF_vars(Recover)
    /\ \A q \in Queue : WF_vars(Connect(q)) /\ \A s \in Slot : WF_vars(Consumer(q, s))
FairSpec == Spec /\ Fairness

-----------------------------------------------------------------------------
(* Properties. *)

TypeOK ==
    /\ committed \subseteq Event
    /\ owed \in [Process -> Seq(Event)]
    /\ storing \in [Process -> Event \cup {NoEvent}]
    /\ outbox \subseteq RowType /\ nextId \in Nat
    /\ relayOn \subseteq Process
    /\ relay \in [Process -> [open: BOOLEAN, left: SUBSET RowType,
                              sent: SUBSET RowType]]
    /\ up \in BOOLEAN /\ stale \subseteq Process
    /\ queue \in [Queue -> [Event -> Nat]]
    /\ linked \subseteq Queue
    /\ handler \in [Queue -> [Slot -> Work]]
    /\ claimed \in [Queue -> SUBSET Event]
    /\ handled \in [Queue -> [Event -> Nat]]
    /\ missed \subseteq Queue \X Event /\ refused \subseteq Queue \X Event
    /\ outages \in Nat /\ accidents \in Nat

\* The bus implements Delivery: duplicates made by the relay, by redelivery
\* and by dying consumers notwithstanding, an event is handled at most once,
\* and one that was given up is never handled later; one that was refused
\* unclaimed (consumer.ts:145 and 234-236) is handled only from another copy.
OutcomeOf(q, e) ==
    CASE e \notin committed \/ ~Receives(q, e) -> "none"
      [] e \in committed /\ Receives(q, e) /\ <<q, e>> \in missed ->
           IF handled[q][e] = 0 THEN "missed" ELSE "both"
      [] e \in committed /\ Receives(q, e) /\ <<q, e>> \notin missed ->
           IF handled[q][e] = 0 THEN IF <<q, e>> \in refused THEN "refused" ELSE "open"
           ELSE IF handled[q][e] = 1 THEN "handled" ELSE "repeated"
outcome == [q \in Queue |-> [e \in Event |-> OutcomeOf(q, e)]]
Promise == INSTANCE Delivery WITH Bound <- Deliveries(Event)
Delivers == Promise!Spec

\* No event vanishes without a trace: until it is handled, refused or given up,
\* some process, the outbox, the queue or a consumer has a copy of it.
InTransit(q, e) ==
    \/ \E p \in Process : e \in Entries(owed[p]) \/ storing[p] = e
    \/ \E r \in outbox : r.event = e
    \/ queue[q][e] > 0
    \/ \E s \in Slot : handler[q][s].event = e
NothingVanishes ==
    \A q \in Queue, e \in Event : OutcomeOf(q, e) = "open" => InTransit(q, e)

\* product-service/CONTEXT.md:72, the consumer "listens for
\* inventory.stock.changed [and] updates Product.stock": no event is lost while
\* nothing fails.  An outage by itself loses events: those written to a dead
\* connection, and those claimed in a process that acknowledges another message
\* after it (consumer.ts:233-236).
OnlyFailuresLose == missed \cup refused # {} => accidents > 0 \/ outages > 0

\* Every event is handled, refused or given up in the end, unless it lies in the outbox
\* after an accident and no relay thread runs.
Stranded(e) ==
    accidents > 0 /\ relayOn = {} /\ \E r \in outbox : r.event = e
EventuallySettled ==
    \A q \in Queue, e \in Event :
        (OutcomeOf(q, e) = "open") ~> (OutcomeOf(q, e) # "open" \/ Stranded(e))

=============================================================================

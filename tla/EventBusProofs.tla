---------------------------- MODULE EventBusProofs ----------------------------
(***************************************************************************)
(* Proofs about the event bus, for every set of events, queues, workers and *)
(* mishaps: it implements what module Delivery promises.                    *)
(***************************************************************************)
EXTENDS EventBus, FiniteSetTheorems, TLAPS

Distinct(s) == \A i, j \in 1 .. Len(s) : s[i] = s[j] => i = j

\* The events process p has yet to hand to the broker or to the outbox.
Due(p) == Entries(owed[p]) \cup ({storing[p]} \ {NoEvent})

\* There is a copy of the event in the outbox, in a queue or with a consumer.
Sent(e) ==
    \/ \E r \in outbox : r.event = e
    \/ \E p \in Process : \E r \in relay[p].left : r.event = e
    \/ \E q \in Queue : queue[q][e] # 0
    \/ \E q \in Queue, s \in Slot : handler[q][s].event = e

\* Nothing has come of the event yet.
New(e) ==
    /\ ~ Sent(e)
    /\ \A q \in Queue : e \notin claimed[q] /\ <<q, e>> \notin missed \cup refused

\* Senders: an event is owed once, by one process, and nothing has come of it
\* yet, nor of an event that is not committed.
OwedOnce == \A p \in Process : Distinct(owed[p]) /\ storing[p] \notin Entries(owed[p])
DueApart == \A p1, p2 \in Process : p1 # p2 => Due(p1) \cap Due(p2) = {}
DueNew == \A p \in Process : \A e \in Due(p) : e \in committed /\ New(e)
Unborn == \A e \in Event \ committed : New(e)

\* Consumers: what a handler works on is claimed by it alone and has no
\* outcome yet; what was handled was claimed and is not missed as well; and
\* what was missed cannot be claimed any more.
Once ==
    \A q \in Queue, e \in Event :
        /\ handled[q][e] \in {0, 1}
        /\ handled[q][e] = 1 => e \in claimed[q] /\ <<q, e>> \notin missed
InHand(q, s, e) == handler[q][s].pc = "claimed" /\ handler[q][s].event = e
Working ==
    \A q \in Queue, s \in Slot, e \in Event : InHand(q, s, e) =>
        /\ e \in claimed[q] /\ handled[q][e] = 0 /\ <<q, e>> \notin missed
        /\ \A t \in Slot \ {s} : ~ InHand(q, t, e)
GivenUp ==
    \A q \in Queue, e \in Event :
        <<q, e>> \in missed => e \in claimed[q] \/ ~ Sent(e)

SendersInv == OwedOnce /\ DueApart /\ DueNew /\ Unborn
ConsumersInv == Once /\ Working /\ GivenUp

\* A consumer that is busy, and no other, has an event in hand.
Busy == \A q \in Queue, s \in Slot :
            /\ handler[q][s].pc # "idle" => handler[q][s].event \in Event
            /\ handler[q][s].pc = "idle" => handler[q][s].event = NoEvent
Types == TypeOK /\ Busy

\* The inductive invariant.
BusInv == Types /\ SendersInv /\ ConsumersInv

-----------------------------------------------------------------------------
(* Helpers. *)

LEMMA EntriesEmpty == Entries(<< >>) = {} /\ Distinct(<< >>)
BY DEF Entries, Distinct

LEMMA EntriesInEvent ==
    ASSUME NEW s \in Seq(Event)
    PROVE  Entries(s) \subseteq Event
BY DEF Entries

LEMMA EntriesTail ==
    ASSUME NEW s \in Seq(Event), s # << >>, Distinct(s)
    PROVE  /\ Head(s) \in Entries(s)
           /\ Tail(s) \in Seq(Event) /\ Distinct(Tail(s))
           /\ Entries(Tail(s)) = Entries(s) \ {Head(s)}
<1>1. Len(s) \in Nat \ {0} /\ Head(s) = s[1]
  OBVIOUS
<1>2. /\ Tail(s) \in Seq(Event) /\ Len(Tail(s)) = Len(s) - 1
      /\ \A i \in 1 .. Len(s) - 1 : Tail(s)[i] = s[i + 1]
  OBVIOUS
<1>3. Distinct(Tail(s))
  BY <1>1, <1>2 DEF Distinct
<1>4. Entries(Tail(s)) \subseteq Entries(s) \ {Head(s)}
  BY <1>1, <1>2 DEF Distinct, Entries
<1>5. ASSUME NEW e \in Entries(s) \ {Head(s)}
      PROVE  e \in Entries(Tail(s))
  <2>1. PICK i \in 1 .. Len(s) : e = s[i]
    BY DEF Entries
  <2>2. i - 1 \in 1 .. Len(s) - 1 /\ Tail(s)[i - 1] = e
    BY <1>1, <1>2, <2>1
  <2> QED BY <1>2, <2>2 DEF Entries
<1>6. Head(s) \in Entries(s)
  BY <1>1 DEF Entries
<1> QED BY <1>2, <1>3, <1>4, <1>5, <1>6

LEMMA UnackedOK ==
    ASSUME NEW q \in Queue, NEW e \in Event
    PROVE  /\ Unacked(q, e) \in Nat
           /\ Unacked(q, e) # 0 => \E s \in Slot : handler[q][s].event = e
<1> DEFINE S == {s \in Slot : handler[q][s].event = e /\ Awaited(handler[q][s])}
<1>1. IsFiniteSet(S)
  BY FS_Subset, EventBusAssumption DEF EventBusAssumption
<1>2. Cardinality(S) \in Nat /\ (Cardinality(S) = 0 <=> S = {})
  BY <1>1, FS_CardinalityType, FS_EmptySet
<1> QED BY <1>2 DEF Unacked

\* What a step does to one handler.
LEMMA OneEntry ==
    ASSUME NEW A, NEW B, NEW V, NEW f \in [A -> [B -> V]],
           NEW a \in A, NEW b \in B, NEW v \in V,
           NEW g, g = [f EXCEPT ![a][b] = v]
    PROVE  /\ g \in [A -> [B -> V]]
           /\ f[a][b] \in V /\ g[a][b] = v
           /\ \A x \in A, y \in B : x # a \/ y # b => g[x][y] = f[x][y]
<1>1. g[a] = [f[a] EXCEPT ![b] = v] /\ \A x \in A : x # a => g[x] = f[x]
  OBVIOUS
<1>2. f[a] \in [B -> V] /\ g[a] \in [B -> V]
  BY <1>1
<1>3. g \in [A -> [B -> V]]
  BY <1>1, <1>2
<1> QED BY <1>1, <1>2, <1>3

\* What a step of one handler leaves alone.
OthersStay(q, s) ==
    \A x \in Queue, t \in Slot : x # q \/ t # s => handler'[x][t] = handler[x][t]

LEMMA OneMove ==
    ASSUME TypeOK, NEW q \in Queue, NEW s \in Slot, NEW h \in Work,
           handler' = [handler EXCEPT ![q][s] = h]
    PROVE  handler'[q][s] = h /\ OthersStay(q, s)
BY DEF TypeOK, OthersStay

LEMMA MovedTo ==
    ASSUME TypeOK, NEW q \in Queue, NEW s \in Slot,
           NEW pc \in {"idle", "taken", "claimed", "refused", "done"},
           handler' = [handler EXCEPT ![q][s].pc = pc]
    PROVE  /\ handler' \in [Queue -> [Slot -> Work]]
           /\ handler'[q][s].pc = pc /\ handler'[q][s].event = handler[q][s].event
           /\ handler'[q][s].here <=> handler[q][s].here
           /\ handler'[q][s].kept <=> handler[q][s].kept
           /\ OthersStay(q, s)
<1> DEFINE h == [handler[q][s] EXCEPT !.pc = pc]
<1>1. handler[q][s] \in Work
  BY DEF TypeOK
<1>2. /\ h \in Work /\ h.pc = pc /\ h.event = handler[q][s].event
      /\ h.here = handler[q][s].here /\ h.kept = handler[q][s].kept
  BY <1>1 DEF Work
<1>3. handler' = [handler EXCEPT ![q][s] = h]
  BY DEF TypeOK
<1> HIDE DEF h
<1>4. handler'[q][s] = h /\ OthersStay(q, s)
  BY <1>2, <1>3, OneMove, Zenon
<1>5. handler \in [Queue -> [Slot -> Work]]
  BY DEF TypeOK
<1>6. handler' \in [Queue -> [Slot -> Work]]
  <2>1. h \in Work
    BY <1>2
  <2>2. \A g : g = [handler EXCEPT ![q][s] = h] => g \in [Queue -> [Slot -> Work]]
    BY <1>5, <2>1, OneEntry
  <2> QED BY <1>3, <2>2, Zenon
<1> QED BY <1>2, <1>4, <1>6

LEMMA EmptyWork == Empty \in Work /\ Empty.pc = "idle" /\ Empty.event = NoEvent
BY DEF Empty, Work

\* What an outage does to them.
LEMMA Detached ==
    ASSUME TypeOK, Outage
    PROVE  /\ handler' \in [Queue -> [Slot -> Work]]
           /\ \A q \in Queue, s \in Slot :
                 /\ handler'[q][s].pc = handler[q][s].pc
                 /\ handler'[q][s].event = handler[q][s].event
                 /\ handler'[q][s].kept <=> handler[q][s].kept
<1>1. \A q \in Queue, s \in Slot :
        /\ handler'[q][s] = [handler[q][s] EXCEPT !.here = FALSE]
        /\ handler[q][s] \in Work
  BY DEF Outage, TypeOK, Work
<1>2. \A q \in Queue, s \in Slot :
        /\ handler'[q][s] \in Work
        /\ handler'[q][s].pc = handler[q][s].pc
        /\ handler'[q][s].event = handler[q][s].event
        /\ handler'[q][s].kept <=> handler[q][s].kept
  <2>1. \A h \in Work : LET d == [h EXCEPT !.here = FALSE] IN
          d \in Work /\ d.pc = h.pc /\ d.event = h.event /\ d.kept = h.kept
    BY DEF Work
  <2> SUFFICES ASSUME NEW q \in Queue, NEW s \in Slot
               PROVE  /\ handler'[q][s] \in Work
                      /\ handler'[q][s].pc = handler[q][s].pc
                      /\ handler'[q][s].event = handler[q][s].event
                      /\ handler'[q][s].kept <=> handler[q][s].kept
    OBVIOUS
  <2> DEFINE h == handler[q][s]
             d == [h EXCEPT !.here = FALSE]
  <2>2. handler'[q][s] = d /\ h \in Work
    BY <1>1
  <2>3. d \in Work /\ d.pc = h.pc /\ d.event = h.event /\ d.kept = h.kept
    BY <2>1, <2>2
  <2> HIDE DEF d
  <2> QED BY <2>2, <2>3
<1>3. handler' = [q \in Queue |-> [s \in Slot |-> handler'[q][s]]]
  BY DEF Outage
<1> QED BY <1>2, <1>3

\* An accident counts one.
LEMMA AccidentOK ==
    ASSUME TypeOK, NEW kind, Accident(kind)
    PROVE  accidents' \in Nat
BY DEF Accident, TypeOK

-----------------------------------------------------------------------------
(* Types. *)

LEMMA SenderTypes ==
    ASSUME TypeOK,
           NEW p \in Process,
           (\E b \in Bundle : Commit(p, b)) \/ Publish(p) \/ Store(p)
    PROVE  TypeOK'
<1>1. ASSUME NEW b \in Bundle, Commit(p, b) PROVE TypeOK'
  <2>1. b \in Seq(Event) /\ Entries(b) \subseteq Event
    BY EntriesInEvent, EventBusAssumption DEF EventBusAssumption
  <2> QED BY <1>1, <2>1 DEF Commit, TypeOK, relayVars, brokerVars, readerVars
<1>2. CASE Publish(p)
  <2>1. owed' \in [Process -> Seq(Event)] /\ Head(owed[p]) \in Event
    BY <1>2 DEF Publish, TypeOK
  <2>2. Routed(Head(owed[p])) \in [Queue -> [Event -> Nat]]
    BY <2>1 DEF Routed, TypeOK
  <2>4. missed' \subseteq Queue \X Event
    BY <1>2, <2>1 DEF Publish, TypeOK, Deliveries
  <2>5. queue' \in [Queue -> [Event -> Nat]]
    BY <1>2, <2>2 DEF Publish, TypeOK
  <2>6. storing' \in [Process -> Event \cup {NoEvent}]
    BY <1>2, <2>1 DEF Publish, TypeOK
  <2> QED BY <1>2, <2>1, <2>4, <2>5, <2>6 DEF Publish, TypeOK, relayVars, readerVars
<1>3. CASE Store(p)
  <2>1. storing[p] \in Event
    BY <1>3 DEF Store, TypeOK
  <2>2. accidents' \in Nat
    BY <1>3, AccidentOK DEF Store, TypeOK
  <2>3. missed' \subseteq Queue \X Event
    BY <1>3, <2>1 DEF Store, TypeOK, Deliveries
  <2>4. outbox' \subseteq RowType /\ nextId' \in Nat /\ relayOn' \subseteq Process
    BY <1>3, <2>1 DEF Store, TypeOK, Stored, RowType, RelayEnsured
  <2> QED BY <1>3, <2>1, <2>2, <2>3, <2>4 DEF Store, TypeOK, brokerVars, readerVars
<1> QED BY <1>1, <1>2, <1>3

LEMMA RelayTypes ==
    ASSUME TypeOK, NEW p \in Process, Relay(p) \/ Kill(p)
    PROVE  TypeOK'
<1> DEFINE Record == [open: BOOLEAN, left: SUBSET RowType, sent: SUBSET RowType]
<1>0. Closed \in Record
  BY DEF Closed
<1>1. CASE Select(p)
  <2>1. Oldest(Unlocked) \subseteq RowType
    BY DEF Oldest, Unlocked, TypeOK
  <2> QED BY <1>1, <2>1 DEF Select, TypeOK, senderVars, brokerVars, readerVars
<1>2. CASE Send(p)
  <2>1. PICK r \in relay[p].left :
          /\ relay' = [relay EXCEPT ![p].left = IF up THEN @ \ {r} ELSE {},
                                    ![p].sent = Deleted(p, r, up)]
          /\ queue' = IF up THEN Routed(r.event) ELSE queue
          /\ UNCHANGED <<senderVars, outbox, nextId, relayOn, up, stale,
                         readerVars, missed, refused, outages, accidents>>
    BY <1>2 DEF Send
  <2>2. r \in RowType /\ r.event \in Event
    BY DEF TypeOK, RowType
  <2>3. Routed(r.event) \in [Queue -> [Event -> Nat]]
    BY <2>2 DEF Routed, TypeOK
  <2>4. relay' \in [Process -> Record]
    <3>1. Deleted(p, r, up) \in SUBSET RowType
      BY <2>2 DEF TypeOK, Deleted
    <3>2. (IF up THEN relay[p].left \ {r} ELSE {}) \in SUBSET RowType
      BY DEF TypeOK
    <3>3. relay[p] \in Record
      BY DEF TypeOK
    <3> DEFINE R == [relay[p] EXCEPT !.left = IF up THEN @ \ {r} ELSE {},
                                     !.sent = Deleted(p, r, up)]
    <3>4. R \in Record
      BY <3>1, <3>2, <3>3
    <3>5. relay' = [relay EXCEPT ![p] = R]
      BY <2>1
    <3> QED BY <3>4, <3>5 DEF TypeOK
  <2> QED BY <2>1, <2>3, <2>4 DEF TypeOK, senderVars, readerVars
<1>3. CASE CommitRelay(p)
  BY <1>0, <1>3 DEF CommitRelay, TypeOK, senderVars, brokerVars, readerVars
<1>4. CASE Kill(p)
  <2>1. Entries(owed[p]) \cup ({storing[p]} \ {NoEvent}) \subseteq Event
    BY EntriesInEvent DEF TypeOK
  <2>2. missed' \subseteq Queue \X Event
    BY <1>4, <2>1 DEF Kill, TypeOK, Deliveries
  <2>3. accidents' \in Nat
    BY <1>4, AccidentOK DEF Kill
  <2>4. owed' \in [Process -> Seq(Event)]
    BY <1>4 DEF Kill, TypeOK
  <2>5. relay' \in [Process -> Record] /\ storing' \in [Process -> Event \cup {NoEvent}]
    BY <1>0, <1>4 DEF Kill, TypeOK
  <2> QED BY <1>4, <2>2, <2>3, <2>4, <2>5 DEF Kill, TypeOK, readerVars
<1> QED BY <1>1, <1>2, <1>3, <1>4 DEF Relay

\* What the end of a consumer's process does.
LEMMA FallMoves ==
    ASSUME TypeOK, NEW q \in Queue, Fall(q)
    PROVE  /\ \A s \in Slot : handler'[q][s] = Empty
           /\ \A x \in Queue : x # q =>
                handler'[x] = handler[x] /\ queue'[x] = queue[x]
           /\ \A e \in Event : queue'[q][e] = queue[q][e] + Unacked(q, e)
           /\ missed \subseteq missed' /\ refused \subseteq refused'
           /\ \A s \in Slot : handler[q][s].pc = "claimed" =>
                <<q, handler[q][s].event>> \in missed'
           /\ \A d \in missed' \ missed : \E s \in Slot :
                d = <<q, handler[q][s].event>> /\ handler[q][s].pc = "claimed"
           /\ \A s \in Slot :
                handler[q][s].pc \in {"taken", "refused"} /\ ~handler[q][s].kept =>
                    <<q, handler[q][s].event>> \in refused'
           /\ \A d \in refused' \ refused : \E s \in Slot :
                d = <<q, handler[q][s].event>> /\ handler[q][s].pc # "idle"
<1>1. \A s \in Slot : handler'[q][s] = Empty
  BY DEF Fall, TypeOK
<1>2. \A x \in Queue : x # q => handler'[x] = handler[x] /\ queue'[x] = queue[x]
  BY DEF Fall, TypeOK
<1>3. \A e \in Event : queue'[q][e] = queue[q][e] + Unacked(q, e)
  <2>1. queue'[q] = Returned(q)
    BY DEF Fall, TypeOK
  <2> QED BY <2>1 DEF Returned
<1>4. missed' = missed \cup Unfinished(q) /\ refused' = refused \cup Unclaimed(q)
  BY DEF Fall
<1>5. /\ missed \subseteq missed'
      /\ \A s \in Slot : handler[q][s].pc = "claimed" => <<q, handler[q][s].event>> \in missed'
      /\ \A d \in missed' \ missed : \E s \in Slot :
           d = <<q, handler[q][s].event>> /\ handler[q][s].pc = "claimed"
  BY <1>4 DEF Unfinished
<1>6. /\ refused \subseteq refused'
      /\ \A s \in Slot : handler[q][s].pc \in {"taken", "refused"} /\ ~handler[q][s].kept =>
           <<q, handler[q][s].event>> \in refused'
      /\ \A d \in refused' \ refused : \E s \in Slot :
           d = <<q, handler[q][s].event>> /\ handler[q][s].pc # "idle"
  BY <1>4 DEF Unclaimed
<1> QED BY <1>1, <1>2, <1>3, <1>5, <1>6

LEMMA FallTypes ==
    ASSUME Types, NEW q \in Queue, Fall(q)
    PROVE  /\ linked' \subseteq Queue /\ queue' \in [Queue -> [Event -> Nat]]
           /\ handler' \in [Queue -> [Slot -> Work]] /\ Busy'
           /\ missed' \subseteq Queue \X Event /\ refused' \subseteq Queue \X Event
<1>0. TypeOK /\ Busy
  BY DEF Types
<1>1. [s \in Slot |-> Empty] \in [Slot -> Work]
  BY EmptyWork
<1>2. handler' \in [Queue -> [Slot -> Work]]
  BY <1>0, <1>1 DEF Fall, TypeOK
<1>3. Busy'
  BY <1>0, EmptyWork, FallMoves DEF Busy
<1>4. Returned(q) \in [Event -> Nat]
  BY <1>0, UnackedOK DEF Returned, TypeOK
<1>5. queue' \in [Queue -> [Event -> Nat]]
  BY <1>0, <1>4 DEF Fall, TypeOK
<1>6. missed' \subseteq Queue \X Event
  <2>1. Unfinished(q) \subseteq Queue \X Event
    BY <1>0 DEF Unfinished, Busy
  <2> QED BY <1>0, <2>1 DEF Fall, TypeOK
<1>7. refused' \subseteq Queue \X Event
  <2>1. Unclaimed(q) \subseteq Queue \X Event
    BY <1>0 DEF Unclaimed, Busy
  <2> QED BY <1>0, <2>1 DEF Fall, TypeOK
<1>8. linked' \subseteq Queue
  BY <1>0 DEF Fall, TypeOK
<1> QED BY <1>2, <1>3, <1>5, <1>6, <1>7, <1>8

\* The answer to a message leaves the process at work: the handler is free, and
\* at most another one's message is forgotten by the broker.
Answered(q, s) ==
    /\ handler' \in [Queue -> [Slot -> Work]] /\ handler'[q][s] = Empty
    /\ \A x \in Queue, t \in Slot : x # q \/ t # s =>
         /\ handler'[x][t].pc = handler[x][t].pc
         /\ handler'[x][t].event = handler[x][t].event
         /\ handler'[x][t] = handler[x][t] \/ ~handler'[x][t].kept
    /\ handler[q][s].pc = "refused" /\ (Awaited(handler[q][s]) \/ ~handler[q][s].kept) =>
         <<q, handler[q][s].event>> \in refused'
    /\ refused \subseteq refused'
    /\ \A d \in refused' \ refused :
         d = <<q, handler[q][s].event>> /\ handler[q][s].pc = "refused"
    /\ UNCHANGED linked /\ UNCHANGED queue /\ UNCHANGED missed

\* A message whose answer named another one's tag.
LEMMA TagOfAnother ==
    ASSUME TypeOK, NEW q \in Queue, NEW s \in Slot, NEW t \in Slot, t # s,
           handler' = [handler EXCEPT ![q][s] = Empty, ![q][t].kept = FALSE]
    PROVE  /\ handler' \in [Queue -> [Slot -> Work]] /\ handler'[q][s] = Empty
           /\ \A x \in Queue, u \in Slot : x # q \/ u # s =>
                /\ handler'[x][u].pc = handler[x][u].pc
                /\ handler'[x][u].event = handler[x][u].event
                /\ handler'[x][u] = handler[x][u] \/ ~handler'[x][u].kept
<1> PICK m : m = [handler EXCEPT ![q][s] = Empty]
  OBVIOUS
<1> PICK d : d = [handler[q][t] EXCEPT !.kept = FALSE]
  OBVIOUS
<1>1. handler[q][t] \in Work
  BY DEF TypeOK
<1>2. d \in Work /\ d.pc = handler[q][t].pc /\ d.event = handler[q][t].event /\ ~d.kept
  BY <1>1 DEF Work
<1>3. handler \in [Queue -> [Slot -> Work]]
  BY DEF TypeOK
<1>4. /\ m \in [Queue -> [Slot -> Work]] /\ m[q][s] = Empty
      /\ \A x \in Queue, u \in Slot : x # q \/ u # s => m[x][u] = handler[x][u]
  BY <1>3, EmptyWork
<1>5. handler' = [m EXCEPT ![q][t] = d]
  BY <1>3
<1>6. /\ handler' \in [Queue -> [Slot -> Work]] /\ handler'[q][t] = d
      /\ \A x \in Queue, u \in Slot : x # q \/ u # t => handler'[x][u] = m[x][u]
  BY <1>2, <1>4, <1>5
<1>7. handler'[q][s] = Empty
  BY <1>4, <1>6
<1>8. ASSUME NEW x \in Queue, NEW u \in Slot, x # q \/ u # s
      PROVE  /\ handler'[x][u].pc = handler[x][u].pc
             /\ handler'[x][u].event = handler[x][u].event
             /\ handler'[x][u] = handler[x][u] \/ ~handler'[x][u].kept
  <2>1. CASE x = q /\ u = t
    BY <1>2, <1>6, <2>1
  <2>2. CASE x # q \/ u # t
    <3>1. handler'[x][u] = handler[x][u]
      BY <1>4, <1>6, <1>8, <2>2
    <3> QED BY <3>1
  <2> QED BY <2>1, <2>2
<1> QED BY <1>6, <1>7, <1>8

LEMMA AckMoves ==
    ASSUME TypeOK, NEW q \in Queue, NEW s \in Slot, Ack(q, s)
    PROVE  /\ handler[q][s].pc \in {"done", "refused"}
           /\ UNCHANGED <<senderVars, relayVars>> /\ UNCHANGED <<up, stale>>
           /\ UNCHANGED <<claimed, handled>> /\ UNCHANGED <<outages, accidents>>
           /\ Fall(q) \/ Answered(q, s)
<1>0. handler[q][s].pc \in {"done", "refused"}
  BY DEF Ack
<1> PICK copies : copies = IF handler[q][s].pc = "refused"
                           THEN {<<q, handler[q][s].event>>} ELSE {}
  OBVIOUS
<1>1. CASE /\ Awaited(handler[q][s])
           /\ handler' = [handler EXCEPT ![q][s] = Empty]
           /\ refused' = refused \cup copies
           /\ UNCHANGED <<linked, queue, missed>>
  <2>1. /\ handler' \in [Queue -> [Slot -> Work]] /\ handler'[q][s] = Empty
        /\ \A x \in Queue, t \in Slot : x # q \/ t # s => handler'[x][t] = handler[x][t]
    BY <1>1, EmptyWork DEF TypeOK
  <2>2. \A x \in Queue, t \in Slot : x # q \/ t # s =>
         /\ handler'[x][t].pc = handler[x][t].pc
         /\ handler'[x][t].event = handler[x][t].event
         /\ handler'[x][t] = handler[x][t] \/ ~handler'[x][t].kept
    BY <2>1
  <2> QED BY <1>0, <1>1, <2>1, <2>2 DEF Answered, Ack
<1>2. CASE /\ ~handler[q][s].here
           /\ \E t \in Slot :
                /\ Awaited(handler[q][t])
                /\ handler' = [handler EXCEPT ![q][s] = Empty, ![q][t].kept = FALSE]
           /\ refused' = IF handler[q][s].kept THEN refused ELSE refused \cup copies
           /\ UNCHANGED <<linked, queue, missed>>
  <2>1. PICK t \in Slot :
          /\ Awaited(handler[q][t])
          /\ handler' = [handler EXCEPT ![q][s] = Empty, ![q][t].kept = FALSE]
    BY <1>2
  <2>2. t # s
    BY <1>2, <2>1 DEF Awaited
  <2>3. /\ handler' \in [Queue -> [Slot -> Work]] /\ handler'[q][s] = Empty
        /\ \A x \in Queue, u \in Slot : x # q \/ u # s =>
             /\ handler'[x][u].pc = handler[x][u].pc
             /\ handler'[x][u].event = handler[x][u].event
             /\ handler'[x][u] = handler[x][u] \/ ~handler'[x][u].kept
    <3>1. handler' = [handler EXCEPT ![q][s] = Empty, ![q][t].kept = FALSE]
      BY <2>1
    <3> QED BY <2>2, <3>1, TagOfAnother
  <2>4. ~Awaited(handler[q][s])
    BY <1>2 DEF Awaited
  <2> QED BY <1>0, <1>2, <2>3, <2>4 DEF Answered, Ack
<1> QED BY <1>1, <1>2 DEF Ack

LEMMA ConsumerTypes ==
    ASSUME Types, NEW q \in Queue,
           Die(q) \/ \E s \in Slot : Consumer(q, s)
    PROVE  Types'
<1>0. TypeOK /\ Busy
  BY DEF Types
<1>1. ASSUME NEW s \in Slot, OthersStay(q, s),
             handler'[q][s].pc # "idle", handler'[q][s].event \in Event
      PROVE  Busy'
  <2> SUFFICES ASSUME NEW x \in Queue, NEW t \in Slot
               PROVE  /\ handler'[x][t].pc # "idle" => handler'[x][t].event \in Event
                      /\ handler'[x][t].pc = "idle" => handler'[x][t].event = NoEvent
    BY DEF Busy
  <2>1. CASE x = q /\ t = s
    BY <1>1, <2>1
  <2>2. CASE x # q \/ t # s
    BY <1>0, <1>1, <2>2 DEF Busy, OthersStay
  <2> QED BY <2>1, <2>2
<1>2. ASSUME NEW s \in Slot, Deliver(q, s) PROVE Types'
  <2>1. PICK e \in Event :
          /\ queue[q][e] > 0
          /\ queue' = [queue EXCEPT ![q][e] = @ - 1]
          /\ handler' = [handler EXCEPT ![q][s] =
                           [pc |-> "taken", event |-> e, here |-> TRUE, kept |-> TRUE]]
    BY <1>2 DEF Deliver, Ready
  <2>2. queue' \in [Queue -> [Event -> Nat]]
    BY <1>0, <2>1 DEF TypeOK
  <2>3. handler' \in [Queue -> [Slot -> Work]] /\ Busy'
    <3>1. [pc |-> "taken", event |-> e, here |-> TRUE, kept |-> TRUE] \in Work
      BY DEF Work
    <3>2. /\ handler' \in [Queue -> [Slot -> Work]] /\ OthersStay(q, s)
          /\ handler'[q][s] = [pc |-> "taken", event |-> e, here |-> TRUE, kept |-> TRUE]
      BY <1>0, <2>1, <3>1 DEF TypeOK, OthersStay
    <3> QED BY <1>1, <3>2
  <2> QED BY <1>0, <1>2, <2>2, <2>3 DEF Deliver, TypeOK, Types, senderVars, relayVars
<1>3. ASSUME NEW s \in Slot, Claim(q, s) PROVE Types'
  <2>1. handler[q][s].event \in Event
    BY <1>0, <1>3 DEF Claim, Busy
  <2>2. \/ handler' = [handler EXCEPT ![q][s].pc = "refused"]
        \/ handler' = [handler EXCEPT ![q][s].pc = "done"]
        \/ handler' = [handler EXCEPT ![q][s].pc = "claimed"]
    BY <1>3 DEF Claim
  <2>3. handler' \in [Queue -> [Slot -> Work]] /\ Busy'
    <3>1. /\ handler' \in [Queue -> [Slot -> Work]] /\ OthersStay(q, s)
          /\ handler'[q][s].event = handler[q][s].event
          /\ handler'[q][s].pc \in {"refused", "done", "claimed"}
      BY <1>0, <2>2, MovedTo
    <3> QED BY <1>1, <2>1, <3>1
  <2>4. claimed' = claimed \/ claimed' = [claimed EXCEPT ![q] = @ \cup {handler[q][s].event}]
    BY <1>3 DEF Claim
  <2>5. missed' = missed \/ missed' = missed \cup {<<q, handler[q][s].event>>}
    BY <1>3 DEF Claim
  <2>6. claimed' \in [Queue -> SUBSET Event]
    <3>1. claimed \in [Queue -> SUBSET Event]
      BY <1>0 DEF TypeOK
    <3>2. claimed[q] \cup {handler[q][s].event} \in SUBSET Event
      BY <2>1, <3>1
    <3> QED BY <2>4, <3>1, <3>2
  <2>7. missed' \subseteq Queue \X Event
    BY <1>0, <2>1, <2>5 DEF TypeOK
  <2>8. accidents' \in Nat
    <3>1. accidents' = accidents \/ Accident("claimFails")
      BY <1>3 DEF Claim
    <3> QED BY <1>0, <3>1, AccidentOK DEF TypeOK
  <2>9. /\ UNCHANGED <<senderVars, relayVars>> /\ UNCHANGED brokerVars
        /\ UNCHANGED <<linked, handled, refused, outages>>
    BY <1>3 DEF Claim
  <2> QED BY <1>0, <2>3, <2>6, <2>7, <2>8, <2>9
          DEF TypeOK, Types, senderVars, relayVars, brokerVars
<1>4. ASSUME NEW s \in Slot, Handle(q, s) PROVE Types'
  <2>1. handler[q][s].event \in Event
    BY <1>0, <1>4 DEF Handle, Busy
  <2>2. handler' \in [Queue -> [Slot -> Work]] /\ Busy'
    <3>1. handler' = [handler EXCEPT ![q][s].pc = "done"]
      BY <1>4 DEF Handle
    <3>2. /\ handler' \in [Queue -> [Slot -> Work]] /\ OthersStay(q, s)
          /\ handler'[q][s].event = handler[q][s].event /\ handler'[q][s].pc = "done"
      BY <1>0, <3>1, MovedTo
    <3> QED BY <1>1, <2>1, <3>2
  <2>3. handled' = handled \/ handled' = [handled EXCEPT ![q][handler[q][s].event] = @ + 1]
    BY <1>4 DEF Handle
  <2>4. handled' \in [Queue -> [Event -> Nat]]
    <3>1. handled \in [Queue -> [Event -> Nat]]
      BY <1>0 DEF TypeOK
    <3>2. [handled[q] EXCEPT ![handler[q][s].event] = @ + 1] \in [Event -> Nat]
      BY <2>1, <3>1
    <3>3. [handled EXCEPT ![q][handler[q][s].event] = @ + 1]
            = [handled EXCEPT ![q] = [handled[q] EXCEPT ![handler[q][s].event] = @ + 1]]
      BY <3>1
    <3>4. \A g \in [Event -> Nat] : [handled EXCEPT ![q] = g] \in [Queue -> [Event -> Nat]]
      BY <3>1
    <3> QED BY <2>3, <3>1, <3>2, <3>3, <3>4
  <2>5. missed' \subseteq Queue \X Event /\ accidents' \in Nat
    <3>1. \/ UNCHANGED <<missed, accidents>>
          \/ /\ Accident("handlerFails")
             /\ missed' = missed \cup {<<q, handler[q][s].event>>}
      BY <1>4 DEF Handle
    <3>2. Accident("handlerFails") => accidents' \in Nat
      BY <1>0, AccidentOK
    <3>3. missed \subseteq Queue \X Event /\ accidents \in Nat
      BY <1>0 DEF TypeOK
    <3> QED BY <2>1, <3>1, <3>2, <3>3
  <2>6. /\ UNCHANGED <<senderVars, relayVars>> /\ UNCHANGED brokerVars
        /\ UNCHANGED <<linked, claimed, refused, outages>>
    BY <1>4 DEF Handle
  <2> QED BY <1>0, <2>2, <2>4, <2>5, <2>6
          DEF TypeOK, Types, senderVars, relayVars, brokerVars
<1>5. ASSUME Fall(q), UNCHANGED <<senderVars, relayVars>>, UNCHANGED <<up, stale>>,
             UNCHANGED <<claimed, handled>>, UNCHANGED outages, accidents' \in Nat
      PROVE  Types'
  BY <1>0, <1>5, FallTypes DEF TypeOK, Types, senderVars, relayVars
<1>6. ASSUME NEW s \in Slot, Ack(q, s) PROVE Types'
  <2>1. /\ UNCHANGED <<senderVars, relayVars>> /\ UNCHANGED <<up, stale>>
        /\ UNCHANGED <<claimed, handled>> /\ UNCHANGED <<outages, accidents>>
        /\ Fall(q) \/ Answered(q, s)
    BY <1>0, <1>6, AckMoves
  <2>2. CASE Fall(q)
    BY <1>0, <1>5, <2>1, <2>2 DEF TypeOK
  <2>3. CASE Answered(q, s)
    <3>1. handler' \in [Queue -> [Slot -> Work]]
      BY <2>3 DEF Answered
    <3>2. Busy'
      BY <1>0, <2>3, EmptyWork DEF Answered, Busy
    <3>3. refused' \subseteq Queue \X Event
      <4>1. handler[q][s].event \in Event
        BY <1>0, <1>6 DEF Ack, Busy
      <4> QED BY <1>0, <2>3, <4>1 DEF Answered, TypeOK
    <3>4. UNCHANGED linked /\ UNCHANGED queue /\ UNCHANGED missed
      BY <2>3 DEF Answered
    <3> QED BY <1>0, <2>1, <3>1, <3>2, <3>3, <3>4
            DEF TypeOK, Types, senderVars, relayVars
  <2> QED BY <2>1, <2>2, <2>3
<1>7. CASE Die(q)
  <2>1. accidents' \in Nat
    BY <1>0, <1>7, AccidentOK DEF Die
  <2> QED BY <1>5, <1>7, <2>1 DEF Die
<1> QED BY <1>2, <1>3, <1>4, <1>6, <1>7 DEF Consumer

LEMMA BrokerTypes ==
    ASSUME Types, Outage \/ Recover
    PROVE  Types'
<1>0. TypeOK /\ Busy
  BY DEF Types
<1>1. CASE Outage
  <2>1. handler' \in [Queue -> [Slot -> Work]] /\ Busy'
    BY <1>0, <1>1, Detached DEF Busy
  <2>2. \A q \in Queue : Returned(q) \in [Event -> Nat]
    BY <1>0, UnackedOK DEF Returned, TypeOK
  <2>3. queue' = [q \in Queue |-> Returned(q)]
    BY <1>1 DEF Outage
  <2>4. queue' \in [Queue -> [Event -> Nat]]
    BY <2>2, <2>3
  <2>5. up' \in BOOLEAN /\ stale' \subseteq Process /\ outages' \in Nat
    <3>1. outages \in Nat
      BY <1>0 DEF TypeOK
    <3>2. stale' = Process /\ outages' = outages + 1
      BY <1>1 DEF Outage
    <3>3. up' \in BOOLEAN
      BY <1>1, Zenon DEF Outage
    <3> QED BY <3>1, <3>2, <3>3
  <2>6. /\ UNCHANGED <<senderVars, relayVars, claimed, handled, missed, refused, accidents>>
        /\ linked' = {}
    BY <1>1 DEF Outage
  <2> QED BY <1>0, <2>1, <2>4, <2>5, <2>6 DEF TypeOK, Types, Work, senderVars, relayVars
<1>2. CASE Recover
  BY <1>0, <1>2 DEF Recover, TypeOK, Types, Busy, senderVars, relayVars, readerVars
<1> QED BY <1>1, <1>2

LEMMA StepTypes ==
    ASSUME Types, [Next]_vars
    PROVE  Types'
<1>0. TypeOK /\ Busy
  BY DEF Types
<1>1. ASSUME NEW p \in Process,
             (\E b \in Bundle : Commit(p, b)) \/ Sender(p) \/ Relay(p) \/ Kill(p)
      PROVE  Types'
  <2>1. TypeOK'
    BY <1>1, SenderTypes, RelayTypes DEF Sender, Types
  <2>2. UNCHANGED handler
    BY <1>1 DEF Commit, Sender, Publish, Store, Relay, Select, Send, CommitRelay,
                Kill, readerVars
  <2> QED BY <2>1, <2>2 DEF Types, Busy
<1>2. CASE UNCHANGED vars
  BY <1>2 DEF vars, senderVars, relayVars, brokerVars, readerVars, Types, TypeOK, Busy
<1>3. ASSUME NEW q \in Queue, Connect(q) PROVE Types'
  <2>1. linked' \subseteq Queue
    BY <1>0, <1>3 DEF Connect, TypeOK
  <2> QED BY <1>0, <1>3, <2>1 DEF Connect, TypeOK, Types, Busy, senderVars, relayVars, brokerVars
<1> QED BY <1>1, <1>2, <1>3, ConsumerTypes, BrokerTypes DEF Next

LEMMA InitTypes ==
    ASSUME Init
    PROVE  Types
BY EmptyWork DEF Init, Types, TypeOK, Busy, Closed

\* Every variable keeps its type: no count of waiting messages goes below zero,
\* and whatever the relay, an outage or a dead consumer puts back is an event.
THEOREM TypeCorrect == Spec => []TypeOK
<1>1. Types => TypeOK
  BY DEF Types
<1> QED BY <1>1, InitTypes, StepTypes, PTL DEF Spec

-----------------------------------------------------------------------------
(* The senders' part of the invariant. *)

LEMMA DueInEvent ==
    ASSUME TypeOK, NEW p \in Process
    PROVE  Due(p) \subseteq Event
BY EntriesInEvent DEF TypeOK, Due

LEMMA SendersKept ==
    ASSUME TypeOK, SendersInv, OwedOnce', UNCHANGED committed,
           \A p \in Process : Due(p)' \subseteq Due(p),
           \A e \in Event :
               /\ New(e)
               /\ e \notin committed \/ \E p \in Process : e \in Due(p)'
               => New(e)'
    PROVE  SendersInv'
<1>1. DueApart'
  BY DEF SendersInv, DueApart
<1>2. DueNew'
  BY DueInEvent DEF SendersInv, DueNew
<1>3. Unborn'
  BY DEF SendersInv, Unborn
<1> QED BY <1>1, <1>2, <1>3 DEF SendersInv

LEMMA SendersIdle ==
    ASSUME TypeOK, SendersInv, UNCHANGED senderVars,
           \A e \in Event : New(e) => New(e)'
    PROVE  SendersInv'
<1>1. OwedOnce' /\ \A p \in Process : Due(p)' = Due(p)
  BY DEF SendersInv, OwedOnce, Due, senderVars
<1> QED BY <1>1, SendersKept DEF senderVars

\* A step behind the senders makes no copy of an event without one.
LEMMA NoCopyNoStep ==
    ASSUME Types, NEW e \in Event, ~ Sent(e),
           \/ \E p \in Process : Relay(p)
           \/ Outage \/ Recover
           \/ \E q \in Queue : Connect(q) \/ Die(q) \/ \E s \in Slot : Consumer(q, s)
    PROVE  /\ ~ Sent(e)'
           /\ \A q \in Queue : e \in claimed'[q] => e \in claimed[q]
           /\ \A q \in Queue : <<q, e>> \in missed' => <<q, e>> \in missed
           /\ \A q \in Queue : <<q, e>> \in refused' => <<q, e>> \in refused
<1>0. TypeOK /\ Busy
  BY DEF Types
<1>n. e # NoEvent
  BY EventBusAssumption DEF EventBusAssumption
<1>r. \A q \in Queue : queue[q][e] = 0 /\ Unacked(q, e) = 0
  BY UnackedOK DEF Sent
<1>1. ASSUME NEW p \in Process, Select(p) PROVE ~ Sent(e)'
  <2>1. Oldest(Unlocked) \subseteq outbox
    BY DEF Oldest, Unlocked
  <2>2. \A x \in Process : relay'[x].left \subseteq outbox \cup relay[x].left
    BY <1>0, <1>1, <2>1 DEF Select, TypeOK
  <2> QED BY <1>1, <2>2 DEF Select, Sent, brokerVars, readerVars
<1>2. ASSUME NEW p \in Process, Send(p) PROVE ~ Sent(e)'
  <2>1. PICK r \in relay[p].left :
          /\ relay' = [relay EXCEPT ![p].left = IF up THEN @ \ {r} ELSE {},
                                    ![p].sent = Deleted(p, r, up)]
          /\ queue' = IF up THEN Routed(r.event) ELSE queue
          /\ UNCHANGED <<outbox, handler>>
    BY <1>2 DEF Send, readerVars
  <2>2. \A x \in Process : relay'[x].left \subseteq relay[x].left
    BY <1>0, <2>1 DEF TypeOK
  <2>3. r.event # e
    BY DEF Sent
  <2>4. \A q \in Queue : queue'[q][e] = 0
    BY <1>0, <1>r, <2>1, <2>3 DEF Routed, TypeOK
  <2> QED BY <2>1, <2>2, <2>4 DEF Sent
<1>3. ASSUME NEW p \in Process, CommitRelay(p) PROVE ~ Sent(e)'
  <2>1. \A x \in Process : relay'[x].left \subseteq relay[x].left
    BY <1>0, <1>3 DEF CommitRelay, TypeOK, Closed
  <2> QED BY <1>3, <2>1 DEF CommitRelay, Sent, brokerVars, readerVars
<1>4. CASE Outage
  <2>1. \A q \in Queue : queue'[q][e] = 0
    BY <1>0, <1>4, <1>r DEF Outage, Returned, TypeOK
  <2>2. UNCHANGED <<outbox, relay>>
    BY <1>4 DEF Outage, relayVars
  <2>3. ~ Sent(e)'
    BY <1>0, <1>4, <2>1, <2>2, Detached DEF Sent
  <2> QED BY <1>4, <2>3 DEF Outage
<1>5. CASE Recover
  BY <1>5 DEF Recover, Sent, relayVars, readerVars
<1>6. ASSUME NEW q \in Queue, NEW s \in Slot, OthersStay(q, s), handler'[q][s].event # e,
             \A x \in Queue : queue'[x][e] = 0,
             UNCHANGED <<outbox, relay>>
      PROVE  ~ Sent(e)'
  <2>1. \A x \in Queue, t \in Slot : handler'[x][t].event # e
    BY <1>6 DEF OthersStay, Sent
  <2> QED BY <1>6, <2>1 DEF Sent
<1>7. ASSUME NEW q \in Queue, NEW s \in Slot, Deliver(q, s) PROVE ~ Sent(e)'
  <2>1. PICK x \in Event :
          /\ queue[q][x] > 0
          /\ queue' = [queue EXCEPT ![q][x] = @ - 1]
          /\ handler' = [handler EXCEPT ![q][s] =
                           [pc |-> "taken", event |-> x, here |-> TRUE, kept |-> TRUE]]
          /\ UNCHANGED <<outbox, relay>>
    BY <1>7 DEF Deliver, Ready, relayVars
  <2>2. x # e
    BY <1>r, <2>1
  <2>3. \A y \in Queue : queue'[y][e] = 0
    BY <1>0, <1>r, <2>1, <2>2 DEF TypeOK
  <2>4. handler'[q][s].event = x /\ OthersStay(q, s)
    BY <1>0, <2>1 DEF TypeOK, OthersStay
  <2> QED BY <1>6, <2>1, <2>2, <2>3, <2>4
<1>8. ASSUME NEW q \in Queue, NEW s \in Slot, Claim(q, s) \/ Handle(q, s)
      PROVE  /\ ~ Sent(e)'
             /\ \A x \in Queue : e \in claimed'[x] => e \in claimed[x]
             /\ \A x \in Queue : <<x, e>> \in missed' => <<x, e>> \in missed
             /\ UNCHANGED refused
  <2>1. handler[q][s].event # e
    BY DEF Sent
  <2>2. ~ Sent(e)'
    <3>1. \/ handler' = [handler EXCEPT ![q][s].pc = "refused"]
          \/ handler' = [handler EXCEPT ![q][s].pc = "done"]
          \/ handler' = [handler EXCEPT ![q][s].pc = "claimed"]
      BY <1>8 DEF Claim, Handle
    <3>2. OthersStay(q, s) /\ handler'[q][s].event = handler[q][s].event
      BY <1>0, <3>1, MovedTo
    <3>3. UNCHANGED <<outbox, relay, queue>>
      BY <1>8 DEF Claim, Handle, relayVars, brokerVars
    <3> QED BY <1>6, <1>r, <2>1, <3>2, <3>3
  <2>3. \A x \in Queue : e \in claimed'[x] => e \in claimed[x]
    <3>1. \/ claimed' = claimed
          \/ claimed' = [claimed EXCEPT ![q] = @ \cup {handler[q][s].event}]
      BY <1>8 DEF Claim, Handle
    <3>2. claimed \in [Queue -> SUBSET Event]
      BY <1>0 DEF TypeOK
    <3> QED BY <2>1, <3>1, <3>2
  <2>4. \A x \in Queue : <<x, e>> \in missed' => <<x, e>> \in missed
    BY <1>8, <2>1 DEF Claim, Handle
  <2>5. UNCHANGED refused
    BY <1>8 DEF Claim, Handle
  <2> QED BY <2>2, <2>3, <2>4, <2>5
<1>9. ASSUME NEW q \in Queue, Fall(q), UNCHANGED relayVars
      PROVE  /\ ~ Sent(e)'
             /\ \A x \in Queue : <<x, e>> \in missed' => <<x, e>> \in missed
             /\ \A x \in Queue : <<x, e>> \in refused' => <<x, e>> \in refused
  <2>1. /\ \A s \in Slot : handler'[q][s] = Empty
        /\ \A x \in Queue : x # q =>
             handler'[x] = handler[x] /\ queue'[x] = queue[x]
        /\ \A y \in Event : queue'[q][y] = queue[q][y] + Unacked(q, y)
        /\ \A d \in missed' \ missed : \E s \in Slot :
             d = <<q, handler[q][s].event>> /\ handler[q][s].pc = "claimed"
        /\ \A d \in refused' \ refused : \E s \in Slot :
             d = <<q, handler[q][s].event>> /\ handler[q][s].pc # "idle"
    BY <1>0, <1>9, FallMoves
  <2>2. \A x \in Queue : queue'[x][e] = 0
    BY <1>r, <2>1
  <2>3. \A x \in Queue, s \in Slot : handler'[x][s].event # e
    BY <1>n, <2>1, EmptyWork DEF Sent
  <2>4. ~ Sent(e)'
    BY <1>9, <2>2, <2>3 DEF Sent, relayVars
  <2>5. \A x \in Queue, s \in Slot : handler[x][s].event # e
    BY DEF Sent
  <2> QED BY <2>1, <2>4, <2>5
<1>10. ASSUME NEW q \in Queue, NEW s \in Slot, Ack(q, s)
       PROVE  /\ ~ Sent(e)'
              /\ \A x \in Queue : <<x, e>> \in missed' => <<x, e>> \in missed
              /\ \A x \in Queue : <<x, e>> \in refused' => <<x, e>> \in refused
              /\ UNCHANGED claimed
  <2>1. /\ UNCHANGED <<senderVars, relayVars>> /\ UNCHANGED <<claimed, handled>>
        /\ Fall(q) \/ Answered(q, s)
    BY <1>0, <1>10, AckMoves
  <2>2. CASE Answered(q, s)
    <3>1. \A x \in Queue, t \in Slot : handler'[x][t].event # e
      BY <1>n, <2>2, EmptyWork DEF Answered, Sent
    <3>2. ~ Sent(e)'
      BY <1>r, <2>1, <2>2, <3>1 DEF Answered, Sent, relayVars
    <3>3. \A x \in Queue : <<x, e>> \in refused' => <<x, e>> \in refused
      BY <2>2 DEF Answered, Sent
    <3> QED BY <2>1, <2>2, <3>2, <3>3 DEF Answered
  <2> QED BY <1>9, <2>1, <2>2
<1>11. (\E p \in Process : Relay(p)) => UNCHANGED <<claimed, missed, refused>>
  BY DEF Relay, Select, Send, CommitRelay, readerVars
<1>12. \A q \in Queue, s \in Slot : Deliver(q, s) => UNCHANGED <<claimed, missed, refused>>
  BY DEF Deliver
<1>13. \A q \in Queue : Die(q) => Fall(q) /\ UNCHANGED relayVars /\ UNCHANGED claimed
  BY DEF Die
<1>14. Outage \/ Recover => UNCHANGED <<claimed, missed, refused>>
  BY DEF Outage, Recover, readerVars
<1>15. ASSUME NEW q \in Queue, Connect(q)
       PROVE  ~ Sent(e)' /\ UNCHANGED <<claimed, missed, refused>>
  BY <1>15 DEF Connect, Sent, relayVars, brokerVars
<1> QED BY <1>1, <1>2, <1>3, <1>4, <1>5, <1>7, <1>8, <1>9, <1>10, <1>11, <1>12, <1>13,
           <1>14, <1>15
        DEF Relay, Consumer

-----------------------------------------------------------------------------
(* The consumers' part of the invariant. *)

\* It survives a step that claims and handles nothing, if what becomes missed
\* is new, or was in hand until now.
LEMMA ConsumersKept ==
    ASSUME ConsumersInv, UNCHANGED <<claimed, handled>>,
           \A q \in Queue, s \in Slot, e \in Event :
               InHand(q, s, e)' => InHand(q, s, e),
           \A q \in Queue, e \in Event :
               <<q, e>> \in missed' /\ <<q, e>> \notin missed =>
                   \/ New(e) /\ ~ Sent(e)'
                   \/ /\ \E s \in Slot : InHand(q, s, e)
                      /\ \A s \in Slot : ~ InHand(q, s, e)',
           \A q \in Queue, e \in Event :
               <<q, e>> \in missed /\ ~ Sent(e) => ~ Sent(e)'
    PROVE  ConsumersInv'
<1>0. Once /\ Working /\ GivenUp
  BY DEF ConsumersInv
<1>1. \A q \in Queue, s \in Slot, e \in Event : InHand(q, s, e) => ~ New(e)
  BY DEF InHand, New, Sent
<1>2. Once'
  <2> SUFFICES ASSUME NEW q \in Queue, NEW e \in Event, handled[q][e] = 1
               PROVE  e \in claimed[q] /\ <<q, e>> \notin missed'
    BY <1>0 DEF Once
  <2>1. e \in claimed[q] /\ <<q, e>> \notin missed
    BY <1>0 DEF Once
  <2>2. ~ New(e)
    BY <2>1 DEF New
  <2>3. ASSUME NEW s \in Slot, InHand(q, s, e) PROVE FALSE
    <3>1. handled[q][e] = 0
      BY <1>0, <2>3 DEF Working
    <3> QED BY <3>1
  <2> QED BY <2>1, <2>2, <2>3
<1>3. Working'
  BY <1>0, <1>1 DEF Working
<1>4. GivenUp'
  <2> SUFFICES ASSUME NEW q \in Queue, NEW e \in Event, <<q, e>> \in missed'
               PROVE  e \in claimed[q] \/ ~ Sent(e)'
    BY DEF GivenUp
  <2> QED BY <1>0 DEF GivenUp, Working
<1> QED BY <1>2, <1>3, <1>4 DEF ConsumersInv

-----------------------------------------------------------------------------
(* The induction: one lemma for every kind of step. *)

LEMMA CommitStep ==
    ASSUME BusInv, NEW p \in Process, NEW b \in Bundle, Commit(p, b)
    PROVE  SendersInv' /\ ConsumersInv'
<1>0. TypeOK /\ OwedOnce /\ DueApart /\ DueNew /\ Unborn /\ ConsumersInv
  BY DEF BusInv, Types, SendersInv
<1>1. b \in Seq(Event) /\ Distinct(b) /\ Entries(b) \subseteq Event \ committed
  BY EntriesInEvent, EventBusAssumption DEF EventBusAssumption, Commit, Distinct
<1>2. /\ owed'[p] = b /\ storing[p] = NoEvent
      /\ committed' = committed \cup Entries(b)
      /\ \A x \in Process : x # p => owed'[x] = owed[x]
      /\ UNCHANGED <<storing, relayVars, brokerVars, readerVars, missed, refused>>
  BY <1>0 DEF Commit, TypeOK
<1>3. Due(p)' = Entries(b) /\ \A x \in Process : x # p => Due(x)' = Due(x)
  BY <1>2 DEF Due
<1>4. \A e \in Event : (Sent(e)' <=> Sent(e)) /\ (New(e)' <=> New(e))
  BY <1>2 DEF Sent, New, relayVars, brokerVars, readerVars
<1>5. OwedOnce'
  BY <1>0, <1>1, <1>2, EventBusAssumption DEF OwedOnce, EventBusAssumption, Distinct
<1>6. DueApart'
  <2>1. \A x \in Process : x # p => Due(x) \cap Entries(b) = {}
    BY <1>0, <1>1 DEF DueNew
  <2> QED BY <1>0, <1>3, <2>1 DEF DueApart
<1>7. DueNew'
  <2>1. \A x \in Process : Due(x) \subseteq Event
    BY <1>0, DueInEvent
  <2> QED BY <1>0, <1>1, <1>2, <1>3, <1>4, <2>1 DEF DueNew, Unborn
<1>8. Unborn'
  BY <1>0, <1>2, <1>4 DEF Unborn
<1>9. ConsumersInv'
  BY <1>0, <1>2, <1>4, ConsumersKept DEF InHand, readerVars
<1> QED BY <1>5, <1>6, <1>7, <1>8, <1>9 DEF SendersInv

LEMMA PublishStep ==
    ASSUME BusInv, NEW p \in Process, Publish(p)
    PROVE  SendersInv' /\ ConsumersInv'
<1>h. Head(owed[p]) \in Event
  BY DEF Publish, BusInv, Types, TypeOK
<1> PICK h \in Event : h = Head(owed[p])
  BY <1>h
<1>0. TypeOK /\ SendersInv /\ OwedOnce /\ DueApart /\ DueNew /\ ConsumersInv
  BY DEF BusInv, Types, SendersInv
<1>1. /\ h \in Entries(owed[p]) /\ h \in Event
      /\ Distinct(Tail(owed[p]))
      /\ Entries(Tail(owed[p])) = Entries(owed[p]) \ {h}
  BY <1>0, EntriesTail, EntriesInEvent DEF Publish, TypeOK, OwedOnce
<1>2. /\ storing[p] = NoEvent /\ h # NoEvent
      /\ owed'[p] = Tail(owed[p])
      /\ \A x \in Process : x # p => owed'[x] = owed[x]
      /\ UNCHANGED <<committed, relayVars, readerVars, refused>>
  BY <1>0, <1>1, EventBusAssumption DEF Publish, TypeOK, EventBusAssumption
<1>3. h \in Due(p) /\ h \in committed /\ New(h)
  BY <1>0, <1>1 DEF Due, DueNew
<1>4. \A x \in Process : x # p => h \notin Due(x)
  BY <1>0, <1>3 DEF DueApart
<1>5. CASE storing' = [storing EXCEPT ![p] = h] /\ UNCHANGED <<queue, missed>>
  <2>1. storing'[p] = h /\ \A x \in Process : x # p => storing'[x] = storing[x]
    BY <1>0, <1>5 DEF TypeOK
  <2>2. \A x \in Process : Due(x)' = Due(x)
    BY <1>1, <1>2, <2>1 DEF Due
  <2>3. OwedOnce'
    BY <1>0, <1>1, <1>2, <2>1 DEF OwedOnce, Distinct
  <2>4. \A e \in Event : (Sent(e)' <=> Sent(e)) /\ (New(e)' <=> New(e))
    BY <1>2, <1>5 DEF Sent, New, relayVars, readerVars
  <2>5. SendersInv'
    BY <1>0, <1>2, <2>2, <2>3, <2>4, SendersKept
  <2>6. ConsumersInv'
    BY <1>0, <1>2, <1>5, <2>4, ConsumersKept DEF InHand, readerVars
  <2> QED BY <2>5, <2>6
<1>6. CASE /\ UNCHANGED storing
           /\ \/ queue' = Routed(h) /\ UNCHANGED missed
              \/ missed' = missed \cup Deliveries({h}) /\ UNCHANGED queue
  <2>1. Due(p)' = Due(p) \ {h} /\ \A x \in Process : x # p => Due(x)' = Due(x)
    BY <1>1, <1>2, <1>6 DEF Due
  <2>2. OwedOnce'
    BY <1>0, <1>1, <1>2, <1>6 DEF OwedOnce, Distinct
  <2>3. \A e \in Event : e # h =>
          (\A q \in Queue : queue'[q][e] = queue[q][e])
          /\ \A q \in Queue : <<q, e>> \in missed' <=> <<q, e>> \in missed
    BY <1>0, <1>1, <1>6 DEF Routed, TypeOK, Deliveries
  <2>4. \A e \in Event : e # h => (Sent(e)' <=> Sent(e)) /\ (New(e)' <=> New(e))
    BY <1>2, <2>3 DEF Sent, New, relayVars, readerVars
  <2>5. SendersInv'
    BY <1>0, <1>2, <1>3, <1>4, <2>1, <2>2, <2>4, SendersKept
  <2>6. \A q \in Queue : <<q, h>> \notin missed
    BY <1>3 DEF New
  <2>7. \A q \in Queue : <<q, h>> \in missed' => ~ Sent(h)'
    <3>1. UNCHANGED queue => (Sent(h)' <=> Sent(h))
      BY <1>2 DEF Sent, relayVars, readerVars
    <3> QED BY <1>3, <1>6, <2>6, <3>1 DEF New
  <2>8. \A q \in Queue, e \in Event :
          <<q, e>> \in missed' /\ <<q, e>> \notin missed => New(e) /\ ~ Sent(e)'
    BY <1>3, <2>3, <2>7
  <2>9. \A q \in Queue, e \in Event :
          <<q, e>> \in missed /\ ~ Sent(e) => ~ Sent(e)'
    BY <2>4, <2>6
  <2>10. ConsumersInv'
    BY <1>0, <1>2, <2>8, <2>9, ConsumersKept DEF InHand, readerVars
  <2> QED BY <2>5, <2>10
<1> QED BY <1>5, <1>6 DEF Publish

LEMMA StoreStep ==
    ASSUME BusInv, NEW p \in Process, Store(p)
    PROVE  SendersInv' /\ ConsumersInv'
<1>h. storing[p] \in Event
  BY DEF Store, BusInv, Types, TypeOK
<1> PICK h \in Event : h = storing[p]
  BY <1>h
<1>0. TypeOK /\ SendersInv /\ OwedOnce /\ DueApart /\ DueNew /\ ConsumersInv
  BY DEF BusInv, Types, SendersInv
<1>1. h \in Event /\ h # NoEvent /\ h \notin Entries(owed[p])
  BY <1>0 DEF Store, TypeOK, OwedOnce
<1>2. /\ storing'[p] = NoEvent
      /\ \A x \in Process : x # p => storing'[x] = storing[x]
      /\ UNCHANGED <<committed, owed, relay, brokerVars, readerVars, refused>>
  BY <1>0 DEF Store, TypeOK
<1>3. h \in Due(p) /\ h \in committed /\ New(h)
  BY <1>0, <1>1 DEF Due, DueNew
<1>4. \A x \in Process : x # p => h \notin Due(x)
  BY <1>0, <1>3 DEF DueApart
<1>5. \/ outbox' = outbox \cup {[id |-> nextId, event |-> h]} /\ UNCHANGED missed
      \/ missed' = missed \cup Deliveries({h}) /\ UNCHANGED outbox
  BY DEF Store, Stored
<1>6. Due(p)' = Due(p) \ {h} /\ \A x \in Process : x # p => Due(x)' = Due(x)
  BY <1>1, <1>2 DEF Due
<1>7. OwedOnce'
  BY <1>0, <1>2, EntriesInEvent, EventBusAssumption
     DEF OwedOnce, TypeOK, EventBusAssumption
<1>8. \A e \in Event : e # h => (Sent(e)' <=> Sent(e)) /\ (New(e)' <=> New(e))
  BY <1>2, <1>5 DEF Sent, New, brokerVars, readerVars, Deliveries
<1>9. SendersInv'
  BY <1>0, <1>2, <1>3, <1>4, <1>6, <1>7, <1>8, SendersKept
<1>10. \A q \in Queue : <<q, h>> \notin missed
  BY <1>3 DEF New
<1>11. \A q \in Queue : <<q, h>> \in missed' => ~ Sent(h)'
  <2>1. UNCHANGED outbox => (Sent(h)' <=> Sent(h))
    BY <1>2 DEF Sent, brokerVars, readerVars
  <2> QED BY <1>3, <1>5, <1>10, <2>1 DEF New
<1>12. \A q \in Queue, e \in Event : e # h => (<<q, e>> \in missed' <=> <<q, e>> \in missed)
  BY <1>5 DEF Deliveries
<1>13. \A q \in Queue, e \in Event :
         <<q, e>> \in missed' /\ <<q, e>> \notin missed => New(e) /\ ~ Sent(e)'
  BY <1>3, <1>11, <1>12
<1>14. \A q \in Queue, e \in Event :
         <<q, e>> \in missed /\ ~ Sent(e) => ~ Sent(e)'
  BY <1>8, <1>10
<1>15. ConsumersInv'
  BY <1>0, <1>2, <1>13, <1>14, ConsumersKept DEF InHand, readerVars
<1> QED BY <1>9, <1>15

LEMMA KillStep ==
    ASSUME BusInv, NEW p \in Process, Kill(p)
    PROVE  SendersInv' /\ ConsumersInv'
<1>0. TypeOK /\ SendersInv /\ OwedOnce /\ DueApart /\ DueNew /\ ConsumersInv
  BY DEF BusInv, Types, SendersInv
<1>1. /\ owed'[p] = << >> /\ storing'[p] = NoEvent
      /\ \A x \in Process : x # p => owed'[x] = owed[x] /\ storing'[x] = storing[x]
      /\ missed' = missed \cup Deliveries(Due(p))
      /\ \A x \in Process : relay'[x].left \subseteq relay[x].left
      /\ UNCHANGED <<committed, outbox, queue, readerVars, refused>>
  BY <1>0 DEF Kill, TypeOK, Due, Closed
<1>2. Due(p)' = {} /\ \A x \in Process : x # p => Due(x)' = Due(x)
  BY <1>1, EntriesEmpty DEF Due
<1>3. OwedOnce'
  BY <1>0, <1>1, EntriesEmpty DEF OwedOnce, Distinct
<1>4. \A e \in Event : ~ Sent(e) => ~ Sent(e)'
  BY <1>1 DEF Sent, readerVars
<1>5. \A q \in Queue, e \in Event :
        <<q, e>> \in missed' => <<q, e>> \in missed \/ e \in Due(p)
  BY <1>1 DEF Deliveries
<1>6. \A e \in Due(p) : e \in committed /\ New(e) /\ \A x \in Process : e \notin Due(x)'
  BY <1>0, <1>2 DEF DueNew, DueApart
<1>7. \A e \in Event : New(e) /\ e \notin Due(p) => New(e)'
  BY <1>1, <1>4, <1>5 DEF New, readerVars
<1>8. SendersInv'
  BY <1>0, <1>1, <1>2, <1>3, <1>6, <1>7, SendersKept
<1>9. \A e \in Due(p) : ~ Sent(e)'
  BY <1>0, <1>4, <1>6, DueInEvent DEF New
<1>10. ConsumersInv'
  BY <1>0, <1>1, <1>4, <1>5, <1>6, <1>9, ConsumersKept DEF InHand, readerVars
<1> QED BY <1>8, <1>10

\* A step behind the senders, as far as nobody claims or handles an event.
LEMMA QuietStep ==
    ASSUME BusInv, UNCHANGED senderVars,
           \/ \E p \in Process : Relay(p)
           \/ Outage \/ Recover
           \/ \E q \in Queue : Connect(q) \/ Die(q) \/ \E s \in Slot : Consumer(q, s),
           UNCHANGED <<claimed, handled>>,
           \A q \in Queue, s \in Slot, e \in Event :
               InHand(q, s, e)' => InHand(q, s, e),
           \A q \in Queue, e \in Event :
               <<q, e>> \in missed' /\ <<q, e>> \notin missed =>
                   /\ \E s \in Slot : InHand(q, s, e)
                   /\ \A s \in Slot : ~ InHand(q, s, e)'
    PROVE  SendersInv' /\ ConsumersInv'
<1>0. Types /\ TypeOK /\ SendersInv /\ ConsumersInv
  BY DEF BusInv, Types
<1>1. \A e \in Event : ~ Sent(e) =>
        /\ ~ Sent(e)'
        /\ \A q \in Queue : <<q, e>> \in missed' => <<q, e>> \in missed
        /\ \A q \in Queue : <<q, e>> \in refused' => <<q, e>> \in refused
  BY <1>0, NoCopyNoStep
<1>2. \A e \in Event : New(e) => New(e)'
  BY <1>1 DEF New
<1>3. SendersInv'
  BY <1>0, <1>2, SendersIdle
<1>4. \A q \in Queue, e \in Event : <<q, e>> \in missed /\ ~ Sent(e) => ~ Sent(e)'
  BY <1>1
<1>5. ConsumersInv'
  BY <1>0, <1>4, ConsumersKept
<1> QED BY <1>3, <1>5

LEMMA RelayStep ==
    ASSUME BusInv, (\E p \in Process : Relay(p)) \/ Outage \/ Recover
    PROVE  SendersInv' /\ ConsumersInv'
<1>1. UNCHANGED <<senderVars, claimed, handled, missed>>
  BY DEF Relay, Select, Send, CommitRelay, Outage, Recover, readerVars
<1>2. \A q \in Queue, s \in Slot : /\ handler'[q][s].pc = handler[q][s].pc
                                  /\ handler'[q][s].event = handler[q][s].event
  <2>1. Outage \/ UNCHANGED handler
    BY DEF Relay, Select, Send, CommitRelay, Recover, readerVars
  <2> QED BY <2>1, Detached DEF BusInv, Types
<1>3. \A q \in Queue, s \in Slot, e \in Event : InHand(q, s, e)' => InHand(q, s, e)
  BY <1>2 DEF InHand
<1>4. UNCHANGED senderVars /\ UNCHANGED <<claimed, handled>> /\ UNCHANGED missed
  BY <1>1
<1> QED BY <1>3, <1>4, QuietStep

LEMMA ConnectStep ==
    ASSUME BusInv, NEW q \in Queue, Connect(q)
    PROVE  SendersInv' /\ ConsumersInv'
<1>1. /\ UNCHANGED senderVars /\ UNCHANGED <<claimed, handled>> /\ UNCHANGED missed
      /\ UNCHANGED handler
  BY DEF Connect
<1>2. \A x \in Queue, t \in Slot, y \in Event : InHand(x, t, y)' => InHand(x, t, y)
  BY <1>1 DEF InHand
<1> QED BY <1>1, <1>2, QuietStep

\* What one handler's step leaves in the hands of the others.
LEMMA Others ==
    ASSUME NEW q \in Queue, NEW s \in Slot, OthersStay(q, s)
    PROVE  \A x \in Queue, t \in Slot, e \in Event :
               x # q \/ t # s => (InHand(x, t, e)' <=> InHand(x, t, e))
BY DEF OthersStay, InHand

LEMMA DeliverStep ==
    ASSUME BusInv, NEW q \in Queue, NEW s \in Slot, Deliver(q, s)
    PROVE  SendersInv' /\ ConsumersInv'
<1>1. PICK e \in Event :
        handler' = [handler EXCEPT ![q][s] =
                      [pc |-> "taken", event |-> e, here |-> TRUE, kept |-> TRUE]]
  BY DEF Deliver, Ready
<1>2. handler'[q][s].pc = "taken" /\ OthersStay(q, s)
  BY <1>1 DEF BusInv, Types, TypeOK, OthersStay
<1>3. \A x \in Queue, t \in Slot, y \in Event : InHand(x, t, y)' => InHand(x, t, y)
  BY <1>2, Others DEF InHand
<1>4. UNCHANGED senderVars /\ UNCHANGED <<claimed, handled>> /\ UNCHANGED missed
  BY DEF Deliver
<1>5. Consumer(q, s)
  BY DEF Consumer
<1> QED BY <1>3, <1>4, <1>5, QuietStep

\* The end of a consumer's process, by itself or in an acknowledgement.
LEMMA FallStep ==
    ASSUME BusInv, NEW q \in Queue, Fall(q), Die(q) \/ \E s \in Slot : Consumer(q, s),
           UNCHANGED senderVars, UNCHANGED <<claimed, handled>>
    PROVE  SendersInv' /\ ConsumersInv'
<1>0. TypeOK
  BY DEF BusInv, Types
<1>1. /\ \A s \in Slot : handler'[q][s] = Empty
      /\ \A x \in Queue : x # q => handler'[x] = handler[x] /\ queue'[x] = queue[x]
      /\ \A d \in missed' \ missed : \E s \in Slot :
           d = <<q, handler[q][s].event>> /\ handler[q][s].pc = "claimed"
  BY <1>0, FallMoves
<1>2. /\ \A s \in Slot, e \in Event : ~ InHand(q, s, e)'
      /\ \A x \in Queue, s \in Slot, e \in Event : InHand(x, s, e)' => InHand(x, s, e)
  BY <1>1, EmptyWork DEF InHand
<1>3. \A x \in Queue, e \in Event :
        <<x, e>> \in missed' /\ <<x, e>> \notin missed =>
            x = q /\ \E s \in Slot : InHand(q, s, e)
  BY <1>1 DEF InHand
<1> QED BY <1>2, <1>3, QuietStep

LEMMA DieStep ==
    ASSUME BusInv, NEW q \in Queue, Die(q)
    PROVE  SendersInv' /\ ConsumersInv'
<1>1. Fall(q) /\ UNCHANGED senderVars /\ UNCHANGED <<claimed, handled>>
  BY DEF Die
<1> QED BY <1>1, FallStep

LEMMA AckStep ==
    ASSUME BusInv, NEW q \in Queue, NEW s \in Slot, Ack(q, s)
    PROVE  SendersInv' /\ ConsumersInv'
<1>0. TypeOK /\ Consumer(q, s)
  BY DEF BusInv, Types, Consumer
<1>1. /\ UNCHANGED <<senderVars, relayVars>> /\ UNCHANGED <<claimed, handled>>
      /\ Fall(q) \/ Answered(q, s)
  BY <1>0, AckMoves
<1>2. CASE Fall(q)
  BY <1>0, <1>1, <1>2, FallStep
<1>3. CASE Answered(q, s)
  <2>1. \A x \in Queue, t \in Slot, y \in Event : InHand(x, t, y)' => InHand(x, t, y)
    BY <1>3, EmptyWork DEF Answered, InHand
  <2>2. UNCHANGED senderVars /\ UNCHANGED missed
    BY <1>1, <1>3 DEF Answered
  <2> QED BY <1>0, <1>1, <2>1, <2>2, QuietStep
<1> QED BY <1>1, <1>2, <1>3

LEMMA ClaimStep ==
    ASSUME BusInv, NEW q \in Queue, NEW s \in Slot, Claim(q, s)
    PROVE  SendersInv' /\ ConsumersInv'
<1>0. /\ Types /\ TypeOK /\ SendersInv
      /\ ConsumersInv /\ Once /\ Working /\ GivenUp
  BY DEF BusInv, Types, ConsumersInv
<1>h. handler[q][s].event \in Event
  BY <1>0 DEF Claim, Types, Busy
<1> PICK h \in Event : h = handler[q][s].event
  BY <1>h
<1>c. Consumer(q, s) /\ UNCHANGED senderVars /\ UNCHANGED handled /\ UNCHANGED refused
  BY DEF Consumer, Claim
<1>m. /\ OthersStay(q, s) /\ handler'[q][s].event = h
      /\ \/ handler'[q][s].pc \in {"refused", "done"}
         \/ handler'[q][s].pc = "claimed"
  <2>1. \/ handler' = [handler EXCEPT ![q][s].pc = "refused"]
        \/ handler' = [handler EXCEPT ![q][s].pc = "done"]
        \/ handler' = [handler EXCEPT ![q][s].pc = "claimed"]
    BY DEF Claim
  <2> QED BY <1>0, <2>1, MovedTo
<1>o. \A x \in Queue, t \in Slot, e \in Event :
        x # q \/ t # s => (InHand(x, t, e)' <=> InHand(x, t, e))
  BY <1>m, Others
<1>1. CASE handler'[q][s].pc \in {"refused", "done"} /\ UNCHANGED <<claimed, missed>>
  <2>1. \A x \in Queue, t \in Slot, e \in Event : InHand(x, t, e)' => InHand(x, t, e)
    BY <1>1, <1>o DEF InHand
  <2>2. UNCHANGED <<claimed, handled>> /\ UNCHANGED missed
    BY <1>1, <1>c
  <2> QED BY <1>c, <2>1, <2>2, QuietStep
<1>2. CASE /\ h \notin claimed[q]
           /\ claimed' = [claimed EXCEPT ![q] = @ \cup {h}]
           /\ \/ handler'[q][s].pc = "claimed" /\ UNCHANGED missed
              \/ handler'[q][s].pc = "done" /\ missed' = missed \cup {<<q, h>>}
  <2>2. /\ \A e \in Event : e # h => ~ InHand(q, s, e)'
        /\ InHand(q, s, h)' => <<q, h>> \notin missed' \/ <<q, h>> \in missed
    BY <1>2, <1>m DEF InHand
  <2>3. /\ claimed'[q] = claimed[q] \cup {h}
        /\ \A x \in Queue : x # q => claimed'[x] = claimed[x]
    BY <1>0, <1>2 DEF TypeOK
  <2>4. Sent(h)
    BY DEF Sent
  <2>5. \A e \in Event : ~ Sent(e) =>
          /\ ~ Sent(e)'
          /\ \A x \in Queue : e \in claimed'[x] => e \in claimed[x]
          /\ \A x \in Queue : <<x, e>> \in missed' => <<x, e>> \in missed
    BY <1>0, <1>c, NoCopyNoStep
  <2>6. SendersInv'
    <3>1. \A e \in Event : New(e) => New(e)'
      BY <1>c, <2>5 DEF New
    <3> QED BY <1>0, <1>c, <3>1, SendersIdle
  <2>7. <<q, h>> \notin missed /\ handled[q][h] = 0
    BY <1>0, <1>2, <2>4 DEF GivenUp, Once
  <2>8. \A t \in Slot : ~ InHand(q, t, h)
    BY <1>0, <1>2 DEF Working
  <2>m. \A x \in Queue, e \in Event :
          <<x, e>> \in missed' => <<x, e>> \in missed \/ (x = q /\ e = h)
    BY <1>2
  <2>9. Once'
    <3> SUFFICES ASSUME NEW x \in Queue, NEW e \in Event
                 PROVE  /\ handled[x][e] \in {0, 1}
                        /\ handled[x][e] = 1 => e \in claimed'[x] /\ <<x, e>> \notin missed'
      BY <1>c DEF Once
    <3>1. /\ handled[x][e] \in {0, 1}
          /\ handled[x][e] = 1 => e \in claimed[x] /\ <<x, e>> \notin missed
      BY <1>0 DEF Once
    <3> QED BY <2>3, <2>7, <2>m, <3>1
  <2>10. Working'
    <3> SUFFICES ASSUME NEW x \in Queue, NEW t \in Slot, NEW e \in Event,
                        InHand(x, t, e)'
                 PROVE  /\ e \in claimed'[x] /\ handled[x][e] = 0
                        /\ <<x, e>> \notin missed'
                        /\ \A u \in Slot \ {t} : ~ InHand(x, u, e)'
      BY <1>c DEF Working
    <3>1. CASE x = q /\ t = s
      <4>1. e = h /\ <<q, h>> \notin missed'
        BY <2>2, <2>7, <3>1
      <4> QED BY <1>o, <2>3, <2>7, <2>8, <3>1, <4>1
    <3>2. CASE x # q \/ t # s
      <4>1. InHand(x, t, e)
        BY <1>o, <3>2
      <4>2. /\ e \in claimed[x] /\ handled[x][e] = 0 /\ <<x, e>> \notin missed
            /\ \A u \in Slot \ {t} : ~ InHand(x, u, e)
        BY <1>0, <4>1 DEF Working
      <4>3. x = q => e # h
        BY <1>2, <4>2
      <4>4. e \in claimed'[x]
        BY <2>3, <4>2
      <4>5. <<x, e>> \notin missed'
        BY <2>m, <4>2, <4>3
      <4>6. \A u \in Slot \ {t} : ~ InHand(x, u, e)'
        BY <1>o, <2>2, <4>2, <4>3
      <4> QED BY <4>2, <4>4, <4>5, <4>6
    <3> QED BY <3>1, <3>2
  <2>11. GivenUp'
    <3> SUFFICES ASSUME NEW x \in Queue, NEW e \in Event, <<x, e>> \in missed'
                 PROVE  e \in claimed'[x] \/ ~ Sent(e)'
      BY DEF GivenUp
    <3>1. CASE x = q /\ e = h
      BY <2>3, <3>1
    <3>2. CASE <<x, e>> \in missed
      <4>1. e \in claimed[x] \/ ~ Sent(e)
        BY <1>0, <3>2 DEF GivenUp
      <4> QED BY <2>3, <2>5, <4>1
    <3> QED BY <2>m, <3>1, <3>2
  <2> QED BY <2>6, <2>9, <2>10, <2>11 DEF ConsumersInv
<1>3. \/ handler'[q][s].pc \in {"refused", "done"} /\ UNCHANGED <<claimed, missed>>
      \/ /\ h \notin claimed[q]
         /\ claimed' = [claimed EXCEPT ![q] = @ \cup {h}]
         /\ \/ handler'[q][s].pc = "claimed" /\ UNCHANGED missed
            \/ handler'[q][s].pc = "done" /\ missed' = missed \cup {<<q, h>>}
  <2>1. \A pc \in {"refused", "done", "claimed"} :
          handler' = [handler EXCEPT ![q][s].pc = pc] => handler'[q][s].pc = pc
    <3> SUFFICES ASSUME NEW pc \in {"refused", "done", "claimed"},
                        handler' = [handler EXCEPT ![q][s].pc = pc]
                 PROVE  handler'[q][s].pc = pc
      OBVIOUS
    <3> QED BY <1>0, MovedTo
  <2> QED BY <2>1 DEF Claim, Duplicate
<1> QED BY <1>1, <1>2, <1>3

LEMMA HandleStep ==
    ASSUME BusInv, NEW q \in Queue, NEW s \in Slot, Handle(q, s)
    PROVE  SendersInv' /\ ConsumersInv'
<1>0. /\ Types /\ TypeOK /\ SendersInv
      /\ ConsumersInv /\ Once /\ Working /\ GivenUp
  BY DEF BusInv, Types, ConsumersInv
<1>h. handler[q][s].event \in Event
  BY <1>0 DEF Handle, Types, Busy
<1> PICK h \in Event : h = handler[q][s].event
  BY <1>h
<1>c. Consumer(q, s) /\ UNCHANGED senderVars /\ UNCHANGED claimed /\ UNCHANGED refused
  BY DEF Consumer, Handle
<1>1. InHand(q, s, h)
  BY DEF Handle, InHand
<1>2. /\ h \in claimed[q] /\ handled[q][h] = 0 /\ <<q, h>> \notin missed
      /\ \A t \in Slot \ {s} : ~ InHand(q, t, h)
  BY <1>0, <1>1 DEF Working
<1>3. handler' = [handler EXCEPT ![q][s].pc = "done"]
  BY DEF Handle
<1>4. handler'[q][s].pc = "done" /\ OthersStay(q, s)
  BY <1>0, <1>3, MovedTo
<1>5. /\ \A e \in Event : ~ InHand(q, s, e)'
      /\ \A x \in Queue, t \in Slot, e \in Event :
            x # q \/ t # s => (InHand(x, t, e)' <=> InHand(x, t, e))
  BY <1>4, Others DEF InHand
<1>6. \A x \in Queue, t \in Slot, e \in Event : InHand(x, t, e)' => InHand(x, t, e)
  BY <1>5
<1>7. \A t \in Slot : ~ InHand(q, t, h)'
  BY <1>2, <1>5
<1>8. CASE missed' = missed \cup {<<q, h>>} /\ UNCHANGED handled
  <2>1. UNCHANGED <<claimed, handled>>
    BY <1>8, <1>c
  <2>2. \A x \in Queue, e \in Event :
          <<x, e>> \in missed' /\ <<x, e>> \notin missed =>
              /\ \E t \in Slot : InHand(x, t, e)
              /\ \A t \in Slot : ~ InHand(x, t, e)'
    BY <1>1, <1>7, <1>8
  <2> QED BY <1>c, <1>6, <2>1, <2>2, QuietStep
<1>9. CASE handled' = [handled EXCEPT ![q][h] = @ + 1] /\ UNCHANGED missed
  <2>1. /\ handled'[q][h] = 1
        /\ \A x \in Queue, e \in Event :
              x # q \/ e # h => handled'[x][e] = handled[x][e]
    BY <1>0, <1>2, <1>9 DEF TypeOK
  <2>2. \A e \in Event : ~ Sent(e) => ~ Sent(e)'
    BY <1>0, <1>c, NoCopyNoStep
  <2>3. SendersInv'
    <3>1. \A e \in Event : New(e) => New(e)'
      BY <1>9, <1>c, <2>2 DEF New
    <3> QED BY <1>0, <1>c, <3>1, SendersIdle
  <2>4. Once'
    <3> SUFFICES ASSUME NEW x \in Queue, NEW e \in Event
                 PROVE  /\ handled'[x][e] \in {0, 1}
                        /\ handled'[x][e] = 1
                           => e \in claimed[x] /\ <<x, e>> \notin missed
      BY <1>9, <1>c DEF Once
    <3>1. CASE x = q /\ e = h
      BY <1>2, <2>1, <3>1
    <3>2. CASE x # q \/ e # h
      <4>1. handled'[x][e] = handled[x][e]
        BY <2>1, <3>2
      <4>2. /\ handled[x][e] \in {0, 1}
            /\ handled[x][e] = 1
               => e \in claimed[x] /\ <<x, e>> \notin missed
        BY <1>0 DEF Once
      <4> QED BY <4>1, <4>2
    <3> QED BY <3>1, <3>2
  <2>5. Working'
    <3> SUFFICES ASSUME NEW x \in Queue, NEW t \in Slot, NEW e \in Event,
                        InHand(x, t, e)'
                 PROVE  /\ e \in claimed[x] /\ handled'[x][e] = 0
                        /\ <<x, e>> \notin missed
                        /\ \A u \in Slot \ {t} : ~ InHand(x, u, e)'
      BY <1>9, <1>c DEF Working
    <3>1. x # q \/ e # h
      BY <1>7
    <3>2. InHand(x, t, e)
      BY <1>6
    <3>3. /\ e \in claimed[x] /\ handled[x][e] = 0 /\ <<x, e>> \notin missed
          /\ \A u \in Slot \ {t} : ~ InHand(x, u, e)
      BY <1>0, <3>2 DEF Working
    <3> QED BY <1>6, <2>1, <3>1, <3>3
  <2>6. GivenUp'
    BY <1>0, <1>9, <1>c, <2>2 DEF GivenUp
  <2> QED BY <2>3, <2>4, <2>5, <2>6 DEF ConsumersInv
<1> QED BY <1>8, <1>9 DEF Handle

LEMMA BusInit ==
    ASSUME Init
    PROVE  BusInv
<1>1. \A e \in Event : New(e)
  BY EventBusAssumption DEF Init, New, Sent, Closed, Empty, EventBusAssumption
<1>2. OwedOnce /\ \A p \in Process : Due(p) = {}
  BY EntriesEmpty DEF Init, OwedOnce, Due
<1>3. SendersInv
  BY <1>1, <1>2 DEF SendersInv, DueApart, DueNew, Unborn
<1>4. ConsumersInv
  BY DEF Init, ConsumersInv, Once, Working, GivenUp, InHand, Empty
<1> QED BY <1>3, <1>4, InitTypes DEF BusInv

LEMMA BusStep ==
    ASSUME BusInv, [Next]_vars
    PROVE  BusInv'
<1>1. Types'
  BY StepTypes DEF BusInv
<1>2. CASE UNCHANGED vars
  <2>1. UNCHANGED <<senderVars, relayVars, brokerVars, readerVars, missed, refused>>
    BY <1>2 DEF vars
  <2>2. \A e \in Event : (Sent(e)' <=> Sent(e)) /\ (New(e)' <=> New(e))
    BY <2>1 DEF Sent, New, relayVars, brokerVars, readerVars
  <2>3. SendersInv'
    BY <2>1, <2>2, SendersIdle DEF BusInv, Types
  <2>4. ConsumersInv'
    BY <2>1, <2>2, ConsumersKept DEF BusInv, InHand, readerVars
  <2> QED BY <1>1, <2>3, <2>4 DEF BusInv
<1>3. CASE Next
  BY <1>1, <1>3, CommitStep, PublishStep, StoreStep, KillStep, RelayStep, ConnectStep,
     DeliverStep, ClaimStep, HandleStep, AckStep, DieStep
     DEF BusInv, Next, Sender, Consumer
<1> QED BY <1>2, <1>3

\* The invariant above holds in every reachable state.
LEMMA BusInvariant == Spec => []BusInv
BY BusInit, BusStep, PTL DEF Spec

-----------------------------------------------------------------------------
(* The refinement. *)

\* What the outcomes are in a state of the invariant.
LEMMA Outcomes ==
    ASSUME BusInv, NEW q \in Queue, NEW e \in Event
    PROVE  /\ handled[q][e] \in {0, 1}
           /\ handled[q][e] = 1 => <<q, e>> \notin missed
           /\ OutcomeOf(q, e) =
                IF e \notin committed \/ ~ Receives(q, e) THEN "none"
                ELSE IF <<q, e>> \in missed THEN "missed"
                ELSE IF handled[q][e] # 0 THEN "handled"
                ELSE IF <<q, e>> \in refused THEN "refused" ELSE "open"
<1>1. /\ handled[q][e] \in {0, 1}
      /\ handled[q][e] = 1 => <<q, e>> \notin missed
  BY DEF BusInv, ConsumersInv, Once
<1> QED BY <1>1 DEF OutcomeOf

LEMMA RefineInit ==
    ASSUME Init
    PROVE  Promise!Init
BY DEF Init, Promise!Init, outcome, OutcomeOf

LEMMA RefineCommit ==
    ASSUME BusInv, NEW p \in Process, NEW b \in Bundle, Commit(p, b)
    PROVE  Promise!Next
<1>1. Entries(b) \in SUBSET Event
  BY EntriesInEvent, EventBusAssumption DEF EventBusAssumption
<1>2. /\ Entries(b) \cap committed = {} /\ committed' = committed \cup Entries(b)
      /\ UNCHANGED <<handled, missed, refused>>
  BY DEF Commit, readerVars
<1>3. \A q \in Queue, e \in Entries(b) :
        /\ outcome[q][e] = "none" /\ handled[q][e] = 0
        /\ <<q, e>> \notin missed /\ <<q, e>> \notin refused
  <2>1. \A q \in Queue, e \in Entries(b) : New(e) /\ e \in Event
    BY <1>1, <1>2 DEF BusInv, SendersInv, Unborn
  <2>2. \A q \in Queue, e \in Entries(b) :
          handled[q][e] = 0 /\ <<q, e>> \notin missed /\ <<q, e>> \notin refused
    BY <2>1 DEF New, BusInv, ConsumersInv, Once
  <2> QED BY <1>2, <2>1, <2>2 DEF outcome, OutcomeOf
<1>4. ASSUME NEW q \in Queue, NEW e \in Event
      PROVE  OutcomeOf(q, e)' = IF e \in Entries(b) /\ <<q, e>> \in Deliveries(Event)
                                THEN "open" ELSE outcome[q][e]
  <2>1. <<q, e>> \in Deliveries(Event) <=> Receives(q, e)
    BY DEF Deliveries
  <2>2. outcome[q][e] = OutcomeOf(q, e)
    BY DEF outcome
  <2>3. CASE e \in Entries(b)
    BY <1>2, <1>3, <2>1, <2>2, <2>3 DEF OutcomeOf, Receives
  <2>4. CASE e \notin Entries(b)
    BY <1>2, <2>1, <2>2, <2>4 DEF OutcomeOf, Receives
  <2> QED BY <2>3, <2>4
<1>5. Promise!Commit(Entries(b))
  BY <1>1, <1>3, <1>4 DEF Promise!Commit, outcome
<1> QED BY <1>1, <1>5 DEF Promise!Next

\* A step that commits and handles nothing can only give events up, or copies.
LEMMA RefineLose ==
    ASSUME BusInv, BusInv', UNCHANGED <<committed, handled>>,
           missed \subseteq missed', refused \subseteq refused'
    PROVE  Promise!Next
<1> DEFINE D == {d \in Queue \X Event :
                   /\ outcome[d[1]][d[2]] \in {"open", "refused"}
                   /\ d \in missed'}
           R == {d \in Queue \X Event :
                   /\ outcome[d[1]][d[2]] = "open"
                   /\ d \in refused' /\ d \notin missed'}
<1>1. ASSUME NEW q \in Queue, NEW e \in Event
      PROVE  OutcomeOf(q, e)' = IF <<q, e>> \in D THEN "missed"
                                ELSE IF <<q, e>> \in R THEN "refused" ELSE outcome[q][e]
  <2>1. outcome[q][e] = OutcomeOf(q, e)
    BY DEF outcome
  <2>2. /\ handled[q][e] \in {0, 1}
        /\ handled[q][e] = 1 => <<q, e>> \notin missed'
    BY DEF BusInv, ConsumersInv, Once
  <2>3. Receives(q, e)' <=> Receives(q, e)
    BY DEF Receives
  <2>4. /\ <<q, e>> \in D <=> OutcomeOf(q, e) \in {"open", "refused"} /\ <<q, e>> \in missed'
        /\ <<q, e>> \in R <=> /\ OutcomeOf(q, e) = "open"
                              /\ <<q, e>> \in refused' /\ <<q, e>> \notin missed'
    BY <2>1
  <2> HIDE DEF D, R
  <2> QED BY <2>1, <2>2, <2>3, <2>4 DEF OutcomeOf
<1>2. Promise!Lose(D, R)
  <2> HIDE DEF D, R
  <2>1. \A d \in D \cup R : outcome[d[1]][d[2]] \in {"open", "refused"}
    BY DEF D, R
  <2> QED BY <1>1, <2>1 DEF Promise!Lose, Promise!Undecided, outcome
<1>3. D \in SUBSET (Queue \X Event) /\ R \in SUBSET (Queue \X Event)
  OBVIOUS
<1> HIDE DEF D, R
<1> QED BY <1>2, <1>3 DEF Promise!Next

LEMMA RefineHandle ==
    ASSUME BusInv, BusInv', NEW q \in Queue, NEW s \in Slot, Handle(q, s)
    PROVE  [Promise!Next]_outcome
<1>h. handler[q][s].event \in Event
  BY DEF Handle, BusInv, Types, Busy
<1> PICK h \in Event : h = handler[q][s].event
  BY <1>h
<1>1. h \in claimed[q] /\ handled[q][h] = 0 /\ <<q, h>> \notin missed
  BY DEF Handle, BusInv, ConsumersInv, Working, InHand
<1>2. UNCHANGED committed /\ UNCHANGED refused
  BY DEF Handle, senderVars
<1>3. CASE missed' = missed \cup {<<q, h>>} /\ UNCHANGED handled
  BY <1>2, <1>3, RefineLose
<1>4. CASE handled' = [handled EXCEPT ![q][h] = @ + 1] /\ UNCHANGED missed
  <2>1. /\ handled'[q][h] = 1
        /\ \A x \in Queue, e \in Event :
              x # q \/ e # h => handled'[x][e] = handled[x][e]
    BY <1>1, <1>4 DEF BusInv, Types, TypeOK
  <2>2. \A x \in Queue, e \in Event :
          x # q \/ e # h => OutcomeOf(x, e)' = OutcomeOf(x, e)
    BY <1>2, <1>4, <2>1 DEF OutcomeOf, Receives
  <2>3. CASE h \in committed /\ Receives(q, h)
    <3>1. OutcomeOf(q, h) \in {"open", "refused"} /\ OutcomeOf(q, h)' = "handled"
      BY <1>1, <1>2, <1>4, <2>1, <2>3 DEF OutcomeOf, Receives
    <3>2. Promise!Handle(q, h)
      BY <2>2, <3>1 DEF Promise!Handle, Promise!Undecided, outcome
    <3> QED BY <3>2 DEF Promise!Next
  <2>4. CASE ~ (h \in committed /\ Receives(q, h))
    <3>1. OutcomeOf(q, h)' = OutcomeOf(q, h)
      BY <1>2, <2>4 DEF OutcomeOf, Receives
    <3> QED BY <2>2, <3>1 DEF outcome
  <2> QED BY <2>3, <2>4
<1> QED BY <1>3, <1>4 DEF Handle

LEMMA RefineStep ==
    ASSUME BusInv, BusInv', [Next]_vars
    PROVE  [Promise!Next]_outcome
<1>1. CASE UNCHANGED vars
  BY <1>1 DEF vars, senderVars, readerVars, outcome, OutcomeOf, Receives
<1>2. ASSUME NEW p \in Process, Publish(p) \/ Store(p) \/ Relay(p) \/ Kill(p)
      PROVE  Promise!Next
  <2>1. /\ UNCHANGED <<committed, handled>>
        /\ missed \subseteq missed' /\ refused \subseteq refused'
    BY <1>2 DEF Publish, Store, Relay, Select, Send, CommitRelay, Kill,
                senderVars, readerVars
  <2> QED BY <2>1, RefineLose
<1>3. CASE Outage \/ Recover
  <2>1. /\ UNCHANGED <<committed, handled>>
        /\ missed \subseteq missed' /\ refused \subseteq refused'
    BY <1>3 DEF Outage, Recover, senderVars, readerVars
  <2> QED BY <2>1, RefineLose
<1>4. ASSUME NEW q \in Queue, NEW s \in Slot,
             Deliver(q, s) \/ Claim(q, s) \/ Ack(q, s)
      PROVE  Promise!Next
  <2>1. CASE Deliver(q, s) \/ Claim(q, s)
    <3>1. /\ UNCHANGED <<committed, handled>>
          /\ missed \subseteq missed' /\ refused \subseteq refused'
      BY <2>1 DEF Deliver, Claim, senderVars
    <3> QED BY <3>1, RefineLose
  <2>2. CASE Ack(q, s)
    <3>1. UNCHANGED <<committed, handled>>
      BY <2>2 DEF Ack, senderVars
    <3>2. missed \subseteq missed' /\ refused \subseteq refused'
      BY <2>2 DEF Ack, Fall
    <3> QED BY <3>1, <3>2, RefineLose
  <2> QED BY <1>4, <2>1, <2>2
<1>5. ASSUME NEW q \in Queue, Connect(q) \/ Die(q)
      PROVE  Promise!Next
  <2>1. UNCHANGED <<committed, handled>>
    BY <1>5 DEF Connect, Die, senderVars
  <2>2. missed \subseteq missed' /\ refused \subseteq refused'
    BY <1>5 DEF Connect, Die, Fall
  <2> QED BY <2>1, <2>2, RefineLose
<1> QED BY <1>1, <1>2, <1>3, <1>4, <1>5, RefineCommit, RefineHandle
        DEF Next, Sender, Consumer

\* The bus implements Delivery: whatever the relay, redelivery, dying workers
\* and dying consumers duplicate or lose, a queue's consumer handles a
\* committed event at most once, and never after it was given up; a copy that is
\* refused unclaimed leaves it open to the others.
THEOREM ImplementsDelivery == Spec => Delivers
<1>1. Init => Promise!Init
  BY RefineInit
<1>2. BusInv /\ BusInv' /\ [Next]_vars => [Promise!Next]_outcome
  BY RefineStep
<1> QED BY <1>1, <1>2, BusInvariant, PTL DEF Spec, Delivers, Promise!Spec


-----------------------------------------------------------------------------
(* No event vanishes. *)

\* Nothing has come of the event in this queue yet.
Open(q, e) ==
    handled[q][e] = 0 /\ <<q, e>> \notin missed /\ <<q, e>> \notin refused

\* The queue has a copy, or a consumer has one: one that comes back to the queue
\* if its process ends, or that it has claimed, or that was acknowledged in place
\* of another before anybody claimed it.  (A copy taken over a channel that is
\* gone is back in the queue already.)
Holds(q, s, e) ==
    /\ handler[q][s].event = e
    /\ \/ Awaited(handler[q][s])
       \/ handler[q][s].pc = "claimed"
       \/ handler[q][s].pc \in {"taken", "refused"} /\ ~handler[q][s].kept
Kept(q, e) == queue[q][e] > 0 \/ \E s \in Slot : Holds(q, s, e)
Pending(e) ==
    \/ \E p \in Process : e \in Due(p)
    \/ \E r \in outbox : r.event = e

\* The inductive invariant: an event without an outcome is on its way to the
\* queue or kept there; a row the relay is about to delete has been sent, and
\* is kept; what is claimed is worked on; and what is done with was claimed.
Traced ==
    \A q \in Queue, e \in committed :
        Receives(q, e) /\ Open(q, e) => Pending(e) \/ Kept(q, e)
Relayed ==
    \A p \in Process : \A r \in relay[p].sent : \A q \in Queue :
        Receives(q, r.event) /\ Open(q, r.event) => Kept(q, r.event)
HeldOn ==
    \A q \in Queue : \A e \in claimed[q] :
        Open(q, e) => \E s \in Slot : InHand(q, s, e)
Over ==
    \A q \in Queue, s \in Slot :
        handler[q][s].pc = "done" => handler[q][s].event \in claimed[q]
TraceInv == Traced /\ Relayed /\ HeldOn /\ Over

LEMMA UnackedSome ==
    ASSUME NEW q \in Queue, NEW e \in Event, NEW s \in Slot,
           handler[q][s].event = e, Awaited(handler[q][s])
    PROVE  Unacked(q, e) > 0
<1> DEFINE S == {x \in Slot : handler[q][x].event = e /\ Awaited(handler[q][x])}
<1>1. IsFiniteSet(S)
  BY FS_Subset, EventBusAssumption DEF EventBusAssumption
<1>2. Cardinality(S) \in Nat /\ (Cardinality(S) = 0 <=> S = {}) /\ S # {}
  BY <1>1, FS_CardinalityType, FS_EmptySet
<1> QED BY <1>2 DEF Unacked

\* A message never comes of nothing, and Routed only adds.
LEMMA RoutedAdds ==
    ASSUME TypeOK, NEW h \in Event, NEW q \in Queue, NEW e \in Event
    PROVE  /\ queue[q][e] > 0 => Routed(h)[q][e] > 0
           /\ Receives(q, h) => Routed(h)[q][h] > 0
           /\ e # h \/ ~ Receives(q, h) => Routed(h)[q][e] = queue[q][e]
<1>1. queue[q] \in [Event -> Nat]
  BY DEF TypeOK
<1>2. Routed(h)[q] = [queue[q] EXCEPT ![h] = IF Receives(q, h) THEN @ + 1 ELSE @]
  BY DEF Routed
<1> QED BY <1>1, <1>2

LEMMA DeliverMoves ==
    ASSUME TypeOK, NEW q \in Queue, NEW s \in Slot, Deliver(q, s)
    PROVE  /\ OthersStay(q, s) /\ handler[q][s] = Empty
           /\ \E e \in Event :
                /\ queue[q][e] > 0
                /\ \A x \in Queue, y \in Event :
                      x # q \/ y # e => queue'[x][y] = queue[x][y]
                /\ handler'[q][s].event = e /\ handler'[q][s].pc = "taken"
                /\ Awaited(handler'[q][s])
           /\ UNCHANGED <<senderVars, relayVars, claimed, handled, missed, refused, accidents>>
<1>1. PICK e \in Event :
        /\ queue[q][e] > 0
        /\ queue' = [queue EXCEPT ![q][e] = @ - 1]
        /\ handler' = [handler EXCEPT ![q][s] =
                         [pc |-> "taken", event |-> e, here |-> TRUE, kept |-> TRUE]]
  BY DEF Deliver, Ready
<1>2. /\ handler'[q][s] = [pc |-> "taken", event |-> e, here |-> TRUE, kept |-> TRUE]
      /\ OthersStay(q, s)
  BY <1>1 DEF TypeOK, OthersStay
<1>3. /\ handler'[q][s].event = e /\ handler'[q][s].pc = "taken"
      /\ Awaited(handler'[q][s])
  BY <1>2 DEF Awaited
<1>4. \A x \in Queue, y \in Event : x # q \/ y # e => queue'[x][y] = queue[x][y]
  BY <1>1 DEF TypeOK
<1> QED BY <1>1, <1>2, <1>3, <1>4 DEF Deliver

\* What becomes of the message in hand, and of nothing else.
LEMMA ClaimMoves ==
    ASSUME TypeOK, NEW q \in Queue, NEW s \in Slot, Claim(q, s)
    PROVE  /\ OthersStay(q, s) /\ handler[q][s].pc = "taken"
           /\ handler'[q][s].event = handler[q][s].event
           /\ handler'[q][s].here <=> handler[q][s].here
           /\ handler'[q][s].kept <=> handler[q][s].kept
           /\ \/ /\ handler'[q][s].pc = "refused" /\ UNCHANGED <<claimed, missed>>
                 /\ \/ ~ Dispatches(q, handler[q][s].event)
                    \/ Accident("claimFails")
              \/ /\ handler[q][s].event \in claimed[q]
                 /\ handler'[q][s].pc = "done" /\ UNCHANGED <<claimed, missed>>
              \/ /\ handler'[q][s].pc = "claimed"
                 /\ claimed' = [claimed EXCEPT ![q] = @ \cup {handler[q][s].event}]
                 /\ UNCHANGED missed
              \/ /\ handler'[q][s].pc = "done" /\ Accident("claimFails")
                 /\ claimed' = [claimed EXCEPT ![q] = @ \cup {handler[q][s].event}]
                 /\ missed' = missed \cup {<<q, handler[q][s].event>>}
           /\ UNCHANGED <<senderVars, relayVars>> /\ UNCHANGED <<queue, handled, refused>>
<1>1. \/ handler' = [handler EXCEPT ![q][s].pc = "refused"]
      \/ handler' = [handler EXCEPT ![q][s].pc = "done"]
      \/ handler' = [handler EXCEPT ![q][s].pc = "claimed"]
  BY DEF Claim
<1>2. /\ OthersStay(q, s) /\ handler'[q][s].event = handler[q][s].event
      /\ handler'[q][s].here <=> handler[q][s].here
      /\ handler'[q][s].kept <=> handler[q][s].kept
  BY <1>1, MovedTo
<1>3. \A pc \in {"refused", "done", "claimed"} :
        handler' = [handler EXCEPT ![q][s].pc = pc] => handler'[q][s].pc = pc
  <2> SUFFICES ASSUME NEW pc \in {"refused", "done", "claimed"},
                      handler' = [handler EXCEPT ![q][s].pc = pc]
               PROVE  handler'[q][s].pc = pc
    OBVIOUS
  <2> QED BY MovedTo
<1>4. /\ handler[q][s].pc = "taken"
      /\ UNCHANGED <<senderVars, relayVars>> /\ UNCHANGED <<queue, handled, refused>>
  BY DEF Claim, brokerVars
<1>5. \/ /\ handler'[q][s].pc = "refused" /\ UNCHANGED <<claimed, missed>>
         /\ \/ ~ Dispatches(q, handler[q][s].event)
            \/ Accident("claimFails")
      \/ /\ handler[q][s].event \in claimed[q]
         /\ handler'[q][s].pc = "done" /\ UNCHANGED <<claimed, missed>>
      \/ /\ handler'[q][s].pc = "claimed"
         /\ claimed' = [claimed EXCEPT ![q] = @ \cup {handler[q][s].event}]
         /\ UNCHANGED missed
      \/ /\ handler'[q][s].pc = "done" /\ Accident("claimFails")
         /\ claimed' = [claimed EXCEPT ![q] = @ \cup {handler[q][s].event}]
         /\ missed' = missed \cup {<<q, handler[q][s].event>>}
  BY <1>3 DEF Claim, Duplicate
<1> QED BY <1>2, <1>4, <1>5

LEMMA HandleMoves ==
    ASSUME Types, NEW q \in Queue, NEW s \in Slot, Handle(q, s)
    PROVE  /\ OthersStay(q, s) /\ handler[q][s].pc = "claimed"
           /\ handler'[q][s].pc = "done" /\ handler'[q][s].event = handler[q][s].event
           /\ handler'[q][s].here <=> handler[q][s].here
           /\ handler'[q][s].kept <=> handler[q][s].kept
           /\ \A e : e = handler[q][s].event => ~ Open(q, e)'
           /\ missed \subseteq missed'
           /\ \A x \in Queue, e \in Event : Open(x, e)' => Open(x, e)
           /\ UNCHANGED <<senderVars, relayVars, queue, claimed, refused>>
<1>0. TypeOK /\ handler[q][s].event \in Event
  BY DEF Types, Busy, Handle
<1> PICK h \in Event : h = handler[q][s].event
  BY <1>0
<1>1. handler' = [handler EXCEPT ![q][s].pc = "done"]
  BY DEF Handle
<1>4. /\ handler'[q][s].pc = "done" /\ handler'[q][s].event = handler[q][s].event
      /\ handler'[q][s].here <=> handler[q][s].here
      /\ handler'[q][s].kept <=> handler[q][s].kept
      /\ OthersStay(q, s)
  BY <1>0, <1>1, MovedTo
<1>5. \/ handled' = [handled EXCEPT ![q][h] = @ + 1] /\ UNCHANGED missed
      \/ missed' = missed \cup {<<q, h>>} /\ UNCHANGED handled
  BY DEF Handle
<1>6. handled \in [Queue -> [Event -> Nat]]
  BY <1>0 DEF TypeOK
<1>8. missed \subseteq missed' /\ handler[q][s].pc = "claimed"
      /\ UNCHANGED <<senderVars, relayVars, queue, claimed, refused>>
  BY DEF Handle, brokerVars
<1>7. ~ Open(q, h)' /\ \A x \in Queue, e \in Event : Open(x, e)' => Open(x, e)
  BY <1>5, <1>6, <1>8 DEF Open
<1> QED BY <1>4, <1>7, <1>8

\* A step that moves no handler and takes nothing from a queue.
LEMMA TraceQuiet ==
    ASSUME Types, TraceInv, UNCHANGED <<handler, claimed, handled>>,
           missed \subseteq missed', refused \subseteq refused',
           \A q \in Queue, e \in Event : queue[q][e] > 0 => queue'[q][e] > 0
    PROVE  /\ \A q \in Queue, e \in Event : Open(q, e)' => Open(q, e)
           /\ \A q \in Queue, e \in Event : Kept(q, e) => Kept(q, e)'
           /\ HeldOn' /\ Over'
<1>0. TypeOK /\ HeldOn /\ Over
  BY DEF Types, TraceInv
<1>1. UNCHANGED handler /\ UNCHANGED claimed /\ UNCHANGED handled
  OBVIOUS
<1>2. \A q \in Queue, e \in Event : Open(q, e)' => Open(q, e)
  BY <1>1 DEF Open
<1>3. ASSUME NEW q \in Queue, NEW e \in Event, Kept(q, e) PROVE Kept(q, e)'
  <2>1. queue[q][e] > 0 => queue'[q][e] > 0
    OBVIOUS
  <2> QED BY <1>1, <1>3, <2>1 DEF Kept, Holds
<1>4. HeldOn'
  <2> SUFFICES ASSUME NEW q \in Queue, NEW e \in claimed[q], Open(q, e)'
               PROVE  \E s \in Slot : InHand(q, s, e)'
    BY <1>1 DEF HeldOn
  <2>1. e \in Event
    BY <1>0 DEF TypeOK
  <2>2. \E s \in Slot : InHand(q, s, e)
    BY <1>0, <1>2, <2>1 DEF HeldOn
  <2> QED BY <1>1, <2>2 DEF InHand
<1>5. Over'
  BY <1>0, <1>1 DEF Over
<1> QED BY <1>2, <1>3, <1>4, <1>5

\* What the senders and the relay leave alone, a step of the broker or of a
\* consumer keeps traced.
LEMMA TraceBehind ==
    ASSUME Types, TraceInv, UNCHANGED <<senderVars, relayVars>>,
           \A q \in Queue, e \in Event : Open(q, e)' => Open(q, e),
           \A q \in Queue, e \in Event : Open(q, e)' /\ Kept(q, e) => Kept(q, e)'
    PROVE  Traced' /\ Relayed'
<1>0. TypeOK /\ Traced /\ Relayed
  BY DEF Types, TraceInv
<1>1. UNCHANGED <<committed, owed, storing, outbox, relay>>
  BY DEF senderVars, relayVars
<1>2. \A e \in Event : Pending(e)' <=> Pending(e)
  BY <1>1 DEF Pending, Due
<1>3. Traced'
  <2> SUFFICES ASSUME NEW q \in Queue, NEW e \in committed, Receives(q, e), Open(q, e)'
               PROVE  Pending(e)' \/ Kept(q, e)'
    BY <1>1 DEF Traced, Receives
  <2>1. e \in Event
    BY <1>0 DEF TypeOK
  <2>2. Pending(e) \/ Kept(q, e)
    BY <1>0, <2>1 DEF Traced
  <2> QED BY <1>2, <2>1, <2>2
<1>4. Relayed'
  <2> SUFFICES ASSUME NEW p \in Process, NEW r \in relay[p].sent, NEW q \in Queue,
                      Receives(q, r.event), Open(q, r.event)'
               PROVE  Kept(q, r.event)'
    BY <1>1 DEF Relayed, Receives
  <2>1. r.event \in Event
    BY <1>0 DEF TypeOK, RowType
  <2>2. Kept(q, r.event)
    BY <1>0, <2>1 DEF Relayed
  <2> QED BY <2>1, <2>2
<1> QED BY <1>3, <1>4

LEMMA TraceCommit ==
    ASSUME BusInv, TraceInv, NEW p \in Process, NEW b \in Bundle, Commit(p, b)
    PROVE  TraceInv'
<1>0. Types /\ TypeOK /\ Traced /\ Relayed
  BY DEF BusInv, Types, TraceInv
<1>1. /\ owed'[p] = b /\ storing[p] = NoEvent /\ owed[p] = << >>
      /\ committed' = committed \cup Entries(b)
      /\ \A x \in Process : x # p => owed'[x] = owed[x]
      /\ UNCHANGED <<storing, relayVars, brokerVars, missed, refused>>
      /\ UNCHANGED <<handler, claimed, handled>>
  BY <1>0 DEF Commit, TypeOK, readerVars
<1>q. \A q \in Queue, e \in Event : queue[q][e] > 0 => queue'[q][e] > 0
  BY <1>0, <1>1 DEF TypeOK, brokerVars
<1>2. /\ \A q \in Queue, e \in Event : Open(q, e)' => Open(q, e)
      /\ \A q \in Queue, e \in Event : Kept(q, e) => Kept(q, e)'
      /\ HeldOn' /\ Over'
  <2>1. missed \subseteq missed' /\ refused \subseteq refused'
    BY <1>1
  <2> QED BY <1>0, <1>1, <1>q, <2>1, TraceQuiet
<1>3. Due(p)' = Entries(b) /\ Due(p) = {} /\ \A x \in Process : x # p => Due(x)' = Due(x)
  BY <1>1, EntriesEmpty DEF Due
<1>4. UNCHANGED outbox /\ UNCHANGED relay
  BY <1>1 DEF relayVars
<1>5. \A e \in Event : Pending(e) => Pending(e)'
  BY <1>3, <1>4 DEF Pending
<1>6. Traced'
  <2> SUFFICES ASSUME NEW q \in Queue, NEW e \in committed', Receives(q, e), Open(q, e)'
               PROVE  Pending(e)' \/ Kept(q, e)'
    BY DEF Traced, Receives
  <2>1. CASE e \in Entries(b)
    <3>1. e \in Due(p)'
      BY <1>3, <2>1
    <3> QED BY <3>1 DEF Pending
  <2>2. CASE e \in committed
    <3>1. e \in Event
      BY <1>0, <2>2 DEF TypeOK
    <3>2. Pending(e) \/ Kept(q, e)
      BY <1>0, <1>2, <2>2, <3>1 DEF Traced
    <3> QED BY <1>2, <1>5, <3>1, <3>2
  <2> QED BY <1>1, <2>1, <2>2
<1>7. Relayed'
  <2> SUFFICES ASSUME NEW x \in Process, NEW r \in relay[x].sent, NEW q \in Queue,
                      Receives(q, r.event), Open(q, r.event)'
               PROVE  Kept(q, r.event)'
    BY <1>4 DEF Relayed, Receives
  <2>1. r.event \in Event
    BY <1>0 DEF TypeOK, RowType
  <2> QED BY <1>0, <1>2, <2>1 DEF Relayed
<1> QED BY <1>2, <1>6, <1>7 DEF TraceInv

\* A sender passes an event on to the broker or the outbox, or it is missed.
LEMMA TraceSender ==
    ASSUME BusInv, TraceInv, NEW p \in Process, Sender(p) \/ Kill(p)
    PROVE  TraceInv'
<1>0. Types /\ TypeOK /\ Traced /\ Relayed /\ OwedOnce
  BY DEF BusInv, Types, TraceInv, SendersInv
<1>1. /\ UNCHANGED <<handler, claimed, handled>> /\ UNCHANGED committed
      /\ missed \subseteq missed' /\ refused \subseteq refused'
      /\ outbox \subseteq outbox'
  BY DEF Sender, Publish, Store, Stored, Kill, relayVars, readerVars
<1>2. \A q \in Queue, e \in Event : queue[q][e] > 0 => queue'[q][e] > 0
  <2>1. CASE Publish(p)
    <3>1. Head(owed[p]) \in Event
      BY <1>0, <2>1 DEF Publish, TypeOK
    <3>2. \A q \in Queue, e \in Event : queue[q][e] > 0 => Routed(Head(owed[p]))[q][e] > 0
      BY <1>0, <3>1, RoutedAdds
    <3>3. queue' = queue \/ queue' = Routed(Head(owed[p]))
      BY <2>1 DEF Publish
    <3> QED BY <1>0, <3>2, <3>3 DEF TypeOK
  <2>2. CASE Store(p) \/ Kill(p)
    <3>1. queue' = queue
      BY <2>2 DEF Store, Kill, brokerVars
    <3> QED BY <1>0, <3>1 DEF TypeOK
  <2> QED BY <2>1, <2>2 DEF Sender
<1>3. /\ \A q \in Queue, e \in Event : Open(q, e)' => Open(q, e)
      /\ \A q \in Queue, e \in Event : Kept(q, e) => Kept(q, e)'
      /\ HeldOn' /\ Over'
  BY <1>0, <1>1, <1>2, TraceQuiet
<1>4. ASSUME NEW x \in Process, NEW e \in Event, NEW q \in Queue, e \in Due(x),
             Receives(q, e), Open(q, e)'
      PROVE  Pending(e)' \/ Kept(q, e)'
  <2>0. <<q, e>> \notin missed' /\ \A E : e \in E => <<q, e>> \in Deliveries(E)
    BY <1>4 DEF Open, Deliveries
  <2>1. CASE Publish(p)
    <3> PICK h : h = Head(owed[p])
      OBVIOUS
    <3>1. /\ h \in Event /\ storing[p] = NoEvent
          /\ Entries(Tail(owed[p])) = Entries(owed[p]) \ {h}
      BY <1>0, <2>1, EntriesTail DEF Publish, TypeOK, OwedOnce
    <3>2. /\ owed'[p] = Tail(owed[p])
          /\ \A y \in Process : y # p => owed'[y] = owed[y] /\ storing'[y] = storing[y]
      BY <1>0, <2>1 DEF Publish, TypeOK
    <3>3. CASE x # p
      <4>1. Due(x)' = Due(x)
        BY <3>2, <3>3 DEF Due
      <4> QED BY <1>4, <4>1 DEF Pending
    <3>4. CASE x = p /\ e # h
      <4>1. e \in Entries(Tail(owed[p]))
        BY <1>4, <3>1, <3>4 DEF Due
      <4>2. e \in Due(p)'
        BY <3>2, <4>1 DEF Due
      <4> QED BY <4>2 DEF Pending
    <3>5. CASE x = p /\ e = h
      <4>1. \/ queue' = Routed(h)
            \/ storing' = [storing EXCEPT ![p] = h]
            \/ missed' = missed \cup Deliveries({h})
        BY <2>1 DEF Publish
      <4>2. CASE queue' = Routed(h)
        <5>1. queue'[q][h] > 0
          BY <1>0, <1>4, <3>1, <3>5, <4>2, RoutedAdds
        <5> QED BY <3>5, <5>1 DEF Kept
      <4>3. CASE storing' = [storing EXCEPT ![p] = h]
        <5>1. storing'[p] = h /\ h # NoEvent
          BY <1>0, <3>1, <4>3, EventBusAssumption DEF TypeOK, EventBusAssumption
        <5>2. e \in Due(p)'
          BY <3>5, <5>1 DEF Due
        <5> QED BY <5>2 DEF Pending
      <4>4. missed' # missed \cup Deliveries({h})
        BY <2>0, <3>5
      <4> QED BY <4>1, <4>2, <4>3, <4>4
    <3> QED BY <3>3, <3>4, <3>5
  <2>2. CASE Store(p)
    <3>1. /\ owed' = owed /\ \A y \in Process : y # p => storing'[y] = storing[y]
          /\ \/ outbox' = Stored(storing[p])
             \/ missed' = missed \cup Deliveries({storing[p]})
      BY <1>0, <2>2 DEF Store, TypeOK
    <3>2. CASE x = p /\ e = storing[p]
      <4> DEFINE r == [id |-> nextId, event |-> e]
      <4>1. outbox' = outbox \cup {r}
        BY <2>0, <3>1, <3>2 DEF Stored
      <4>2. r.event = e
        OBVIOUS
      <4> HIDE DEF r
      <4>3. \E y \in outbox' : y.event = e
        BY <4>1, <4>2
      <4> QED BY <4>3 DEF Pending
    <3>3. CASE x # p \/ e # storing[p]
      <4>1. e \in Due(x)'
        BY <1>4, <3>1, <3>3 DEF Due
      <4> QED BY <4>1 DEF Pending
    <3> QED BY <3>2, <3>3
  <2>3. CASE Kill(p)
    <3>1. /\ \A y \in Process : y # p => owed'[y] = owed[y] /\ storing'[y] = storing[y]
          /\ missed' = missed \cup Deliveries(Due(p))
      BY <1>0, <2>3 DEF Kill, TypeOK, Due
    <3>2. x # p
      BY <1>4, <2>0, <3>1
    <3>3. Due(x)' = Due(x)
      BY <3>1, <3>2 DEF Due
    <3> QED BY <1>4, <3>3 DEF Pending
  <2> QED BY <2>1, <2>2, <2>3 DEF Sender
<1>5. Traced'
  <2> SUFFICES ASSUME NEW q \in Queue, NEW e \in committed, Receives(q, e), Open(q, e)'
               PROVE  Pending(e)' \/ Kept(q, e)'
    BY <1>1 DEF Traced, Receives
  <2>1. e \in Event
    BY <1>0 DEF TypeOK
  <2>2. Pending(e) \/ Kept(q, e)
    BY <1>0, <1>3, <2>1 DEF Traced
  <2>3. (\E r \in outbox : r.event = e) => Pending(e)'
    BY <1>1 DEF Pending
  <2> QED BY <1>3, <1>4, <2>1, <2>2, <2>3 DEF Pending
<1>6. Relayed'
  <2>1. \A x \in Process : relay'[x].sent \subseteq relay[x].sent
    <3>1. relay' = relay \/ relay' = [relay EXCEPT ![p] = Closed]
      BY DEF Sender, Publish, Store, Kill, relayVars
    <3>2. DOMAIN relay = Process
      BY <1>0 DEF TypeOK
    <3>3. \A x \in Process : relay'[x] = relay[x] \/ relay'[x] = Closed
      BY <3>1, <3>2
    <3>4. Closed.sent = {}
      BY DEF Closed
    <3> QED BY <3>3, <3>4
  <2> SUFFICES ASSUME NEW x \in Process, NEW r \in relay[x].sent, NEW q \in Queue,
                      Receives(q, r.event), Open(q, r.event)'
               PROVE  Kept(q, r.event)'
    BY <2>1 DEF Relayed, Receives
  <2>2. r.event \in Event
    BY <1>0 DEF TypeOK, RowType
  <2> QED BY <1>0, <1>3, <2>2 DEF Relayed
<1> QED BY <1>3, <1>5, <1>6 DEF TraceInv

\* A row is deleted only after its event went out to the queues.
LEMMA TraceRelay ==
    ASSUME BusInv, TraceInv, NEW p \in Process, Relay(p)
    PROVE  TraceInv'
<1>0. Types /\ TypeOK /\ Traced /\ Relayed
  BY DEF BusInv, Types, TraceInv
<1>1. /\ UNCHANGED <<handler, claimed, handled>> /\ UNCHANGED senderVars
      /\ UNCHANGED missed /\ UNCHANGED refused
  BY DEF Relay, Select, Send, CommitRelay, readerVars
<1>2. CASE Send(p)
  <2>1. PICK r \in relay[p].left :
          /\ relay' = [relay EXCEPT ![p].left = IF up THEN @ \ {r} ELSE {},
                                    ![p].sent = Deleted(p, r, up)]
          /\ queue' = IF up THEN Routed(r.event) ELSE queue
          /\ UNCHANGED outbox
    BY <1>2 DEF Send
  <2>2. r.event \in Event
    BY <1>0 DEF TypeOK, RowType
  <2>3. \A q \in Queue, e \in Event : queue[q][e] > 0 => queue'[q][e] > 0
    <3>1. \A q \in Queue, e \in Event : queue[q][e] > 0 => Routed(r.event)[q][e] > 0
      BY <1>0, <2>2, RoutedAdds
    <3> QED BY <1>0, <2>1, <3>1 DEF TypeOK
  <2>4. /\ \A q \in Queue, e \in Event : Open(q, e)' => Open(q, e)
        /\ \A q \in Queue, e \in Event : Kept(q, e) => Kept(q, e)'
        /\ HeldOn' /\ Over'
    <3>1. missed \subseteq missed' /\ refused \subseteq refused'
      BY <1>1
    <3> QED BY <1>0, <1>1, <2>3, <3>1, TraceQuiet
  <2>5. Traced'
    <3> SUFFICES ASSUME NEW q \in Queue, NEW e \in committed, Receives(q, e), Open(q, e)'
                 PROVE  Pending(e)' \/ Kept(q, e)'
      BY <1>1 DEF Traced, Receives, senderVars
    <3>1. e \in Event
      BY <1>0 DEF TypeOK
    <3>2. Pending(e) => Pending(e)'
      BY <1>1, <2>1 DEF Pending, Due, senderVars
    <3> QED BY <1>0, <2>4, <3>1, <3>2 DEF Traced
  <2>6. Relayed'
    <3> SUFFICES ASSUME NEW x \in Process, NEW y \in relay'[x].sent, NEW q \in Queue,
                        Receives(q, y.event), Open(q, y.event)'
                 PROVE  Kept(q, y.event)'
      BY DEF Relayed, Receives
    <3>1. y \in relay[x].sent \/ (up /\ y = r)
      <4> DEFINE R == [relay[p] EXCEPT !.left = IF up THEN @ \ {r} ELSE {},
                                       !.sent = Deleted(p, r, up)]
      <4>1. relay' = [relay EXCEPT ![p] = R]
        BY <2>1
      <4>2. R.sent = Deleted(p, r, up)
        BY <1>0 DEF TypeOK
      <4> HIDE DEF R
      <4>3. x # p => relay'[x] = relay[x]
        BY <1>0, <4>1 DEF TypeOK
      <4>4. x = p => relay'[x].sent = Deleted(p, r, up)
        BY <1>0, <4>1, <4>2 DEF TypeOK
      <4> QED BY <4>3, <4>4 DEF Deleted
    <3>2. CASE y \in relay[x].sent
      <4>1. y.event \in Event
        BY <1>0, <3>2 DEF TypeOK, RowType
      <4> QED BY <1>0, <2>4, <3>2, <4>1 DEF Relayed
    <3>3. CASE up /\ y = r
      <4>1. queue'[q][y.event] > 0
        BY <1>0, <2>1, <2>2, <3>3, RoutedAdds
      <4> QED BY <4>1 DEF Kept
    <3> QED BY <3>1, <3>2, <3>3
  <2> QED BY <2>4, <2>5, <2>6 DEF TraceInv
<1>3. CASE Select(p) \/ CommitRelay(p)
  <2>1. /\ UNCHANGED queue
        /\ \A x \in Process : relay'[x].sent \subseteq relay[x].sent
        /\ \A r \in outbox : r \in outbox' \/ r \in relay[p].sent
    <3>1. /\ UNCHANGED queue
          /\ \A r \in outbox : r \in outbox' \/ r \in relay[p].sent
      BY <1>3 DEF Select, CommitRelay, brokerVars
    <3>2. \E R : R.sent = {} /\ relay' = [relay EXCEPT ![p] = R]
      BY <1>3 DEF Select, CommitRelay, Closed
    <3>3. DOMAIN relay = Process
      BY <1>0 DEF TypeOK
    <3>4. \A x \in Process : relay'[x] = relay[x] \/ relay'[x].sent = {}
      BY <3>2, <3>3
    <3> QED BY <3>1, <3>4
  <2>2. \A q \in Queue, e \in Event : queue[q][e] > 0 => queue'[q][e] > 0
    BY <1>0, <2>1 DEF TypeOK
  <2>3. /\ \A q \in Queue, e \in Event : Open(q, e)' => Open(q, e)
        /\ \A q \in Queue, e \in Event : Kept(q, e) => Kept(q, e)'
        /\ HeldOn' /\ Over'
    <3>1. missed \subseteq missed' /\ refused \subseteq refused'
      BY <1>1
    <3> QED BY <1>0, <1>1, <2>2, <3>1, TraceQuiet
  <2>4. Traced'
    <3> SUFFICES ASSUME NEW q \in Queue, NEW e \in committed, Receives(q, e), Open(q, e)'
                 PROVE  Pending(e)' \/ Kept(q, e)'
      BY <1>1 DEF Traced, Receives, senderVars
    <3>1. e \in Event /\ Open(q, e)
      BY <1>0, <2>3 DEF TypeOK
    <3>2. Pending(e) \/ Kept(q, e)
      BY <1>0, <3>1 DEF Traced
    <3>3. ASSUME NEW x \in Process, e \in Due(x) PROVE Pending(e)'
      <4>1. e \in Due(x)'
        BY <1>1, <3>3 DEF Due, senderVars
      <4> QED BY <4>1 DEF Pending
    <3>4. ASSUME NEW r \in outbox, r.event = e PROVE Pending(e)' \/ Kept(q, e)
      <4>1. CASE r \in outbox'
        BY <3>4, <4>1 DEF Pending
      <4>2. CASE r \in relay[p].sent
        BY <1>0, <3>1, <3>4, <4>2 DEF Relayed
      <4> QED BY <2>1, <4>1, <4>2
    <3> QED BY <2>3, <3>1, <3>2, <3>3, <3>4 DEF Pending
  <2>5. Relayed'
    <3> SUFFICES ASSUME NEW x \in Process, NEW r \in relay[x].sent, NEW q \in Queue,
                        Receives(q, r.event), Open(q, r.event)'
                 PROVE  Kept(q, r.event)'
      BY <2>1 DEF Relayed, Receives
    <3>1. r.event \in Event
      BY <1>0 DEF TypeOK, RowType
    <3> QED BY <1>0, <2>3, <3>1 DEF Relayed
  <2> QED BY <2>3, <2>4, <2>5 DEF TraceInv
<1> QED BY <1>2, <1>3 DEF Relay

\* A handler that was done before the step is done with the same event.
LEMMA OverKept ==
    ASSUME Over,
           \A q \in Queue : claimed[q] \subseteq claimed'[q],
           \A q \in Queue, s \in Slot : handler'[q][s].pc = "done" =>
               \/ handler'[q][s].event \in claimed'[q]
               \/ /\ handler[q][s].pc = "done"
                  /\ handler'[q][s].event = handler[q][s].event
    PROVE  Over'
<1> SUFFICES ASSUME NEW q \in Queue, NEW s \in Slot, handler'[q][s].pc = "done"
             PROVE  handler'[q][s].event \in claimed'[q]
  BY DEF Over
<1>1. handler[q][s].pc = "done" => handler[q][s].event \in claimed[q]
  BY DEF Over
<1>2. claimed[q] \subseteq claimed'[q]
  OBVIOUS
<1> QED BY <1>1, <1>2

LEMMA DetachedMoves ==
    ASSUME TypeOK, Outage
    PROVE  /\ \A q \in Queue, s \in Slot :
                /\ handler'[q][s].pc = handler[q][s].pc
                /\ handler'[q][s].event = handler[q][s].event
                /\ handler'[q][s].kept <=> handler[q][s].kept
           /\ \A q \in Queue, e \in Event : queue'[q][e] = queue[q][e] + Unacked(q, e)
           /\ UNCHANGED <<senderVars, relayVars, claimed, handled, missed, refused, accidents>>
<1>1. \A q \in Queue, s \in Slot :
        /\ handler'[q][s].pc = handler[q][s].pc
        /\ handler'[q][s].event = handler[q][s].event
        /\ handler'[q][s].kept <=> handler[q][s].kept
  BY Detached
<1>2. \A q \in Queue, e \in Event : queue'[q][e] = queue[q][e] + Unacked(q, e)
  BY DEF Outage, Returned
<1> QED BY <1>1, <1>2 DEF Outage

\* A broken connection puts back what was not acknowledged.
LEMMA TraceBroker ==
    ASSUME BusInv, TraceInv, Outage \/ Recover \/ \E q \in Queue : Connect(q)
    PROVE  TraceInv'
<1>0. Types /\ TypeOK /\ HeldOn /\ Over
  BY DEF BusInv, Types, TraceInv
<1>1. CASE Outage
  <2>1. /\ \A q \in Queue, s \in Slot :
             /\ handler'[q][s].pc = handler[q][s].pc
             /\ handler'[q][s].event = handler[q][s].event
             /\ handler'[q][s].kept <=> handler[q][s].kept
        /\ \A q \in Queue, e \in Event : queue'[q][e] = queue[q][e] + Unacked(q, e)
        /\ UNCHANGED <<senderVars, relayVars, claimed, handled, missed, refused, accidents>>
    BY <1>0, <1>1, DetachedMoves
  <2>2. \A q \in Queue, e \in Event : Open(q, e)' <=> Open(q, e)
    BY <2>1 DEF Open
  <2>3. ASSUME NEW q \in Queue, NEW e \in Event, Kept(q, e) PROVE Kept(q, e)'
    <3>1. queue[q][e] \in Nat /\ Unacked(q, e) \in Nat
      BY <1>0, UnackedOK DEF TypeOK
    <3>2. CASE queue[q][e] > 0
      <4>1. queue'[q][e] > 0
        BY <2>1, <3>1, <3>2
      <4> QED BY <4>1 DEF Kept
    <3>3. ASSUME NEW s \in Slot, handler[q][s].event = e, Awaited(handler[q][s])
          PROVE  Kept(q, e)'
      <4>1. Unacked(q, e) > 0
        BY <3>3, UnackedSome
      <4>2. queue'[q][e] > 0
        BY <2>1, <3>1, <4>1
      <4> QED BY <4>2 DEF Kept
    <3>4. ASSUME NEW s \in Slot, Holds(q, s, e), ~Awaited(handler[q][s])
          PROVE  Kept(q, e)'
      <4>1. Holds(q, s, e)'
        BY <2>1, <3>4 DEF Holds
      <4> QED BY <4>1 DEF Kept
    <3> QED BY <2>3, <3>2, <3>3, <3>4 DEF Kept, Holds
  <2>4. HeldOn'
    <3> SUFFICES ASSUME NEW q \in Queue, NEW e \in claimed[q], Open(q, e)'
                 PROVE  \E s \in Slot : InHand(q, s, e)'
      BY <2>1 DEF HeldOn
    <3>1. e \in Event
      BY <1>0 DEF TypeOK
    <3>2. \E s \in Slot : InHand(q, s, e)
      BY <1>0, <2>2, <3>1 DEF HeldOn
    <3> QED BY <2>1, <3>2 DEF InHand
  <2>5. Over'
    BY <1>0, <2>1, OverKept
  <2>6. Traced' /\ Relayed'
    <3>1. UNCHANGED <<senderVars, relayVars>>
      BY <2>1
    <3> QED BY <1>0, <2>2, <2>3, <3>1, TraceBehind
  <2> QED BY <2>4, <2>5, <2>6 DEF TraceInv
<1>2. CASE Recover \/ \E q \in Queue : Connect(q)
  <2>1. /\ UNCHANGED <<handler, claimed, handled>> /\ UNCHANGED queue
        /\ UNCHANGED missed /\ UNCHANGED refused /\ UNCHANGED <<senderVars, relayVars>>
    BY <1>2 DEF Recover, Connect, readerVars, brokerVars
  <2>2. /\ missed \subseteq missed' /\ refused \subseteq refused'
        /\ \A q \in Queue, e \in Event : queue[q][e] > 0 => queue'[q][e] > 0
    BY <2>1
  <2>3. /\ \A q \in Queue, e \in Event : Open(q, e)' => Open(q, e)
        /\ \A q \in Queue, e \in Event : Kept(q, e) => Kept(q, e)'
        /\ HeldOn' /\ Over'
    BY <1>0, <2>1, <2>2, TraceQuiet
  <2>4. Traced' /\ Relayed'
    BY <1>0, <2>1, <2>3, TraceBehind
  <2> QED BY <2>3, <2>4 DEF TraceInv
<1> QED BY <1>1, <1>2

LEMMA TraceDeliver ==
    ASSUME BusInv, TraceInv, NEW q \in Queue, NEW s \in Slot, Deliver(q, s)
    PROVE  TraceInv'
<1>0. Types /\ TypeOK /\ HeldOn /\ Over
  BY DEF BusInv, Types, TraceInv
<1>1. PICK h \in Event :
        /\ \A x \in Queue, y \in Event : x # q \/ y # h => queue'[x][y] = queue[x][y]
        /\ handler'[q][s].event = h /\ handler'[q][s].pc = "taken"
        /\ Awaited(handler'[q][s])
  BY <1>0, DeliverMoves
<1>2. /\ OthersStay(q, s) /\ handler[q][s].pc = "idle" /\ handler[q][s].event = NoEvent
      /\ UNCHANGED <<senderVars, relayVars>> /\ UNCHANGED <<claimed, handled, missed, refused>>
  <2>1. OthersStay(q, s) /\ handler[q][s] = Empty
    BY <1>0, DeliverMoves, Zenon
  <2> QED BY <2>1, EmptyWork DEF Deliver
<1>3. \A x \in Queue, e \in Event : Open(x, e)' <=> Open(x, e)
  BY <1>2 DEF Open
<1>4. ASSUME NEW x \in Queue, NEW e \in Event, Kept(x, e) PROVE Kept(x, e)'
  <2>1. CASE x = q /\ e = h
    BY <1>1, <2>1 DEF Kept, Holds
  <2>2. CASE x # q \/ e # h
    <3>1. queue'[x][e] = queue[x][e]
      BY <1>1, <2>2
    <3>2. e # NoEvent
      BY EventBusAssumption DEF EventBusAssumption
    <3>3. ASSUME NEW t \in Slot, Holds(x, t, e)
          PROVE  Holds(x, t, e)'
      <4>1. handler'[x][t] = handler[x][t]
        BY <1>2, <3>2, <3>3 DEF OthersStay, Holds
      <4> QED BY <3>3, <4>1 DEF Holds
    <3> QED BY <1>4, <3>1, <3>3 DEF Kept
  <2> QED BY <2>1, <2>2
<1>5. HeldOn'
  <2> SUFFICES ASSUME NEW x \in Queue, NEW e \in claimed[x], Open(x, e)'
               PROVE  \E t \in Slot : InHand(x, t, e)'
    BY <1>2 DEF HeldOn
  <2>1. e \in Event
    BY <1>0 DEF TypeOK
  <2>2. PICK t \in Slot : InHand(x, t, e)
    BY <1>0, <1>3, <2>1 DEF HeldOn
  <2>3. handler'[x][t] = handler[x][t]
    BY <1>2, <2>2 DEF OthersStay, InHand
  <2> QED BY <2>2, <2>3 DEF InHand
<1>6. Over'
  <2>1. \A x \in Queue, t \in Slot :
          handler'[x][t].pc = "done" => handler'[x][t] = handler[x][t]
    BY <1>1, <1>2 DEF OthersStay
  <2> QED BY <1>0, <1>2, <2>1, OverKept
<1>7. Traced' /\ Relayed'
  BY <1>0, <1>2, <1>3, <1>4, TraceBehind
<1> QED BY <1>5, <1>6, <1>7 DEF TraceInv

\* A duplicate is done with only while another handler has the event, or after
\* it got its outcome.
LEMMA TraceClaim ==
    ASSUME BusInv, TraceInv, NEW q \in Queue, NEW s \in Slot, Claim(q, s)
    PROVE  TraceInv'
<1>0. Types /\ TypeOK /\ HeldOn /\ Over /\ handler[q][s].event \in Event
  BY DEF BusInv, Types, TraceInv, Busy, Claim
<1> PICK h \in Event : h = handler[q][s].event
  BY <1>0
<1>1. /\ OthersStay(q, s) /\ handler[q][s].pc = "taken"
      /\ handler'[q][s].event = h
      /\ handler'[q][s].here <=> handler[q][s].here
      /\ handler'[q][s].kept <=> handler[q][s].kept
      /\ \/ handler'[q][s].pc = "refused" /\ UNCHANGED <<claimed, missed>>
         \/ /\ h \in claimed[q]
            /\ handler'[q][s].pc = "done" /\ UNCHANGED <<claimed, missed>>
         \/ /\ handler'[q][s].pc = "claimed"
            /\ claimed' = [claimed EXCEPT ![q] = @ \cup {h}]
            /\ UNCHANGED missed
         \/ /\ handler'[q][s].pc = "done"
            /\ claimed' = [claimed EXCEPT ![q] = @ \cup {h}]
            /\ missed' = missed \cup {<<q, h>>}
      /\ UNCHANGED <<senderVars, relayVars>> /\ UNCHANGED <<queue, handled, refused>>
  BY <1>0, ClaimMoves
<1>2. missed \subseteq missed' /\ \A x \in Queue, e \in Event : Open(x, e)' => Open(x, e)
  BY <1>1 DEF Open
<1>3. /\ \A x \in Queue : claimed[x] \subseteq claimed'[x]
      /\ \A x \in Queue : \A e \in claimed'[x] : e \in claimed[x] \/ (x = q /\ e = h)
      /\ handler'[q][s].pc = "done" => h \in claimed'[q]
  <2>1. claimed \in [Queue -> SUBSET Event]
    BY <1>0 DEF TypeOK
  <2>2. \/ claimed' = claimed /\ (handler'[q][s].pc = "done" => h \in claimed[q])
        \/ claimed' = [claimed EXCEPT ![q] = @ \cup {h}]
    BY <1>1
  <2>3. CASE claimed' = claimed /\ (handler'[q][s].pc = "done" => h \in claimed[q])
    BY <2>3
  <2>4. CASE claimed' = [claimed EXCEPT ![q] = @ \cup {h}]
    <3>1. \A x \in Queue :
            claimed'[x] = IF x = q THEN claimed[x] \cup {h} ELSE claimed[x]
      BY <2>1, <2>4
    <3> QED BY <3>1
  <2> QED BY <2>2, <2>3, <2>4
<1>4. \A x \in Queue, t \in Slot, e \in Event : InHand(x, t, e) => InHand(x, t, e)'
  <2>1. \A x \in Queue, t \in Slot, e \in Event : InHand(x, t, e) => x # q \/ t # s
    BY <1>1 DEF InHand
  <2> QED BY <1>1, <2>1 DEF InHand, OthersStay
<1>5. ASSUME Open(q, h)', handler'[q][s].pc # "refused"
      PROVE  \E t \in Slot : InHand(q, t, h)'
  <2>1. h \in claimed[q] \/ InHand(q, s, h)'
    BY <1>1, <1>5 DEF InHand, Open
  <2>2. h \in claimed[q] => \E t \in Slot : InHand(q, t, h)
    BY <1>0, <1>2, <1>5 DEF HeldOn
  <2> QED BY <1>4, <2>1, <2>2
<1>6. ASSUME NEW x \in Queue, NEW e \in Event, Open(x, e)', Kept(x, e) PROVE Kept(x, e)'
  <2>1. ASSUME NEW t \in Slot, Holds(x, t, e), x # q \/ t # s PROVE Kept(x, e)'
    <3>1. handler'[x][t] = handler[x][t]
      BY <1>1, <2>1 DEF OthersStay
    <3>2. Holds(x, t, e)'
      BY <2>1, <3>1 DEF Holds
    <3> QED BY <3>2 DEF Kept
  <2>2. ASSUME Holds(q, s, e), x = q PROVE Kept(q, e)'
    <3>1. e = h
      BY <2>2 DEF Holds
    <3>2. CASE handler'[q][s].pc = "refused"
      <4>1. Holds(q, s, e)'
        BY <1>1, <2>2, <3>1, <3>2 DEF Holds, Awaited
      <4> QED BY <4>1 DEF Kept
    <3>3. CASE handler'[q][s].pc # "refused"
      BY <1>5, <1>6, <2>2, <3>1, <3>3 DEF Kept, Holds, InHand
    <3> QED BY <3>2, <3>3
  <2>3. queue[x][e] > 0 => Kept(x, e)'
    BY <1>1 DEF Kept
  <2> QED BY <1>6, <2>1, <2>2, <2>3 DEF Kept
<1>7. HeldOn'
  <2> SUFFICES ASSUME NEW x \in Queue, NEW e \in claimed'[x], Open(x, e)'
               PROVE  \E t \in Slot : InHand(x, t, e)'
    BY DEF HeldOn
  <2>1. CASE e \in claimed[x]
    <3>1. e \in Event
      BY <1>0, <2>1 DEF TypeOK
    <3>2. \E t \in Slot : InHand(x, t, e)
      BY <1>0, <1>2, <2>1, <3>1 DEF HeldOn
    <3> QED BY <1>4, <3>1, <3>2
  <2>2. CASE e \notin claimed[x]
    <3>1. x = q /\ e = h
      BY <1>3, <2>2
    <3>2. handler'[q][s].pc # "refused"
      BY <1>1, <2>2, <3>1
    <3> QED BY <1>5, <3>1, <3>2
  <2> QED BY <2>1, <2>2
<1>8. Over'
  <2>1. \A x \in Queue, t \in Slot :
          (x = q /\ t = s) \/ handler'[x][t] = handler[x][t]
    BY <1>1 DEF OthersStay
  <2>2. \A x \in Queue, t \in Slot : handler'[x][t].pc = "done" =>
          \/ handler'[x][t].event \in claimed'[x]
          \/ handler[x][t].pc = "done" /\ handler'[x][t].event = handler[x][t].event
    BY <1>1, <1>3, <2>1
  <2> QED BY <1>0, <1>3, <2>2, OverKept
<1>9. Traced' /\ Relayed'
  BY <1>0, <1>1, <1>2, <1>6, TraceBehind
<1> QED BY <1>7, <1>8, <1>9 DEF TraceInv

LEMMA TraceHandle ==
    ASSUME BusInv, TraceInv, NEW q \in Queue, NEW s \in Slot, Handle(q, s)
    PROVE  TraceInv'
<1>0. Types /\ TypeOK /\ HeldOn /\ Over /\ handler[q][s].event \in Event
  BY DEF BusInv, Types, TraceInv, Busy, Handle
<1> PICK h \in Event : h = handler[q][s].event
  BY <1>0
<1>1. /\ OthersStay(q, s) /\ handler'[q][s].event = h /\ ~ Open(q, h)'
      /\ missed \subseteq missed'
      /\ \A x \in Queue, e \in Event : Open(x, e)' => Open(x, e)
      /\ UNCHANGED <<senderVars, relayVars>> /\ UNCHANGED <<queue, claimed>>
  BY <1>0, HandleMoves
<1>c. h \in claimed[q]
  BY DEF BusInv, ConsumersInv, Working, InHand, Handle
<1>2. ASSUME NEW x \in Queue, NEW t \in Slot, NEW e,
             handler[x][t].event = e, Open(x, e)'
      PROVE  handler'[x][t] = handler[x][t]
  BY <1>1, <1>2 DEF OthersStay
<1>3. ASSUME NEW x \in Queue, NEW e \in Event, Open(x, e)', Kept(x, e) PROVE Kept(x, e)'
  <2>1. \A t \in Slot : handler[x][t].event = e => handler'[x][t] = handler[x][t]
    BY <1>2, <1>3
  <2> QED BY <1>1, <1>3, <2>1 DEF Kept, Holds
<1>4. HeldOn'
  <2> SUFFICES ASSUME NEW x \in Queue, NEW e \in claimed[x], Open(x, e)'
               PROVE  \E t \in Slot : InHand(x, t, e)'
    BY <1>1 DEF HeldOn
  <2>1. e \in Event
    BY <1>0 DEF TypeOK
  <2>2. PICK t \in Slot : InHand(x, t, e)
    BY <1>0, <1>1, <2>1 DEF HeldOn
  <2>3. handler'[x][t] = handler[x][t]
    BY <1>2, <2>2 DEF InHand
  <2> QED BY <2>2, <2>3 DEF InHand
<1>5. Over'
  <2>1. \A x \in Queue, t \in Slot :
          (x = q /\ t = s) \/ handler'[x][t] = handler[x][t]
    BY <1>1 DEF OthersStay
  <2>2. \A x \in Queue, t \in Slot : handler'[x][t].pc = "done" =>
          \/ handler'[x][t].event \in claimed'[x]
          \/ handler[x][t].pc = "done" /\ handler'[x][t].event = handler[x][t].event
    BY <1>1, <1>c, <2>1
  <2>3. \A x \in Queue : claimed[x] \subseteq claimed'[x]
    BY <1>1
  <2> QED BY <1>0, <2>2, <2>3, OverKept
<1>6. Traced' /\ Relayed'
  BY <1>0, <1>1, <1>3, TraceBehind
<1> QED BY <1>4, <1>5, <1>6 DEF TraceInv

\* What a consumer whose process ended had not claimed comes back, or is gone
\* with the channel; what it had claimed is missed.
LEMMA TraceFall ==
    ASSUME BusInv, TraceInv, NEW q \in Queue, Fall(q),
           UNCHANGED <<senderVars, relayVars>>, UNCHANGED <<claimed, handled>>
    PROVE  TraceInv'
<1>0. Types /\ TypeOK /\ HeldOn /\ Over
  BY DEF BusInv, Types, TraceInv
<1>1. /\ \A s \in Slot : handler'[q][s] = Empty
      /\ \A x \in Queue : x # q =>
           handler'[x] = handler[x] /\ queue'[x] = queue[x]
      /\ \A e \in Event : queue'[q][e] = queue[q][e] + Unacked(q, e)
      /\ missed \subseteq missed' /\ refused \subseteq refused'
      /\ \A s \in Slot : handler[q][s].pc = "claimed" =>
           <<q, handler[q][s].event>> \in missed'
      /\ \A s \in Slot :
           handler[q][s].pc \in {"taken", "refused"} /\ ~handler[q][s].kept =>
               <<q, handler[q][s].event>> \in refused'
  BY <1>0, FallMoves
<1>2. \A x, e : Open(x, e)' => Open(x, e)
  BY <1>1 DEF Open
<1>3. /\ \A s \in Slot, e \in Event : Open(q, e)' => ~ InHand(q, s, e)
      /\ \A s \in Slot, e \in Event : Open(q, e)' /\ Holds(q, s, e) =>
           handler[q][s].event = e /\ Awaited(handler[q][s])
  BY <1>1 DEF Open, InHand, Holds
<1>4. ASSUME NEW x \in Queue, NEW e \in Event, Open(x, e)', Kept(x, e) PROVE Kept(x, e)'
  <2>1. CASE x # q
    <3>1. handler'[x] = handler[x] /\ queue'[x] = queue[x]
      BY <1>1, <2>1
    <3> QED BY <1>4, <3>1 DEF Kept, Holds
  <2>2. CASE x = q
    <3>1. queue[q][e] \in Nat /\ Unacked(q, e) \in Nat
      BY <1>0, UnackedOK DEF TypeOK
    <3>2. ASSUME NEW s \in Slot, handler[q][s].event = e, Awaited(handler[q][s])
          PROVE  Unacked(q, e) > 0
      BY <3>2, UnackedSome
    <3>3. queue[q][e] > 0 \/ Unacked(q, e) > 0
      BY <1>3, <1>4, <2>2, <3>2 DEF Kept
    <3>4. queue'[q][e] > 0
      BY <1>1, <3>1, <3>3
    <3> QED BY <2>2, <3>4 DEF Kept
  <2> QED BY <2>1, <2>2
<1>5. HeldOn'
  <2> SUFFICES ASSUME NEW x \in Queue, NEW e \in claimed[x], Open(x, e)'
               PROVE  \E t \in Slot : InHand(x, t, e)'
    BY DEF HeldOn
  <2>1. e \in Event
    BY <1>0 DEF TypeOK
  <2>2. PICK t \in Slot : InHand(x, t, e)
    BY <1>0, <1>2 DEF HeldOn
  <2>3. x # q
    BY <1>3, <2>1, <2>2
  <2>4. handler'[x] = handler[x]
    BY <1>1, <2>3
  <2> QED BY <2>2, <2>4 DEF InHand
<1>6. Over'
  <2>1. \A x \in Queue, t \in Slot :
          handler'[x][t].pc = "done" => handler'[x][t] = handler[x][t]
    BY <1>1, EmptyWork
  <2>2. \A x \in Queue : claimed[x] \subseteq claimed'[x]
    OBVIOUS
  <2> QED BY <1>0, <2>1, <2>2, OverKept
<1>7. Traced' /\ Relayed'
  <2>1. \A x \in Queue, e \in Event : Open(x, e)' => Open(x, e)
    BY <1>2
  <2> QED BY <1>0, <1>1, <1>4, <2>1, TraceBehind
<1> QED BY <1>5, <1>6, <1>7 DEF TraceInv

\* An answer throws a copy away only if the event was claimed or is refused; and
\* one that names another's tag leaves that copy to the handler that has it.
LEMMA TraceAck ==
    ASSUME BusInv, TraceInv, NEW q \in Queue, NEW s \in Slot, Ack(q, s)
    PROVE  TraceInv'
<1>0. Types /\ TypeOK /\ Busy /\ HeldOn /\ Over
  BY DEF BusInv, Types, TraceInv
<1>1. /\ handler[q][s].pc \in {"done", "refused"}
      /\ UNCHANGED <<senderVars, relayVars>> /\ UNCHANGED <<claimed, handled>>
      /\ Fall(q) \/ Answered(q, s)
  BY <1>0, AckMoves
<1>2. CASE Fall(q)
  BY <1>1, <1>2, TraceFall
<1>3. CASE Answered(q, s)
  <2>1. /\ handler'[q][s] = Empty
        /\ \A x \in Queue, t \in Slot : x # q \/ t # s =>
             /\ handler'[x][t].pc = handler[x][t].pc
             /\ handler'[x][t].event = handler[x][t].event
             /\ handler'[x][t] = handler[x][t] \/ ~handler'[x][t].kept
        /\ handler[q][s].pc = "refused" /\ (Awaited(handler[q][s]) \/ ~handler[q][s].kept) =>
             <<q, handler[q][s].event>> \in refused'
        /\ refused \subseteq refused' /\ UNCHANGED queue /\ UNCHANGED missed
    BY <1>3 DEF Answered
  <2>2. \A x, e : Open(x, e)' => Open(x, e)
    BY <1>1, <2>1 DEF Open
  <2>3. \A x \in Queue, t \in Slot, e \in Event : InHand(x, t, e) => InHand(x, t, e)'
    BY <1>1, <2>1 DEF InHand
  <2>4. ASSUME NEW x \in Queue, NEW e \in claimed[x], Open(x, e)'
        PROVE  \E t \in Slot : InHand(x, t, e)'
    <3>1. e \in Event
      BY <1>0 DEF TypeOK
    <3>2. \E t \in Slot : InHand(x, t, e)
      BY <1>0, <2>2, <2>4 DEF HeldOn
    <3> QED BY <2>3, <3>1, <3>2
  <2>5. HeldOn'
    BY <1>1, <2>4 DEF HeldOn
  <2>6. Over'
    <3>1. \A x \in Queue, t \in Slot : handler'[x][t].pc = "done" =>
            handler[x][t].pc = "done" /\ handler'[x][t].event = handler[x][t].event
      BY <2>1, EmptyWork
    <3>2. \A x \in Queue : claimed[x] \subseteq claimed'[x]
      BY <1>1
    <3> QED BY <1>0, <3>1, <3>2, OverKept
  <2>7. ASSUME NEW x \in Queue, NEW t \in Slot, NEW e \in Event, Holds(x, t, e), Open(x, e)'
        PROVE  Kept(x, e)'
    <3>1. CASE handler[x][t].pc = "done"
      <4>1. e \in claimed[x]
        BY <1>0, <2>7, <3>1 DEF Over, Holds
      <4>2. \E u \in Slot : InHand(x, u, e)'
        BY <2>4, <2>7, <4>1
      <4> QED BY <4>2 DEF Kept, Holds, InHand
    <3>2. CASE (x # q \/ t # s) /\ handler[x][t].pc # "done"
      <4>1. handler[x][t].pc # "idle"
        BY <1>0, <2>7, EventBusAssumption DEF Busy, Holds, EventBusAssumption
      <4>2. handler[x][t].pc \in {"taken", "claimed", "refused"}
        BY <1>0, <3>2, <4>1 DEF TypeOK, Work
      <4>3. Holds(x, t, e)'
        BY <2>1, <2>7, <3>2, <4>2 DEF Holds
      <4> QED BY <4>3 DEF Kept
    <3>3. CASE x = q /\ t = s /\ handler[q][s].pc = "refused"
      <4>1. <<q, e>> \in refused'
        BY <2>1, <2>7, <3>3 DEF Holds
      <4> QED BY <2>7, <3>3, <4>1 DEF Open
    <3> QED BY <1>1, <3>1, <3>2, <3>3
  <2>8. ASSUME NEW x \in Queue, NEW e \in Event, Open(x, e)', Kept(x, e) PROVE Kept(x, e)'
    <3>1. queue[x][e] > 0 => Kept(x, e)'
      BY <2>1 DEF Kept
    <3> QED BY <2>7, <2>8, <3>1 DEF Kept
  <2>9. Traced' /\ Relayed'
    BY <1>0, <1>1, <2>2, <2>8, TraceBehind
  <2> QED BY <2>5, <2>6, <2>9 DEF TraceInv
<1> QED BY <1>1, <1>2, <1>3

LEMMA TraceDie ==
    ASSUME BusInv, TraceInv, NEW q \in Queue, Die(q)
    PROVE  TraceInv'
<1>1. Fall(q) /\ UNCHANGED <<senderVars, relayVars>> /\ UNCHANGED <<claimed, handled>>
  BY DEF Die
<1> QED BY <1>1, TraceFall

LEMMA TraceStep == BusInv /\ TraceInv /\ [Next]_vars => TraceInv'
<1> SUFFICES ASSUME BusInv, TraceInv, [Next]_vars PROVE TraceInv'
  OBVIOUS
<1>1. CASE UNCHANGED vars
  <2>1. Types /\ TypeOK
    BY DEF BusInv, Types
  <2>2. /\ UNCHANGED <<handler, claimed, handled>> /\ UNCHANGED queue
        /\ UNCHANGED missed /\ UNCHANGED refused /\ UNCHANGED <<senderVars, relayVars>>
    BY <1>1 DEF vars, brokerVars, readerVars
  <2>3. /\ missed \subseteq missed' /\ refused \subseteq refused'
        /\ \A q \in Queue, e \in Event : queue[q][e] > 0 => queue'[q][e] > 0
    BY <2>2
  <2>4. /\ \A q \in Queue, e \in Event : Open(q, e)' => Open(q, e)
        /\ \A q \in Queue, e \in Event : Kept(q, e) => Kept(q, e)'
        /\ HeldOn' /\ Over'
    BY <2>1, <2>2, <2>3, TraceQuiet
  <2>5. Traced' /\ Relayed'
    BY <2>1, <2>2, <2>4, TraceBehind
  <2> QED BY <2>4, <2>5 DEF TraceInv
<1>2. CASE Next
  BY <1>2, TraceCommit, TraceSender, TraceRelay, TraceBroker, TraceDeliver, TraceClaim,
     TraceHandle, TraceAck, TraceDie, Zenon DEF Next, Consumer
<1> QED BY <1>1, <1>2

LEMMA TraceInit == Init => TraceInv
<1> SUFFICES ASSUME Init PROVE TraceInv
  OBVIOUS
<1>1. \A p \in Process : relay[p].sent = {}
  BY DEF Init, Closed
<1>2. \A q \in Queue, s \in Slot : handler[q][s].pc = "idle"
  BY DEF Init, Empty
<1>3. committed = {} /\ \A q \in Queue : claimed[q] = {}
  BY DEF Init
<1> QED BY <1>1, <1>2, <1>3 DEF TraceInv, Traced, Relayed, HeldOn, Over

\* Nothing that was committed vanishes without a trace: whatever is killed, put
\* back or relayed twice, an event without an outcome is still with a sender,
\* in the outbox, in the queue or with a consumer (outbox.py:39-48: a row is
\* deleted only after it was sent).
THEOREM NothingLost == Spec => []NothingVanishes
<1>1. Spec => []TraceInv
  BY BusInvariant, TraceInit, TraceStep, PTL DEF Spec
<1>2. BusInv /\ TraceInv => NothingVanishes
  <2> SUFFICES ASSUME BusInv, TraceInv, NEW q \in Queue, NEW e \in Event,
                      OutcomeOf(q, e) = "open"
               PROVE  InTransit(q, e)
    BY DEF NothingVanishes
  <2>1. e \in committed /\ Receives(q, e) /\ Open(q, e)
    BY Outcomes DEF Open
  <2>2. Pending(e) \/ Kept(q, e)
    BY <2>1 DEF TraceInv, Traced
  <2> QED BY <2>2 DEF Pending, Kept, Holds, Due, InTransit
<1> QED BY <1>1, <1>2, BusInvariant, PTL

-----------------------------------------------------------------------------
(* Only failures lose events. *)

\* A queue holds, and a consumer gets, only events the queue is bound to.
Came(q, e) == queue[q][e] # 0 \/ \E s \in Slot : handler[q][s].event = e
RightQueue == \A q \in Queue, e \in Event : Came(q, e) => Receives(q, e)

LEMMA RightStep == Types /\ RightQueue /\ [Next]_vars => RightQueue'
<1> SUFFICES ASSUME Types, RightQueue, [Next]_vars,
                    NEW q \in Queue, NEW e \in Event, ~ Receives(q, e)
             PROVE  ~ Came(q, e)'
  BY DEF RightQueue, Receives
<1>0. /\ TypeOK /\ queue[q][e] = 0 /\ \A s \in Slot : handler[q][s].event # e
      /\ Unacked(q, e) = 0 /\ e # NoEvent
  <2>1. ~ Came(q, e)
    BY DEF RightQueue
  <2>2. e # NoEvent
    BY EventBusAssumption DEF EventBusAssumption
  <2>3. Unacked(q, e) = 0
    BY <2>1, UnackedOK DEF Came
  <2> QED BY <2>1, <2>2, <2>3 DEF Types, Came
<1>1. ASSUME UNCHANGED handler, queue' = queue \/ \E h \in Event : queue' = Routed(h)
      PROVE  ~ Came(q, e)'
  <2>1. \A h \in Event : Routed(h)[q][e] = queue[q][e]
    BY <1>0, RoutedAdds
  <2>2. queue'[q][e] = 0
    BY <1>0, <1>1, <2>1
  <2> QED BY <1>0, <1>1, <2>2 DEF Came
<1>2. CASE UNCHANGED vars
  <2>1. queue' = queue /\ UNCHANGED handler
    BY <1>2 DEF vars, brokerVars, readerVars
  <2> QED BY <1>1, <2>1
<1>3. ASSUME NEW p \in Process,
             (\E b \in Bundle : Commit(p, b)) \/ Sender(p) \/ Relay(p) \/ Kill(p)
      PROVE  ~ Came(q, e)'
  <2>1. UNCHANGED handler
    BY <1>3 DEF Commit, Sender, Publish, Store, Relay, Select, Send, CommitRelay, Kill,
                readerVars
  <2>2. CASE Publish(p)
    <3>1. Head(owed[p]) \in Event
      BY <1>0, <2>2 DEF Publish, TypeOK
    <3>2. queue' = queue \/ queue' = Routed(Head(owed[p]))
      BY <2>2 DEF Publish
    <3> QED BY <1>1, <2>1, <3>1, <3>2
  <2>3. CASE Send(p)
    <3>1. PICK r \in relay[p].left : queue' = IF up THEN Routed(r.event) ELSE queue
      BY <2>3 DEF Send
    <3>2. r.event \in Event
      BY <1>0 DEF TypeOK, RowType
    <3> QED BY <1>1, <2>1, <3>1, <3>2
  <2>4. ASSUME ~ Publish(p), ~ Send(p) PROVE queue' = queue
    BY <1>3, <2>4 DEF Commit, Sender, Store, Relay, Select, CommitRelay, Kill, brokerVars
  <2> QED BY <1>1, <2>1, <2>2, <2>3, <2>4
<1>4. CASE Outage
  <2>1. /\ \A s \in Slot : handler'[q][s].event = handler[q][s].event
        /\ queue'[q][e] = queue[q][e] + Unacked(q, e)
    BY <1>0, <1>4, DetachedMoves
  <2> QED BY <1>0, <2>1 DEF Came
<1>5. CASE Recover \/ \E x \in Queue : Connect(x)
  <2>1. queue' = queue /\ UNCHANGED handler
    BY <1>5 DEF Recover, Connect, brokerVars, readerVars
  <2> QED BY <1>1, <2>1
<1>6. ASSUME NEW x \in Queue, Fall(x) PROVE ~ Came(q, e)'
  <2>1. CASE x = q
    <3>1. /\ \A s \in Slot : handler'[q][s] = Empty
          /\ queue'[q][e] = queue[q][e] + Unacked(q, e)
      BY <1>0, <1>6, <2>1, FallMoves
    <3> QED BY <1>0, <3>1, EmptyWork DEF Came
  <2>2. CASE x # q
    <3>1. handler'[q] = handler[q] /\ queue'[q] = queue[q]
      BY <1>0, <1>6, <2>2, FallMoves
    <3> QED BY <1>0, <3>1 DEF Came
  <2> QED BY <2>1, <2>2
<1>7. ASSUME NEW x \in Queue, NEW s \in Slot, OthersStay(x, s),
             x = q => handler'[q][s].event # e,
             queue'[q][e] = 0
      PROVE  ~ Came(q, e)'
  BY <1>0, <1>7 DEF Came, OthersStay
<1>8. ASSUME NEW x \in Queue, NEW s \in Slot, Deliver(x, s) PROVE ~ Came(q, e)'
  <2>1. OthersStay(x, s)
    BY <1>0, <1>8, DeliverMoves, Zenon
  <2>2. PICK h \in Event :
          /\ queue[x][h] > 0
          /\ \A y \in Queue, z \in Event : y # x \/ z # h => queue'[y][z] = queue[y][z]
          /\ handler'[x][s].event = h
    BY <1>0, <1>8, DeliverMoves
  <2>3. x = q => h # e
    BY <1>0, <2>2
  <2>4. queue'[q][e] = 0
    BY <1>0, <2>2, <2>3
  <2> QED BY <1>7, <2>1, <2>2, <2>3, <2>4
<1>9. ASSUME NEW x \in Queue, NEW s \in Slot, Claim(x, s) \/ Handle(x, s)
      PROVE  ~ Came(q, e)'
  <2>1. /\ OthersStay(x, s) /\ queue' = queue
        /\ handler'[x][s].event = handler[x][s].event
    <3>1. CASE Claim(x, s)
      BY <1>0, <3>1, ClaimMoves
    <3>2. CASE Handle(x, s)
      BY <3>2, HandleMoves
    <3> QED BY <1>9, <3>1, <3>2
  <2>2. x = q => handler'[q][s].event # e
    BY <1>0, <2>1
  <2>3. queue'[q][e] = 0
    BY <1>0, <2>1
  <2> QED BY <1>7, <2>1, <2>2, <2>3
<1>10. ASSUME NEW x \in Queue, NEW s \in Slot, Ack(x, s) PROVE ~ Came(q, e)'
  <2>1. Fall(x) \/ Answered(x, s)
    BY <1>0, <1>10, AckMoves
  <2>2. CASE Answered(x, s)
    <3>1. handler'[x][s] = Empty /\ queue'[q][e] = 0
      BY <1>0, <2>2 DEF Answered
    <3>2. \A t \in Slot : q # x \/ t # s => handler'[q][t].event = handler[q][t].event
      BY <2>2 DEF Answered
    <3>3. \A t \in Slot : handler'[q][t].event # e
      BY <1>0, <3>1, <3>2, EmptyWork
    <3> QED BY <1>0, <3>1, <3>3 DEF Came
  <2> QED BY <1>6, <2>1, <2>2
<1>11. CASE Next
  <2>1. \/ \E p \in Process : (\E b \in Bundle : Commit(p, b)) \/ Sender(p) \/ Relay(p) \/ Kill(p)
        \/ Outage \/ Recover \/ \E x \in Queue : Connect(x)
        \/ \E x \in Queue : Die(x)
        \/ \E x \in Queue, s \in Slot : Deliver(x, s) \/ Claim(x, s) \/ Handle(x, s) \/ Ack(x, s)
    BY <1>11 DEF Next, Consumer
  <2>2. CASE \E x \in Queue : Die(x)
    BY <1>6, <2>2 DEF Die
  <2>3. CASE \E x \in Queue, s \in Slot :
               Deliver(x, s) \/ Claim(x, s) \/ Handle(x, s) \/ Ack(x, s)
    BY <1>8, <1>9, <1>10, <2>3
  <2> QED BY <1>3, <1>4, <1>5, <2>1, <2>2, <2>3
<1> QED BY <1>2, <1>11

\* Before anything fails every connection is the one a message came over, and
\* nothing is given up.
Quiet == accidents = 0 /\ outages = 0
Calm ==
    Quiet =>
        /\ stale = {} /\ missed = {} /\ refused = {}
        /\ \A q \in Queue, s \in Slot : handler[q][s].pc # "idle" =>
             handler[q][s].pc # "refused" /\ Awaited(handler[q][s])

\* A step that leaves the handlers alone.
LEMMA CalmElsewhere ==
    ASSUME TypeOK, Calm, Quiet' => Quiet,
           UNCHANGED handler, stale' \subseteq stale,
           Quiet' => missed' \cup refused' \subseteq missed \cup refused \cup Deliveries({})
    PROVE  Calm'
<1> SUFFICES ASSUME Quiet'
             PROVE  /\ stale' = {} /\ missed' = {} /\ refused' = {}
                    /\ \A q \in Queue, s \in Slot : handler'[q][s].pc # "idle" =>
                         handler'[q][s].pc # "refused" /\ Awaited(handler'[q][s])
  BY DEF Calm, Awaited
<1>1. Deliveries({}) = {}
  BY DEF Deliveries
<1> QED BY <1>1 DEF Calm

LEMMA CalmStep ==
    ASSUME \A q \in Queue, e \in Event : Receives(q, e) => Dispatches(q, e),
           Types, RightQueue, Calm, [Next]_vars
    PROVE  Calm'
<1>0. /\ TypeOK /\ TypeOK'
      /\ accidents \in Nat /\ outages \in Nat
  BY StepTypes DEF Types, TypeOK
<1>1. CASE UNCHANGED vars
  BY <1>0, <1>1, CalmElsewhere DEF vars, brokerVars, readerVars, Quiet
<1>2. ASSUME NEW p \in Process, NEW b \in Bundle, Commit(p, b) PROVE Calm'
  BY <1>0, <1>2, CalmElsewhere DEF Commit, brokerVars, readerVars, Quiet
<1>3. ASSUME NEW p \in Process, Publish(p) PROVE Calm'
  <2>1. /\ UNCHANGED handler /\ stale' \subseteq stale /\ UNCHANGED refused
        /\ Quiet' => Quiet
        /\ missed' = missed \/ p \in stale
    BY <1>3 DEF Publish, readerVars, Quiet
  <2>2. Quiet' => missed' = missed
    BY <2>1 DEF Calm
  <2> QED BY <1>0, <2>1, <2>2, CalmElsewhere
<1>4. ASSUME NEW p \in Process, Store(p) PROVE Calm'
  <2>1. /\ UNCHANGED handler /\ stale' = stale /\ UNCHANGED refused
        /\ outages' = outages
        /\ \/ missed' = missed /\ accidents' = accidents
           \/ accidents' = accidents + 1
    BY <1>4 DEF Store, Accident, brokerVars, readerVars
  <2>2. (Quiet' => Quiet) /\ (Quiet' => missed' = missed)
    BY <1>0, <2>1 DEF Quiet
  <2> QED BY <1>0, <2>1, <2>2, CalmElsewhere
<1>5. ASSUME NEW p \in Process, Relay(p) PROVE Calm'
  <2>1. /\ UNCHANGED handler /\ stale' = stale /\ UNCHANGED <<missed, refused>>
        /\ outages' = outages /\ accidents' = accidents
    BY <1>5 DEF Relay, Select, Send, CommitRelay, brokerVars, readerVars
  <2> QED BY <1>0, <2>1, CalmElsewhere DEF Quiet
<1>6. ASSUME accidents' = accidents + 1 \/ outages' = outages + 1 PROVE Calm'
  <2>1. ~ Quiet'
    BY <1>0, <1>6 DEF Quiet, TypeOK
  <2> QED BY <2>1 DEF Calm
<1>7. ASSUME \/ \E p \in Process : Kill(p)
             \/ Outage
             \/ \E q \in Queue : Die(q)
      PROVE  Calm'
  BY <1>6, <1>7 DEF Kill, Outage, Die, Accident
<1>8. ASSUME Recover \/ \E q \in Queue : Connect(q) PROVE Calm'
  <2>1. /\ UNCHANGED handler /\ stale' = stale /\ UNCHANGED <<missed, refused>>
        /\ outages' = outages /\ accidents' = accidents
    BY <1>8 DEF Recover, Connect, brokerVars, readerVars
  <2> QED BY <1>0, <2>1, CalmElsewhere DEF Quiet
\* A step of one handler.
<1>9. ASSUME NEW q \in Queue, NEW s \in Slot, OthersStay(q, s),
             UNCHANGED <<stale, missed, refused, outages, accidents>>,
             Quiet => \/ handler'[q][s].pc = "idle"
                      \/ handler'[q][s].pc # "refused" /\ Awaited(handler'[q][s])
      PROVE  Calm'
  <2> SUFFICES ASSUME Quiet'
               PROVE  /\ stale' = {} /\ missed' = {} /\ refused' = {}
                      /\ \A x \in Queue, t \in Slot : handler'[x][t].pc # "idle" =>
                           handler'[x][t].pc # "refused" /\ Awaited(handler'[x][t])
    BY DEF Calm, Awaited
  <2>1. Quiet
    BY <1>9 DEF Quiet
  <2>2. stale' = {} /\ missed' = {} /\ refused' = {}
    BY <1>9, <2>1 DEF Calm
  <2>3. ASSUME NEW x \in Queue, NEW t \in Slot, handler'[x][t].pc # "idle"
        PROVE  handler'[x][t].pc # "refused" /\ Awaited(handler'[x][t])
    <3>1. CASE x = q /\ t = s
      BY <1>9, <2>1, <2>3, <3>1
    <3>2. CASE x # q \/ t # s
      <4>1. handler'[x][t] = handler[x][t]
        BY <1>9, <3>2 DEF OthersStay
      <4> QED BY <2>1, <2>3, <4>1 DEF Calm
    <3> QED BY <3>1, <3>2
  <2> QED BY <2>2, <2>3
<1>10. ASSUME NEW q \in Queue, NEW s \in Slot, Deliver(q, s) PROVE Calm'
  <2>1. OthersStay(q, s)
    BY <1>0, <1>10, DeliverMoves, Zenon
  <2>2. UNCHANGED <<stale, missed, refused, outages, accidents>>
    BY <1>10 DEF Deliver
  <2>3. PICK e \in Event :
          handler' = [handler EXCEPT ![q][s] =
                        [pc |-> "taken", event |-> e, here |-> TRUE, kept |-> TRUE]]
    BY <1>10 DEF Deliver, Ready
  <2>4. handler'[q][s] = [pc |-> "taken", event |-> e, here |-> TRUE, kept |-> TRUE]
    BY <1>0, <2>3 DEF TypeOK
  <2> QED BY <1>9, <2>1, <2>2, <2>4 DEF Awaited
\* What a handler works on came over a connection that stands.
<1>11. ASSUME NEW q \in Queue, NEW s \in Slot, handler[q][s].pc # "idle", Quiet
       PROVE  /\ Awaited(handler[q][s]) /\ handler[q][s].pc # "refused"
              /\ Dispatches(q, handler[q][s].event)
  <2>1. handler[q][s].event \in Event /\ Came(q, handler[q][s].event)
    BY <1>11 DEF Types, Busy, Came
  <2> QED BY <1>11, <2>1 DEF Calm, RightQueue
<1>12. ASSUME NEW q \in Queue, NEW s \in Slot, Claim(q, s) PROVE Calm'
  <2>1. CASE accidents' = accidents + 1
    BY <1>6, <2>1
  <2>2. CASE accidents' # accidents + 1
    <3>1. /\ OthersStay(q, s) /\ handler[q][s].pc = "taken"
          /\ handler'[q][s].here <=> handler[q][s].here
          /\ handler'[q][s].kept <=> handler[q][s].kept
      BY <1>0, <1>12, ClaimMoves
    <3>2. /\ \/ handler'[q][s].pc = "refused" /\ ~ Dispatches(q, handler[q][s].event)
             \/ handler'[q][s].pc \in {"done", "claimed"}
          /\ UNCHANGED missed /\ refused' = refused
      BY <1>0, <1>12, <2>2, ClaimMoves DEF Accident
    <3>3. UNCHANGED <<stale, outages>> /\ UNCHANGED accidents
      BY <1>12, <2>2 DEF Claim, Accident, brokerVars
    <3>4. Quiet => handler'[q][s].pc # "refused" /\ Awaited(handler'[q][s])
      BY <1>11, <3>1, <3>2 DEF Awaited
    <3> QED BY <1>9, <3>1, <3>2, <3>3, <3>4
  <2> QED BY <2>1, <2>2
<1>13. ASSUME NEW q \in Queue, NEW s \in Slot, Handle(q, s) PROVE Calm'
  <2>1. CASE accidents' = accidents + 1
    BY <1>6, <2>1
  <2>2. CASE accidents' # accidents + 1
    <3>1. /\ OthersStay(q, s) /\ handler[q][s].pc = "claimed" /\ handler'[q][s].pc = "done"
          /\ handler'[q][s].here <=> handler[q][s].here
          /\ handler'[q][s].kept <=> handler[q][s].kept
      BY <1>13, HandleMoves
    <3>2. UNCHANGED <<stale, missed, refused, outages, accidents>>
      BY <1>13, <2>2 DEF Handle, Accident, brokerVars
    <3>3. Quiet => Awaited(handler'[q][s])
      BY <1>11, <3>1 DEF Awaited
    <3> QED BY <1>9, <3>1, <3>2, <3>3
  <2> QED BY <2>1, <2>2
<1>14. ASSUME NEW q \in Queue, NEW s \in Slot, Ack(q, s) PROVE Calm'
  <2>1. handler[q][s].pc \in {"done", "refused"} /\ UNCHANGED <<stale, outages, accidents>>
    BY <1>14 DEF Ack
  <2>2. CASE Quiet
    <3>1. Awaited(handler[q][s]) /\ handler[q][s].pc = "done"
      BY <1>11, <2>1, <2>2
    <3>2. /\ handler' = [handler EXCEPT ![q][s] = Empty]
          /\ refused' = refused /\ missed' = missed
      BY <1>14, <3>1 DEF Ack, Awaited
    <3>3. handler'[q][s] = Empty /\ OthersStay(q, s)
      BY <1>0, <3>2, EmptyWork, OneMove
    <3> QED BY <1>9, <2>1, <3>2, <3>3, EmptyWork
  <2>3. CASE ~ Quiet
    BY <2>1, <2>3 DEF Calm, Quiet
  <2> QED BY <2>2, <2>3
<1>15. CASE Next
  <2>1. \/ \E p \in Process : \/ \E b \in Bundle : Commit(p, b)
                              \/ Publish(p) \/ Store(p) \/ Relay(p) \/ Kill(p)
        \/ Outage \/ Recover
        \/ \E q \in Queue : Connect(q) \/ Die(q)
        \/ \E q \in Queue, s \in Slot : Deliver(q, s) \/ Claim(q, s) \/ Handle(q, s) \/ Ack(q, s)
    BY <1>15 DEF Next, Sender, Consumer
  <2>2. CASE \E p \in Process : \/ \E b \in Bundle : Commit(p, b)
                                \/ Publish(p) \/ Store(p) \/ Relay(p) \/ Kill(p)
    BY <1>2, <1>3, <1>4, <1>5, <1>7, <2>2
  <2>3. CASE Outage \/ Recover \/ \E q \in Queue : Connect(q) \/ Die(q)
    BY <1>7, <1>8, <2>3
  <2>4. CASE \E q \in Queue, s \in Slot :
               Deliver(q, s) \/ Claim(q, s) \/ Handle(q, s) \/ Ack(q, s)
    BY <1>10, <1>12, <1>13, <1>14, <2>4
  <2> QED BY <2>1, <2>2, <2>3, <2>4
<1> QED BY <1>1, <1>15

\* Where the consumers have a handler for every event their queue is bound to,
\* as in notification-service, an event is handled in the end or still on its
\* way, whatever the interleaving, until the broker goes down or something else
\* fails.  (product-service has none: see the run that violates this property.)
THEOREM NothingLostUnlessFailing ==
    ASSUME \A q \in Queue, e \in Event : Receives(q, e) => Dispatches(q, e)
    PROVE  Spec => []OnlyFailuresLose
<1> DEFINE Inv == Types /\ RightQueue /\ Calm
<1>1. Init => Inv
  <2> SUFFICES ASSUME Init PROVE Inv
    OBVIOUS
  <2>1. RightQueue
    BY EventBusAssumption DEF Init, RightQueue, Came, Empty, EventBusAssumption
  <2>2. Calm
    BY DEF Init, Calm, Empty
  <2> QED BY <2>1, <2>2, InitTypes
<1>2. Inv /\ [Next]_vars => Inv'
  BY StepTypes, RightStep, CalmStep
<1>3. Inv => OnlyFailuresLose
  <2> SUFFICES ASSUME Inv PROVE OnlyFailuresLose
    OBVIOUS
  <2>1. accidents \in Nat /\ outages \in Nat
    BY DEF Types, TypeOK
  <2>2. CASE Quiet
    BY <2>2 DEF Calm, OnlyFailuresLose
  <2>3. CASE ~ Quiet
    BY <2>1, <2>3 DEF Quiet, OnlyFailuresLose
  <2> QED BY <2>2, <2>3
<1> HIDE DEF Inv
<1> QED BY <1>1, <1>2, <1>3, PTL DEF Spec

=============================================================================

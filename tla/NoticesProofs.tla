---------------------------- MODULE NoticesProofs ----------------------------
(***************************************************************************)
(* Proofs about the notifications of a page, for every number of           *)
(* notifications, of calls in flight and of clicks.                        *)
(***************************************************************************)
EXTENDS Notices, FiniteSetTheorems, TLAPS

\* What the list can hold of one notification: nothing, a read or an unread
\* entry.
Entry == {<< >>, <<"read">>, <<"unread">>}

Answers == [stage: {"none", "asked", "served", "dropped"},
            entries: [Note -> Entry], number: Nat]
Calls == [Slot -> CallType]
Has(q, n) == \E i \in DOMAIN q : q[i] = n

\* The inductive invariant: the types, with NoTwice in them;
Typed ==
    /\ row \in [Note -> {"none", "unread", "read", "dismissed"}]
    /\ due \in SUBSET (Note \ Silent) /\ loop \in SUBSET (Note \ Silent)
    /\ stream \in {"closed", "opening", "open", "broken"}
    /\ line \in Seq(Note)
    /\ loaded \in BOOLEAN /\ list \in [Note -> Entry] /\ count \in Nat
    /\ fetch \in [Keys -> Answers]
    /\ calls \in Calls
    /\ clicks \in 0 .. MaxClicks
    /\ told \in SUBSET Note /\ ticked \in SUBSET Note

\* nothing is anywhere before it is in the table;
Known ==
    \A n \in Note : row[n] = "none" =>
        /\ list[n] = << >> /\ fetch["list"].entries[n] = << >>
        /\ n \notin due \union loop \union told
        /\ ~Has(line, n)
        /\ \A s \in Slot : calls[s].note # n

\* what a tick was answered for is read, on the page and in the read of the
\* list that is on its way;
Ticked ==
    /\ \A s \in Slot : calls[s].op = "markAsRead" =>
           /\ calls[s].note \in Note
           /\ calls[s].stage = "served" => row[calls[s].note] # "unread"
    /\ \A s \in Slot : calls[s].op = "dismiss" => calls[s].note \in Note
    /\ \A n \in ticked :
           /\ row[n] \in {"read", "dismissed"}
           /\ row[n] = "read" =>
                  /\ list[n] = <<"read">>
                  /\ fetch["list"].stage = "served" =>
                         fetch["list"].entries[n] = <<"read">>

\* and a read of the list lacks only what the page has not heard of.
Told ==
    /\ stream = "open" => \A n \in told \cap Kept : list[n] # << >> \/ Has(line, n)
    /\ stream # "open" => told = {}
    /\ fetch["list"].stage = "served" =>
           \A n \in Kept : fetch["list"].entries[n] # << >> \/ list[n] = << >>

NInv == Typed /\ Known /\ Ticked /\ Told

-----------------------------------------------------------------------------
(* Entries, the line of events and the answers the page waits for.         *)

\* The three entries are distinct lists of flags of length at most one, and marking
\* one as read gives such an entry again.
LEMMA EntryFacts ==
    /\ \A e \in Entry : e \in Seq(Flag) /\ Len(e) <= 1 /\ AllRead(e) \in Entry
    /\ AllRead(<< >>) = << >> /\ AllRead(<<"read">>) = <<"read">> /\ AllRead(<<"unread">>) = <<"read">>
    /\ <<"unread">> \o << >> = <<"unread">>
    /\ << >> # <<"read">> /\ << >> # <<"unread">> /\ <<"read">> # <<"unread">>
<1>1. << >> \in Seq(Flag) /\ <<"read">> \in Seq(Flag) /\ <<"unread">> \in Seq(Flag)
  BY DEF Flag
<1>2. Len(<< >>) = 0 /\ Len(<<"read">>) = 1 /\ Len(<<"unread">>) = 1
  OBVIOUS
<1>3. << >> # <<"read">> /\ << >> # <<"unread">>
  BY <1>2
<1>4. <<"read">>[1] = "read" /\ <<"unread">>[1] = "unread"
  OBVIOUS
<1>5. <<"read">> # <<"unread">>
  BY <1>4
<1>6. AllRead(<< >>) = << >>
  BY DEF AllRead
<1>7. AllRead(<<"read">>) = <<"read">> /\ AllRead(<<"unread">>) = <<"read">>
  <2>1. <<"read">> = [i \in 1 .. 1 |-> "read"]
    OBVIOUS
  <2>2. DOMAIN <<"read">> = 1 .. 1 /\ DOMAIN <<"unread">> = 1 .. 1
    OBVIOUS
  <2> QED BY <2>1, <2>2, Zenon DEF AllRead
<1>8. <<"unread">> \o << >> = <<"unread">>
  OBVIOUS
<1>9. ASSUME NEW e \in Entry
      PROVE  e \in Seq(Flag) /\ Len(e) <= 1 /\ AllRead(e) \in Entry
  <2>1. CASE e = << >>
    BY <1>1, <1>2, <1>6, <2>1 DEF Entry
  <2>2. CASE e = <<"read">>
    <3>1. AllRead(e) = <<"read">>
      BY <1>7, <2>2, Zenon
    <3> QED BY <1>1, <1>2, <2>2, <3>1 DEF Entry
  <2>3. CASE e = <<"unread">>
    <3>1. AllRead(e) = <<"read">>
      BY <1>7, <2>3, Zenon
    <3> QED BY <1>1, <1>2, <2>3, <3>1 DEF Entry
  <2> QED BY <2>1, <2>2, <2>3, Zenon DEF Entry
<1> QED BY <1>3, <1>5, <1>6, <1>7, <1>8, <1>9, Zenon

\* An entry shows something unread only if it is the unread one.
LEMMA Flags ==
    ASSUME NEW e \in Entry
    PROVE  (\E i \in DOMAIN e : e[i] = "unread") <=> e = <<"unread">>
<1>1. CASE e = << >>
  BY <1>1, EntryFacts
<1>2. CASE e = <<"read">>
  <2>1. DOMAIN e = {1} /\ e[1] = "read"
    BY <1>2
  <2> QED BY <2>1, <1>2, EntryFacts
<1>3. CASE e = <<"unread">>
  <2>1. DOMAIN e = {1} /\ e[1] = "unread"
    BY <1>3
  <2> QED BY <2>1, <1>3, EntryFacts
<1> QED BY <1>1, <1>2, <1>3 DEF Entry

\* An event written to the stream is all that the line gains.
LEMMA Appended ==
    ASSUME NEW q \in Seq(Note), NEW n \in Note
    PROVE  /\ Append(q, n) \in Seq(Note)
           /\ \A m : Has(Append(q, n), m) <=> Has(q, m) \/ m = n
<1> DEFINE a == Append(q, n)
<1>1. /\ a \in Seq(Note) /\ DOMAIN a = 1 .. (Len(q) + 1)
      /\ \A i \in DOMAIN q : a[i] = q[i]
      /\ a[Len(q) + 1] = n /\ DOMAIN q = 1 .. Len(q) /\ Len(q) \in Nat
  OBVIOUS
<1> HIDE DEF a
<1>2. ASSUME NEW m PROVE Has(a, m) <=> Has(q, m) \/ m = n
  <2>1. ASSUME Has(a, m) PROVE Has(q, m) \/ m = n
    <3>1. PICK i \in DOMAIN a : a[i] = m
      BY <2>1 DEF Has
    <3>2. i = Len(q) + 1 \/ i \in DOMAIN q
      BY <1>1
    <3> QED BY <1>1, <3>1, <3>2 DEF Has
  <2>2. ASSUME Has(q, m) PROVE Has(a, m)
    <3>1. PICK i \in DOMAIN q : q[i] = m
      BY <2>2 DEF Has
    <3>2. i \in DOMAIN a
      BY <1>1
    <3> QED BY <1>1, <3>1, <3>2 DEF Has
  <2>3. Has(a, n)
    <3>1. Len(q) + 1 \in DOMAIN a
      BY <1>1
    <3> QED BY <1>1, <3>1 DEF Has
  <2> QED BY <2>1, <2>2, <2>3
<1> QED BY <1>1, <1>2 DEF a

\* The event read from the line is all that it loses.
LEMMA Read ==
    ASSUME NEW q \in Seq(Note), q # << >>
    PROVE  /\ Head(q) \in Note /\ Tail(q) \in Seq(Note)
           /\ \A m : Has(q, m) <=> Has(Tail(q), m) \/ m = Head(q)
<1>1. Head(q) \in Note /\ Tail(q) \in Seq(Note) /\ Len(q) >= 1
  OBVIOUS
<1>2. ASSUME NEW m, NEW i \in DOMAIN q, q[i] = m
      PROVE  Has(Tail(q), m) \/ m = Head(q)
  <2>1. CASE i = 1
    BY <1>2, <2>1
  <2>2. CASE i # 1
    <3>1. i - 1 \in DOMAIN Tail(q) /\ Tail(q)[i - 1] = m
      BY <1>1, <1>2, <2>2
    <3> QED BY <3>1 DEF Has
  <2> QED BY <2>1, <2>2
<1>3. ASSUME NEW m, NEW i \in DOMAIN Tail(q), Tail(q)[i] = m
      PROVE  Has(q, m)
  <2>1. i + 1 \in DOMAIN q /\ q[i + 1] = m
    BY <1>1, <1>3
  <2> QED BY <2>1 DEF Has
<1>4. Has(q, Head(q))
  <2>1. 1 \in DOMAIN q /\ q[1] = Head(q)
    BY <1>1
  <2> QED BY <2>1 DEF Has
<1> QED BY <1>1, <1>2, <1>3, <1>4, Zenon DEF Has

\* Nothing is on an empty line.
LEMMA Empty == \A m : ~Has(<< >>, m)
BY DEF Has

-----------------------------------------------------------------------------
\* An opened page satisfies the invariant.
LEMMA Base == Init => NInv
<1> SUFFICES ASSUME Init PROVE NInv
  OBVIOUS
<1> USE DEF Init, NoEntries, Idle
<1>0. /\ fetch = [k \in Keys |-> Asked]
      /\ Asked = [stage |-> "asked", entries |-> [n \in Note |-> << >>], number |-> 0]
      /\ fetch["list"].entries = [n \in Note |-> << >>] /\ fetch["list"].stage = "asked"
  BY DEF Asked, NotAsked, Keys
<1>1. Typed
  <2>1. NoEntries \in [Note -> Entry]
    BY DEF Entry
  <2>2. fetch \in [Keys -> Answers]
    BY <1>0, <2>1 DEF Answers
  <2>3. calls \in Calls
    BY DEF Calls, CallType
  <2>4. line \in Seq(Note) /\ clicks \in 0 .. MaxClicks
    BY NoticesAssumption
  <2> QED BY <2>1, <2>2, <2>3, <2>4 DEF Typed
<1>2. Known
  BY Empty, <1>0, NoticesAssumption DEF Known
<1>3. Ticked
  BY DEF Ticked
<1>4. Told
  BY <1>0 DEF Told
<1> QED BY <1>1, <1>2, <1>3, <1>4 DEF NInv
-----------------------------------------------------------------------------
\* What all steps but the service's answer to a read of the list do to that
\* read: it is forgotten, dropped or asked for anew, or left alone.
Calm ==
    /\ fetch' \in [Keys -> Answers]
    /\ fetch'["list"].entries \in {fetch["list"].entries, NoEntries}
    /\ fetch'["list"].stage = "served" => fetch'["list"] = fetch["list"]

\* A read not asked for, asked for or dropped carries no entries.
LEMMA Blank ==
    /\ NoEntries \in [Note -> Entry] /\ \A n \in Note : NoEntries[n] = << >>
    /\ NotAsked \in Answers /\ NotAsked.stage = "none" /\ NotAsked.entries = NoEntries
    /\ Asked \in Answers /\ Asked.stage = "asked" /\ Asked.entries = NoEntries
    /\ Dropped \in Answers /\ Dropped.stage = "dropped" /\ Dropped.entries = NoEntries
<1>1. NoEntries \in [Note -> Entry] /\ \A n \in Note : NoEntries[n] = << >>
  BY DEF NoEntries, Entry
<1>2. /\ NotAsked = [stage |-> "none", entries |-> NoEntries, number |-> 0]
      /\ Asked = [stage |-> "asked", entries |-> NoEntries, number |-> 0]
      /\ Dropped = [stage |-> "dropped", entries |-> NoEntries, number |-> 0]
  BY DEF NotAsked, Asked, Dropped
<1> QED BY <1>1, <1>2 DEF Answers

\* Mutating a key drops the read of it (SWR), whatever its stage.
LEMMA DroppingCalms ==
    ASSUME Typed, NEW K \in SUBSET Keys, "list" \in K, Dropping(K)
    PROVE  Calm /\ fetch'["list"].stage # "served"
<1>1. fetch \in [Keys -> Answers] /\ "list" \in Keys
  BY DEF Typed, Keys
<1>2. fetch' = [k \in Keys |-> IF k \in K /\ fetch[k].stage # "none" THEN Dropped ELSE fetch[k]]
  BY DEF Dropping
<1>3. fetch'["list"] = IF fetch["list"].stage # "none" THEN Dropped ELSE fetch["list"]
  BY <1>1, <1>2
<1>4. CASE fetch["list"].stage # "none"
  <2>1. fetch'["list"] = Dropped
    BY <1>3, <1>4
  <2> QED BY <1>1, <1>2, <2>1, Blank DEF Calm
<1>5. CASE fetch["list"].stage = "none"
  <2>1. fetch'["list"] = fetch["list"]
    BY <1>3, <1>5
  <2> QED BY <1>1, <1>2, <1>5, <2>1, Blank DEF Calm
<1> QED BY <1>4, <1>5

\* A read that ended is forgotten.
LEMMA Forgetting ==
    ASSUME Typed, NEW k \in Keys, fetch' = [fetch EXCEPT ![k] = NotAsked]
    PROVE  Calm /\ (k = "list" => fetch'["list"].stage # "served")
<1>1. fetch \in [Keys -> Answers] /\ "list" \in Keys
  BY DEF Typed, Keys
<1> QED BY <1>1, Blank DEF Calm

\* Steps that leave the reads alone.
LEMMA Still == Typed /\ UNCHANGED fetch => Calm
BY DEF Typed, Calm

-----------------------------------------------------------------------------
(* One lemma for each action.                                              *)

\* A call whose answer came is forgotten, the others stay.
LEMMA Forgotten ==
    ASSUME calls \in Calls, NEW s \in Slot, Forget(s)
    PROVE  /\ calls' \in Calls /\ Idle.note \notin Note /\ Idle.op = "none"
           /\ \A t \in Slot : calls'[t] \in {calls[t], Idle}
<1>1. Idle \in CallType /\ Idle.note = Nothing /\ Idle.op = "none"
  BY DEF Idle, CallType
<1>2. calls' = [calls EXCEPT ![s] = Idle]
  BY DEF Forget
<1> QED BY <1>1, <1>2, NoticesAssumption DEF Calls

\* What marking as read makes of an entry.
LEMMA Marked ==
    ASSUME NEW e \in Entry
    PROVE  AllRead(e) \in Entry /\ AllRead(e) = IF e = << >> THEN << >> ELSE <<"read">>
<1>1. AllRead(e) \in Entry /\ e \in {<< >>, <<"read">>, <<"unread">>}
  BY EntryFacts DEF Entry
<1>2. CASE e = << >>
  BY <1>1, <1>2, EntryFacts, Zenon
<1>3. CASE e = <<"read">>
  BY <1>1, <1>3, EntryFacts, Zenon
<1>4. CASE e = <<"unread">>
  BY <1>1, <1>4, EntryFacts, Zenon
<1> QED BY <1>1, <1>2, <1>3, <1>4, Zenon

LEMMA CreateStep ==
    ASSUME NInv, NEW n \in Note, Create(n)
    PROVE  NInv'
<1> USE DEF Create, server, page, history
<1>0. Typed /\ Known /\ Ticked /\ Told
  BY DEF NInv
<1>c. Calm
  BY <1>0, Still
<1>a. /\ row[n] = "none" /\ row' = [row EXCEPT ![n] = "unread"]
      /\ list[n] = << >> /\ n \notin ticked \union told
      /\ \A s \in Slot : calls[s].note # n
  BY <1>0 DEF Known, Ticked
<1>b. \A m \in Note : m # n => row'[m] = row[m]
  BY <1>0, <1>a DEF Typed
<1>1. Typed'
  BY <1>0, <1>c DEF Typed, Calm
<1>2. Known'
  BY <1>0, <1>c, Blank DEF Typed, Known, Calm
<1>3. Ticked'
  BY <1>0, <1>a, <1>b DEF Typed, Ticked
<1>4. Told'
  <2>1. Kept' \subseteq Kept \union {n}
    BY <1>b DEF Kept
  <2> QED BY <1>0, <1>a, <2>1 DEF Told
<1> QED BY <1>1, <1>2, <1>3, <1>4 DEF NInv

LEMMA BroadcastStep ==
    ASSUME NInv, NEW n \in Note, Broadcast(n)
    PROVE  NInv'
<1> USE DEF Broadcast, server, page, history
<1>0. Typed /\ Known /\ Ticked /\ Told
  BY DEF NInv
<1>c. Calm
  BY <1>0, Still
<1>a. /\ n \in Note /\ row[n] # "none" /\ line \in Seq(Note)
      /\ IF stream = "open" THEN line' = Append(line, n) /\ told' = told \union {n}
         ELSE UNCHANGED <<line, told>>
  BY <1>0 DEF Known, Write, Typed
<1>b. line' \in Seq(Note) /\ \A m : Has(line', m) => Has(line, m) \/ (m = n /\ stream = "open")
  BY <1>a, Appended
<1>d. ASSUME stream = "open", NEW m, Has(line, m) \/ m = n
      PROVE  Has(line', m)
  <2>1. line' = Append(line, n)
    BY <1>a, <1>d
  <2> QED BY <1>a, <1>d, <2>1, Appended, Zenon
<1>1. Typed'
  BY <1>0, <1>a, <1>b DEF Typed
<1>2. Known'
  BY <1>0, <1>a, <1>b, Zenon DEF Known
<1>3. Ticked'
  BY <1>0, <1>c DEF Typed, Ticked, Calm
<1>4. Told'
  BY <1>0, <1>a, <1>d DEF Told, Kept
<1> QED BY <1>1, <1>2, <1>3, <1>4 DEF NInv

LEMMA ComeBackStep ==
    ASSUME NInv, NEW n \in Note, ComeBack(n)
    PROVE  NInv'
<1> USE DEF ComeBack, server, page, history
<1>0. Typed /\ Known /\ Ticked /\ Told
  BY DEF NInv
<1>c. Calm
  BY <1>0, Still
<1>a. /\ n \in Note /\ row[n] # "none" /\ line \in Seq(Note)
      /\ IF stream = "open" THEN line' = Append(line, n) /\ told' = told \union {n}
         ELSE UNCHANGED <<line, told>>
  BY <1>0 DEF Known, Write, Typed
<1>b. line' \in Seq(Note) /\ \A m : Has(line', m) => Has(line, m) \/ (m = n /\ stream = "open")
  BY <1>a, Appended
<1>d. ASSUME stream = "open", NEW m, Has(line, m) \/ m = n
      PROVE  Has(line', m)
  <2>1. line' = Append(line, n)
    BY <1>a, <1>d
  <2> QED BY <1>a, <1>d, <2>1, Appended, Zenon
<1>1. Typed'
  BY <1>0, <1>a, <1>b DEF Typed
<1>2. Known'
  BY <1>0, <1>a, <1>b, Zenon DEF Known
<1>3. Ticked'
  BY <1>0, <1>c DEF Typed, Ticked, Calm
<1>4. Told'
  BY <1>0, <1>a, <1>d DEF Told, Kept
<1> QED BY <1>1, <1>2, <1>3, <1>4 DEF NInv

LEMMA SubscribeStep ==
    ASSUME NInv, Subscribe
    PROVE  NInv'
<1> USE DEF Subscribe, server, page, history
<1>0. Typed /\ Known /\ Ticked /\ Told
  BY DEF NInv
<1>c. Calm
  BY <1>0, Still
<1>1. Typed'
  BY <1>0, <1>c DEF Typed, Calm
<1>2. Known'
  BY <1>0, <1>c, Blank DEF Typed, Known, Calm
<1>3. Ticked'
  BY <1>0, <1>c DEF Typed, Ticked, Calm
<1>4. Told'
  BY <1>0, <1>c DEF Typed, Told, Calm, Kept
<1> QED BY <1>1, <1>2, <1>3, <1>4 DEF NInv

LEMMA RestartStep ==
    ASSUME NInv, Restart
    PROVE  NInv'
<1> USE DEF Restart, server, page, history
<1>0. Typed /\ Known /\ Ticked /\ Told
  BY DEF NInv
<1>c. Calm
  BY <1>0, Still
<1>1. Typed'
  BY <1>0, <1>c DEF Typed, Calm
<1>2. Known'
  <2>1. \A m : ~Has(line', m)
    BY Empty, Zenon DEF Has
  <2> QED BY <1>0, <2>1 DEF Known
<1>3. Ticked'
  BY <1>0, <1>c DEF Typed, Ticked, Calm
<1>4. Told'
  BY <1>0, <1>c DEF Typed, Told, Calm, Kept
<1> QED BY <1>1, <1>2, <1>3, <1>4 DEF NInv

\* The three fields the service fills in are the whole answer.
LEMMA Served ==
    ASSUME NEW r \in Answers, NEW e, NEW c
    PROVE  [r EXCEPT !.stage = "served", !.entries = e, !.number = c]
             = [stage |-> "served", entries |-> e, number |-> c]
<1> DEFINE r1 == [r EXCEPT !.stage = "served"]
           r2 == [r1 EXCEPT !.entries = e]
           r3 == [r2 EXCEPT !.number = c]
<1>1. r1 = [stage |-> "served", entries |-> r.entries, number |-> r.number]
  BY DEF Answers
<1> HIDE DEF r1
<1>2. r2 = [stage |-> "served", entries |-> e, number |-> r.number]
  BY <1>1
<1> HIDE DEF r2
<1>3. r3 = [stage |-> "served", entries |-> e, number |-> c]
  BY <1>2
<1>4. r3 = [r EXCEPT !.stage = "served", !.entries = e, !.number = c]
  BY Zenon DEF r1, r2
<1> QED BY <1>3, <1>4, Zenon

LEMMA ServeFetchStep ==
    ASSUME NInv, NEW k \in Keys, ServeFetch(k)
    PROVE  NInv'
<1> USE DEF ServeFetch, server, page, history
<1> DEFINE E == IF k = "count" THEN NoEntries ELSE
                   [n \in Note |-> IF n \in Kept THEN <<row[n]>> ELSE << >>]
           C == IF k = "count" THEN Cardinality(Unread) ELSE 0
           R == [stage |-> "served", entries |-> E, number |-> C]
<1>0. Typed /\ Known /\ Ticked /\ Told
  BY DEF NInv
<1>a. fetch \in [Keys -> Answers] /\ "list" \in Keys /\ fetch[k] \in Answers
  BY <1>0 DEF Typed, Keys
<1>b. E \in [Note -> Entry]
  <2>1. \A n \in Kept : <<row[n]>> \in Entry
    BY DEF Kept, Entry
  <2> QED BY <2>1, Blank DEF Entry
<1>c. C \in Nat
  <2>1. IsFiniteSet(Unread)
    BY NoticesAssumption, FS_Subset DEF Unread
  <2> QED BY <2>1, FS_CardinalityType
<1>d. fetch' = [fetch EXCEPT ![k] = R]
  <2>1. fetch' = [fetch EXCEPT ![k] =
             [fetch[k] EXCEPT !.stage = "served", !.entries = E, !.number = C]]
    BY <1>a
  <2>2. [fetch[k] EXCEPT !.stage = "served", !.entries = E, !.number = C] = R
    BY <1>a, Served
  <2> QED BY <2>1, <2>2
<1> HIDE DEF E, C
<1>e. /\ fetch' \in [Keys -> Answers]
      /\ k # "list" => fetch'["list"] = fetch["list"]
      /\ k = "list" => fetch'["list"].entries = E
  <2>1. R \in Answers /\ R.entries = E
    BY <1>b, <1>c DEF Answers
  <2> HIDE DEF R
  <2>2. fetch' \in [Keys -> Answers] /\ fetch'[k] = R
    <3> HIDE <1>0
    <3> HIDE DEF ServeFetch, server, page, history
    <3> QED BY <1>a, <1>d, <2>1
  <2>3. k # "list" => fetch'["list"] = fetch["list"]
    BY <1>a, <1>d
  <2> QED BY <2>1, <2>2, <2>3
<1> HIDE DEF R
<1>f. k = "list" => E = [n \in Note |-> IF n \in Kept THEN <<row[n]>> ELSE << >>]
  BY DEF E
<1>1. Typed'
  BY <1>0, <1>e DEF Typed
<1>2. Known'
  BY <1>0, <1>e, <1>f DEF Known, Kept
<1>g. /\ UNCHANGED <<calls, row, list, ticked, stream, told, line>>
      /\ ticked \subseteq Note
  BY <1>0 DEF Typed
<1>3. Ticked'
  <2> SUFFICES ASSUME NEW n \in ticked, row[n] = "read", fetch'["list"].stage = "served"
               PROVE  fetch'["list"].entries[n] = <<"read">>
    BY <1>0, <1>g DEF Ticked
  <2>1. CASE k = "list"
    <3>1. n \in Kept /\ n \in Note
      BY <1>g DEF Kept
    <3> HIDE DEF ServeFetch, server, page, history
    <3>2. E[n] = <<row[n]>>
      BY <1>f, <2>1, <3>1
    <3> QED BY <1>e, <2>1, <3>2
  <2>2. CASE k # "list"
    BY <1>0, <1>e, <2>2 DEF Ticked
  <2> QED BY <2>1, <2>2
<1>4. Told'
  <2>1. \A n \in Kept : <<row[n]>> # << >>
    OBVIOUS
  <2>2. Kept' = Kept
    BY DEF Kept
  <2>3. CASE k = "list"
    <3>1. \A n \in Kept : fetch'["list"].entries[n] = <<row[n]>>
      <4>1. Kept \subseteq Note
        BY DEF Kept
      <4>2. \A n \in Note : n \in Kept => E[n] = <<row[n]>>
        BY <1>f, <2>3
      <4> HIDE DEF ServeFetch, server, page, history
      <4> QED BY <1>e, <2>3, <4>1, <4>2
    <3> QED BY <1>0, <2>1, <2>2, <3>1 DEF Told
  <2>4. CASE k # "list"
    BY <1>0, <1>e, <2>2, <2>4 DEF Told
  <2> QED BY <2>3, <2>4
<1> QED BY <1>1, <1>2, <1>3, <1>4 DEF NInv

LEMMA ServeCallStep ==
    ASSUME NInv, NEW s \in Slot, ServeCall(s)
    PROVE  NInv'
<1> USE DEF ServeCall, server, page, history
<1>0. Typed /\ Known /\ Ticked /\ Told
  BY DEF NInv
<1>c. Calm
  BY <1>0, Still
<1>a. /\ calls[s] \in CallType /\ calls[s].stage = "sent"
      /\ calls' = [calls EXCEPT ![s].stage = "served"]
      /\ row' = Updated(calls[s])
  BY <1>0 DEF Typed, Calls
<1>b. /\ calls' \in Calls
      /\ \A t \in Slot : /\ calls'[t].op = calls[t].op /\ calls'[t].note = calls[t].note
                         /\ calls'[t].stage = "served" => t = s \/ calls[t].stage = "served"
  <2> DEFINE c == [calls[s] EXCEPT !.stage = "served"]
  <2>1. c \in CallType /\ c.op = calls[s].op /\ c.note = calls[s].note
    BY <1>a DEF CallType
  <2>2. calls' = [calls EXCEPT ![s] = c]
    BY <1>a
  <2> HIDE DEF c
  <2> QED BY <1>0, <2>1, <2>2 DEF Typed, Calls
<1>d. ASSUME NEW n \in Note
      PROVE  /\ row'[n] \in {row[n], "read", "dismissed"}
             /\ row'[n] = "none" <=> row[n] = "none"
             /\ row'[n] = "read" => row[n] \in {"read", "unread"}
             /\ row[n] = "dismissed" => row'[n] = "dismissed"
             /\ calls[s].op = "markAsRead" /\ calls[s].note = n => row'[n] # "unread"
  <2> DEFINE c == calls[s]
  <2>1. row'[n] = CASE c.op = "markAsRead" /\ n = c.note /\ row[n] = "unread" -> "read"
                    [] c.op = "markAllAsRead" /\ row[n] = "unread" -> "read"
                    [] c.op = "dismiss" /\ n = c.note -> "dismissed"
                    [] c.op = "clearAll" /\ n \in Kept -> "dismissed"
                    [] OTHER -> row[n]
    BY <1>a DEF Updated
  <2>2. row[n] \in {"none", "unread", "read", "dismissed"}
    BY <1>0 DEF Typed
  <2>3. CASE c.op = "markAsRead"
    BY <2>1, <2>2, <2>3
  <2>4. CASE c.op = "markAllAsRead"
    BY <2>1, <2>2, <2>4
  <2>5. CASE c.op = "dismiss"
    BY <1>0, <2>1, <2>2, <2>5 DEF Known
  <2>6. CASE c.op = "clearAll"
    BY <2>1, <2>2, <2>6 DEF Kept
  <2>7. CASE c.op \notin {"markAsRead", "markAllAsRead", "dismiss", "clearAll"}
    BY <2>1, <2>2, <2>7
  <2> QED BY <2>3, <2>4, <2>5, <2>6, <2>7
<1>e. row' \in [Note -> {"none", "unread", "read", "dismissed"}]
  BY <1>0, <1>a, <1>d DEF Updated, Typed
<1>1. Typed'
  BY <1>0, <1>b, <1>e DEF Typed
<1>2. Known'
  BY <1>0, <1>b, <1>d DEF Known
<1>3. Ticked'
  BY <1>0, <1>b, <1>d DEF Typed, Ticked
<1>4. Told'
  <2>1. Kept' \subseteq Kept
    BY <1>0, <1>d, <1>e DEF Kept, Typed
  <2> QED BY <1>0, <2>1 DEF Told
<1> QED BY <1>1, <1>2, <1>3, <1>4 DEF NInv

LEMMA FocusStep ==
    ASSUME NInv, Focus
    PROVE  NInv'
<1> USE DEF Focus, server, page, history
<1>0. Typed /\ Known /\ Ticked /\ Told
  BY DEF NInv
<1>c. Calm
  <2>1. fetch \in [Keys -> Answers] /\ "list" \in Keys
    BY <1>0 DEF Typed, Keys
  <2>2. fetch'["list"] = IF fetch["list"].stage = "none" THEN Asked ELSE fetch["list"]
    BY <2>1
  <2>3. fetch' \in [Keys -> Answers]
    BY <2>1, Blank
  <2>4. CASE fetch["list"].stage = "none"
    <3>1. fetch'["list"] = Asked
      BY <2>2, <2>4
    <3> QED BY <2>3, <3>1, Blank DEF Calm
  <2>5. CASE fetch["list"].stage # "none"
    <3>1. fetch'["list"] = fetch["list"]
      BY <2>2, <2>5
    <3> QED BY <2>3, <3>1 DEF Calm
  <2> QED BY <2>4, <2>5
<1>1. Typed'
  BY <1>0, <1>c DEF Typed, Calm
<1>2. Known'
  BY <1>0, <1>c, Blank DEF Typed, Known, Calm
<1>3. Ticked'
  BY <1>0, <1>c DEF Typed, Ticked, Calm
<1>4. Told'
  BY <1>0, <1>c DEF Typed, Told, Calm, Kept
<1> QED BY <1>1, <1>2, <1>3, <1>4 DEF NInv

LEMMA AnswerFetchStep ==
    ASSUME NInv, NEW k \in Keys, AnswerFetch(k)
    PROVE  NInv'
<1> USE DEF AnswerFetch, server, page, history
<1>0. Typed /\ Known /\ Ticked /\ Told
  BY DEF NInv
<1>c. Calm
  BY <1>0, Forgetting
<1>a. fetch[k] \in Answers /\ fetch[k].entries \in [Note -> Entry] /\ fetch[k].number \in Nat
  BY <1>0 DEF Typed, Answers
<1>1. Typed'
  BY <1>0, <1>a, <1>c DEF Typed, Calm
<1>2. Known'
  BY <1>0, <1>c, Blank DEF Typed, Known, Calm
<1>3. Ticked'
  BY <1>0, <1>c DEF Typed, Ticked, Calm
<1>4. Told'
  BY <1>0, <1>c DEF Typed, Told, Calm, Kept
<1> QED BY <1>1, <1>2, <1>3, <1>4 DEF NInv

LEMMA FailFetchStep ==
    ASSUME NInv, NEW k \in Keys, FailFetch(k)
    PROVE  NInv'
<1> USE DEF FailFetch, server, page, history
<1>0. Typed /\ Known /\ Ticked /\ Told
  BY DEF NInv
<1>c. Calm
  BY <1>0, Forgetting
<1>1. Typed'
  BY <1>0, <1>c DEF Typed, Calm
<1>2. Known'
  BY <1>0, <1>c, Blank DEF Typed, Known, Calm
<1>3. Ticked'
  BY <1>0, <1>c DEF Typed, Ticked, Calm
<1>4. Told'
  BY <1>0, <1>c DEF Typed, Told, Calm, Kept
<1> QED BY <1>1, <1>2, <1>3, <1>4 DEF NInv

LEMMA OpenStreamStep ==
    ASSUME NInv, OpenStream
    PROVE  NInv'
<1> USE DEF OpenStream, server, page, history
<1>0. Typed /\ Known /\ Ticked /\ Told
  BY DEF NInv
<1>c. Calm
  BY <1>0, Still
<1>1. Typed'
  BY <1>0, <1>c DEF Typed, Calm
<1>2. Known'
  BY <1>0, <1>c, Blank DEF Typed, Known, Calm
<1>3. Ticked'
  BY <1>0, <1>c DEF Typed, Ticked, Calm
<1>4. Told'
  BY <1>0, <1>c DEF Typed, Told, Calm, Kept
<1> QED BY <1>1, <1>2, <1>3, <1>4 DEF NInv

LEMMA BreakStep ==
    ASSUME NInv, Break
    PROVE  NInv'
<1> USE DEF Break, server, page, history
<1>0. Typed /\ Known /\ Ticked /\ Told
  BY DEF NInv
<1>c. Calm
  BY <1>0, Still
<1>1. Typed'
  BY <1>0, <1>c DEF Typed, Calm
<1>2. Known'
  <2>1. \A m : ~Has(line', m)
    BY Empty, Zenon DEF Has
  <2> QED BY <1>0, <2>1 DEF Known
<1>3. Ticked'
  BY <1>0, <1>c DEF Typed, Ticked, Calm
<1>4. Told'
  BY <1>0, <1>c DEF Typed, Told, Calm, Kept
<1> QED BY <1>1, <1>2, <1>3, <1>4 DEF NInv

LEMMA ReceiveStep ==
    ASSUME NInv, Receive
    PROVE  NInv'
<1> USE DEF server, history
<1>0. Typed /\ Known /\ Ticked /\ Told
  BY DEF NInv
<1>a. PICK n \in Note : n = Head(line)
  BY <1>0, Read DEF Typed, Receive
<1>b. /\ line' \in Seq(Note) /\ row[n] # "none" /\ stream = "open"
      /\ \A m : Has(line, m) <=> Has(line', m) \/ m = n
  <2>1. line # << >> /\ line' = Tail(line) /\ line \in Seq(Note) /\ stream = "open"
    BY <1>0 DEF Typed, Receive
  <2>2. line' \in Seq(Note) /\ \A m : Has(line, m) <=> Has(line', m) \/ m = n
    BY <1>a, <2>1, Read, Zenon
  <2> QED BY <1>0, <2>1, <2>2 DEF Known
<1>c. CASE IsNew(n)
  <2>1. /\ list[n] = << >> /\ list' = [list EXCEPT ![n] = <<"unread">> \o @]
        /\ count' = count + 1 /\ Dropping(Keys)
    BY <1>a, <1>c DEF Receive, IsNew
  <2>2. list' = [list EXCEPT ![n] = <<"unread">>]
    <3>1. list' = [list EXCEPT ![n] = <<"unread">> \o list[n]]
      BY <2>1
    <3>2. <<"unread">> \o list[n] = <<"unread">>
      BY <2>1, EntryFacts
    <3> QED BY <3>1, <3>2
  <2>3. Calm /\ fetch'["list"].stage # "served"
    BY <1>0, <2>1, DroppingCalms DEF Keys
  <2>4. /\ list' \in [Note -> Entry] /\ list'[n] # << >>
        /\ \A m \in Note : m # n => list'[m] = list[m]
    BY <1>0, <2>2, EntryFacts DEF Typed, Entry
  <2>5. UNCHANGED <<row, due, loop, stream, loaded, calls, clicks, told, ticked>>
    BY DEF Receive
  <2>6. Typed'
    BY <1>0, <1>b, <2>1, <2>3, <2>4, <2>5 DEF Typed, Calm
  <2>7. Known'
    BY <1>0, <1>b, <2>3, <2>4, <2>5, Blank DEF Known, Calm
  <2>8. Ticked'
    <3>1. n \in ticked => row[n] # "read"
      BY <1>0, <2>1, EntryFacts DEF Ticked
    <3> QED BY <1>0, <2>3, <2>4, <2>5, <3>1 DEF Ticked, Typed
  <2>9. Told'
    BY <1>0, <1>b, <2>3, <2>4, <2>5 DEF Told, Typed, Kept
  <2> QED BY <2>6, <2>7, <2>8, <2>9 DEF NInv
<1>d. CASE ~IsNew(n)
  <2>1. list[n] # << >>
    BY <1>d DEF IsNew
  <2>2. UNCHANGED <<list, count, fetch, row, due, loop, stream, loaded, calls, clicks, told, ticked>>
    BY <1>a, <1>d DEF Receive
  <2>3. Typed'
    BY <1>0, <1>b, <2>2 DEF Typed
  <2>4. Known'
    BY <1>0, <1>b, <2>2 DEF Known
  <2>5. Ticked'
    BY <1>0, <2>2 DEF Ticked
  <2>6. Told'
    BY <1>0, <1>b, <2>1, <2>2 DEF Told, Kept
  <2> QED BY <2>3, <2>4, <2>5, <2>6 DEF NInv
<1> QED BY <1>c, <1>d

LEMMA ClickStep ==
    ASSUME NInv, NEW s \in Slot, NEW op \in OpsOf, NEW n \in Note \union {Nothing}, Click(s, op, n)
    PROVE  NInv'
<1> USE DEF Click, server, page, history
<1>0. Typed /\ Known /\ Ticked /\ Told
  BY DEF NInv
<1>c. Calm
  BY <1>0, Still
<1>a. /\ calls' = [calls EXCEPT ![s] = [op |-> op, note |-> n, stage |-> "sent"]]
      /\ clicks' = clicks + 1 /\ clicks < MaxClicks /\ Offers(op, n)
  OBVIOUS
<1>b. /\ [op |-> op, note |-> n, stage |-> "sent"] \in CallType
      /\ op \in {"markAsRead", "dismiss"} => n \in Note /\ list[n] # << >>
      /\ op \notin {"markAsRead", "dismiss"} => n = Nothing
  <2>1. CASE op = "markAsRead"
    <3>1. n \in Note /\ ShownUnread(n)
      BY <1>a, <2>1 DEF Offers
    <3>2. list[n] # << >>
      BY <3>1, Empty DEF ShownUnread
    <3> QED BY <2>1, <3>1, <3>2 DEF CallType, OpsOf
  <2>2. CASE op = "dismiss"
    BY <1>a, <2>2 DEF Offers, Listed, CallType, OpsOf
  <2>3. CASE op \in {"markAllAsRead", "clearAll"}
    BY <1>a, <2>3 DEF Offers, CallType, OpsOf
  <2> QED BY <2>1, <2>2, <2>3 DEF OpsOf
<1>d. /\ calls' \in Calls
      /\ calls'[s].op = op /\ calls'[s].note = n /\ calls'[s].stage = "sent"
      /\ \A t \in Slot : t # s => calls'[t] = calls[t]
  BY <1>0, <1>a, <1>b DEF Typed, Calls
<1>1. Typed'
  BY <1>0, <1>a, <1>d, NoticesAssumption DEF Typed
<1>2. Known'
  BY <1>0, <1>b, <1>d, NoticesAssumption DEF Known
<1>3. Ticked'
  BY <1>0, <1>b, <1>d DEF Ticked
<1>4. Told'
  BY <1>0, <1>c DEF Typed, Told, Calm, Kept
<1> QED BY <1>1, <1>2, <1>3, <1>4 DEF NInv

LEMMA AnswerMarkAsReadStep ==
    ASSUME NInv, NEW s \in Slot, AnswerMarkAsRead(s)
    PROVE  NInv'
<1> USE DEF AnswerMarkAsRead, server, page, history
<1>0. Typed /\ Known /\ Ticked /\ Told
  BY DEF NInv
<1>c. Calm /\ fetch'["list"].stage # "served"
  BY <1>0, DroppingCalms DEF Keys
<1>a. /\ calls[s] \in CallType /\ calls' \in Calls /\ Idle.note \notin Note /\ Idle.op = "none"
      /\ \A t \in Slot : calls'[t] \in {calls[t], Idle}
  BY <1>0, Forgotten DEF Typed, Calls
<1>n. PICK n \in Note : n = calls[s].note
  BY <1>0 DEF Ticked
<1>b. /\ row[n] \notin {"none", "unread"}
      /\ list' \in [Note -> Entry]
      /\ \A m \in Note : list'[m] = << >> <=> list[m] = << >>
      /\ \A m \in Note : list[m] = <<"read">> => list'[m] = <<"read">>
      /\ list[n] # << >> => list'[n] = <<"read">>
  <2>1. row[n] \notin {"none", "unread"}
    BY <1>0, <1>n DEF Known, Ticked
  <2>2. list' = [list EXCEPT ![n] = AllRead(list[n])] /\ list \in [Note -> Entry]
    BY <1>0, <1>n DEF Typed
  <2>3. /\ AllRead(list[n]) \in Entry
        /\ AllRead(list[n]) = IF list[n] = << >> THEN << >> ELSE <<"read">>
    BY <2>2, Marked
  <2> QED BY <2>1, <2>2, <2>3, EntryFacts
<1>d. ticked' = ticked \union ({n} \cap Listed) /\ count' \in Nat
  BY <1>0, <1>n DEF CountDown, Typed
<1>1. Typed'
  BY <1>0, <1>a, <1>b, <1>c, <1>d DEF Typed, Calm, Listed
<1>2. Known'
  BY <1>0, <1>a, <1>b, <1>c, <1>d, Blank DEF Known, Calm
<1>3. Ticked'
  <2>2. \A m \in ticked' : m \in Note /\ row[m] \in {"read", "dismissed"}
    BY <1>0, <1>b, <1>d DEF Ticked, Typed, Listed
  <2>3. ASSUME NEW m \in ticked', row[m] = "read"
        PROVE  list'[m] = <<"read">>
    BY <1>0, <1>b, <1>d, <2>2, <2>3, EntryFacts DEF Ticked, Listed
  <2>4. \A t \in Slot : /\ calls'[t].op = "markAsRead" => calls'[t] = calls[t]
                        /\ calls'[t].op = "dismiss" => calls'[t] = calls[t]
    BY <1>a
  <2>5. UNCHANGED row
    OBVIOUS
  <2> QED BY <1>0, <1>c, <2>2, <2>3, <2>4, <2>5 DEF Ticked
<1>4. Told'
  BY <1>0, <1>b, <1>c, <1>d, EntryFacts DEF Told, Kept, Typed
<1> QED BY <1>1, <1>2, <1>3, <1>4 DEF NInv

LEMMA AnswerDismissStep ==
    ASSUME NInv, NEW s \in Slot, AnswerDismiss(s)
    PROVE  NInv'
<1> USE DEF AnswerDismiss, server, page, history
<1>0. Typed /\ Known /\ Ticked /\ Told
  BY DEF NInv
<1>c. Calm /\ fetch'["list"].stage # "served"
  <2>1. Dropping(Keys) \/ Dropping({"list"})
    OBVIOUS
  <2> QED BY <1>0, <2>1, DroppingCalms DEF Keys
<1>a. /\ calls[s] \in CallType /\ calls' \in Calls /\ Idle.note \notin Note /\ Idle.op = "none"
      /\ \A t \in Slot : calls'[t] \in {calls[t], Idle}
  BY <1>0, Forgotten DEF Typed, Calls
<1>n. PICK n \in Note : n = calls[s].note
  BY <1>0 DEF Ticked
<1>b. /\ list' \in [Note -> Entry] /\ list'[n] = << >>
      /\ \A m \in Note : m # n => list'[m] = list[m]
  BY <1>0, <1>n, EntryFacts DEF Typed, Entry
<1>d. ticked' = ticked \ {n} /\ told' = told \ {n} /\ count' \in Nat
  BY <1>0, <1>n DEF CountDown, Typed
<1>1. Typed'
  BY <1>0, <1>a, <1>b, <1>c, <1>d DEF Typed, Calm, Listed
<1>2. Known'
  BY <1>0, <1>a, <1>b, <1>c, <1>d, Blank DEF Known, Calm
<1>3. Ticked'
  BY <1>0, <1>a, <1>b, <1>c, <1>d, EntryFacts DEF Ticked, Listed
<1>4. Told'
  BY <1>0, <1>b, <1>c, <1>d, EntryFacts DEF Told, Kept, Typed
<1> QED BY <1>1, <1>2, <1>3, <1>4 DEF NInv

LEMMA AnswerMarkAllAsReadStep ==
    ASSUME NInv, NEW s \in Slot, AnswerMarkAllAsRead(s)
    PROVE  NInv'
<1> USE DEF AnswerMarkAllAsRead, server, page, history
<1>0. Typed /\ Known /\ Ticked /\ Told
  BY DEF NInv
<1>c. Calm /\ fetch'["list"].stage # "served"
  BY <1>0, DroppingCalms DEF Keys
<1>a. /\ calls[s] \in CallType /\ calls' \in Calls /\ Idle.note \notin Note /\ Idle.op = "none"
      /\ \A t \in Slot : calls'[t] \in {calls[t], Idle}
  BY <1>0, Forgotten DEF Typed, Calls
<1>b. /\ list' \in [Note -> Entry]
      /\ \A m \in Note : list'[m] = IF list[m] = << >> THEN << >> ELSE <<"read">>
  <2>1. list' = [m \in Note |-> AllRead(list[m])] /\ list \in [Note -> Entry]
    BY <1>0 DEF Typed
  <2> QED BY <2>1, Marked
<1>d. ticked' = ticked \union {n \in Listed : row[n] = "read"} /\ count' \in Nat
  OBVIOUS
<1>1. Typed'
  BY <1>0, <1>a, <1>b, <1>c, <1>d DEF Typed, Calm, Listed
<1>2. Known'
  BY <1>0, <1>a, <1>b, <1>c, <1>d, Blank DEF Known, Calm
<1>3. Ticked'
  <2>2. \A m \in ticked' : m \in Note /\ row[m] \in {"read", "dismissed"}
    BY <1>0, <1>d DEF Ticked, Typed, Listed
  <2>3. ASSUME NEW m \in ticked', row[m] = "read"
        PROVE  list'[m] = <<"read">>
    BY <1>0, <1>b, <1>d, <2>2, <2>3, EntryFacts DEF Ticked, Listed
  <2>4. \A t \in Slot : /\ calls'[t].op = "markAsRead" => calls'[t] = calls[t]
                        /\ calls'[t].op = "dismiss" => calls'[t] = calls[t]
    BY <1>a
  <2>5. UNCHANGED row
    OBVIOUS
  <2> QED BY <1>0, <1>c, <2>2, <2>3, <2>4, <2>5 DEF Ticked
<1>4. Told'
  BY <1>0, <1>b, <1>c, <1>d, EntryFacts DEF Told, Kept, Typed
<1> QED BY <1>1, <1>2, <1>3, <1>4 DEF NInv

LEMMA AnswerClearAllStep ==
    ASSUME NInv, NEW s \in Slot, AnswerClearAll(s)
    PROVE  NInv'
<1> USE DEF AnswerClearAll, server, page, history
<1>0. Typed /\ Known /\ Ticked /\ Told
  BY DEF NInv
<1>c. Calm /\ fetch'["list"].stage # "served"
  BY <1>0, DroppingCalms DEF Keys
<1>a. /\ calls[s] \in CallType /\ calls' \in Calls /\ Idle.note \notin Note /\ Idle.op = "none"
      /\ \A t \in Slot : calls'[t] \in {calls[t], Idle}
  BY <1>0, Forgotten DEF Typed, Calls
<1>b. /\ list' \in [Note -> Entry] /\ \A m \in Note : list'[m] = << >>
  BY Blank
<1>d. ticked' = {} /\ told' = {} /\ count' \in Nat
  OBVIOUS
<1>1. Typed'
  BY <1>0, <1>a, <1>b, <1>c, <1>d DEF Typed, Calm, Listed
<1>2. Known'
  BY <1>0, <1>a, <1>b, <1>c, <1>d, Blank DEF Known, Calm
<1>3. Ticked'
  BY <1>0, <1>a, <1>b, <1>c, <1>d, EntryFacts DEF Ticked, Listed
<1>4. Told'
  BY <1>0, <1>b, <1>c, <1>d, EntryFacts DEF Told, Kept, Typed
<1> QED BY <1>1, <1>2, <1>3, <1>4 DEF NInv

LEMMA FailCallStep ==
    ASSUME NInv, NEW s \in Slot, FailCall(s)
    PROVE  NInv'
<1> USE DEF FailCall, server, page, history
<1>0. Typed /\ Known /\ Ticked /\ Told
  BY DEF NInv
<1>c. Calm
  BY <1>0, Still
<1>a. /\ calls[s] \in CallType /\ calls' \in Calls /\ Idle.note \notin Note /\ Idle.op = "none"
      /\ \A t \in Slot : calls'[t] \in {calls[t], Idle}
  BY <1>0, Forgotten DEF Typed, Calls
<1>1. Typed'
  BY <1>0, <1>a DEF Typed
<1>2. Known'
  <2>1. \A n \in Note, t \in Slot : calls[t].note # n => calls'[t].note # n
    BY <1>a
  <2>2. UNCHANGED <<row, list, fetch, due, loop, told, line>>
    BY <1>0
  <2> QED BY <1>0, <2>1, <2>2 DEF Known
<1>3. Ticked'
  BY <1>0, <1>a DEF Ticked
<1>4. Told'
  BY <1>0, <1>c DEF Typed, Told, Calm, Kept
<1> QED BY <1>1, <1>2, <1>3, <1>4 DEF NInv

-----------------------------------------------------------------------------
\* Every step keeps the invariant.
LEMMA Inductive == NInv /\ [Next]_vars => NInv'
<1> SUFFICES ASSUME NInv, [Next]_vars PROVE NInv'
  OBVIOUS
<1>1. CASE Service
  BY <1>1, CreateStep, BroadcastStep, ComeBackStep, SubscribeStep, RestartStep,
     ServeFetchStep, ServeCallStep, Zenon DEF Service
<1>2. CASE Page
  <2>1. CASE Focus \/ OpenStream \/ Break \/ Receive
    BY <2>1, FocusStep, OpenStreamStep, BreakStep, ReceiveStep, Zenon
  <2>2. CASE \E k \in Keys : AnswerFetch(k) \/ FailFetch(k)
    BY <2>2, AnswerFetchStep, FailFetchStep, Zenon
  <2>3. CASE \E s \in Slot : Answer(s)
    BY <2>3, AnswerMarkAsReadStep, AnswerDismissStep, AnswerMarkAllAsReadStep,
       AnswerClearAllStep, FailCallStep, Zenon DEF Answer
  <2>4. CASE \E s \in Slot, op \in OpsOf, n \in Note \union {Nothing} : Click(s, op, n)
    BY <2>4, ClickStep, Zenon
  <2> QED BY <1>2, <2>1, <2>2, <2>3, <2>4, Zenon DEF Page
<1>3. CASE UNCHANGED vars
  BY <1>3 DEF vars, server, page, history, NInv, Typed, Known, Ticked, Told, Kept
<1> QED BY <1>1, <1>2, <1>3, Zenon DEF Next

\* The invariant holds in every reachable state.
THEOREM Always == Spec => []NInv
<1> QED BY Base, Inductive, PTL DEF Spec

\* The tables, the page and what is under way keep their types; an id is in the
\* list at most once and the count on the bell never falls below zero.
THEOREM TypeCorrect == Spec => []TypeOK
<1>1. NInv => TypeOK
  <2> SUFFICES ASSUME NInv PROVE TypeOK
    OBVIOUS
  <2>1. [Note -> Entry] \subseteq Entries
    BY EntryFacts DEF Entries
  <2>2. Typed
    BY DEF NInv
  <2>3. list \in Entries
    BY <2>1, <2>2 DEF Typed
  <2>4. fetch \in [Keys -> Fetch]
    <3>1. Answers \subseteq Fetch
      BY <2>1 DEF Answers, Fetch
    <3> QED BY <2>2, <3>1 DEF Typed
  <2> QED BY <2>2, <2>3, <2>4 DEF Typed, TypeOK, Calls
<1> QED BY Always, <1>1, PTL

\* useNotifications drops an event whose id it has (use-api-data.ts:389-393) and
\* a read of the list replaces it as a whole: no id is in the list twice.
THEOREM ListedOnce == Spec => []NoTwice
<1>1. NInv => NoTwice
  BY EntryFacts DEF NInv, Typed, NoTwice
<1> QED BY Always, <1>1, PTL

\* What the stream told the page is in its list, or still on the line, until the
\* user dismisses it, whatever reads of the list were under way.
THEOREM ToldIsListed == Spec => []ToldStaysListed
<1>1. NInv => ToldStaysListed
  <2> SUFFICES ASSUME NInv, stream = "open", NEW n \in told \cap Kept
               PROVE  n \in Listed \/ \E i \in DOMAIN line : line[i] = n
    BY DEF ToldStaysListed
  <2>1. n \in Note /\ (list[n] # << >> \/ Has(line, n))
    BY DEF NInv, Typed, Told
  <2> QED BY <2>1 DEF Has, Listed
<1> QED BY Always, <1>1, PTL

\* An entry whose tick was answered stays read, whatever reads of the list were
\* under way, until the user dismisses it.
THEOREM TickedIsRead == Spec => []TickedStaysRead
<1>1. NInv => TickedStaysRead
  <2> SUFFICES ASSUME NInv, NEW n \in ticked, row[n] = "read"
               PROVE  ~ShownUnread(n)
    BY DEF TickedStaysRead
  <2>1. n \in Note /\ list[n] = <<"read">> /\ list[n] \in Entry
    BY DEF NInv, Typed, Ticked
  <2> QED BY <2>1, Flags, EntryFacts DEF ShownUnread
<1> QED BY Always, <1>1, PTL
=============================================================================

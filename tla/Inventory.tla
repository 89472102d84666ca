------------------------------ MODULE Inventory ------------------------------
(***************************************************************************)
(* The stock of inventory-service (inventory-service/inventory/views.py,   *)
(* StockViewSet and GoodsReceiptNoteViewSet).                              *)
(*                                                                         *)
(* A call is one HTTP request inside one worker.  The keyed single-row     *)
(* operations run in two steps, because _stock_action looks the            *)
(* idempotency key up before it opens its transaction: Begin is the lookup,*)
(* Apply the transaction.  Every other operation locks the rows it touches *)
(* before it reads them and is one step.  What transaction.on_commit runs  *)
(* afterwards is a set of announcements the call still owes ("todo"),      *)
(* published one at a time; the worker may be killed in between.           *)
(*                                                                         *)
(* The StockMovement table is kept as the two aggregates the code and the  *)
(* properties read: how many rows carry a (type, idempotency key) pair, and*)
(* the sum of the recorded quantities of each type at each location,       *)
(* counted off or on as the row's type says.  A transfer is one row, off at*)
(* its from_warehouse and on at its to_warehouse; a stocktake records how  *)
(* far off the level was, not in which direction (that is only written out *)
(* in the row's notes), so its rows add up absolute differences.           *)
(***************************************************************************)
EXTENDS Integers, FiniteSets, FiniteSetsExt

CONSTANTS
    Product,      \* product ids
    Warehouse,    \* warehouses
    Key,          \* idempotency keys the clients send
    NoKey,        \* the empty key: no deduplication
    Call,         \* requests that can be in flight at once
    MaxQty,       \* BOUND: largest quantity one request carries
    MaxCalls,     \* BOUND: requests served in one behaviour
    LowStock,     \* LOW_STOCK_THRESHOLD
    SeedRows,     \* stock rows present at the start
    Seed,         \* and the units on hand in them
    Crashes       \* whether a worker may be killed

Loc     == Product \X Warehouse
Qty     == 1 .. MaxQty
ItemKey == Key \X Product            \* deduct_batch's f"{key}-{pid}"
SingleOp == {"reserve", "release", "return", "deduct"}
MovementType == SingleOp \cup {"receipt", "transfer", "adjustment"}

ASSUME InventoryAssumption ==
    /\ NoKey \notin Key
    /\ Key \cap ItemKey = {}
    /\ IsFiniteSet(Call)
    /\ MaxQty \in Nat /\ MaxCalls \in Nat /\ LowStock \in Nat
    /\ SeedRows \subseteq Loc
    /\ Seed \in [Loc -> Nat]
    /\ \A l \in Loc \ SeedRows : Seed[l] = 0
    /\ Crashes \in BOOLEAN

VARIABLES
    rows,       \* the Stock rows that exist
    quantity,   \* Stock.quantity
    reserved,   \* Stock.reserved
    uses,       \* number of StockMovement rows per type and idempotency key
    ledger,     \* sum of the StockMovement rows per type and location
    call,       \* the requests in flight
    announced,  \* sum of the "change"/"quantity" fields published per event
    lowSince,   \* history: locations an operation lowered to the threshold,
                \* not alerted on and not refilled since
    lost,       \* history: locations whose announcement died with a worker
    started     \* BOUND: requests started

stockVars == <<rows, quantity, reserved, uses, ledger>>
busVars   == <<announced, lowSince, lost>>
vars      == <<stockVars, call, busVars, started>>

AnyKey  == Key \cup ItemKey
Request == [op: SingleOp, loc: Loc, qty: Qty, key: Key \cup {NoKey}]
NoRequest == [op |-> "none"]
Reply   == {"none", "ok", "conflict", "error", "dropped"}
Event   == {"stock.changed", "goods_received"}

\* What a committed call still has to publish: a change of the level, a
\* deduction (a change, then a low-stock check on a fresh read), or a
\* low-stock check of a level that was read earlier.
Announcement == [event: Event \cup {"deducted", "low"}, loc: Loc, n: Int]

CallState == [pc: {"idle", "checked", "publishing", "done"},
              req: Request \cup {NoRequest}, reply: Reply,
              todo: SUBSET Announcement]

Idle == [pc |-> "idle", req |-> NoRequest, reply |-> "none", todo |-> {}]

-----------------------------------------------------------------------------
(* Helpers. *)

Available(l) == quantity[l] - reserved[l]

Lesser(a, b) == IF a < b THEN a ELSE b

\* The idempotency lookup of _stock_action: a movement of this type and key.
\* (Mutant: the lookup forgets the type.)
KeyUsedByAnyType(op, k) == k # NoKey /\ \E t \in SingleOp : uses[t][k] > 0
KeyUsed(op, k) == k # NoKey /\ uses[op][k] > 0

\* The idempotency lookup of deduct_batch: a deduction of one of its products
\* under the key derived for it.  (Mutant: the underived key is looked up.)
BatchKeyUnderived(k, items) == k # NoKey /\ uses["deduct"][k] > 0
BatchSeen(k, items) == k # NoKey /\ \E p \in items : uses["deduct"][<<k, p>>] > 0

\* check_and_update of reserve, release, return_to_stock and deduct: what the
\* locked row must satisfy, and what is then added to its two columns.
\* (Mutant: a reservation is tested against the units on hand.)
EnoughOnHand(op, l, q) ==
    CASE op \in {"reserve", "deduct"} -> quantity[l] >= q
      [] op = "release"               -> reserved[l] >= q
      [] op = "return"                -> TRUE
Enough(op, l, q) ==
    CASE op \in {"reserve", "deduct"} -> Available(l) >= q
      [] op = "release"               -> reserved[l] >= q
      [] op = "return"                -> TRUE

QuantityChange(op, q) ==
    CASE op = "return" -> q
      [] op = "deduct" -> -q
      [] op \in {"reserve", "release"} -> 0

\* (Mutant: a single deduction does not cap what it takes off "reserved".)
ReservedChangeUncapped(op, l, q) ==
    CASE op = "reserve" -> q
      [] op \in {"release", "deduct"} -> -q
      [] op = "return"  -> 0
ReservedChange(op, l, q) ==
    CASE op = "reserve" -> q
      [] op = "release" -> -q
      [] op = "deduct"  -> -Lesser(reserved[l], q)
      [] op = "return"  -> 0

\* post_action: what the operation publishes after its transaction.
\* (Mutants: deductions skip the low-stock check; returns are not published.)
OwesNoCheck(op, l, q) ==
    CASE op = "return" -> {[event |-> "stock.changed", loc |-> l, n |-> q]}
      [] op = "deduct" -> {[event |-> "stock.changed", loc |-> l, n |-> -q]}
      [] op \in {"reserve", "release"} -> {}
OwesNoReturn(op, l, q) ==
    IF op = "deduct" THEN {[event |-> "deducted", loc |-> l, n |-> -q]} ELSE {}
Owes(op, l, q) ==
    CASE op = "return" -> {[event |-> "stock.changed", loc |-> l, n |-> q]}
      [] op = "deduct" -> {[event |-> "deducted", loc |-> l, n |-> -q]}
      [] op \in {"reserve", "release"} -> {}

\* The call once its transaction committed with this reply and these
\* announcements to publish.  (Mutant: the transaction is run again as long as
\* there is something to publish.)
CommittedAgain(req, reply, todo) ==
    [pc |-> IF todo = {} THEN "done" ELSE "checked",
     req |-> req, reply |-> reply, todo |-> todo]
Committed(req, reply, todo) ==
    [pc |-> IF todo = {} THEN "done" ELSE "publishing",
     req |-> req, reply |-> reply, todo |-> todo]

\* What a stocktake of n units records: how far the level was off, abs(delta).
\* (Mutant: the difference with its sign, which a row that was counted upwards
\* cancels.)
DifferenceSigned(l, n) == n - quantity[l]
Difference(l, n) == IF n < quantity[l] THEN quantity[l] - n ELSE n - quantity[l]

\* check_low_stock: an alert goes out at or below the threshold.  (Mutant:
\* below it only.)
IsLowStrictly(n) == n < LowStock
IsLow(n) == n <= LowStock

\* The history of low levels after the locations L went to new levels.
LowAfter(new) ==
    {l \in Loc : \/ new[l] < quantity[l] /\ new[l] <= LowStock
                 \/ l \in lowSince /\ new[l] <= LowStock}

-----------------------------------------------------------------------------
(* The keyed single-row operations: _stock_action. *)

\* A request arrives; its key is looked up outside any transaction.
Begin(c, op, l, q, k) ==
    /\ call[c].pc = "idle"
    /\ started < MaxCalls
    /\ started' = started + 1
    /\ LET req == [op |-> op, loc |-> l, qty |-> q, key |-> k] IN
       call' = [call EXCEPT ![c] =
                  IF KeyUsed(op, k)
                  THEN Committed(req, "conflict", {})
                  ELSE [pc |-> "checked", req |-> req,
                        reply |-> "none", todo |-> {}]]
    /\ UNCHANGED <<stockVars, busVars>>

\* The transaction: lock the row, test it, update it, record the movement.
\* A missing row raises Stock.DoesNotExist, a failed test answers 400.
Apply(c) ==
    LET req == call[c].req
        l   == req.loc
        dq  == QuantityChange(req.op, req.qty)
    IN
    /\ call[c].pc = "checked"
    /\ IF l \in rows /\ Enough(req.op, l, req.qty)
       THEN /\ quantity' = [quantity EXCEPT ![l] = @ + dq]
            /\ reserved' = [reserved EXCEPT
                              ![l] = @ + ReservedChange(req.op, l, req.qty)]
            /\ uses' = IF req.key = NoKey THEN uses
                       ELSE [uses EXCEPT ![req.op][req.key] = @ + 1]
            /\ ledger' = [ledger EXCEPT ![req.op][l] = @ + dq]
            /\ call' = [call EXCEPT ![c] =
                          Committed(req, "ok", Owes(req.op, l, req.qty))]
            /\ lowSince' = LowAfter(quantity')
       ELSE /\ call' = [call EXCEPT ![c] = Committed(req, "error", {})]
            /\ UNCHANGED <<quantity, reserved, uses, ledger, lowSince>>
    /\ UNCHANGED <<rows, announced, lost, started>>

-----------------------------------------------------------------------------
(* The operations that are one transaction. *)

\* deduct_batch: every product of an order or none.  "wanted" maps product to
\* units, duplicate lines already added up; the key is looked up under the
\* row locks.
DeductBatch(c, w, wanted, k, fromReserved) ==
    LET items == DOMAIN wanted
        duplicate == BatchSeen(k, items)
        enough == \A p \in items :
                    LET l == <<p, w>> IN
                    /\ l \in rows
                    /\ IF fromReserved
                       THEN reserved[l] >= wanted[p] /\ quantity[l] >= wanted[p]
                       ELSE Available(l) >= wanted[p]
        taken == [l \in Loc |->
                    IF l[2] = w /\ l[1] \in items THEN wanted[l[1]] ELSE 0]
    IN
    /\ call[c].pc = "idle"
    /\ started < MaxCalls
    /\ started' = started + 1
    /\ IF ~duplicate /\ enough
       THEN /\ quantity' = [l \in Loc |-> quantity[l] - taken[l]]
            /\ reserved' = [l \in Loc |->
                 reserved[l] - (IF fromReserved THEN taken[l] ELSE 0)]
            /\ uses' = [uses EXCEPT !["deduct"] =
                 [x \in AnyKey |->
                    IF k # NoKey /\ \E p \in items : x = <<k, p>>
                    THEN @[x] + 1 ELSE @[x]]]
            /\ ledger' = [ledger EXCEPT !["deduct"] =
                 [l \in Loc |-> @[l] - taken[l]]]
            /\ call' = [call EXCEPT ![c] = Committed(NoRequest, "ok",
                 {[event |-> "deducted", loc |-> <<p, w>>, n |-> -wanted[p]] :
                    p \in items})]
            /\ lowSince' = LowAfter(quantity')
       ELSE /\ call' = [call EXCEPT ![c] = Committed(NoRequest,
                          IF duplicate THEN "conflict" ELSE "error", {})]
            /\ UNCHANGED <<quantity, reserved, uses, ledger, lowSince>>
    /\ UNCHANGED <<rows, announced, lost>>

\* transfer: the destination row is created even when the source turns out to
\* be short, because the error answer leaves the transaction normally.  The
\* low-stock check of the source runs inside the transaction.
Transfer(c, p, from, to, q) ==
    LET s == <<p, from>>
        d == <<p, to>>
        moved == [l \in Loc |-> IF l = s THEN -q ELSE IF l = d THEN q ELSE 0]
    IN
    /\ call[c].pc = "idle"
    /\ started < MaxCalls
    /\ started' = started + 1
    /\ from # to
    /\ rows' = IF s \in rows THEN rows \cup {d} ELSE rows
    /\ IF s \in rows /\ Available(s) >= q
       THEN /\ quantity' = [l \in Loc |-> quantity[l] + moved[l]]
            /\ ledger' = [ledger EXCEPT !["transfer"] =
                            [l \in Loc |-> @[l] + moved[l]]]
            /\ lowSince' = LowAfter(quantity') \ {s}
            /\ call' = [call EXCEPT ![c] = Committed(NoRequest, "ok", {})]
       ELSE /\ call' = [call EXCEPT ![c] = Committed(NoRequest, "error", {})]
            /\ UNCHANGED <<quantity, ledger, lowSince>>
    /\ UNCHANGED <<reserved, uses, announced, lost>>

\* adjust: a stocktake sets the level to n whatever is reserved.  The low-stock
\* check after commit uses the level this transaction read.
Adjust(c, l, n) ==
    /\ call[c].pc = "idle"
    /\ started < MaxCalls
    /\ started' = started + 1
    /\ l \in rows
    /\ quantity' = [quantity EXCEPT ![l] = n]
    /\ ledger' = [ledger EXCEPT !["adjustment"][l] = @ + Difference(l, n)]
    /\ call' = [call EXCEPT ![c] = Committed(NoRequest, "ok",
                  {[event |-> "low", loc |-> l, n |-> n]})]
    /\ lowSince' = LowAfter(quantity')
    /\ UNCHANGED <<rows, reserved, uses, announced, lost>>

\* perform_create of a goods receipt note: "items" maps product to units.
\* Every item is announced twice, as a change of the level and as goods
\* received.
Receive(c, w, items) ==
    LET came == [l \in Loc |-> IF l[2] = w /\ l[1] \in DOMAIN items
                               THEN items[l[1]] ELSE 0]
    IN
    /\ call[c].pc = "idle"
    /\ started < MaxCalls
    /\ started' = started + 1
    /\ rows' = rows \cup ((DOMAIN items) \X {w})
    /\ quantity' = [l \in Loc |-> quantity[l] + came[l]]
    /\ ledger' = [ledger EXCEPT !["receipt"] = [l \in Loc |-> @[l] + came[l]]]
    /\ call' = [call EXCEPT ![c] = Committed(NoRequest, "ok",
                  {[event |-> e, loc |-> <<p, w>>, n |-> items[p]] :
                     e \in Event, p \in DOMAIN items})]
    /\ lowSince' = LowAfter(quantity')
    /\ UNCHANGED <<reserved, uses, announced, lost>>

-----------------------------------------------------------------------------
(* After the commit. *)

\* The event a level change goes out as.
Topic(a) == IF a.event = "deducted" THEN "stock.changed" ELSE a.event

\* transaction.on_commit: publish one announcement.  _publish_deducted reads
\* the level again and checks it for low stock; an alert goes out only at or
\* below the threshold.
Announce(c) ==
    \E a \in call[c].todo :
        LET next == IF a.event = "deducted"
                    THEN {[event |-> "low", loc |-> a.loc,
                           n |-> quantity[a.loc]]}
                    ELSE {}
            left == (call[c].todo \ {a}) \cup next
        IN
        /\ call[c].pc = "publishing"
        /\ call' = [call EXCEPT ![c] = Committed(@.req, @.reply, left)]
        /\ announced' = IF a.event = "low" THEN announced
                        ELSE [announced EXCEPT ![Topic(a)][a.loc] = @ + a.n]
        /\ lowSince' = IF a.event = "low" /\ IsLow(a.n)
                       THEN lowSince \ {a.loc} ELSE lowSince
        /\ UNCHANGED <<stockVars, lost, started>>

\* The client has its answer; the worker is free again.
Collect(c) ==
    /\ call[c].pc = "done"
    /\ call' = [call EXCEPT ![c] = Idle]
    /\ UNCHANGED <<stockVars, busVars, started>>

\* The worker is killed: an open transaction is rolled back, announcements of
\* a committed one are gone, and the client sees the connection drop.
Crash(c) ==
    /\ Crashes
    /\ call[c].pc \in {"checked", "publishing"}
    /\ lost' = lost \cup {a.loc : a \in call[c].todo}
    /\ call' = [call EXCEPT ![c] = Committed(@.req, "dropped", {})]
    /\ UNCHANGED <<stockVars, announced, lowSince, started>>

-----------------------------------------------------------------------------

Init ==
    /\ rows = SeedRows
    /\ quantity = Seed
    /\ reserved = [l \in Loc |-> 0]
    /\ uses = [t \in MovementType |-> [k \in AnyKey |-> 0]]
    /\ ledger = [t \in MovementType |-> [l \in Loc |-> 0]]
    /\ call = [c \in Call |-> Idle]
    /\ announced = [e \in Event |-> [l \in Loc |-> 0]]
    /\ lowSince = {}
    /\ lost = {}
    /\ started = 0

\* The item lists of a batch (at least one unit each) and of a receipt (a line
\* may say 0).
Batches    == UNION {[P -> Qty] : P \in (SUBSET Product) \ {{}}}
Deliveries == UNION {[P -> 0 .. MaxQty] : P \in (SUBSET Product) \ {{}}}

Next == \E c \in Call :
    \/ \E op \in SingleOp, l \in Loc, q \in Qty, k \in Key \cup {NoKey} :
          Begin(c, op, l, q, k)
    \/ Apply(c)
    \/ \E w \in Warehouse, wanted \in Batches, k \in Key \cup {NoKey},
          b \in BOOLEAN : DeductBatch(c, w, wanted, k, b)
    \/ \E p \in Product, from, to \in Warehouse, q \in Qty :
          Transfer(c, p, from, to, q)
    \/ \E l \in Loc, n \in 0 .. MaxQty : Adjust(c, l, n)
    \/ \E w \in Warehouse, items \in Deliveries : Receive(c, w, items)
    \/ Announce(c)
    \/ Collect(c)
    \/ Crash(c)

Spec == Init /\ [][Next]_vars

\* gunicorn runs a worker's request to its end unless the worker is killed.
Fairness == \A c \in Call : WF_vars(Apply(c)) /\ WF_vars(Announce(c))
FairSpec == Spec /\ Fairness

-----------------------------------------------------------------------------
(* Properties. *)

TypeOK ==
    /\ rows \subseteq Loc
    /\ quantity \in [Loc -> Int]
    /\ reserved \in [Loc -> Int]
    /\ uses \in [MovementType -> [AnyKey -> Nat]]
    /\ ledger \in [MovementType -> [Loc -> Int]]
    /\ call \in [Call -> CallState]
    /\ \A c \in Call : call[c].pc = "checked" => call[c].req \in Request
    /\ announced \in [Event -> [Loc -> Int]]
    /\ lowSince \subseteq Loc
    /\ lost \subseteq Loc
    /\ started \in Nat

\* Neither column of a stock row goes below zero, although nothing in the
\* schema forbids it: every subtraction relies on a test made under the same
\* row lock.
NoNegativeStock == \A l \in Loc : quantity[l] >= 0 /\ reserved[l] >= 0

\* Only a stocktake (adjust) can leave more units reserved than are on hand;
\* no interleaving of reservations, batches, transfers and returns can.
Covered(l) == reserved[l] <= quantity[l]
OnlyAdjustUncovers ==
    [][(\E c \in Call, l \in Loc, n \in 0 .. MaxQty : Adjust(c, l, n))
       \/ \A l \in Loc : Covered(l) => Covered(l)']_vars

\* A deduct_batch key takes stock off at most once per product, however many
\* retries of the batch run at the same time.
BatchDeductedOnce == \A x \in ItemKey : uses["deduct"][x] <= 1

\* The movement history explains every unit on hand, up to what stocktakes
\* recorded: a level is off from what the other movements add up to by no more
\* than the corrections booked at the location, and not at all where nothing
\* was ever counted.  (That exactness is not possible behind a stocktake:
\* adjust stores abs(delta), views.py:417.)
Traced(l) == Seed[l]
    + ledger["reserve"][l] + ledger["release"][l] + ledger["return"][l]
    + ledger["deduct"][l] + ledger["receipt"][l] + ledger["transfer"][l]
LedgerBalances ==
    \A l \in Loc : /\ quantity[l] <= Traced(l) + ledger["adjustment"][l]
                   /\ quantity[l] >= Traced(l) - ledger["adjustment"][l]

\* An answer of success, 200 or 409, is never given for a keyed operation that
\* left no movement: the saga treats both as "it happened".
AckMeansRecorded ==
    \A c \in Call :
        LET r == call[c].req IN
        /\ call[c].reply \in {"ok", "conflict"}
        /\ r # NoRequest
        /\ r.key # NoKey
        => uses[r.op][r.key] >= 1

\* A drop to the low-stock threshold is always followed by an alert: while
\* none went out, some call still owes a check that will find the level low,
\* or the worker that owed it was killed.
LowStockOwed(l) ==
    \E c \in Call : \E a \in call[c].todo :
        /\ a.loc = l
        /\ \/ a.event = "deducted"
           \/ a.event = "low" /\ a.n <= LowStock
NoSilentLow == \A l \in lowSince : l \in lost \/ LowStockOwed(l)

\* Published level changes add up to the deliveries, deductions and returns
\* of the ledger, minus what calls in flight still owe, for every location no
\* killed worker owed anything to.
OwedBy(c, l) ==
    MapThenSumSet(LAMBDA a : a.n,
                  {a \in call[c].todo :
                     a.loc = l /\ a.event \in {"stock.changed", "deducted"}})
Owed(l) == MapThenSumSet(LAMBDA c : OwedBy(c, l), Call)
ChangesAnnounced ==
    \A l \in Loc \ lost :
        announced["stock.changed"][l] + Owed(l)
            = ledger["receipt"][l] + ledger["deduct"][l] + ledger["return"][l]

\* Without crashes every drop to the threshold is eventually alerted on or
\* refilled.
LowEventuallyAlerted ==
    \A l \in Loc : (l \in lowSince) ~> (l \notin lowSince \/ l \in lost)

\* order-service/CONTEXT.md:113, "idempotency keys prevent double-release": a
\* release key takes effect at most once.  The code violates it as soon as two
\* calls with one key overlap (_stock_action looks the key up before it locks
\* the row, views.py:62-71), so no configuration checks it.
ReleasedOnce == \A k \in Key : uses["release"][k] <= 1

=============================================================================

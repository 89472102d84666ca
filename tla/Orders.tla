-------------------------------- MODULE Orders --------------------------------
(***************************************************************************)
(* The order saga of order-service (order-service/orders/views.py,         *)
(* order_service.py, inventory_client.py and the cancel_stuck_orders       *)
(* command), on top of the inventory of module Inventory.                  *)
(*                                                                         *)
(* A worker serves one request: it loads the order row into memory         *)
(* ("mine"), acts on that copy, and saves it back, while other workers do  *)
(* the same.  Each database transaction and each call to inventory-service *)
(* is a step of its own.  A call occupies a Call slot of Inventory; the    *)
(* client gives up after a timeout, and the abandoned call may still take  *)
(* effect later.                                                           *)
(*                                                                         *)
(* inventory-service refuses a reservation, a release or a deduction that  *)
(* names no user.  The client names the user of the request it is given;   *)
(* the Stripe webhook and the clean-up command give it none, and a guest's *)
(* request has none.                                                       *)
(*                                                                         *)
(* Left out: prices, addresses, notes and metrics; the events an order     *)
(* publishes (module EventBus); returns (ReturnRequest); the plain PATCH   *)
(* of an order by staff.                                                   *)
(***************************************************************************)
EXTENDS Integers, Sequences, FiniteSets, FiniteSetsExt

CONSTANTS
    \* parameters of Inventory
    Product, Warehouse, NoKey, Call, MaxQty, MaxCalls, LowStock, SeedRows,
    Seed, Crashes,
    Order,        \* orders that may be placed
    Worker,       \* processes serving requests
    Lines,        \* Lines[o]: the order's lines, a sequence of [item, qty]
    NoWarehouse,
    WarehouseOf,  \* WarehouseOf[o]: the warehouse the order is filled from
    Till,         \* the orders rung up at a till, the others are online
    Guest,        \* the orders placed without an account
    Card,         \* the orders whose buyer may pay at Stripe
    Coupon,       \* the orders that use the (one) promo code
    MaxUses,      \* PromoCode.max_uses
    NoProduct, NoCall,
    Mishap,       \* what the surroundings may do, see below
    MaxRequests   \* BOUND: requests to the order service

\* timeout:     a call to inventory is abandoned, or cannot be made
\* crash:       a worker dies in the middle of a request
\* refundFails: Stripe rejects a refund
\* redelivery:  Stripe delivers a webhook again
\* latePayment: a payment comes in for an order that is no longer unpaid
\* recall:      staff cancel an order that was already shipped
\* stuck:       cancel_stuck_orders runs
\* sameOrder:   two workers handle the same order at once
MishapKind == {"timeout", "crash", "refundFails", "redelivery", "latePayment",
               "recall", "stuck", "sameOrder"}

Status  == {"unpaid", "paid", "delivering", "delivered", "completed",
            "cancelled"}
Payment == {"unpaid", "paid", "refunded"}
Line    == [item: Product, qty: 1 .. MaxQty]

\* Idempotency keys: f"reserve-{order}-{product}" and so on.
StockKey == ({"reserve", "release", "compensate"} \X Order \X Product)
            \cup ({"deduct"} \X Order \X {NoProduct})

ASSUME OrdersAssumption ==
    /\ Lines \in [Order -> Seq(Line)]
    /\ \A o \in Order : Lines[o] # << >>
    /\ WarehouseOf \in [Order -> Warehouse \cup {NoWarehouse}]
    /\ NoWarehouse \notin Warehouse
    /\ NoProduct \notin Product /\ NoCall \notin Call
    /\ Till \subseteq Order /\ \A o \in Till : WarehouseOf[o] # NoWarehouse
    /\ Guest \subseteq Order \ Till
    /\ Card \subseteq Order /\ Coupon \subseteq Order
    /\ MaxUses \in Nat /\ MaxRequests \in Nat
    /\ Mishap \subseteq MishapKind

VARIABLES
    rows, quantity, reserved, uses, ledger, call, announced, lowSince, lost,
    started,    \* the state of Inventory
    row,        \* Order: status, payment_status, and whether there is a
                \* stripe_payment_intent_id
    recorded,   \* to_status of the order's last OrderStatusHistory row
    promoUses,  \* PromoCode.used_count
    session,    \* orders with a Stripe checkout session
    money,      \* what Stripe did with the customer's money
    notified,   \* orders whose completed checkout Stripe has delivered
    adrift,     \* how many deductions nobody waits for any more are still on
                \* their way to inventory-service, per order and kind
    worker,     \* the requests being served
    served      \* BOUND: requests served

Stock == INSTANCE Inventory WITH Key <- StockKey

stockVars == <<rows, quantity, reserved, uses, ledger, call, announced,
               lowSince, lost, started>>
\* The parameters given to Inventory are what it assumes of them.
ASSUME StockAssumption == Stock!InventoryAssumption

orderVars == <<row, recorded, promoUses>>
awayVars  == <<session, money, notified, adrift>>
vars      == <<stockVars, orderVars, awayVars, worker, served>>

Row == [status: Status \cup {"none"}, pay: Payment, intent: BOOLEAN]
NoRow == [status |-> "none", pay |-> "unpaid", intent |-> FALSE]

\* The steps a request goes through; the first group calls inventory-service
\* once per line (deduct: once).
Calling == {"reserve", "undo", "release", "deduct"}
Step == Calling \cup {"rest", "change", "markPaid", "refund", "unpay",
                      "cancelStuck", "revert", "record", "complete"}
Kind == {"none", "create", "till", "status", "webhook", "stuck"}

\* A batch deduction: of which order, and whether the units were reserved for
\* it (a shipment) or are sold directly (at a till).
Deduction == Order \X BOOLEAN

Request == [step: Step, kind: Kind, order: Order \cup {"none"},
            mine: Row, old: Status \cup {"none"}, target: Status,
            line: Nat, got: SUBSET Nat, ok: BOOLEAN, slot: Call \cup {NoCall}]

Resting == [step |-> "rest", kind |-> "none", order |-> "none", mine |-> NoRow,
            old |-> "none", target |-> "cancelled", line |-> 0, got |-> {},
            ok |-> TRUE, slot |-> NoCall]

-----------------------------------------------------------------------------
(* Helpers. *)

\* STATUS_TRANSITIONS and can_transition_to.
CanTransition(from, to) ==
    \/ from = "unpaid"     /\ to \in {"paid", "cancelled"}
    \/ from = "paid"       /\ to \in {"delivering", "cancelled"}
    \/ from = "delivering" /\ to \in {"delivered", "cancelled"}
    \/ from = "delivered"  /\ to \in {"completed", "cancelled"}

Stocked(o) == WarehouseOf[o] # NoWarehouse
LineNumbers(o) == 1 .. Len(Lines[o])
LocOf(o, i) == <<Lines[o][i].item, WarehouseOf[o]>>
Items(o) == {Lines[o][i].item : i \in LineNumbers(o)}

\* The units of one product over all the lines of an order.
Units(o, p) ==
    MapThenSumSet(LAMBDA i : Lines[o][i].qty,
                  {i \in LineNumbers(o) : Lines[o][i].item = p})

\* The idempotency key of the call a request makes for its current line.
KeyFor(r) ==
    LET p == Lines[r.order][r.line].item IN
    CASE r.step = "reserve" -> <<"reserve", r.order, p>>
      [] r.step = "undo"    -> <<"compensate", r.order, p>>
      [] r.step = "release" -> <<"release", r.order, p>>

\* Whether the calls of a request name a user: those of staff, of a cashier
\* and of a buyer with an account do.
Named(r) == \/ r.kind \in {"till", "status"}
            \/ r.kind = "create" /\ r.order \notin Guest

\* Stripe has the money; "kept" if it also refused to give it back.
Captured(o) == money[o] \in {"captured", "kept"}

\* Stripe has been paid and order-service does not know yet.
InFlight(o) == money[o] # "none" /\ o \notin notified

Busy(o) == \E w \in Worker : worker[w].order = o
Free(c) == call[c].pc = "idle" /\ \A w \in Worker : worker[w].slot # c

-----------------------------------------------------------------------------
(* How a request goes on.  Each operator maps the request to its next step. *)

At(r, step) == [r EXCEPT !.step = step, !.slot = NoCall]

\* update_order_status to "cancelled" of the order in memory.  (Mutants: the
\* status is misspelt; the failure is only recorded.)
GiveUpMisspelt(r) == [At(r, "change") EXCEPT !.target = "canceled"]
GiveUpRecorded(r) == At(r, "record")
GiveUp(r) == [At(r, "change") EXCEPT !.target = "cancelled"]

\* A loop over the lines in S; "after" when there are none left.
Over(r, step, S, after) ==
    IF S = {} THEN after
    ELSE [At(r, step) EXCEPT !.line = CHOOSE i \in S : \A j \in S : i <= j]

\* After the failed part of the saga was released: creation cancels the
\* order, the webhook refunds first.  (Mutants: the webhook does not refund;
\* nothing is released.)
AfterUndoUnrefunded(r) == GiveUp(r)
AfterUndo(r) == IF r.kind = "create" THEN GiveUp(r) ELSE At(r, "refund")
UndoingNothing(r) == AfterUndo(r)
Undoing(r) == Over(r, "undo", r.got, AfterUndo(r))

\* reserve_order_stock.  Calls that name no user are all refused, without
\* effect: nothing is reserved and there is nothing to release.
Reserving(r) ==
    IF Named(r) THEN Over(r, "reserve", LineNumbers(r.order), Resting)
    ELSE AfterUndo(r)

AfterRelease(r) == IF r.kind = "stuck" THEN At(r, "refund") ELSE At(r, "record")
\* release_order_stock: nothing to do without a warehouse, and nothing done
\* by calls that name no user; a refusal is not looked at.  (Mutant: the test
\* of the warehouse is left out.)
ReleasingUnstocked(r) ==
    Over(r, "release", IF Named(r) THEN LineNumbers(r.order) ELSE {},
         AfterRelease(r))
Releasing(r) ==
    Over(r, "release",
         IF Stocked(r.order) /\ Named(r) THEN LineNumbers(r.order) ELSE {},
         AfterRelease(r))

\* The lines a loop has still to visit.  (Mutant: it stays where it is.)
LinesFromHere(r) == {i \in LineNumbers(r.order) : i >= r.line}
LinesAfter(r)    == {i \in LineNumbers(r.order) : i > r.line}

\* What follows an answer of inventory-service, or its absence.
Answered(r, success) ==
    LET rest == LinesAfter(r)
        tried == [r EXCEPT !.ok = @ /\ success,
                           !.got = IF success THEN @ \cup {r.line} ELSE @]
    IN
    CASE r.step = "reserve" ->
           Over(tried, "reserve", rest,
                IF tried.ok THEN Resting ELSE Undoing(tried))
      [] r.step = "undo" -> Over(r, "undo", rest \cap r.got, AfterUndo(r))
      [] r.step = "release" -> Over(r, "release", rest, AfterRelease(r))
      [] r.step = "deduct" ->
           IF r.kind = "till"
           THEN IF success THEN At(r, "complete") ELSE GiveUp(r)
           ELSE IF success THEN At(r, "record") ELSE At(r, "revert")

\* _parse_response: an answer of 409 counts as success.  (Mutant: every
\* answer does.)
SuccessAlways(reply) == TRUE
Success(reply) == reply \in {"ok", "conflict"}

-----------------------------------------------------------------------------
(* A request arrives.  It loads the order; from here on it works on "mine".  *)

Accept(w, o) ==
    /\ worker[w].step = "rest"
    /\ served < MaxRequests
    /\ Busy(o) => "sameOrder" \in Mishap
    /\ served' = served + 1

Loaded(kind, o, step, target) ==
    [Resting EXCEPT !.step = step, !.kind = kind, !.order = o, !.mine = row[o],
                    !.old = row[o].status, !.target = target]

\* svc.create_order: the row, and the use of the promo code, are recorded in
\* one transaction; a new order has no history row yet.
Placed(w, o) ==
    /\ row[o] = NoRow
    /\ o \in Coupon => promoUses < MaxUses
    /\ promoUses' = IF o \in Coupon THEN promoUses + 1 ELSE promoUses
    /\ row' = [row EXCEPT ![o].status = "unpaid"]
    /\ UNCHANGED <<stockVars, recorded, awayVars>>

New(kind, o) ==
    [Resting EXCEPT !.kind = kind, !.order = o, !.old = "unpaid",
                    !.mine = [NoRow EXCEPT !.status = "unpaid"]]

\* check_availability of every line, one by one.
SeemsAvailable(o) ==
    \A i \in LineNumbers(o) :
        /\ LocOf(o, i) \in rows
        /\ Stock!Available(LocOf(o, i)) >= Lines[o][i].qty

\* create: an online order reserves its lines.
Create(w, o) ==
    /\ o \notin Till
    /\ Accept(w, o)
    /\ Stocked(o) => SeemsAvailable(o)
    /\ Placed(w, o)
    /\ worker' = [worker EXCEPT
                    ![w] = IF Stocked(o) THEN Reserving(New("create", o)) ELSE @]

\* pos: a sale at the till deducts at once.  Unlike create it goes ahead when
\* the availability check could not be made.
Ring(w, o) ==
    /\ o \in Till
    /\ Accept(w, o)
    /\ SeemsAvailable(o) \/ "timeout" \in Mishap
    /\ Placed(w, o)
    /\ worker' = [worker EXCEPT ![w] = At(New("till", o), "deduct")]

\* status and cancel: staff ask for a transition of the order they load.
AskStatus(w, o, target) ==
    /\ Accept(w, o)
    /\ row[o] # NoRow
    /\ target = "cancelled" /\ row[o].status \in {"delivering", "delivered"}
         => "recall" \in Mishap
    /\ InFlight(o) => "latePayment" \in Mishap
    /\ worker' = [worker EXCEPT ![w] = Loaded("status", o, "change", target)]
    /\ UNCHANGED <<stockVars, orderVars, awayVars>>

\* stripe_webhook with checkout.session.completed, delivered once or more.
Webhook(w, o) ==
    /\ worker[w].step = "rest"
    /\ Busy(o) => "sameOrder" \in Mishap
    /\ money[o] # "none"
    /\ o \in notified => "redelivery" \in Mishap /\ served < MaxRequests
    /\ served' = IF o \in notified THEN served + 1 ELSE served
    /\ notified' = notified \cup {o}
    /\ worker' = [worker EXCEPT ![w] =
                    IF row[o].pay = "paid" THEN @
                    ELSE Loaded("webhook", o, "markPaid", "paid")]
    /\ UNCHANGED <<stockVars, orderVars, session, money, adrift>>

\* cancel_stuck_orders picks an order that has been paid for long enough;
\* paid_at is set together with the payment intent.
PickStuck(w, o) ==
    /\ "stuck" \in Mishap
    /\ Accept(w, o)
    /\ row[o].status = "paid" /\ row[o].intent
    /\ worker' = [worker EXCEPT ![w] =
                    Releasing(Loaded("stuck", o, "refund", "cancelled"))]
    /\ UNCHANGED <<stockVars, orderVars, awayVars>>

-----------------------------------------------------------------------------
(* Payment at Stripe. *)

\* pay: a checkout session for an order whose payment_status is "unpaid".
Pay(o) ==
    /\ o \in Card
    /\ row[o] # NoRow /\ row[o].pay = "unpaid"
    /\ row[o].status # "unpaid" => "latePayment" \in Mishap
    /\ o \notin session
    /\ session' = session \cup {o}
    /\ UNCHANGED <<stockVars, orderVars, money, notified, adrift, worker, served>>

\* The customer pays in an open session.
CustomerPays(o) ==
    /\ o \in session /\ money[o] = "none"
    /\ row[o].status # "unpaid" => "latePayment" \in Mishap
    /\ Busy(o) => "sameOrder" \in Mishap
    /\ money' = [money EXCEPT ![o] = "captured"]
    /\ UNCHANGED <<stockVars, orderVars, session, notified, adrift, worker, served>>

-----------------------------------------------------------------------------
(* Transactions on the order row. *)

\* update_order_status: the test is made on the row in memory and the whole
\* row is saved.  A cancelled order gives its promo use back.
\* (Mutants: its history row is forgotten, the use is not given back.)
Permitted(r) == CanTransition(r.mine.status, r.target)

AfterChangeUnrecorded(r) ==
    CASE r.target = "cancelled" /\ r.kind = "status" -> Releasing(r)
      [] r.target = "delivering" /\ Stocked(r.order) -> At(r, "deduct")
      [] OTHER -> Resting
AfterChange(r) ==
    CASE r.target = "cancelled" /\ r.kind = "status" -> Releasing(r)
      [] r.target = "delivering" /\ Stocked(r.order) -> At(r, "deduct")
      [] OTHER -> At(r, "record")

GiveBackNothing(o) == promoUses
GiveBack(o) ==
    IF o \in Coupon /\ promoUses > 0 THEN promoUses - 1 ELSE promoUses

Change(w) ==
    LET r == worker[w]
        new == [r.mine EXCEPT !.status = r.target]
    IN
    /\ r.step = "change"
    /\ IF Permitted(r)
       THEN /\ row' = [row EXCEPT ![r.order] = new]
            /\ promoUses' = IF r.target = "cancelled" THEN GiveBack(r.order)
                            ELSE promoUses
            /\ worker' = [worker EXCEPT ![w] =
                 AfterChange([r EXCEPT !.mine = new, !.old = r.mine.status])]
       ELSE /\ worker' = [worker EXCEPT ![w] = Resting]
            /\ UNCHANGED <<row, promoUses>>
    /\ UNCHANGED <<stockVars, recorded, awayVars, served>>

\* The deduction failed: only the status is put back.
Revert(w) ==
    LET r == worker[w] IN
    /\ r.step = "revert"
    /\ row' = [row EXCEPT ![r.order].status = r.old]
    /\ worker' = [worker EXCEPT ![w] = Resting]
    /\ UNCHANGED <<stockVars, recorded, promoUses, awayVars, served>>

\* record_status_change, once the change has stuck.
Record(w) ==
    LET r == worker[w] IN
    /\ r.step = "record"
    /\ recorded' = [recorded EXCEPT ![r.order] = r.mine.status]
    /\ worker' = [worker EXCEPT ![w] = Resting]
    /\ UNCHANGED <<stockVars, row, promoUses, awayVars, served>>

\* _handle_webhook_completed: paid, from whatever status the order was in.
\* The reservation that follows names no user, so it fails.
MarkPaid(w) ==
    LET r == worker[w]
        new == [status |-> "paid", pay |-> "paid", intent |-> TRUE]
        paid == [r EXCEPT !.mine = new]
    IN
    /\ r.step = "markPaid"
    /\ row' = [row EXCEPT ![r.order] = new]
    /\ recorded' = [recorded EXCEPT ![r.order] = "paid"]
    /\ worker' = [worker EXCEPT ![w] =
                    IF Stocked(r.order) THEN Reserving(paid) ELSE Resting]
    /\ UNCHANGED <<stockVars, promoUses, awayVars, served>>

\* The Stripe refund.  An error is only logged: Stripe has nothing to give
\* back (any more), or it refuses and keeps the money.
Refund(w) ==
    LET r == worker[w]
        possible == r.mine.intent /\ Captured(r.order)
    IN
    /\ r.step = "refund"
    /\ \/ possible /\ money' = [money EXCEPT ![r.order] = "refunded"]
       \/ /\ possible /\ "refundFails" \in Mishap
          /\ money' = [money EXCEPT ![r.order] = "kept"]
       \/ ~possible /\ UNCHANGED money
    /\ worker' = [worker EXCEPT ![w] =
          IF r.kind = "stuck" THEN At(r, "cancelStuck") ELSE At(r, "unpay")]
    /\ UNCHANGED <<stockVars, orderVars, session, notified, adrift, served>>

\* The webhook saves payment_status whatever Stripe answered, then cancels the order.
Unpay(w) ==
    LET r == worker[w] IN
    /\ r.step = "unpay"
    /\ row' = [row EXCEPT ![r.order].pay = "refunded"]
    /\ worker' = [worker EXCEPT ![w] =
                    GiveUp([r EXCEPT !.mine.pay = "refunded"])]
    /\ UNCHANGED <<stockVars, recorded, promoUses, awayVars, served>>

\* cancel_stuck_orders writes both columns; no history row, no promo use.
CancelStuck(w) ==
    LET r == worker[w] IN
    /\ r.step = "cancelStuck"
    /\ row' = [row EXCEPT ![r.order].status = "cancelled",
                          ![r.order].pay = "refunded"]
    /\ worker' = [worker EXCEPT ![w] = Resting]
    /\ UNCHANGED <<stockVars, recorded, promoUses, awayVars, served>>

\* The sale at the till is over.
Complete(w) ==
    LET r == worker[w] IN
    /\ r.step = "complete"
    /\ row' = [row EXCEPT ![r.order].status = "completed",
                          ![r.order].pay = "paid"]
    /\ worker' = [worker EXCEPT ![w] =
                    [At(r, "record") EXCEPT !.mine.status = "completed"]]
    /\ UNCHANGED <<stockVars, recorded, promoUses, awayVars, served>>

-----------------------------------------------------------------------------
(* Calls to inventory-service. *)

\* One line is reserved or released.
AskLine(c, r) ==
    Stock!Begin(c, IF r.step = "reserve" THEN "reserve" ELSE "release",
                LocOf(r.order, r.line), Lines[r.order][r.line].qty, KeyFor(r))

\* All the lines of an order are deducted.
Deduct(c, o, fromReserved) ==
    Stock!DeductBatch(c, WarehouseOf[o], [p \in Items(o) |-> Units(o, p)],
                      <<"deduct", o, NoProduct>>, fromReserved)
FromReserved(r) == r.kind # "till"

\* _post: the request of the current step reaches a free inventory worker.
Send(w) ==
    LET r == worker[w] IN
    /\ r.step \in Calling /\ r.slot = NoCall
    /\ \E c \in Call :
          /\ Free(c)
          /\ IF r.step = "deduct" THEN Deduct(c, r.order, FromReserved(r))
             ELSE AskLine(c, r)
          /\ worker' = [worker EXCEPT ![w].slot = c]
    /\ UNCHANGED <<orderVars, awayVars, served>>

\* A deduction whose client goes away may be on its way still.  (A reservation
\* or a release that is begins now and commits later, see Inventory's Begin.)
Abandon(r) ==
    \/ UNCHANGED adrift
    \/ /\ r.step = "deduct" /\ r.slot = NoCall
       /\ adrift' = [adrift EXCEPT ![<<r.order, FromReserved(r)>>] = @ + 1]

\* The answer arrives.
Answer(w) ==
    LET r == worker[w] IN
    /\ r.slot # NoCall
    /\ Stock!Collect(r.slot)
    /\ worker' = [worker EXCEPT ![w] =
                    Answered(r, Success(call[r.slot].reply))]
    /\ UNCHANGED <<orderVars, awayVars, served>>

\* requests.RequestException: no connection, or no answer within the timeout.
\* A call that was made goes on without its client.
NoAnswer(w) ==
    LET r == worker[w] IN
    /\ "timeout" \in Mishap
    /\ r.step \in Calling
    /\ worker' = [worker EXCEPT ![w] = Answered(r, FALSE)]
    /\ Abandon(r)
    /\ UNCHANGED <<stockVars, orderVars, session, money, notified, served>>

\* inventory-service works on its calls, with or without a client.
Serve(c) ==
    /\ \/ Stock!Apply(c)
       \/ Stock!Announce(c)
       \/ Stock!Crash(c)
       \/ (\A w \in Worker : worker[w].slot # c) /\ Stock!Collect(c)
    /\ UNCHANGED <<orderVars, awayVars, worker, served>>

\* An abandoned deduction arrives, however late.
Arrive(c, d) ==
    /\ adrift[d] > 0
    /\ Free(c)
    /\ Deduct(c, d[1], d[2])
    /\ adrift' = [adrift EXCEPT ![d] = @ - 1]
    /\ UNCHANGED <<orderVars, session, money, notified, worker, served>>

\* The worker dies.  Stripe delivers a webhook again that got no answer.
Die(w) ==
    LET r == worker[w] IN
    /\ "crash" \in Mishap
    /\ r.step # "rest"
    /\ worker' = [worker EXCEPT ![w] = Resting]
    /\ notified' = IF r.kind = "webhook" THEN notified \ {r.order} ELSE notified
    /\ Abandon(r)
    /\ UNCHANGED <<stockVars, orderVars, session, money, served>>

-----------------------------------------------------------------------------

Init ==
    /\ Stock!Init
    /\ row = [o \in Order |-> NoRow]
    /\ recorded = [o \in Order |-> "none"]
    /\ promoUses = 0
    /\ session = {} /\ notified = {}
    /\ money = [o \in Order |-> "none"]
    /\ adrift = [d \in Deduction |-> 0]
    /\ worker = [w \in Worker |-> Resting]
    /\ served = 0

Arrival(w) == \E o \in Order :
    \/ Create(w, o) \/ Ring(w, o)
    \/ \E target \in Status : AskStatus(w, o, target)
    \/ Webhook(w, o) \/ PickStuck(w, o)

Transaction(w) ==
    \/ Change(w) \/ Revert(w) \/ Record(w) \/ MarkPaid(w) \/ Refund(w)
    \/ Unpay(w) \/ CancelStuck(w) \/ Complete(w)

Next ==
    \/ \E w \in Worker : \/ Arrival(w) \/ Transaction(w)
                         \/ Send(w) \/ Answer(w) \/ NoAnswer(w) \/ Die(w)
    \/ \E o \in Order : Pay(o) \/ CustomerPays(o)
    \/ \E c \in Call : Serve(c) \/ \E d \in Deduction : Arrive(c, d)

Spec == Init /\ [][Next]_vars

\* A worker that is not killed goes on with its request, and inventory-service
\* with its calls; Stripe delivers what it has to deliver.
Fairness ==
    /\ \A w \in Worker : WF_vars(Transaction(w) \/ Send(w) \/ Answer(w))
    /\ \A c \in Call : WF_vars(Serve(c))
    /\ \A o \in Order : WF_vars(\E w \in Worker : Webhook(w, o))
FairSpec == Spec /\ Fairness

-----------------------------------------------------------------------------
(* Properties. *)

TypeOK ==
    /\ Stock!TypeOK
    /\ row \in [Order -> Row]
    /\ recorded \in [Order -> Status \cup {"none"}]
    /\ promoUses \in Nat
    /\ session \subseteq Order /\ notified \subseteq Order
    /\ money \in [Order -> {"none", "captured", "kept", "refunded"}]
    /\ adrift \in [Deduction -> Nat]
    /\ worker \in [Worker -> Request]
    /\ \A w \in Worker : worker[w].step # "rest" => worker[w].order \in Order
    /\ served \in Nat

Quiet == /\ \A w \in Worker : worker[w].step = "rest"
         /\ \A c \in Call : call[c].pc = "idle"

\* The units of an order at a location, and their sum over a set of orders.
Wants(o, l) == IF WarehouseOf[o] = l[2] THEN Units(o, l[1]) ELSE 0
AllWant(S, l) == MapThenSumSet(LAMBDA o : Wants(o, l), S)

Deducted(o) == \E p \in Product : uses["deduct"][<<<<"deduct", o, NoProduct>>, p>>] > 0
Reserved(o) ==
    Stocked(o) => \A p \in Items(o) : uses["reserve"][<<"reserve", o, p>>] > 0
Shipped(o)  == row[o].status \in {"delivering", "delivered", "completed"}
Open(o)     == o \notin Till /\ row[o].status \in {"unpaid", "paid"}

\* What the webhook gave up: a stocked order that was paid.  Its reservation
\* was refused, and it cancels "without releasing", since it reserved nothing;
\* the units that creation had reserved stay behind.
Forfeited(o) == row[o].status = "cancelled" /\ row[o].pay = "refunded"

\* The saga balances: when nothing is in progress, the units reserved at a
\* location are those of the open orders, whatever creations failed half-way
\* and were compensated, and those of the orders the webhook gave up.
ReservedAccounted ==
    Quiet => \A l \in Stock!Loc :
        reserved[l] = AllWant({o \in Order : Open(o) \/ Forfeited(o)}, l)

\* order_service.py:117, "release_reserved=False: the caller already released
\* what this order had reserved (failed saga)": when nothing is in progress,
\* nothing is reserved beyond what the open orders want.
NothingHeldForCancelled ==
    Quiet => \A l \in Stock!Loc :
        reserved[l] <= AllWant({o \in Order : Open(o)}, l)

\* Whatever the saga does, it uses the inventory as module Inventory allows.
UsesInventory == Stock!Spec

\* An order never takes its units off the shelf twice, and nothing but a
\* shipment or a sale takes units off the shelf: retried shipments, revived
\* orders and abandoned calls included.
TakenOnce ==
    \A l \in Stock!Loc :
        quantity[l] = Seed[l] - AllWant({o \in Order : Deducted(o)}, l)

\* CONTEXT.md:39, "delivering: stock deducted": an order that nobody is
\* working on and that left the shop had its stock deducted.
ShippedMeansDeducted ==
    \A o \in Order : Shipped(o) /\ Stocked(o) /\ ~Busy(o) => Deducted(o)

\* The customer is not given the money back for an order that still counts.
RefundedMeansCancelled ==
    \A o \in Order : money[o] = "refunded" /\ ~Busy(o)
        => row[o] = [status |-> "cancelled", pay |-> "refunded", intent |-> TRUE]

\* A promo code's used_count is the number of orders that use it and are not
\* cancelled.
PromoCounted ==
    promoUses = Cardinality({o \in Coupon :
                               row[o].status \notin {"none", "cancelled"}})

\* models.py:201, "One row per status change": when nobody works on an order
\* its last history row shows its status, unless it has never changed.
HistoryCurrent ==
    \A o \in Order : ~Busy(o) =>
        recorded[o] = IF row[o].status = "unpaid" THEN "none" ELSE row[o].status

\* CONTEXT.md:44, "Transitions enforced in Order.can_transition_to()", apart
\* from creation, the sale at a till and the reverted shipment.  A late payment
\* breaks it (views.py:79), as do two workers on one order; no configuration
\* checks it.
OnlyTransitions ==
    [][\A o \in Order : row'[o].status # row[o].status =>
         \/ CanTransition(row[o].status, row'[o].status)
         \/ row[o].status = "none"
         \/ row[o].status = "unpaid" /\ row'[o].status = "completed" /\ o \in Till
         \/ \E w \in Worker : Revert(w) /\ worker[w].order = o]_row

\* Every request ends, even when calls are abandoned or inventory workers die.
RequestsEnd ==
    \A w \in Worker : (worker[w].step # "rest") ~> (worker[w].step = "rest")

\* views.py:96, "Actually refund the Stripe payment": an order that nobody is
\* working on and that is marked refunded was refunded.  A refund that Stripe
\* refuses breaks it (views.py:98-105); no configuration checks it.
MarkedMeansRefunded ==
    \A o \in Order : row[o].pay = "refunded" /\ ~Busy(o) => money[o] = "refunded"

\* The webhook that reports a payment settles it: the order is left standing
\* and paid, with its stock reserved if it has any; or it is given up, and then
\* the money was given back unless Stripe refused to.
PaidFor(o) == /\ ~Busy(o) /\ Reserved(o)
              /\ row[o].pay = "paid"
              /\ row[o].status \notin {"none", "unpaid", "cancelled"}
WrittenOff(o) == /\ ~Busy(o) /\ Forfeited(o)
              /\ money[o] \in {"refunded", "kept"}
PaymentSettles == \A o \in Order : InFlight(o) ~> (PaidFor(o) \/ WrittenOff(o))

=============================================================================

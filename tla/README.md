# TechHub: a TLA+ verification project

TechHub is a shop made of services that each own a database: `inventory-service`,
`order-service` and `product-service` (Django), `auth-service`,
`notification-service` and `audit-service` (Express), an nginx gateway with an njs
access-control script, a shared Python library for the event bus, and a Next.js
front end. Services call each other over HTTP and publish events on a RabbitMQ
topic exchange; the Django services keep an outbox for events the broker did not
take.

The modules here model the parts whose correctness depends on the order of steps
of several actors: stock, the order saga that moves it from another service, the
event bus, and four places where a page of the shop and a service keep the same thing
and get out of step: the cart, the notifications, the checkout, and the claims on
goods that were sold. TLC checks them on small instances, TLAPS proves the theorems
for every value of the constants.

- [1. Inventory of the system](#1-inventory-of-the-system)
- [2. Modules](#2-modules)
- [3. How the modules correspond to the code](#3-how-the-modules-correspond-to-the-code)
- [4. Runs](#4-runs)
- [5. Disagreements between the code and its documentation](#5-disagreements-between-the-code-and-its-documentation)
- [6. Proofs](#6-proofs)
- [7. What is not modelled](#7-what-is-not-modelled)
- [8. Plan](#8-plan)

To check a run: `tlc -config <cfg> <module>` with the names of section 4; to check
the proofs: `tlapm <module>` with the modules of section 6.

## 1. Inventory of the system

| Component | State | Operations | Hard behaviour | What makes it correct |
|---|---|---|---|---|
| **Stock** (`inventory-service/inventory/views.py`, `models.py`) | `Stock` rows (quantity, reserved), `StockMovement` rows with an idempotency key | reserve, release, return_to_stock, deduct, deduct_batch, transfer, adjust, goods receipt | concurrent requests on one row; a key looked up before the row is locked; publication after the commit | no column negative; reserved units covered by units on hand; a key counts once; movements explain the level up to what was counted; a low level is alerted on |
| **Order saga** (`order-service/orders/views.py`, `order_service.py`, `inventory_client.py`, `promo.py`, `cancel_stuck_orders`) | `Order`, its lines and history, `PromoCode.used_count`; Stripe sessions and refunds outside | create, pos, status, cancel, pay, Stripe webhook, clean-up command | one HTTP call per line, each may fail or time out; compensation; webhooks repeated or late; requests on the same order at once; calls that name no user | what is reserved is accounted for; taken once; status follows the state machine; a payment is kept for an order that stands, or given back |
| **Event bus** (`shared-lib/shared_eventbus`) | cached connection per process, `eventbus_outbox`, relay thread | publish_event, store, relay_pending, start_consumer | broker outages, unconfirmed publishes, relays of several workers, death between sending and deleting | an event of a committed transaction is not lost while nothing fails; consumers see each event's effect at most once |
| **Event consumers** (`product-service/products/eventbus.py`, `notification-service/src/consumer.ts`) | `processed_events`; a product's denormalised stock; notifications | claim, handle, acknowledge | redelivery, concurrent handlers, a claim that fails, death after the claim, messages acknowledged over another channel | as above |
| **Returns and warranty** (`returns.py`, the pages `my/orders/[id]` and `admin/returns`) | `ReturnRequest` rows; the lists the two pages have read | file a claim; approve, reject, receive (restock), resolve (refund, replace, repair) | a whole row is read without a lock, acted for elsewhere, and saved; requests from outdated pages; refused calls, lost answers, a process that dies in between | nobody is given twice for one unit; stock and money agree with the row |
| **Cart** (`cart_views.py`, `use-cart.tsx`, `cart-client.tsx`) | `CartItem` rows of a session and of a user; the list on the page, a timer per line | add, quantity, remove, clear, merge at login, read | the list changes before the server does; calls overtake one another, or fail; two effects at login; read-modify-write without a lock | what was taken out stays out; at rest the page shows the cart |
| **Notifications** (`notifications.ts`, `sse.ts`, `routes.ts`, `useNotifications`) | notification rows; open streams; list, unread count and SWR's reads on the page | store, broadcast directly and over Redis, subscribe, list, count, mark, dismiss, clear | every event comes twice; reads and events overtake each other; restarts and broken streams | listed once, not lost, not unread again |
| **Checkout** (`checkout/page.tsx` and its parts, `order/[id]/page.tsx`) | the form, fetched branch lists, the promo code, the submission, the cart shown | edit, submit (create, clear the cart, pay, save details), reload, leave, come back | fields that depend on one another; answers in any order; each of four calls may fail | the order can be delivered; nothing is ordered twice; the discount is that of the total; a submission ends |
| **Purchasing** (`purchasing.py`, purchase orders and receipts of `views.py`) | `PurchaseOrder`, items, `GoodsReceiptNote` | order, receive, cancel, reorder suggestions | status tested on an unlocked read | received never more than recorded; a closed order stays closed |
| **Catalogue, reviews** (`product-service`) | products, reviews | CRUD | none beyond single rows | - |
| **auth-service** | better-auth sessions, session cache, login counters, impersonation codes | sign in and out, impersonate | a cached session outlives a sign-out | a revoked session is refused soon |
| **audit-service** | append-only entries | record, query | a failed insert is acknowledged | no entry is lost |
| **nginx gateway** | none | allow or refuse a request | none | a decision per request |
| **Rest of the front end, reports, metrics, deployment** | none that services rely on | - | - | - |

How they interact: `order-service` calls `inventory-service` over HTTP
(`inventory_client.py`), with idempotency keys, a timeout and the user of the request it
serves if there is one, and treats an answer of 409 as success. Stripe calls the webhook of
`order-service`, and is called for sessions and refunds. `order-service` and
`inventory-service` publish events after their transactions commit
(`transaction.on_commit`); `product-service`, `notification-service` and `audit-service`
consume them from queues of their own. A claim in `order-service` calls inventory's return
and batch deduction and Stripe's refund, with a key made of the claim's number.
`notification-service` tells the pages it holds connections to, and through Redis those of
its other processes. Everything else is a request from the front end through the gateway:
the pages keep copies of what services own, change them before or after the answer, and read
them again on their own schedule.

The hazards, with the line where each bites and the properties that watch it, are
listed in `PROJECT.json` under "hazards".

## 2. Modules

| Module | What it is |
|---|---|
| `Inventory` | the stock of `inventory-service`: every operation on stock rows, the ledger, and what is published about it |
| `Orders` | the saga of `order-service`, composed with `Inventory` (`Stock == INSTANCE Inventory WITH Key <- StockKey`): calls occupy a `Call` slot of the inventory and go on without their client after a timeout |
| `Delivery` | abstract specification of the event bus: once committed, a delivery is open, or a copy of it was refused; then handled or missed, once |
| `EventBus` | publisher, outbox, relay threads, broker and consumers; refines `Delivery` |
| `Cart` | the cart: page, timers, calls in flight, and the rows of the session and of the user |
| `Notices` | the notifications of a user: rows, the two ways an event takes, the stream, SWR's reads and the page's list |
| `Checkout` | the checkout page and what the calls of a submission bring about |
| `Returns` | the claims on an order line, with the pages of buyer and staff, inventory and Stripe as counters of what they did |
| `Sums` | lemmas about sums over finite sets, for the proofs of `Inventory`, `Orders` and `Returns` |
| `MC*` | definitions that give constants their values, and symmetry, one per checked module |
| `*Proofs` | theorems, one module per component |

`Inventory` plays two parts: it is the detailed specification of one service, and
the abstract specification of what the saga may do to that service
(`UsesInventory == Stock!Spec` in `Orders`). The four modules about pages stand on
their own: each one needs of the other services only whether a call took effect.

## 3. How the modules correspond to the code

`PROJECT.json` maps each definition to its lines. In outline:

### Inventory

`rows`, `quantity`, `reserved` are the `Stock` table. The `StockMovement` table is
kept as the two aggregates the code and the properties read: `uses` (how many rows
carry a type and key) and `ledger` (sum per type and location, counted off or on as the
type says; a transfer is one row, off at one location and on at the other). `call` is a
request in a gunicorn worker.

- `Begin`, `Apply` are the two halves of `_stock_action` (reserve, release, return,
  deduct): the lookup of the key outside any transaction, then the transaction that
  locks the row, tests it and writes it. They are two steps because the code does not
  hold a lock in between.
- `DeductBatch`, `Transfer`, `Adjust`, `Receive` lock before they read and are one
  step each. `Transfer` creates the destination row even when the source is short,
  because the error answer leaves the transaction normally.
- What `transaction.on_commit` runs is the set `todo` of the call; `Announce`
  publishes one of them, and for a deduction reads the level again to check it for
  low stock. `Crash` kills the worker before or during that. A stock adjustment and a
  transfer publish no `stock.changed`.
- `lowSince`, `lost` and `started` are history and bound.

A stocktake (`Adjust`) stores the absolute difference and writes its sign only into the
notes (`views.py:417`), so the history cannot be added up exactly behind one:
`LedgerBalances` says that a level is off from the other movements by no more than the
corrections recorded, and not at all where nothing was counted.

Simplifications: the low-stock event of a
transfer goes out inside its transaction; orders of lock acquisition are not visible
because a transaction is a step.

### Orders

A worker loads the order row into memory (`mine`), acts on the copy and saves the
whole row (`Order.save()`), while other workers do the same; every database
transaction and every HTTP call is a step. `step` says where a request is, and the
operators `Reserving`, `Undoing`, `Releasing`, `Answered`, `AfterChange` map a request
to its next step, in the order in which the functions of the code call one another.

| Code | Actions |
|---|---|
| `create` and `create_order` | `Create` (no history row yet), then `Send`/`Answer` per line (`reserve`), on failure `undo` per reserved line and `Change` to cancelled |
| `pos` | `Ring`, `deduct` call, `Complete`, or `Change` to cancelled |
| `status`, `cancel` and `update_order_status` | `AskStatus`, `Change`, then `release` or `deduct` calls, `Record` or `Revert` |
| `pay`, Stripe | `Pay`, `CustomerPays` |
| `_handle_webhook_completed` | `Webhook`, `MarkPaid`; of an order with a warehouse then `Refund`, `Unpay`, `Change`, because the reservation is refused |
| `cancel_stuck_orders` | `PickStuck`, `Refund`, `CancelStuck`; its releases are refused, which it does not look at |
| `_build_headers`, `get_permissions` of inventory | `Named`: which calls name a user |
| `_post`, `_parse_response`, timeouts | `Send`, `Answer`, `NoAnswer`, `Success`, `KeyFor`; `Abandon` and `Arrive` for a deduction nobody waits for any more, which takes effect however late |

inventory-service takes a reservation, a release or a deduction only from a user
(`inventory/views.py:186-187`), whom it knows by the headers that order-service copies
from the request it is serving (`inventory_client.py:17-31`). The webhook
(`orders/views.py:84`) and the clean-up command have no request to pass on, and a guest's
request has no user: their calls are refused without effect, and the model makes none. A
guest's order with a warehouse is thus cancelled at once. One with an account is paid,
refunded and cancelled, and so an order that was paid at Stripe and still stands has no
warehouse, unless a worker died over it.

`Mishap` is a constant, a set that says what the surroundings may do in an instance:

| Mishap | Meaning |
|---|---|
| `timeout` | a call to inventory is abandoned, or cannot be made |
| `crash` | a worker of `order-service` dies in the middle of a request |
| `refundFails` | Stripe rejects a refund |
| `redelivery` | Stripe delivers a webhook again |
| `latePayment` | a payment comes for an order that is no longer unpaid |
| `recall` | staff cancel an order that was already shipped |
| `stuck` | the clean-up command runs |
| `sameOrder` | two workers handle the same order at once |

A property is checked with the mishaps under which it is meant to hold; section 5
lists what happens to it under the others. Theorems say in their hypotheses which
mishaps they exclude.

Simplification: the command fetches its list of orders once and then works on the
objects it loaded, where `PickStuck` loads an order as it reaches it.

### EventBus

| Code | Actions |
|---|---|
| `transaction.on_commit(publish_event)` | `Commit` makes the events of a transaction due (`owed`) |
| `send`, `publish_event` (`publisher.py`) | `Publish`: the cached connection works, or raises, or swallows the message |
| `store`, `_ensure_relay` (`outbox.py`) | `Store` |
| `relay_pending` | `Select` (`FOR UPDATE SKIP LOCKED`, limited), `Send` per row, `CommitRelay`; rows sent are deleted only by the commit |
| a worker is killed | `Kill`: due events are lost, the relay's transaction is rolled back |
| broker | `Outage`, `Recover`: connections become stale, unacknowledged messages return |
| `connectOrRetry` | `Connect`; `linked` says whose consumer has a channel |
| consumer callback | `Deliver`, `Claim` (dispatch, then `processed_events`, which may fail), `Handle`, `Ack` |
| the consumer's process ends and is started again | `Die` (it is killed), or `Ack` without a channel or with a tag the broker does not know: nobody catches the error |

A consumer acknowledges over the channel it has at the moment (`consumer.ts:233`, `236`),
not over the one its message came from. `handler[q][s].here` says whether the delivery
tag is of the present channel, `kept` whether the broker still keeps the message for it.
After an outage a message is redelivered although the handler that has it goes on; when
that one is done, it acknowledges under a tag that is by then another message's, which the
broker forgets, or its process ends. A claim that fails leaves no claim, or leaves one
whose answer was lost; either way the message is refused and does not come back, but a
copy of it may. `committed`, `handled`, `missed` (deliveries that will not happen any
more) and `refused` (of which a copy is gone that nobody had claimed) are history
variables.

Simplifications: a queue is a bag, because consumers run their handlers concurrently
and nothing they do depends on the order; the expiry of `processed_events` and the
in-memory copy of it are left out; so is what a handler writes.

### Cart

| Code | Actions |
|---|---|
| `addItem`, `updateQuantity`, `removeItem`, `clearCart`, the panel | `Add`, `UpdateQuantity`, `RemoveItem`, `ClearCart`; `Offered`, `Removable`, `Clearable` are what the panel lets the buyer click on |
| the timer of a line | `Fire` |
| `user?.id` and the two effects on it | `Sign` (the cookie changes), `Notice` (the hook hears of it, cancels the old effects and starts the new) |
| `CartViewSet` | `Write` (update, remove, clear are one statement), `Read`, `Begin` and `SaveAdd` or `SaveMerge` (read first, save later) |
| the answer | `AnswerRead`, `AnswerMerge`, `AnswerWrite`, the last with the read that follows an addition or an error |
| a call or an answer is lost | `Fail` |
| the gateway gives up waiting (`nginx.conf:55-57`) | `Fail` with `Late`: the page is told it failed, and the server serves the call when it comes to it |

`behind` of a call says which writes were on their way when it was sent, to recognise
writes that the server served out of order; `stale` and `gone` are history. The panel
offers quantities without an upper bound; the server takes a line out when it is sent one
above `MAX_QUANTITY`, and answers as always (`Written`, `OutOfRange`). The price,
the name and the picture of a line are left out.

### Notices

| Code | Actions |
|---|---|
| `createNotification`, `broadcast` | `Create`, `Broadcast` (to the stream and to Redis), `ComeBack` (what the process hears from Redis); a marketing notification (`Silent`) is not broadcast |
| `addClient`, the service restarts | `Subscribe`, `Restart` |
| `listNotifications`, `getUnreadCount`, `markRead`, ... | `ServeFetch`, `ServeCall` |
| `useApiGet` (SWR) | `Focus`, `AnswerFetch`, `FailFetch`; `Dropping` is SWR throwing away a read whose key was mutated after it was asked for |
| `createNotificationSSE` | `OpenStream`, `Receive`, `Break` (`onerror` closes the stream, nothing opens it again) |
| `markAsRead`, `dismiss`, `markAllAsRead`, `clearAll` | `Click`, and one `Answer...` each |

### Checkout

Section by section: `SelectCity`, `SelectType`, `SelectBranch`, `SelectService`,
`SelectShowroom` are the handlers of the page with the fields each of them resets;
`Fetched` brings a list of branches; `ChangeOwn`, `Blur`, `ChangeReceiver` decide whether
a section is in error; `ChangeQuantity`, `Apply`, `RemoveCode`, `AnswerCheck` are the
promo code and the effect on the total. `Submit`, `AnswerCreate`, `AnswerPay`,
`AnswerSave` are `handleSubmit`, cut where it waits; `ServeCreate`, `ServeOther`,
`ServeClear` what the services do meanwhile; `FailCall`, `FailClear`, `Reload`, `View`,
`PayOrder`, `Return` the ways in which it goes wrong or the buyer goes away. The cart is
a set of articles (`Cart` has its calls), and of an order only its articles and whether
it stands are kept (`Orders` has its life).

### Returns

`File` is `ReturnDialog` and `create_return`, which locks the order line and is one
step. A transition is `Ask` (read the row, test the transition), `LookUp` and `Perform`
(inventory's return looks its key up before it locks; the batch deduction and Stripe
find a repeated key in one step), then `Save` (the whole row as it was read) or `GiveUp`
(refused, not arrived, answer lost, process dead). `done` counts what inventory and
Stripe did. `lost` remembers what was done and not saved, `raced` the claims two
transitions of which got in each other's way. Simplifications: one order line; the
amounts refunded; a call that takes effect after its timeout is taken to have acted
before the answer was lost; Stripe's forgetting of a key after a day is left out.

## 4. Runs

The passing runs finish their whole state space. `CHECK_DEADLOCK FALSE` is there
because all of them may stop: the requests they may serve are bounded.

| Run | Instance | What it shows |
|---|---|---|
| `inventory` (`MCInventory`, `Inventory.cfg`) | 1 product, 2 warehouses (one never stocked), 2 calls at a time, 3 in all, quantities 1 and 2, crashes | `AckMeansRecorded`, `NoNegativeStock`, `LedgerBalances`, `NoSilentLow`, `OnlyAdjustUncovers` |
| `inventory_batch` (`InventoryBatch.cfg`) | 2 products, 1 warehouse, 2 calls, crashes, fairness | `BatchDeductedOnce`, `ChangesAnnounced`, `LowEventuallyAlerted` |
| `orders_competing` (`OrdersCompeting.cfg`) | 4 orders of 2 lines competing for 1 unit of each product, one at a till, one of a guest, one payable by card, two with a single-use promo code, 2 workers, 7 requests, no mishap | `ReservedAccounted`, `HistoryCurrent`, `PromoCounted` |
| `orders_storm` (`OrdersStorm.cfg`) | 2 orders for 2 units of a product, 2 workers on one order at once and dying, 4 calls to inventory, 5 requests | `TakenOnce` |
| `orders_settle` (`OrdersSettle.cfg`) | an order with a warehouse and one without, lost calls, dead inventory workers, late payments, recalls, refunds that Stripe refuses, the clean-up command, fairness | `ShippedMeansDeducted`, `RefundedMeansCancelled`, `UsesInventory` (the saga implements `Inventory`), `RequestsEnd`, `PaymentSettles` |
| `orders_forfeit` (`OrdersForfeit.cfg`) | 1 order, paid at Stripe, no mishap | violates `NothingHeldForCancelled` |
| `eventbus` (`MCEventBus`, `EventBus.cfg`) | 2 events, 1 queue, 2 workers with relay threads, 2 handlers at once, an outage, 2 mishaps of any kind, fairness | `Delivers` (refinement of `Delivery`), `NothingVanishes`, `OnlyFailuresLose`, `EventuallySettled` |
| `eventbus_product` (`EventBusProduct.cfg`) | the handler table of `product-service` | violates `OnlyFailuresLose` |
| `cart` (`MCCart`, `Cart.cfg`) | 2 products, quantities up to 2, 2 calls at a time, 3 acts of the buyer, one of them possibly a sign-in or sign-out, 1 lost call or answer | `RemovedStaysOut`, `OnlyStaleReads` |
| `notices` (`MCNotices`, `Notices.cfg`) | 2 notifications, one of them a silent one, 2 clicks under way at a time, restarts, broken streams, failed reads | `NoTwice`, `ToldStaysListed`, `TickedStaysRead` |
| `checkout` (`MCCheckout`, `Checkout.cfg`) | 2 cities, 1 showroom, 4 methods, 2 articles, 4 edits, 1 failure or reload, 2 orders, signed in or not, fairness | `AddressFits`, `OrderedOnce`, `PromoFollowsTotal`, `SubmitEnds` |
| `returns` (`MCReturns`, `Returns.cfg`) | 2 claims on a line of 2 units, 2 transitions at a time, 5 in all, with and without a warehouse and Stripe | `ClaimsFit`, `DoneAsRecorded` |

Each module also has one type invariant.

**Bounds, and why they are enough.** The races here are between two actors: two retries past
one lookup, two workers with a copy of one row, two relay threads with one outbox, a handler
and the redelivery of its message. Two calls, workers, relays and handlers make each of them
happen; the third order of `orders_competing` lets a loser's compensation run while a third
party takes the units it frees, and the fourth is a guest's. Four calls in `orders_storm`
are a reservation for each of two orders and two deductions: of one order twice, the second
unit being there, or of each once. Quantities of one and two tell "covered" from "not
covered" and "at the threshold" from "above it". `MaxCalls`, `MaxRequests`, `MaxOutages` and
`MaxAccidents` are large enough for a whole life cycle of each order, or for each event to
be lost once and redelivered once. `Limit = 2` rows per relay transaction makes both of the
relays' cases happen, rows held by another one and rows left over. Symmetry is used over
calls, workers, products and claims in runs without liveness properties only.

Of the pages: two calls at a time overtake each other, and three acts are an addition,
its removal and a sign-in, or a removal between two quantities; the carts may hold lines
of their own at the start. Two notifications are one that is told and one that is not,
and every event of the first comes twice. Four edits take the buyer from one complete
form to another (a carrier, a city, a branch, and a change of mind) and two cities make
a branch of the wrong one possible; one failure is enough for each excuse the properties
make, and a second order for an article to be in two. Two claims on two units can
overlap, one can be rejected or repaired and its units claimed again, and five
transitions take a claim to its refund, whose answer is lost, reject it, and leave one for
another claim; the lists of the staff's page
are read at any time, so that they are outdated in every way.

**Fairness.** `Inventory` and `Orders` assume that a worker which is not killed goes on with
its request (gunicorn runs a request to its end), that `inventory-service` serves its calls,
and that Stripe delivers each webhook. `EventBus` assumes the same of workers, relay threads
and consumers, and that the broker comes back. `Checkout` assumes that every call the page
has started ends with an answer or an error, as `fetch` does (weak fairness of
`ServeCreate`, `ServeOther` and the answers), and nothing of the buyer. Nothing is assumed
of arrivals, payments, outages or mishaps. `RequestsEnd` and `PaymentSettles` do not hold
without fairness of `Serve`; `EventuallySettled` excepts rows in the outbox of workers that
were killed, which the code does not send until the next failure or a manual flush
(`Stranded`).

**Liveness and lost calls.** `RequestsEnd` holds with abandoned calls because each
call of a loop counts as answered after its timeout. `PaymentSettles` covers late payments
and refunds that Stripe refuses: the money is then kept (`money[o] = "kept"`), which the
property allows and section 5 lists.

## 5. Disagreements between the code and its documentation

Two are runs that TLC refutes; `PROJECT.json` quotes the lines they contradict.

- **`product-service` refuses every event** (`eventbus_product`). Its handlers are keyed
  by queue, the shared consumer looks them up by routing key.
- **The webhook cancels without a release what creation had reserved** (`orders_forfeit`).
  It cancels with `release_reserved=False` after a reservation of its own that failed,
  "the caller already released what this order had reserved" (`order_service.py:117`);
  but creation had reserved the units, and they stay reserved. As that reservation names
  no user and is always refused, this happens to every order with a warehouse that is paid
  at Stripe, against "paid: payment confirmed (stock reserved via Stripe webhook)"
  (`order-service/CONTEXT.md:38`) as well. `ReservedAccounted` counts these units.

More contradict a line of the documentation in the same way, and were refuted
while modelling; no configuration here repeats it, but each is a change of one that is.

1. **A release can run twice** (`Inventory.cfg` with the invariant `ReleasedOnce`): two
   retries of one key both pass the lookup, which is made before the row is locked
   (`views.py:62`); `order-service/CONTEXT.md:113` has "idempotency keys prevent
   double-release".
2. **A late payment changes any status** (`OrdersCompeting.cfg` with
   `Mishap = {"latePayment"}` and the property `OnlyTransitions`): the completed webhook
   sets an order to paid whatever it was (`orders/views.py:79`), against "Transitions
   enforced in Order.can_transition_to()" (`CONTEXT.md:44`).
3. **Requests overwrite each other** (the same with `Mishap = {"sameOrder"}`): the
   transition is tested on the copy loaded earlier, and the whole row is saved
   (`order_service.py:132`), against the same line.
4. **Two lines of one product** (`OrdersCompeting.cfg` with `Lines <- MCTwice`,
   `Seed <- MCSeed2`, `MaxQty = 2` violates `ReservedAccounted`): both lines use one key
   (`order_service.py:217`), the second is taken for a retry, answered 409, which counts
   as success, and its units are never reserved.
5. **A refund that Stripe refuses** (`OrdersCompeting.cfg` with
   `Mishap = {"refundFails"}` violates `MarkedMeansRefunded`): the error is only logged and
   the order marked refunded and cancelled (`orders/views.py:98-105`), where the comment has
   "Actually refund the Stripe payment".
6. **An outage loses events** (`EventBus.cfg` without mishaps and with the invariant
   `missed = {} /\ refused = {}`): publications are not confirmed, and one written to a
   connection that has just died is gone without an exception, against "`publish_event()`
   never loses an event because RabbitMQ is down" (`shared-lib/README.md:159`). A message
   in a consumer's hands during an outage may cost another one its handling, as section 3
   describes. `OnlyFailuresLose` therefore counts an outage among the failures.

Seen while modelling, and reproducible with the modules by adding the mishap to
`OrdersCompeting.cfg`:

- `stuck`, with an order without a warehouse (`WarehouseOf <- MCMixed`): the clean-up
  command writes no history row and does not give a promo use back (`HistoryCurrent`,
  `PromoCounted`).
- `recall`, with two units of each product (`Seed <- MCSeed2`): cancelling a shipped order
  releases units another order has reserved (`ReservedAccounted`).
- `timeout`: a reservation that took effect after its timeout is never compensated
  (`ReservedAccounted`).
- `crash`: a worker that dies between saving "delivering" and the deduction leaves a
  shipped order undeducted (`ShippedMeansDeducted`).

And without a property of their own: stocktakes and transfers publish no
`stock.changed`; the history of an order begins with its first change, as creation writes
no row; relays of several workers do not send oldest first; the plain PATCH of an order by
staff, which is not modelled, writes any status, and its warehouse.

What the pages do that nobody may have meant, found while their modules were written;
the properties of section 4 are stated around it:

- **Cart.** A quantity the buyer has set is taken off the page by any answer that sets the
  list (`EditStays` in `Cart`, which TLC refutes with `Cart.cfg`), although the comment at
  `use-cart.tsx:121` has "unless the user moved on". Two merges that overlap double the
  session's lines. Two additions that overlap lose one (`cart_views.py:145-150`). A quantity
  above 999, which the panel offers, deletes the line and answers success; the page goes on
  showing it, against the comment at `use-cart.tsx:121` again. The load of a login may be
  answered after its merge, and then hides what was merged.
- **Notices.** A broken stream is not opened again before the page is. What is
  broadcast between the reading of the list and the opening of the stream is not shown
  until the next focus. Answers to "clear all" and "mark all" also clear and mark what
  came after the service acted (`use-api-data.ts:462-472`). Two ticks on one entry lower
  the count twice. An event whose row was already counted by a read raises it again. A
  dismissed entry comes back with the second copy of its event.
- **Checkout.** The discount for an outdated total stays if its answer is the last one,
  and a code that was taken away comes back with a late answer. `saveDetails` stores the
  receiver's name and phone as the account's own. After a failed payment a guest is sent
  to a page that can neither show nor pay the order. The clearing of the cart may be cut
  off by leaving for Stripe, and takes with it what was added in another tab. A lost
  answer to the order leads to a second one. Orders for other couriers have no address.
- **Returns.** A unit may be given for twice in two ways. Two of the staff can resolve one
  claim as refunded and as replaced, and both happen. And a refund that went through, but
  whose answer was lost, leaves the claim where it was: it may be rejected or replaced
  instead, and in the first case its units are claimed and refunded again. A claim can be
  rejected while its unit is being restocked, or after it was
  restocked and the answer lost, against the message at `returns.py:96-97`. A row saved
  late revives a claim that was rejected or repaired, whose units were claimed again
  meanwhile. Two receipts that overlap restock twice, because inventory looks the key up
  before it locks. All of these are `raced` or `lost` in the model, and
  `ClaimsFit` and `DoneAsRecorded` say that nothing else goes wrong.

## 6. Proofs

Proved for every value of the constants, from the assumptions `InventoryAssumption`,
`OrdersAssumption`, `StockAssumption`, `EventBusAssumption`, `CartAssumption`,
`NoticesAssumption`, `CheckoutAssumption` and `ReturnsAssumption`, which TLC evaluates
in the runs.

| Theorem | Module | Says |
|---|---|---|
| `TypeCorrect` | each of the seven | the type invariant |
| `NeverNegative` | `InventoryProofs` | `NoNegativeStock` |
| `AdjustOnlyUncovers` | `InventoryProofs` | `OnlyAdjustUncovers` |
| `BatchExactlyOnce` | `InventoryProofs` | `BatchDeductedOnce` |
| `AckRecorded` | `InventoryProofs` | `AckMeansRecorded` |
| `HistoryExplainsStock`, `NoLowForgotten`, `ChangesAddUp` | `InventoryProofs` | `LedgerBalances`, `NoSilentLow`, `ChangesAnnounced` |
| `SagaUsesInventory` | `OrdersProofs` | `Spec => UsesInventory`, the saga implements `Inventory` |
| `SagaNeverNegative`, `SagaShipsOnce` | `OrdersProofs` | what `Inventory` guarantees, for the saga |
| `ShelfTakenOnce` | `OrdersProofs` | `TakenOnce` |
| `ShippedWasDeducted` | `OrdersProofs` | `ShippedMeansDeducted` (1) |
| `HistoryIsCurrent` | `OrdersProofs` | `HistoryCurrent` (1, 3) |
| `RefundedIsCancelled` | `OrdersProofs` | `RefundedMeansCancelled` (1, 2) |
| `PromoExact` | `OrdersProofs` | `PromoCounted` (1, 2, 3) |
| `ReservedIsAccounted` | `OrdersProofs` | `ReservedAccounted` (5) |
| `ImplementsDelivery` | `EventBusProofs` | `Spec => Delivers` |
| `NothingLost` | `EventBusProofs` | `NothingVanishes` |
| `NothingLostUnlessFailing` | `EventBusProofs` | `OnlyFailuresLose` (4) |
| `TakenOutForGood`, `ListFollowsServer` | `CartProofs` | `RemovedStaysOut`, `OnlyStaleReads` |
| `ListedOnce`, `ToldIsListed`, `TickedIsRead` | `NoticesProofs` | `NoTwice`, `ToldStaysListed`, `TickedStaysRead` |
| `OrdersReachTheirPlace`, `SoldOnce`, `DiscountFollows` | `CheckoutProofs` | `AddressFits`, `OrderedOnce`, `PromoFollowsTotal` |
| `RecordedIsDone`, `ClaimsCovered` | `ReturnsProofs` | `DoneAsRecorded`, `ClaimsFit` |

Hypotheses: (1) `Undisturbed`, no two requests work on one order at once and no worker of
`order-service` dies; (2) `Punctual`, Stripe reports each payment once and only for an order
still unpaid; (3) the clean-up command does not run; (4) every queue's service has a handler
for every event the queue is bound to; (5) `Smooth`, the only mishaps are failed refunds and
the clean-up command, and `LinesApart`, no two lines of an order name one product. The run
that checks a property meets its hypotheses, except that `orders_settle` has late payments
too, where `RefundedMeansCancelled` is checked beyond what is proved.

Without (1), (3) and (4) the properties do not hold, nor `PromoCounted` without (2), and
section 5 says what the code does then: it neither locks an order nor reads it again, so
that two requests overwrite each other's rows (1); it takes a late payment for an order that was
given up, and cancels it a second time (2); it cancels without writing history or giving a
promo use back (3). `RefundedMeansCancelled` is violated by a repeated webhook together with the
clean-up command: delivered again after the money was given back, it pays for the order once
more. Without (4) `OnlyFailuresLose` is violated, as the run `eventbus_product` shows.

Of (5), TLC finds `ReservedAccounted` violated as soon as one of these is added to
`OrdersCompeting.cfg`: abandoned calls, dying workers of either service, late payments, two
requests on one order, two lines of one product. Recalls violate it once there are two units
of each product (`Seed <- MCSeed2`). Repeated webhooks alone do not; the proof does not cover
them.

**Sums.** The module `Sums` proves what the sums over sets of the community modules
(`MapThenSumSet`, a fold) do when a member is added, taken out or changed, what type they
have, and that equal summands have equal sums, although the fold takes the members in
whatever order `CHOOSE` picks them. The library's induction theorems take an operator as a
parameter and cannot be used with these provers; the arguments go by a smallest
counter-example instead: of the finite sets for which a statement fails, one has no smaller
such set inside it, and taking a member out of that one refutes it. From `Sums` follow the
properties that add something up: `ChangesAnnounced`, `TakenOnce`, `ReservedAccounted`,
`ClaimsFit`. For it `Inventory` and `Returns` assume that `Call` and `Claim` are finite
sets, as are the requests a server works on at a time and the claims on an order line.
Induction over the data of the models is nowhere else needed.

**Inventory.** The inductive invariant of each theorem is the property joined with `TypeOK`.
`TypeOK` says more than the types of the tables: a call past the lookup carries a real
request, so that `Apply` works on a positive quantity and a location. That is what
`NeverNegative` needs: a subtraction is harmless because of the test made in the same
transaction, and only if the other column is not negative either, which is why both columns
are in one invariant. `BatchExactlyOnce` rests on the key being read under the row locks,
`AckRecorded` on the counters of `uses` never going down. `HistoryExplainsStock` needs
nothing beside the types: each transaction changes a row and its history by the same number,
or, a stocktake, the row by no more than it records. `NoLowForgotten` (`LowInv`) adds that
only a call that is publishing owes announcements, and that a row that counts as dropped is
at its threshold or below: an announcement of a deduction leads to an alert only then;
`ChangesAddUp` (`AnnouncedInv`) that what a call owes is a finite set, so that it can be
summed. Every action either commits one change and owes it, or pays one debt, or dies with
its debts, and three lemmas on `Owed` say what each does to the sum.

**Orders.** The invariant is a predicate on each request (`RequestOK`): past "rest" it
has an order, it calls inventory only for an order with a warehouse and only for a
line the order has. It is needed because a call made for a line that does not exist
would be no step of `Inventory`. Each step of the saga is then shown to be an
inventory action or a stutter, and the inventory's theorems carry over. A hypothesis
of `SagaUsesInventory` and the theorems after it is that the units an order wants of a
product add up to a quantity the inventory's requests range over
(`\A o \in Order : \A p \in Items(o) : Units(o, p) \in Stock!Qty`): `MaxQty` bounds
requests in `Inventory`, and has no counterpart in the code.

`ShelfTakenOnce` (`TakeInv`) says beside its property that every call which has still to run
its transaction reserves or releases (`OnlyHolds`: a deduction commits in the step in which
it arrives, whoever waits for it), and that deductions are recorded under a key of an order
only for the products it has (`KeysFit`). It needs no hypothesis on mishaps, since the key
is what makes a repeated deduction harmless, not the saga.

The other four, and `ReservedIsAccounted`, rest on one invariant, `InCourse`. It says of
each order at rest that its columns belong together, and of each request which step of its
kind it is at, what it has read (`old`), what it means to write and what it has written: the
copy of the row that it holds in memory is the row. That is what two requests on one order
would break. One lemma per step of the saga says where it leads. `PromoInv` adds that the
counter is the number of orders that count (a set, whose cardinality each creation, undoing
and cancellation changes by one). `ShipInv` adds what is known of inventory: calls of
different slots belong to different requests, an answer of success to a shipment means that
its movement was recorded, and recorded deductions stay (`DeductionsStay`).

`ReservedIsAccounted` has an invariant of its own beside `InCourse`, `HoldInv`. An order *holds* a
product if the movement log has its reservation and neither a release, a compensation nor a
deduction of it. `Accounts` says that what is reserved at a location is the sum of what
the orders holding the product want there; each transaction of inventory changes one order's
holding and the sum by the same number. `LinesKnown` says which products an order
holds: at rest, those of all its lines if it is open or was given up by the webhook
(`Stands`) and none otherwise (`Settled`); while a request works on it, those that the
request's step, its place in the loop over the lines
and the lines it got say it holds (`Owns`), but for the lines its call has just changed
(`Moved`). A webhook or the clean-up command changes nothing of that, as none of its calls is
accepted, and the cancelled order it leaves is one that `Stands`.
`CallsMade` ties each call to its request (`Fits`): it is the one the step asks for;
a release is never refused, because the units are there by `Accounts`, and a creation or a
shipment is never taken for a duplicate, because by `LinesKnown` its key is fresh. Nothing
is adrift (`NoneAdrift`), since no call is abandoned. The proof has one lemma per kind of
step. That two lines of one product break it is seen at `Settled`: the second line's units
would be wanted and not held.

**EventBus.** `Delivery` says that a delivery leaves the state "open" once. The
handler's own test for duplicates is not enough to show that: an event given up by its
sender must not have a copy anywhere that could be claimed later, and an event owed by
one process must not be owed by another. A copy that was refused unclaimed leaves the
delivery undecided ("refused" in `Delivery`): another copy may still be handled or be given
up. The invariant therefore has a senders' part
(an event is owed once, by one process, and nothing has come of it, nor of an event
not committed) and a consumers' part (what is in hand is claimed by one handler only
and neither handled nor missed; what was handled was claimed and not missed; what was
missed is claimed or has no copy left). One lemma covers the
senders' part and one the consumers' part of all steps that leave them alone; one lemma
per action does the rest. Every step is then a commit, a handling or a set of misses of
`Delivery`, or a stutter. A consumer that ends loses, in one such set, what it had claimed and
the copies it had unclaimed whose messages another one's acknowledgement had finished.

For `NothingLost` (`TraceInv`) the same has to be said the other way round: an event
that was committed and has no outcome is still to be sent or is with the queue, a row the
relay is about to delete has been sent and is kept there, what is claimed is worked on, and a
handler that is done has given its event an outcome. `NothingLostUnlessFailing` needs that
nothing comes to a queue that is not bound to it (`RightQueue`), and that before the first
failure every message in hand belongs to the present channel and is kept by the broker
(`Calm`): then nothing is refused, and an acknowledgement finishes its own message.

**Cart.** A removed product may be in the server's rows as long as its removal is on its
way; what makes the property inductive is that nothing else on its way can put it back:
no addition or merge that was sent is unserved while the product counts as gone
(`PutBack`), and a quantity changes no line that is not there. Three lemmas say what
sending, serving and answering a call do to that; `SaveMerge` is easy, because while a
merge is on its way nothing is gone.

For `ListFollowsServer` (`FInv`) it has to be said what the page shows while calls are on
their way. Either the list will be made anew (`Reloading`: a read or merge whose answer is
wanted, an addition, a removal that failed, a change of identity not noticed yet), or it
follows the server (`Following`): a line that is shown has a row, and the quantity shown is the
timer's, or the row's, or that of the last quantity sent, or one was lost and the line
will be looked up; a line that is not shown has no row or a removal on its way. "Last" is
taken from the calls that were under way when a call was sent, of which `Ordered` says
that of two quantities of a product one was sent after the other. A call that the page has been
told is lost goes on without it in another slot (`Late`), with its place among the others:
what the page then looks up or reads again is what it needs to follow. A write served out of that
order makes the list stale, by definition; one that is served in its turn makes the
row what the page shows.

**Notices.** The list holds of each notification nothing, a read or an unread entry,
which is `NoTwice` in the types. Beside that the invariant says that nothing is anywhere
before its row is, that what was ticked is read in the table, on the page and in the read
that is on its way, and that such a read lacks only what the page has not heard of. The
last one holds because every change of the page's list makes SWR drop the read; it is
what a write to the cache that bypasses SWR's `mutate` would break.

**Checkout.** For the address: the branch is none, or belongs to the carrier and city, or
to the showroom, at any time (`Place`), since each handler resets what depends on it.
For the orders: no article of the page, of the cart (once its clearing is through) or of
an order on its way is in an order that stands (`Ordered`), where the page is excepted
between the server's answer and the page's hearing of it. Every loss of an answer or of
the clearing is an excuse from then on.

**Returns.** A claim only moves on through ranks, and an effect starts at one of them.
Before its rank nothing was done (`Early`); at it, what was done is accounted for by a
transition that acted or by one that gave up after it had (`InTime`); afterwards it is what
the row says (`Late`). A transition that is under way has the row as it is or as it was
at an earlier rank, unless the claim is `raced`. `TypeOK` is part of this invariant, as the
columns of a row belong together only because of what `Ask` has tested. `ClaimsCovered`
follows from it: a claim takes units only by being filed, which adds up the others
under a lock, and every later step keeps its quantity or drops it; and when nothing is under
way, raced for or lost, something was or can be given once for a claim, and only if its units
count as taken.

**Model-checked only.** Liveness (`LowEventuallyAlerted`, `RequestsEnd`,
`PaymentSettles`, `EventuallySettled`, `SubmitEnds`) is out of the prover's reach. Every
safety property that a run checks is proved, under the hypotheses above.

## 7. What is not modelled

- **auth-service.** Sessions, tokens and passwords are kept by better-auth, a library
  whose code is not part of the repository; what the service adds, a cache of sessions in
  front of it and a counter of logins, has one hazard, listed in `PROJECT.json`.
- **Purchasing.** A purchase order's status is tested on an unlocked read (listed as a
  hazard); its receipt is an action of `Inventory`. Suggestions of what to reorder are
  computed from the levels and stored nowhere.
- **audit-service** appends what it receives, and acknowledges a failed insert on purpose.
- **Reports, the catalogue and the gateway** hold no state whose correctness depends on an
  order of steps.
- **Most of the front end**, which is most of the repository's lines: layout, tables, dialogs
  that send one request and read a list again, primitives, translations, generated types,
  and the sign-in pages, which call better-auth's client. A model of them would repeat
  their text. For this reason the modules account for a small part of the
  lines of TypeScript and for most of the code that keeps state between two steps.
- Of the modelled parts: prices and amounts, average cost, promo discounts (only the use
  count in `Orders` and the total they belong to in `Checkout`), the plain PATCH of an order
  by staff (status, `warehouse_id`, `paid_at`, `delivered_at`: a changed warehouse moves
  later releases and deductions to another stock row), deletion of warehouses and orders,
  webhooks that change nothing, the manual flush of the outbox, pages of the notification
  list, several tabs of one buyer.

## 8. Plan

Written so far, in this order, most important behaviour first: `Inventory`, `Orders` on top
of it, `Delivery` and `EventBus`, then `Cart`, `Notices`, `Checkout` and `Returns`, all with
their proofs.

What would come next:

1. `Purchasing`: purchase orders and receipts; "a closed order stays closed", "received is
   what the receipts say".
2. `Sync`: the denormalised stock of `product-service` behind `EventBus`, against the
   levels of `Inventory`: what it would show once its events arrive.
3. Lock order of transfers and receipts, as a small module about deadlock.
4. A proof of `ReservedAccounted` with repeated webhooks.

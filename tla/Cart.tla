-------------------------------- MODULE Cart --------------------------------
(***************************************************************************)
(* The shopping cart: the list a page shows (frontend/app/lib/hooks/       *)
(* use-cart.tsx), the panel it is edited in (ui/components/cart/           *)
(* cart-client.tsx), the calls it makes (lib/api/client.ts) and the rows   *)
(* the server keeps for an anonymous session and for a user                *)
(* (product-service/products/cart_views.py).                               *)
(*                                                                         *)
(* Quantity, removal and clearing change the list at once and the server   *)
(* follows; everything else changes the list when an answer arrives.       *)
(* Calls run side by side: the server serves them in any order, answers    *)
(* arrive in any order, any call or answer may be lost, and a call that    *)
(* was given up may be served late all the same.                           *)
(***************************************************************************)
EXTENDS Naturals

CONSTANTS
    Product,       \* products
    Slot,          \* bounds the calls in flight at one time
    MaxQuantity,   \* CartViewSet.MAX_QUANTITY
    MaxActs,       \* bounds what the buyer does
    MaxFailures,   \* bounds the calls and answers lost
    Nobody         \* no product

ASSUME CartAssumption ==
    /\ MaxQuantity \in Nat \ {0} /\ MaxActs \in Nat /\ MaxFailures \in Nat
    /\ Nobody \notin Product

VARIABLES
    cookie,     \* whose cart the gateway makes the calls work on
    known,      \* user?.id: whom the page believes to be signed in
    shown,      \* items: the quantity of each product on the page, 0 if absent
    timer,      \* pendingQty: the quantity an armed timer will send, 0 without
    calls,      \* the calls in flight
    carts,      \* CartItem rows: the quantity of each product, per cart
    stale,      \* history: the list was made from something outdated, or misses
                \* what the server did with a quantity out of range
    gone,       \* history: products taken out and not put in again since
    acts, failures

page == <<known, shown, timer>>
history == <<stale, gone>>
vars == <<cookie, page, calls, carts, history, acts, failures>>

Owner == {"session", "user"}
Lines == [Product -> Nat]
NoLines == [p \in Product |-> 0]
Unread == [o \in Owner |-> NoLines]

Reads == {"load", "again", "refresh"}         \* cartApi.get, by who asked
Writes == {"add", "update", "remove", "clear", "merge"}

\* One call: what it does, for whom, which earlier writes were on their way
\* when it was sent, what the server read, and whether its answer is of no use
\* any more.
CallType ==
    [op: {"add", "update", "remove"}, product: Product, as: Owner, qty: Nat,
     stage: {"sent", "read", "done", "failed"}, behind: SUBSET Slot,
     seen: [Owner -> Lines], cancelled: BOOLEAN]
    \union
    [op: Reads \union {"clear", "merge"}, product: {Nobody}, as: Owner, qty: {0},
     stage: {"sent", "read", "done", "failed"}, behind: SUBSET Slot,
     seen: [Owner -> Lines], cancelled: BOOLEAN]
Idle == [op |-> "idle"]

Busy(s) == calls[s] # Idle
Unserved(s) == Busy(s) /\ calls[s].op \in Writes /\ calls[s].stage \in {"sent", "read"}
Touches(c, p) == c.product = p \/ c.op \in {"clear", "merge"}
Armed == {p \in Product : timer[p] > 0}

Call(op, p, q) ==
    [op |-> op, as |-> cookie, product |-> p, qty |-> q, stage |-> "sent",
     behind |-> {s \in Slot : Unserved(s) /\ (p = Nobody \/ Touches(calls[s], p))},
     seen |-> Unread, cancelled |-> FALSE]

\* The buyer is free to act.
Acts == acts < MaxActs /\ acts' = acts + 1

\* apiCall, into a free slot.
Send(op, p, q) ==
    \E s \in Slot : ~Busy(s) /\ calls' = [calls EXCEPT ![s] = Call(op, p, q)]

-----------------------------------------------------------------------------
(* The page.                                                               *)

\* addItem: the list waits for the answer.
Add(p) ==
    /\ Acts /\ Send("add", p, 1)
    /\ gone' = gone \ {p}
    /\ UNCHANGED <<cookie, page, carts, stale, failures>>

\* What the panel offers: plus and minus, never below one but without an upper
\* bound; the cross of a line and its confirmation; emptying a cart that holds
\* something.
Offered(p) == {shown[p] - 1, shown[p] + 1} \ {0}
Removable(p) == shown[p] > 0
Clearable == shown # NoLines

\* updateQuantity: a click on plus or minus shows at once and rearms the timer.
UpdateQuantity(p, q) ==
    /\ Acts
    /\ shown[p] > 0 /\ q \in Offered(p)
    /\ shown' = [shown EXCEPT ![p] = q]
    /\ timer' = [timer EXCEPT ![p] = q]
    /\ UNCHANGED <<cookie, known, calls, carts, history, failures>>

\* What removeItem and clearCart do to the list and to its timers.
TakeOff(P) ==
    /\ timer' = [p \in Product |-> IF p \in P THEN 0 ELSE timer[p]]
    /\ shown' = [p \in Product |-> IF p \in P THEN 0 ELSE shown[p]]

\* An addition or a merge still on its way puts a product back rightly.
PutBack(p) == \E s \in Slot : Unserved(s) /\ calls[s].op \in {"add", "merge"}
                                /\ Touches(calls[s], p)

RemoveItem(p) ==
    /\ Acts /\ Removable(p)
    /\ TakeOff({p}) /\ Send("remove", p, 0)
    /\ gone' = IF PutBack(p) THEN gone ELSE gone \union {p}
    /\ UNCHANGED <<cookie, known, carts, stale, failures>>

ClearCart ==
    /\ Acts /\ Clearable
    /\ TakeOff(Product) /\ Send("clear", Nobody, 0)
    /\ gone' = gone \union {p \in Product : ~PutBack(p)}
    /\ UNCHANGED <<cookie, known, carts, stale, failures>>

\* The timer of a line fires.
Fire(p) ==
    /\ timer[p] > 0
    /\ timer' = [timer EXCEPT ![p] = 0]
    /\ Send("update", p, timer[p])
    /\ UNCHANGED <<cookie, known, shown, carts, history, acts, failures>>

\* The buyer signs in or out, as the page offers: from here on calls carry the
\* other identity.
Sign ==
    /\ Acts /\ known = cookie
    /\ cookie' = CHOOSE o \in Owner : o # cookie
    /\ gone' = {}
    /\ UNCHANGED <<page, calls, carts, stale, failures>>

\* user?.id changes: the effects of the old user are cancelled, and those of
\* the new one load the cart and, if somebody is signed in, merge.
Notice ==
    /\ known # cookie
    /\ known' = cookie
    /\ gone' = {}
    /\ \E s, t \in {s \in Slot : ~Busy(s)} :
          /\ s # t
          /\ calls' = [x \in Slot |->
                CASE x = s -> Call("load", Nobody, 0)
                  [] x = t /\ cookie = "user" -> Call("merge", Nobody, 0)
                  [] Busy(x) /\ calls[x].op \in {"load", "again", "merge"} ->
                        [calls[x] EXCEPT !.cancelled = TRUE]
                  [] OTHER -> calls[x]]
    /\ UNCHANGED <<cookie, shown, timer, carts, stale, acts, failures>>

-----------------------------------------------------------------------------
(* The server.                                                             *)

\* A write has been dealt with, and nothing waits for it any longer.
Served(s, stage, seen) ==
    [x \in Slot |->
        IF x = s THEN [calls[s] EXCEPT !.stage = stage, !.seen = seen, !.behind = {}]
        ELSE IF Busy(x) THEN [calls[x] EXCEPT !.behind = @ \ {s}] ELSE Idle]

\* Mutant: a quantity brings back a line that is gone.
WrittenUpsert(c) ==
    [p \in Product |->
        IF ~Touches(c, p) THEN carts[c.as][p]
        ELSE IF c.op = "update" THEN c.qty ELSE 0]

\* update_item: a line that is gone stays gone, a quantity out of range takes
\* the line out, with an answer like any other; remove_item and clear delete.
OutOfRange(c) == c.op = "update" /\ c.qty > MaxQuantity
Written(c) ==
    [p \in Product |->
        LET old == carts[c.as][p] IN
        IF ~Touches(c, p) THEN old
        ELSE IF c.op = "update" /\ old > 0 /\ ~OutOfRange(c) THEN c.qty
        ELSE 0]

Write(s) ==
    LET c == calls[s] IN
    /\ Busy(s) /\ c.op \in {"update", "remove", "clear"} /\ c.stage = "sent"
    /\ carts' = [carts EXCEPT ![c.as] = Written(c)]
    /\ calls' = Served(s, "done", Unread)
    /\ stale' = (stale \/ c.behind # {} \/ OutOfRange(c))
    /\ UNCHANGED <<cookie, page, gone, acts, failures>>

\* list
Read(s) ==
    LET c == calls[s] IN
    /\ Busy(s) /\ c.op \in Reads /\ c.stage = "sent"
    /\ calls' = Served(s, "done", [Unread EXCEPT ![c.as] = carts[c.as]])
    /\ UNCHANGED <<cookie, page, carts, history, acts, failures>>

\* add_item and merge read first and save later. get_or_create makes an
\* absent line at once, with the default quantity of one.
Begin(s) ==
    LET c == calls[s] IN
    /\ Busy(s) /\ c.stage = "sent"
    /\ \/ /\ c.op = "add"
          /\ carts' = [carts EXCEPT ![c.as][c.product] = IF @ = 0 THEN 1 ELSE @]
       \/ c.op = "merge" /\ c.as = "user" /\ UNCHANGED carts
    /\ calls' = [calls EXCEPT ![s].stage = "read", ![s].seen =
                   IF c.op = "add" THEN [Unread EXCEPT ![c.as] = carts[c.as]] ELSE carts]
    /\ UNCHANGED <<cookie, page, history, acts, failures>>

SaveAdd(s) ==
    LET c == calls[s] IN
    /\ Busy(s) /\ c.op = "add" /\ c.stage = "read"
    /\ carts' = [carts EXCEPT ![c.as][c.product] = c.seen[c.as][c.product] + c.qty]
    /\ calls' = Served(s, "done", Unread)
    /\ stale' = (stale \/ c.behind # {})
    /\ UNCHANGED <<cookie, page, gone, acts, failures>>

\* merge: the lines read in the session cart are added to the user's, read
\* then or since, and whatever the session cart holds is deleted.
SaveMerge(s) ==
    LET c == calls[s] IN
    /\ Busy(s) /\ c.op = "merge" /\ c.stage = "read"
    /\ \E base \in {c.seen["user"], carts["user"]} :
          carts' = [o \in Owner |-> [p \in Product |->
                      IF o = "session" THEN 0
                      ELSE IF c.seen["session"][p] = 0 THEN carts["user"][p]
                      ELSE base[p] + c.seen["session"][p]]]
    /\ calls' = Served(s, "done", carts')
    /\ stale' = (stale \/ c.behind # {})
    /\ UNCHANGED <<cookie, page, gone, acts, failures>>

\* The page is told that the call failed, and the server serves it all the same
\* when it comes to it.
Late(s, t) ==
    [x \in Slot |->
        CASE x = s -> [calls[s] EXCEPT !.stage = "failed", !.seen = Unread, !.behind = {}]
          [] x = t -> [calls[s] EXCEPT !.cancelled = TRUE]
          [] x \notin {s, t} /\ Busy(x) ->
                [calls[x] EXCEPT !.behind = IF s \in @ THEN (@ \ {s}) \union {t} ELSE @]
          [] OTHER -> Idle]

\* A call is lost, the worker dies that serves it, or its answer is lost; or the
\* reverse proxy gives up waiting for a server that goes on.
Fail(s) ==
    LET c == calls[s] IN
    /\ Busy(s) /\ c.stage # "failed" /\ failures < MaxFailures
    /\ failures' = failures + 1
    /\ \/ /\ calls' = Served(s, "failed", Unread)
          /\ gone' = IF Unserved(s) /\ c.op \in {"remove", "clear"}
                       THEN {p \in gone : ~Touches(c, p)} ELSE gone
       \/ /\ Unserved(s) /\ ~c.cancelled
          /\ \E t \in Slot : ~Busy(t) /\ calls' = Late(s, t)
          /\ UNCHANGED gone
    /\ UNCHANGED <<cookie, page, carts, stale, acts>>

-----------------------------------------------------------------------------
(* Answers.                                                                *)

\* setItems(cartResponseToItems(...)): the list becomes what was read.
Show(s) ==
    LET lines == calls[s].seen[calls[s].as] IN
    /\ shown' = lines
    /\ stale' = \/ lines # carts[cookie] \/ Armed # {}
                \/ \E x \in Slot : Unserved(x)
    /\ UNCHANGED <<known, timer>>

Forget(s) == calls' = [calls EXCEPT ![s] = Idle]
\* Mutant: the next call is the old one with another address.
FollowReusing(s, op) == calls' = [calls EXCEPT ![s].op = op, ![s].stage = "sent"]
Follow(s, op) == calls' = [calls EXCEPT ![s] = [Call(op, Nobody, 0) EXCEPT !.behind = {}]]

\* The effects and refreshCart: a failed read leaves the list as it is.
AnswerRead(s) ==
    LET c == calls[s] IN
    /\ Busy(s) /\ c.op \in Reads /\ c.stage \in {"done", "failed"}
    /\ Forget(s)
    /\ \/ c.cancelled /\ UNCHANGED <<page, stale>>
       \/ ~c.cancelled /\ c.stage = "done" /\ Show(s)
       \/ ~c.cancelled /\ c.stage = "failed" /\ stale' = TRUE /\ UNCHANGED page
    /\ UNCHANGED <<cookie, carts, gone, acts, failures>>

AnswerMerge(s) ==
    LET c == calls[s] IN
    /\ Busy(s) /\ c.op = "merge" /\ c.stage \in {"done", "failed"}
    /\ \/ c.cancelled /\ Forget(s) /\ UNCHANGED <<page, stale>>
       \/ ~c.cancelled /\ c.stage = "done" /\ Forget(s) /\ Show(s)
       \/ ~c.cancelled /\ c.stage = "failed" /\ Follow(s, "again") /\ UNCHANGED <<page, stale>>
    /\ UNCHANGED <<cookie, carts, gone, acts, failures>>

\* Mutant: errors are not looked at.
ReadsAgainAfterAdding(c) == c.op = "add"

\* addItem always reads the cart again, the others after an error; a quantity
\* only if no newer timer is armed for the line.
ReadsAgain(c) ==
    \/ c.op = "add"
    \/ c.stage = "failed" /\ (c.op = "update" => timer[c.product] = 0)

AnswerWrite(s) ==
    LET c == calls[s] IN
    /\ Busy(s) /\ c.op \in Writes \ {"merge"} /\ c.stage \in {"done", "failed"}
    /\ IF ~c.cancelled /\ ReadsAgain(c) THEN Follow(s, "refresh") ELSE Forget(s)
    /\ UNCHANGED <<cookie, page, carts, history, acts, failures>>

-----------------------------------------------------------------------------
\* A page is opened, by an anonymous visitor or by a user, on carts that may
\* hold something; the session hook has not answered yet.
Init ==
    /\ cookie \in Owner /\ known = "session"
    /\ shown = NoLines /\ timer = NoLines
    /\ carts \in [Owner -> [Product -> {0, 1}]]
    /\ \E s \in Slot : calls = [x \in Slot |->
          IF x # s THEN Idle
          ELSE [op |-> "load", as |-> cookie, product |-> Nobody, qty |-> 0,
                stage |-> "sent", behind |-> {}, seen |-> Unread,
                cancelled |-> FALSE]]
    /\ stale = FALSE /\ gone = {} /\ acts = 0 /\ failures = 0

Buyer ==
    \/ \E p \in Product : Add(p) \/ RemoveItem(p)
    \/ \E p \in Product : \E q \in Offered(p) : UpdateQuantity(p, q)
    \/ ClearCart \/ Sign

Server(s) == Write(s) \/ Read(s) \/ Begin(s) \/ SaveAdd(s) \/ SaveMerge(s)
Answer(s) == AnswerRead(s) \/ AnswerMerge(s) \/ AnswerWrite(s)

Next ==
    \/ Buyer \/ Notice
    \/ \E p \in Product : Fire(p)
    \/ \E s \in Slot : Server(s) \/ Fail(s) \/ Answer(s)

Spec == Init /\ [][Next]_vars

-----------------------------------------------------------------------------
(* Properties.                                                             *)

TypeOK ==
    /\ cookie \in Owner /\ known \in Owner
    /\ shown \in Lines /\ timer \in Lines
    /\ calls \in [Slot -> CallType \union {Idle}]
    /\ carts \in [Owner -> Lines]
    /\ stale \in BOOLEAN /\ gone \in SUBSET Product
    /\ acts \in 0 .. MaxActs /\ failures \in 0 .. MaxFailures

AtRest == known = cookie /\ Armed = {} /\ \A s \in Slot : ~Busy(s)

\* A product the buyer took out of the cart does not come back to it once the
\* server has taken it out: no timer, no quantity and no retry that was on its
\* way restores the line (removeItem and clearCart, use-cart.tsx:102-110 and
\* 126-132; update_item changes no line that is not there, cart_views.py:174).
RemovedStaysOut ==
    \A p \in gone :
        \/ carts[cookie][p] = 0
        \/ \E s \in Slot : Unserved(s) /\ calls[s].op \in {"remove", "clear"}
                             /\ Touches(calls[s], p)

\* When nothing is on its way any more the list is what the server keeps for
\* whoever is signed in (use-cart.tsx:49-132), unless it was made from a read
\* that an edit or another write had outdated (a call the page gave up and the
\* server served late among them), from writes served out of order or after a
\* read that failed, or a quantity above MAX_QUANTITY was sent: the server takes
\* such a line out and answers as always (cart_views.py:171-172), and the page
\* goes on showing it. Optimistic edits, timers, errors and the two effects of a
\* login leave no other way for the two to differ.
OnlyStaleReads == AtRest /\ ~stale => shown = carts[cookie]

\* A quantity the buyer has set stays on the page at least until it was sent:
\* "show what it kept unless the user moved on" (use-cart.tsx:121).  The code
\* violates it with any other answer that sets the list, such as that of an
\* addition (use-cart.tsx:84-96), so no configuration checks it.
EditStays == \A p \in Product : timer[p] > 0 => shown[p] = timer[p]
=============================================================================

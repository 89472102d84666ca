------------------------------ MODULE Checkout ------------------------------
(***************************************************************************)
(* The checkout page of the shop (frontend/app/[locale]/checkout): a form  *)
(* whose parts depend on one another and on lists that are fetched while   *)
(* the buyer goes on, a promo code that is checked whenever the total      *)
(* changes, and a submission of several calls: create the order, clear the *)
(* cart without waiting for it, start the payment, save the buyer's        *)
(* details.  Any call or answer may fail, and the page may be reloaded or  *)
(* left in the middle.                                                     *)
(*                                                                         *)
(* The cart itself is in Cart, what order-service does with an order in    *)
(* Orders; here the first is a set of units and the second an outcome.     *)
(***************************************************************************)
EXTENDS Naturals, Sequences

CONSTANTS
    City, Showroom,
    Unit,          \* single articles that may be in the cart
    MaxEdits,      \* bounds what the buyer enters
    MaxFailures,   \* bounds the calls and answers lost
    MaxOrders,     \* bounds the orders placed
    None

ASSUME CheckoutAssumption ==
    /\ MaxEdits \in Nat /\ MaxFailures \in Nat /\ MaxOrders \in Nat
    /\ None \notin City \union Showroom

VARIABLES
    city, type, branch, service, showroom,    \* sections "city" and "delivery"
    own, marked, self, other,                 \* sections "info" and "receiver"
    cached,      \* the branch lists SWR has, by carrier and city
    shown, kept, \* the units in the cart: on the page, and on the server
    clear,       \* the call that clears the cart
    promo,       \* the units the discount on the page was computed for
    checks,      \* the units promo checks in flight were asked for
    checking,    \* the button that applies a code is disabled
    page, user,  \* what is open, and whether somebody is signed in
    submitting,  \* the button that confirms is disabled
    call,        \* the call handleSubmit, or pay of the order page, waits for
    orders,      \* orders placed: their units, and whether they stand
    outdated,    \* history: the discount was for another total when it came
    excused,     \* history: something was lost between an order and the cart
    edits, failures

delivery == <<city, type, branch, service, showroom>>
contact == <<own, marked, self, other>>
cart == <<shown, kept, clear>>
code == <<promo, checks, checking, outdated>>
sale == <<page, user, submitting, call, orders, excused>>
bounds == <<edits, failures>>
vars == <<delivery, contact, cached, cart, code, sale, bounds>>

Carrier == {"nova_poshta", "ukrposhta"}
Method == Carrier \union {"pickup", "other_courier"}
Branch == (Carrier \X City) \union ({"pickup"} \X Showroom)

NoCall == [op |-> "none", stage |-> "none", order |-> None]
Call(op, order) == [op |-> op, stage |-> "sent", order |-> order]
Waiting(op) == call.op = op

Filling == page = "form" /\ shown # {}
Edits == Filling /\ edits < MaxEdits /\ edits' = edits + 1

-----------------------------------------------------------------------------
(* Where the order goes.                                                   *)

\* handleCitySelect: the branch and the showroom were of another city.
SelectCity(c) ==
    /\ Edits
    /\ city' = c /\ branch' = None /\ showroom' = None
    /\ UNCHANGED <<type, service, contact, cached, cart, code, sale, failures>>

\* handleDeliveryTypeChange
SelectType(t) ==
    /\ Edits /\ t # type
    /\ type' = t /\ branch' = None /\ service' = FALSE /\ showroom' = None
    /\ UNCHANGED <<city, contact, cached, cart, code, sale, failures>>

\* The lists of branches are fetched for the carrier and the city chosen.
Key == <<type, city>>
Fetched ==
    /\ Filling /\ type \in Carrier /\ city # None
    /\ cached' = cached \union {Key}
    /\ UNCHANGED <<delivery, contact, cart, code, sale, bounds>>

\* Mutant: keepPreviousData, as useApiGet has it.
OfferedKeepingPrevious == IF cached = {} THEN {} ELSE cached

\* The list on the page: of the key, or none while it is not there.
Offered == {Key} \intersect cached

\* handleWarehouseSelect, or the field that stands in for an empty or failed
\* list of Ukrposhta.
SelectBranch(b) ==
    /\ Edits /\ type \in Carrier /\ b[1] = type
    /\ b \in Offered \/ (type = "ukrposhta" /\ b = Key /\ Offered = {})
    /\ city # None
    /\ branch' = b
    /\ UNCHANGED <<city, type, service, showroom, contact, cached, cart, code,
                   sale, failures>>

\* setOtherDeliveryService
SelectService ==
    /\ Edits /\ type = "other_courier"
    /\ service' = TRUE
    /\ UNCHANGED <<city, type, branch, showroom, contact, cached, cart, code,
                   sale, failures>>

\* handleShowroomSelect
SelectShowroom(r) ==
    /\ Edits /\ type = "pickup"
    /\ showroom' = r /\ branch' = <<"pickup", r>>
    /\ UNCHANGED <<city, type, service, contact, cached, cart, code, sale, failures>>

-----------------------------------------------------------------------------
(* Who gets it.                                                            *)

\* handleNameChange, handleEmailChange, handlePhoneChange
ChangeOwn(v) ==
    /\ Edits /\ own' = v /\ marked' = FALSE
    /\ UNCHANGED <<delivery, self, other, cached, cart, code, sale, failures>>

\* handleBlur, handlePhoneBlur: a field left with something wrong is marked.
Blur ==
    /\ Filling /\ marked' = (own = "wrong")
    /\ UNCHANGED <<delivery, own, self, other, cached, cart, code, sale, bounds>>

\* setIsSelfReceiver, setReceiverName, handleReceiverPhoneChange
ChangeReceiver(s, v) ==
    /\ Edits /\ self' = s /\ other' = v
    /\ s => v = other
    /\ UNCHANGED <<delivery, own, marked, cached, cart, code, sale, failures>>

-----------------------------------------------------------------------------
(* The total and the promo code.                                           *)

\* Mutant: only the form asks.
AskedNever(units) == {}

\* The effect on [subtotal] asks again if a code is applied.
Asked(units) == IF promo # None /\ units # {} THEN {units} ELSE {}

Shows(units) ==
    /\ shown' = units
    /\ checks' = checks \union Asked(units)
    /\ checking' = ((checking /\ shown # {}) \/ Asked(units) # {})

\* A unit that was not sold yet.
Fresh == Unit \ UNION {shown, kept, UNION {orders[i].units : i \in DOMAIN orders}}

\* handleQuantityChange: one more, or one less but never none. The timer of
\* the cart is in Cart.
ChangeQuantity ==
    /\ Edits
    /\ \/ \E u \in Fresh : Shows(shown \union {u})
       \/ \E u \in shown : shown # {u} /\ Shows(shown \ {u})
    /\ kept' = shown'
    /\ UNCHANGED <<delivery, contact, cached, clear, promo, outdated, sale, failures>>

\* check, from the form of the code
Apply ==
    /\ Edits /\ promo = None /\ ~checking
    /\ checks' = checks \union {shown} /\ checking' = TRUE
    /\ UNCHANGED <<delivery, contact, cached, cart, promo, outdated, sale, failures>>

\* The cross beside an applied code.
RemoveCode ==
    /\ Edits /\ promo # None
    /\ promo' = None
    /\ UNCHANGED <<delivery, contact, cached, cart, checks, checking, outdated,
                   sale, failures>>

\* An answer, in any order; an error takes the code away.
AnswerCheck(units) ==
    /\ units \in checks /\ checks' = checks \ {units} /\ checking' = FALSE
    /\ promo' \in {units, None}
    /\ outdated' = (units # shown)
    /\ UNCHANGED <<delivery, contact, cached, cart, sale, bounds>>

-----------------------------------------------------------------------------
(* handleSubmit.                                                           *)

\* getSectionStatuses finds no section in error.
DeliveryFilled ==
    \/ type = "pickup" /\ showroom # None
    \/ type # "pickup" /\ branch # None
    \/ type = "other_courier" /\ service
\* Mutant: the city is not asked for.
CompleteAnywhere == DeliveryFilled /\ own = "right" /\ ~marked /\ (self \/ other = "right")

Complete ==
    /\ city # None /\ DeliveryFilled
    /\ own = "right" /\ ~marked
    /\ self \/ other = "right"

Order == [units |-> shown, city |-> city, type |-> type, branch |-> branch,
          service |-> service, showroom |-> showroom]

\* An incomplete form is only marked.
Submit ==
    /\ Filling /\ ~submitting /\ Complete
    /\ submitting' = TRUE
    /\ call' = Call("create", Order)
    /\ UNCHANGED <<delivery, contact, cached, cart, code, page, user, orders,
                   excused, bounds>>

Settled(stage) == call' = [call EXCEPT !.stage = stage]

\* OrderViewSet.create refuses, places the order, or places it and cancels it
\* because the stock could not be reserved.
ServeCreate ==
    /\ Waiting("create") /\ call.stage = "sent"
    /\ \/ Settled("failed") /\ UNCHANGED orders
       \/ /\ Len(orders) < MaxOrders
          /\ \E stands \in BOOLEAN :
               /\ Settled(IF stands THEN "served" ELSE "failed")
               /\ orders' = Append(orders, [units |-> call.order.units, stands |-> stands])
    /\ UNCHANGED <<delivery, contact, cached, cart, code, page, user, submitting,
                   excused, bounds>>

\* pay of the order, or authClient.updateUser
ServeOther ==
    /\ call.op \in {"pay", "save", "repay"} /\ call.stage = "sent"
    /\ \E stage \in {"served", "failed"} : Settled(stage)
    /\ UNCHANGED <<delivery, contact, cached, cart, code, page, user, submitting,
                   orders, excused, bounds>>

\* Mutant: the cart is cleared by the page of a successful payment.
ClearedLater == UNCHANGED <<shown, clear, checks, checking>>

\* clearCart, which nobody waits for
Cleared == Shows({}) /\ clear' = "sent"

\* Mutant: the error path forgets it.
EnabledNever == submitting' = submitting

\* setSubmitting(false)
Enabled == submitting' = FALSE

AnswerCreate ==
    /\ Waiting("create") /\ call.stage \in {"served", "failed"}
    /\ IF call.stage = "failed"
       THEN /\ Enabled /\ call' = NoCall
            /\ UNCHANGED <<cart, checks, checking>>
       ELSE /\ Cleared /\ call' = Call("pay", None)
            /\ UNCHANGED <<kept, submitting>>
    /\ UNCHANGED <<delivery, contact, cached, promo, outdated, page, user,
                   orders, excused, bounds>>

\* The browser leaves for Stripe: calls still on their way may be cut off.
Pays ==
    /\ page' = "payment" /\ call' = NoCall
    /\ excused' = (excused \/ clear = "sent")

\* An error opens /checkout?order_id=, where the page only shows the order. A
\* user who ticked a box has the details saved first.
AnswerPay ==
    /\ Waiting("pay") /\ call.stage \in {"served", "failed"}
    /\ \/ /\ call.stage = "failed" /\ page' = "resume" /\ call' = NoCall
          /\ UNCHANGED excused
       \/ call.stage = "served" /\ user /\ call' = Call("save", None)
          /\ UNCHANGED <<page, excused>>
       \/ call.stage = "served" /\ Pays
    /\ UNCHANGED <<delivery, contact, cached, cart, code, user, submitting,
                   orders, bounds>>

\* saveDetails swallows its errors.
AnswerSave ==
    /\ Waiting("save") /\ call.stage \in {"served", "failed"} /\ Pays
    /\ UNCHANGED <<delivery, contact, cached, cart, code, user, submitting,
                   orders, bounds>>

\* clearCart: the server's half, and what the page does after an error, while
\* it is still there.
ServeClear ==
    /\ clear = "sent" /\ clear' = "none" /\ kept' = {}
    /\ UNCHANGED <<delivery, contact, cached, shown, code, sale, bounds>>

FailClear ==
    /\ clear = "sent" /\ failures < MaxFailures /\ failures' = failures + 1
    /\ clear' = "none" /\ excused' = TRUE
    /\ IF page # "payment" THEN Shows(kept) ELSE UNCHANGED <<shown, checks, checking>>
    /\ UNCHANGED <<delivery, contact, cached, kept, promo, outdated, page, user,
                   submitting, call, orders, edits>>

\* A call is lost before or after the server did its part.
FailCall ==
    /\ call.stage \in {"sent", "served"} /\ failures < MaxFailures
    /\ failures' = failures + 1 /\ Settled("failed")
    /\ excused' = (excused \/ (Waiting("create") /\ call.stage = "served"))
    /\ UNCHANGED <<delivery, contact, cached, cart, code, page, user, submitting,
                   orders, edits>>

-----------------------------------------------------------------------------
(* Other pages.                                                            *)

\* The button of /checkout?order_id=, and Stripe's link back to it.
View ==
    /\ page \in {"resume", "payment"} /\ page' = "order"
    /\ shown' = IF page = "payment" THEN kept ELSE shown
    /\ UNCHANGED <<delivery, contact, cached, kept, clear, code, user, submitting,
                   call, orders, excused, bounds>>

\* pay of the order page, which only shows orders to their account
PayOrder ==
    /\ page = "order" /\ user /\ call = NoCall /\ orders[Len(orders)].stands
    /\ call' = Call("repay", None)
    /\ UNCHANGED <<delivery, contact, cached, cart, code, page, user, submitting,
                   orders, excused, bounds>>

AnswerPayOrder ==
    /\ Waiting("repay") /\ call.stage \in {"served", "failed"}
    /\ IF call.stage = "served" THEN Pays
       ELSE call' = NoCall /\ UNCHANGED <<page, excused>>
    /\ UNCHANGED <<delivery, contact, cached, cart, code, user, submitting,
                   orders, bounds>>

NewForm ==
    /\ city' = None /\ type' = "pickup" /\ branch' = None
    /\ service' = FALSE /\ showroom' = None
    /\ own' \in (IF user THEN {"right"} ELSE {"wrong"}) /\ marked' = FALSE
    /\ self' = TRUE /\ other' = "wrong"
    /\ cached' = {}
    /\ promo' = None /\ checks' = {} /\ checking' = FALSE /\ outdated' = FALSE
    /\ page' = "form" /\ submitting' = FALSE /\ call' = NoCall

\* The buyer shops on and opens the checkout again. The list of the cart is
\* read when the shop is loaded and after every addition.
Return ==
    /\ page \in {"resume", "order", "payment"} /\ call = NoCall
    /\ NewForm
    /\ \E more \in SUBSET Fresh :
         LET read == page = "payment" \/ more # {} IN
         /\ kept' = kept \union more
         /\ shown' = IF read THEN kept' ELSE shown
         /\ excused' = (excused \/ (read /\ clear = "sent"))
    /\ UNCHANGED <<clear, user, orders, bounds>>

\* The page is reloaded, whatever it was waiting for.
Reload ==
    /\ page = "form" /\ failures < MaxFailures /\ failures' = failures + 1
    /\ NewForm /\ shown' = kept
    /\ excused' = \/ excused \/ clear = "sent"
                  \/ Waiting("create") /\ call.stage = "served"
    /\ UNCHANGED <<kept, clear, user, orders, edits>>

-----------------------------------------------------------------------------
Init ==
    /\ user \in BOOLEAN
    /\ city = None /\ type = "pickup" /\ branch = None
    /\ service = FALSE /\ showroom = None
    /\ own = (IF user THEN "right" ELSE "wrong") /\ marked = FALSE
    /\ self = TRUE /\ other = "wrong"
    /\ cached = {}
    /\ kept \in SUBSET Unit /\ shown = kept /\ clear = "none"
    /\ promo = None /\ checks = {} /\ checking = FALSE /\ outdated = FALSE
    /\ page = "form" /\ submitting = FALSE /\ call = NoCall
    /\ orders = << >> /\ excused = FALSE /\ edits = 0 /\ failures = 0

Form ==
    \/ \E c \in City : SelectCity(c)
    \/ \E t \in Method : SelectType(t)
    \/ \E b \in Branch : SelectBranch(b)
    \/ \E r \in Showroom : SelectShowroom(r)
    \/ SelectService
    \/ \E v \in {"wrong", "right"} : ChangeOwn(v)
    \/ \E s \in BOOLEAN, v \in {"wrong", "right"} : ChangeReceiver(s, v)
    \/ Blur \/ ChangeQuantity \/ Apply \/ RemoveCode
    \/ Submit

Served == ServeCreate \/ ServeOther \/ ServeClear
Answer == AnswerCreate \/ AnswerPay \/ AnswerSave \/ AnswerPayOrder

Next ==
    \/ Form \/ Served \/ Answer
    \/ Fetched \/ \E units \in SUBSET Unit : AnswerCheck(units)
    \/ FailClear \/ FailCall
    \/ View \/ PayOrder \/ Return \/ Reload

\* A browser ends every call it has started, with an answer or an error.
Fairness == WF_vars(ServeCreate) /\ WF_vars(ServeOther) /\ WF_vars(Answer)

Spec == Init /\ [][Next]_vars /\ Fairness

-----------------------------------------------------------------------------
(* Properties.                                                             *)

OrderType == [units: SUBSET Unit, city: City, type: Method,
              branch: Branch \union {None}, service: BOOLEAN,
              showroom: Showroom \union {None}]

TypeOK ==
    /\ city \in City \union {None} /\ type \in Method
    /\ branch \in Branch \union {None}
    /\ service \in BOOLEAN /\ showroom \in Showroom \union {None}
    /\ own \in {"wrong", "right"} /\ other \in {"wrong", "right"}
    /\ marked \in BOOLEAN /\ self \in BOOLEAN
    /\ cached \in SUBSET (Carrier \X City)
    /\ shown \in SUBSET Unit /\ kept \in SUBSET Unit
    /\ clear \in {"none", "sent"}
    /\ promo \in (SUBSET Unit) \union {None} /\ checks \in SUBSET SUBSET Unit
    /\ page \in {"form", "resume", "payment", "order"}
    /\ {checking, user, submitting, outdated, excused} \subseteq BOOLEAN
    /\ call \in [op: {"create"}, stage: {"sent", "served", "failed"}, order: OrderType]
             \union [op: {"pay", "save", "repay"},
                     stage: {"sent", "served", "failed"}, order: {None}]
             \union {NoCall}
    /\ orders \in Seq([units: SUBSET Unit, stands: BOOLEAN])
    /\ edits \in 0 .. MaxEdits /\ failures \in 0 .. MaxFailures

\* Whatever the buyer changed his mind about, and however late the lists of
\* branches came, an order that is sent names a place its goods can go to: the
\* showroom it reserves from, a branch of its carrier in its city, or a
\* courier (handleCitySelect and handleDeliveryTypeChange, page.tsx:448-462;
\* keepPreviousData, use-api-data.ts:364).
AddressFits ==
    Waiting("create") =>
        LET o == call.order IN
        /\ o.type = "pickup" => o.branch = <<"pickup", o.showroom>>
        /\ o.type \in Carrier => o.branch = <<o.type, o.city>>
        /\ o.type = "other_courier" => o.service /\ o.branch = None

\* No article is in two orders that stand, unless an answer to the first one
\* was lost, its cart could not be cleared, or the page went away before it was
\* (page.tsx:375-388).
OrderedOnce ==
    excused \/ \A i, j \in DOMAIN orders :
        i # j /\ orders[i].stands /\ orders[j].stands
            => orders[i].units \intersect orders[j].units = {}

\* "The cart changed: a percentage or a minimum amount may no longer give the
\* same discount" (promo-code.tsx:45): the discount on the page is the one for
\* its total, or the page is asking, unless an answer came that was outdated.
PromoFollowsTotal ==
    Filling /\ promo # None => promo = shown \/ outdated \/ shown \in checks

\* Every submission ends: at the payment, at the order, or with the button
\* enabled again (page.tsx:337-403).
SubmitEnds == submitting ~> (~submitting \/ page # "form")
=============================================================================

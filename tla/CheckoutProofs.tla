--------------------------- MODULE CheckoutProofs ---------------------------
(***************************************************************************)
(* Proofs about the checkout page, for every set of cities, showrooms and  *)
(* articles and every number of edits, failures and orders.                *)
(***************************************************************************)
EXTENDS Checkout, TLAPS

\* TypeOK by part.
FormTyped ==
    /\ city \in City \union {None} /\ type \in Method
    /\ branch \in Branch \union {None}
    /\ service \in BOOLEAN /\ showroom \in Showroom \union {None}
    /\ own \in {"wrong", "right"} /\ other \in {"wrong", "right"}
    /\ marked \in BOOLEAN /\ self \in BOOLEAN
    /\ cached \in SUBSET (Carrier \X City)
GoodsTyped ==
    /\ shown \in SUBSET Unit /\ kept \in SUBSET Unit
    /\ clear \in {"none", "sent"}
    /\ promo \in (SUBSET Unit) \union {None} /\ checks \in SUBSET SUBSET Unit
    /\ checking \in BOOLEAN /\ outdated \in BOOLEAN
Calls == [op: {"create"}, stage: {"sent", "served", "failed"}, order: OrderType]
         \union [op: {"pay", "save", "repay"},
                 stage: {"sent", "served", "failed"}, order: {None}]
         \union {NoCall}
Sale == [units: SUBSET Unit, stands: BOOLEAN]
SaleTyped ==
    /\ page \in {"form", "resume", "payment", "order"}
    /\ user \in BOOLEAN /\ submitting \in BOOLEAN /\ excused \in BOOLEAN
    /\ call \in Calls /\ orders \in Seq(Sale)
Bounded == edits \in 0 .. MaxEdits /\ failures \in 0 .. MaxFailures
Typed == FormTyped /\ GoodsTyped /\ SaleTyped /\ Bounded

\* Where the branch and the showroom of the form can come from.
Place(t, c, b, r) ==
    /\ r # None => t = "pickup"
    /\ t = "pickup" => b = IF r = None THEN None ELSE <<"pickup", r>>
    /\ t \in Carrier => b \in {None, <<t, c>>}
    /\ t = "other_courier" => b = None

Fits(o) ==
    /\ o.type = "pickup" => o.branch = <<"pickup", o.showroom>>
    /\ o.type \in Carrier => o.branch = <<o.type, o.city>>
    /\ o.type = "other_courier" => o.service /\ o.branch = None

Addressed == Place(type, city, branch, showroom) /\ (Waiting("create") => Fits(call.order))

\* What was ordered, and what the cart may hold of it: nothing, once its
\* clearing is through; the page nothing, once it knows of the order.
Sold(u) == \E i \in DOMAIN orders : orders[i].stands /\ u \in orders[i].units
Unsold(U) == \A u \in U : ~Sold(u)
Placed == Waiting("create") /\ call.stage = "served"

Ordered ==
    /\ \A i, j \in DOMAIN orders :
           i # j /\ orders[i].stands /\ orders[j].stands
               => orders[i].units \intersect orders[j].units = {}
    /\ Waiting("create") /\ call.stage = "sent" => Unsold(call.order.units)
    /\ ~Placed => Unsold(shown)
    /\ ~Placed /\ clear = "none" => Unsold(kept)
    /\ page = "payment" => clear = "none"

Submitting == Waiting("create") => page = "form" /\ submitting
Sales == excused \/ Ordered

CInv == Typed /\ Addressed /\ Submitting /\ Sales /\ PromoFollowsTotal

-----------------------------------------------------------------------------
\* A page that is opened satisfies the invariant.
LEMMA Base == Init => CInv
<1> SUFFICES ASSUME Init PROVE CInv
  OBVIOUS
<1>1. Typed
  <2>1. FormTyped
    BY DEF Init, FormTyped, Method, Carrier
  <2>2. GoodsTyped
    BY DEF Init, GoodsTyped
  <2>3. SaleTyped
    <3>1. NoCall \in Calls /\ << >> \in Seq(Sale)
      BY DEF Calls
    <3> QED BY <3>1 DEF Init, SaleTyped
  <2>4. Bounded
    BY CheckoutAssumption DEF Init, Bounded
  <2> QED BY <2>1, <2>2, <2>3, <2>4 DEF Typed
<1>2. Addressed /\ Submitting
  BY DEF Init, Addressed, Place, Waiting, NoCall, Carrier, Submitting
<1>3. Sales
  BY DEF Init, Sales, Ordered, Placed, Waiting, NoCall, Unsold, Sold
<1>4. PromoFollowsTotal
  BY DEF Init, PromoFollowsTotal
<1> QED BY <1>1, <1>2, <1>3, <1>4 DEF CInv

\* What is entered about the place and the people concerns neither the cart nor
\* the sale.
LEMMA Elsewhere ==
    ASSUME CInv, UNCHANGED <<cart, code, sale>>
    PROVE  /\ GoodsTyped' /\ SaleTyped'
           /\ Submitting' /\ Sales' /\ PromoFollowsTotal'
           /\ (Waiting("create") => Fits(call.order))'
<1>1. /\ UNCHANGED <<shown, kept, clear, promo, checks, checking, outdated>>
      /\ UNCHANGED <<page, user, submitting, call, orders, excused>>
  BY DEF cart, code, sale
<1>2. Submitting' /\ (Waiting("create") => Fits(call.order))'
  BY <1>1 DEF CInv, Submitting, Waiting, Addressed, Fits
<1>3. Sales'
  BY <1>1 DEF CInv, Sales, Ordered, Placed, Waiting, Unsold, Sold
<1>4. PromoFollowsTotal'
  BY <1>1 DEF CInv, PromoFollowsTotal, Filling
<1>5. GoodsTyped' /\ SaleTyped'
  BY <1>1 DEF CInv, Typed, GoodsTyped, SaleTyped
<1> QED BY <1>2, <1>3, <1>4, <1>5

\* Another city takes the branch and the showroom away with it.
LEMMA SelectCityStep ==
    ASSUME CInv, NEW c \in City, SelectCity(c)
    PROVE  CInv'
<1>1. UNCHANGED <<cart, code, sale>>
  BY DEF SelectCity
<1>2. FormTyped' /\ Bounded'
  <2>1. FormTyped'
    BY DEF CInv, Typed, FormTyped, SelectCity, contact, cart, code, sale
  <2>2. Bounded'
    BY CheckoutAssumption DEF CInv, Typed, Bounded, Edits, SelectCity, contact, cart, code, sale
  <2> QED BY <2>1, <2>2
<1>3. Place(type, city, branch, showroom)'
  BY DEF CInv, Typed, FormTyped, Addressed, Place, SelectCity, Method, Carrier
<1> QED BY <1>1, <1>2, <1>3, Elsewhere DEF CInv, Addressed, Typed

\* Another method takes the branch and the showroom away with it.
LEMMA SelectTypeStep ==
    ASSUME CInv, NEW t \in Method, SelectType(t)
    PROVE  CInv'
<1>1. UNCHANGED <<cart, code, sale>>
  BY DEF SelectType
<1>2. FormTyped' /\ Bounded'
  <2>1. FormTyped'
    BY DEF CInv, Typed, FormTyped, SelectType, contact, cart, code, sale
  <2>2. Bounded'
    BY CheckoutAssumption DEF CInv, Typed, Bounded, Edits, SelectType, contact, cart, code, sale
  <2> QED BY <2>1, <2>2
<1>3. Place(type, city, branch, showroom)'
  BY DEF CInv, Typed, FormTyped, Addressed, Place, SelectType, Method, Carrier
<1> QED BY <1>1, <1>2, <1>3, Elsewhere DEF CInv, Addressed, Typed

\* A branch is taken from the list of the carrier and the city chosen.
LEMMA SelectBranchStep ==
    ASSUME CInv, NEW b \in Branch, SelectBranch(b)
    PROVE  CInv'
<1>1. UNCHANGED <<cart, code, sale>>
  BY DEF SelectBranch
<1>2. FormTyped' /\ Bounded'
  <2>1. FormTyped'
    BY DEF CInv, Typed, FormTyped, SelectBranch, contact, cart, code, sale
  <2>2. Bounded'
    BY CheckoutAssumption DEF CInv, Typed, Bounded, Edits, SelectBranch, contact, cart, code, sale
  <2> QED BY <2>1, <2>2
<1>3. Place(type, city, branch, showroom)'
  <2>1. b = <<type, city>>
    BY DEF SelectBranch, Offered, Key
  <2>2. /\ branch' = b /\ UNCHANGED <<city, type, showroom>> /\ type \in Carrier
        /\ Place(type, city, branch, showroom)
    BY DEF SelectBranch, CInv, Addressed
  <2>3. type \notin {"pickup", "other_courier"}
    BY <2>2 DEF Carrier
  <2> QED BY <2>1, <2>2, <2>3 DEF Place
<1> QED BY <1>1, <1>2, <1>3, Elsewhere DEF CInv, Addressed, Typed

\* A showroom is its own branch.
LEMMA SelectShowroomStep ==
    ASSUME CInv, NEW r \in Showroom, SelectShowroom(r)
    PROVE  CInv'
<1>1. UNCHANGED <<cart, code, sale>>
  BY DEF SelectShowroom
<1>2. FormTyped' /\ Bounded'
  <2>1. FormTyped'
    <3>1. <<"pickup", r>> \in Branch
      BY DEF Branch
    <3> QED BY <3>1 DEF CInv, Typed, FormTyped, SelectShowroom, contact
  <2>2. Bounded'
    BY CheckoutAssumption DEF CInv, Typed, Bounded, Edits, SelectShowroom, contact, cart, code, sale
  <2> QED BY <2>1, <2>2
<1>3. Place(type, city, branch, showroom)'
  <2>1. /\ type = "pickup" /\ showroom' = r /\ branch' = <<"pickup", r>> /\ type' = type
        /\ r # None
    BY CheckoutAssumption DEF SelectShowroom
  <2> QED BY <2>1 DEF Place, Carrier
<1> QED BY <1>1, <1>2, <1>3, Elsewhere DEF CInv, Addressed, Typed

\* The courier concerns neither the branch nor the showroom.
LEMMA SelectServiceStep ==
    ASSUME CInv, SelectService
    PROVE  CInv'
<1>1. UNCHANGED <<cart, code, sale>>
  BY DEF SelectService
<1>2. FormTyped' /\ Bounded'
  <2>1. FormTyped'
    BY DEF CInv, Typed, FormTyped, SelectService, contact, cart, code, sale
  <2>2. Bounded'
    BY CheckoutAssumption DEF CInv, Typed, Bounded, Edits, SelectService, contact, cart, code, sale
  <2> QED BY <2>1, <2>2
<1>3. Place(type, city, branch, showroom)'
  BY DEF CInv, Typed, FormTyped, Addressed, Place, SelectService, Method, Carrier
<1> QED BY <1>1, <1>2, <1>3, Elsewhere DEF CInv, Addressed, Typed

\* The buyer's details do not concern where the order goes.
LEMMA ChangeOwnStep ==
    ASSUME CInv, NEW v \in {"wrong", "right"}, ChangeOwn(v)
    PROVE  CInv'
<1>1. UNCHANGED <<cart, code, sale>>
  BY DEF ChangeOwn
<1>2. FormTyped' /\ Bounded'
  <2>1. FormTyped'
    BY DEF CInv, Typed, FormTyped, ChangeOwn, delivery, cart, code, sale
  <2>2. Bounded'
    BY CheckoutAssumption DEF CInv, Typed, Bounded, Edits, ChangeOwn, delivery, cart, code, sale
  <2> QED BY <2>1, <2>2
<1>3. Place(type, city, branch, showroom)'
  BY DEF CInv, Typed, FormTyped, Addressed, Place, ChangeOwn, delivery, Method, Carrier
<1> QED BY <1>1, <1>2, <1>3, Elsewhere DEF CInv, Addressed, Typed

\* Nor does the receiver.
LEMMA ChangeReceiverStep ==
    ASSUME CInv, NEW s \in BOOLEAN, NEW v \in {"wrong", "right"}, ChangeReceiver(s, v)
    PROVE  CInv'
<1>1. UNCHANGED <<cart, code, sale>>
  BY DEF ChangeReceiver
<1>2. FormTyped' /\ Bounded'
  <2>1. FormTyped'
    BY DEF CInv, Typed, FormTyped, ChangeReceiver, delivery, cart, code, sale
  <2>2. Bounded'
    BY CheckoutAssumption DEF CInv, Typed, Bounded, Edits, ChangeReceiver, delivery, cart, code, sale
  <2> QED BY <2>1, <2>2
<1>3. Place(type, city, branch, showroom)'
  BY DEF CInv, Typed, FormTyped, Addressed, Place, ChangeReceiver, delivery, Method, Carrier
<1> QED BY <1>1, <1>2, <1>3, Elsewhere DEF CInv, Addressed, Typed

\* Nor a mark on a field.
LEMMA BlurStep ==
    ASSUME CInv, Blur
    PROVE  CInv'
<1>1. UNCHANGED <<cart, code, sale>>
  BY DEF Blur
<1>2. FormTyped' /\ Bounded'
  <2>1. FormTyped'
    BY DEF CInv, Typed, FormTyped, Blur, delivery, cart, code, sale, bounds
  <2>2. Bounded'
    BY CheckoutAssumption DEF CInv, Typed, Bounded, Blur, delivery, cart, code, sale, bounds
  <2> QED BY <2>1, <2>2
<1>3. Place(type, city, branch, showroom)'
  BY DEF CInv, Typed, FormTyped, Addressed, Place, Blur, delivery, Method, Carrier
<1> QED BY <1>1, <1>2, <1>3, Elsewhere DEF CInv, Addressed, Typed

\* A list that comes in adds a carrier and a city to what is cached.
LEMMA FetchedStep ==
    ASSUME CInv, Fetched
    PROVE  CInv'
<1>1. UNCHANGED <<cart, code, sale>>
  BY DEF Fetched
<1>2. FormTyped' /\ Bounded'
  <2>1. FormTyped'
    <3>1. Key \in Carrier \X City
      BY DEF Fetched, Key, CInv, Typed, FormTyped
    <3> QED BY <3>1 DEF CInv, Typed, FormTyped, Fetched, delivery, contact
  <2>2. Bounded'
    BY CheckoutAssumption DEF CInv, Typed, Bounded, Fetched, delivery, contact, cart, code, sale, bounds
  <2> QED BY <2>1, <2>2
<1>3. Place(type, city, branch, showroom)'
  BY DEF CInv, Typed, FormTyped, Addressed, Place, Fetched, delivery, Method, Carrier
<1> QED BY <1>1, <1>2, <1>3, Elsewhere DEF CInv, Addressed, Typed

\* What a call is, and what an answer makes of it.
LEMMA CallFacts ==
    /\ NoCall.op = "none" /\ NoCall \in Calls
    /\ \A op, o : /\ Call(op, o).op = op /\ Call(op, o).stage = "sent"
                  /\ Call(op, o).order = o
    /\ \A op \in {"pay", "save", "repay"} : Call(op, None) \in Calls
BY DEF NoCall, Call, Calls

\* What a call becomes when the server has done its part, or has failed.
LEMMA Settling ==
    ASSUME call \in Calls, NEW st \in {"served", "failed"}, Settled(st)
    PROVE  /\ call'.op = call.op /\ call'.order = call.order /\ call'.stage = st
           /\ call.op # "none" => call' \in Calls
<1>1. CASE call = NoCall
  BY <1>1 DEF Settled, NoCall
<1>2. CASE call # NoCall
  <2>1. CASE call.op = "create"
    BY <1>2, <2>1 DEF Settled, Calls
  <2>2. CASE call.op # "create"
    BY <1>2, <2>2 DEF Settled, Calls
  <2> QED BY <2>1, <2>2
<1> QED BY <1>1, <1>2

\* No article of an order is fresh.
LEMMA FreshUnsold == \A u \in Fresh : ~Sold(u)
BY DEF Fresh, Sold

\* A new order sells its units, if it stands.
LEMMA NewOrder ==
    ASSUME orders \in Seq(Sale), NEW o \in Sale, orders' = Append(orders, o)
    PROVE  /\ orders' \in Seq(Sale)
           /\ \A u : Sold(u)' <=> Sold(u) \/ (o.stands /\ u \in o.units)
           /\ \A i \in DOMAIN orders' :
                  orders'[i] = o \/ (i \in DOMAIN orders /\ orders'[i] = orders[i])
           /\ \A i, j \in DOMAIN orders' : i # j => i \in DOMAIN orders \/ j \in DOMAIN orders
<1>1. /\ orders' \in Seq(Sale) /\ DOMAIN orders' = 1 .. (Len(orders) + 1)
      /\ DOMAIN orders = 1 .. Len(orders) /\ Len(orders) \in Nat
      /\ orders'[Len(orders) + 1] = o
      /\ \A i \in DOMAIN orders : orders'[i] = orders[i]
  OBVIOUS
<1>2. \A i \in DOMAIN orders' : i \in DOMAIN orders \/ i = Len(orders) + 1
  BY <1>1
<1>3. ASSUME NEW u PROVE Sold(u)' <=> Sold(u) \/ (o.stands /\ u \in o.units)
  <2>1. \A i \in DOMAIN orders : i \in DOMAIN orders'
    BY <1>1
  <2>2. Len(orders) + 1 \in DOMAIN orders'
    BY <1>1
  <2> QED BY <1>1, <1>2, <2>1, <2>2 DEF Sold
<1>4. \A i, j \in DOMAIN orders' : i # j => i \in DOMAIN orders \/ j \in DOMAIN orders
  BY <1>2
<1>5. \A i \in DOMAIN orders' :
          orders'[i] = o \/ (i \in DOMAIN orders /\ orders'[i] = orders[i])
  BY <1>1, <1>2
<1> QED BY <1>1, <1>3, <1>4, <1>5

\* A step that leaves the cart and the orders alone, with no order unknown to
\* the page, keeps them apart if the browser leaves only with the cart cleared.
LEMMA Apart ==
    ASSUME CInv, UNCHANGED <<shown, kept, clear, orders>>,
           ~Placed \/ excused', call'.op # "create" \/ call'.stage = "failed",
           excused => excused',
           page' = "payment" => page = "payment" \/ clear = "none" \/ excused'
    PROVE  Sales'
<1> SUFFICES ASSUME ~excused' PROVE Ordered'
  BY DEF Sales
<1>1. Ordered /\ ~Placed
  BY DEF CInv, Sales
<1>2. (\A u : Sold(u)' <=> Sold(u)) /\ ~Placed' /\ ~(Waiting("create") /\ call.stage = "sent")'
  BY DEF Sold, Placed, Waiting
<1>3. page' = "payment" => clear' = "none"
  BY <1>1 DEF Ordered
<1> QED BY <1>1, <1>2, <1>3 DEF Ordered, Unsold

\* The units that are added were never sold, and the code is asked for again.
LEMMA ChangeQuantityStep ==
    ASSUME CInv, ChangeQuantity
    PROVE  CInv'
<1> USE DEF ChangeQuantity, delivery, contact, cart, code, sale
<1>0. Typed /\ Addressed /\ Submitting /\ Sales /\ PromoFollowsTotal
  BY DEF CInv
<1>1. Typed'
  <2>1. FormTyped'
    BY <1>0 DEF Typed, FormTyped, Method
  <2>2. GoodsTyped'
    <3>1. PICK units \in SUBSET Unit : Shows(units)
      BY <1>0 DEF Typed, GoodsTyped, Fresh
    <3>2. shown' = units /\ checks' = checks \union Asked(units) /\ checking' \in BOOLEAN
      BY <3>1 DEF Shows
    <3>3. Asked(units) \subseteq SUBSET Unit
      BY <3>1 DEF Asked
    <3>4. UNCHANGED <<clear, promo, outdated>> /\ kept' = shown'
      OBVIOUS
    <3> HIDE DEF ChangeQuantity, delivery, contact, cart, code, sale
    <3> QED BY <1>0, <3>1, <3>2, <3>3, <3>4 DEF Typed, GoodsTyped
  <2>3. SaleTyped'
    BY <1>0 DEF Typed, SaleTyped, Calls, Waiting
  <2>4. Bounded'
    BY <1>0, CheckoutAssumption DEF Typed, Bounded, Edits
  <2> QED BY <2>1, <2>2, <2>3, <2>4 DEF Typed
<1>2. Addressed'
  BY <1>0 DEF Addressed, Waiting, Place, Carrier
<1>3. Submitting'
  BY <1>0 DEF Submitting, Waiting, Filling
<1>4. Sales'
  <2> SUFFICES ASSUME Ordered, ~excused PROVE Ordered'
    BY <1>0 DEF Sales
  <2>1. UNCHANGED <<clear, page, call, orders>> /\ page = "form" /\ kept' = shown'
    BY DEF Filling, Edits
  <2>2. Unsold(shown) => Unsold(shown')
    BY FreshUnsold DEF Shows, Unsold
  <2>3. (\A u : Sold(u)' <=> Sold(u)) /\ (Placed' <=> Placed)
    BY <2>1 DEF Sold, Placed, Waiting
  <2> QED BY <2>1, <2>2, <2>3 DEF Ordered, Unsold, Waiting
<1>5. PromoFollowsTotal'
  BY <1>0 DEF PromoFollowsTotal, Filling, Shows, Asked, Edits
<1> QED BY <1>1, <1>2, <1>3, <1>4, <1>5 DEF CInv

\* Asking for a code changes nothing that is sold.
LEMMA ApplyStep ==
    ASSUME CInv, Apply
    PROVE  CInv'
<1> USE DEF Apply, delivery, contact, cart, code, sale
<1>0. Typed /\ Addressed /\ Submitting /\ Sales /\ PromoFollowsTotal
  BY DEF CInv
<1>1. Typed'
  <2>1. FormTyped'
    BY <1>0 DEF Typed, FormTyped, Method
  <2>2. GoodsTyped'
    BY <1>0 DEF Typed, GoodsTyped
  <2>3. SaleTyped'
    BY <1>0 DEF Typed, SaleTyped, Calls, Waiting
  <2>4. Bounded'
    BY <1>0, CheckoutAssumption DEF Typed, Bounded, Edits
  <2> QED BY <2>1, <2>2, <2>3, <2>4 DEF Typed
<1>2. Addressed'
  BY <1>0 DEF Addressed, Waiting, Place, Carrier
<1>3. Submitting'
  BY <1>0 DEF Submitting, Waiting, Filling
<1>4. Sales'
  BY <1>0 DEF Sales, Ordered, Placed, Unsold, Sold, Waiting
<1>5. PromoFollowsTotal'
  BY <1>0 DEF PromoFollowsTotal, Filling, Edits
<1> QED BY <1>1, <1>2, <1>3, <1>4, <1>5 DEF CInv

\* Without a code no discount can be wrong.
LEMMA RemoveCodeStep ==
    ASSUME CInv, RemoveCode
    PROVE  CInv'
<1> USE DEF RemoveCode, delivery, contact, cart, code, sale
<1>0. Typed /\ Addressed /\ Submitting /\ Sales /\ PromoFollowsTotal
  BY DEF CInv
<1>1. Typed'
  <2>1. FormTyped'
    BY <1>0 DEF Typed, FormTyped, Method
  <2>2. GoodsTyped'
    BY <1>0 DEF Typed, GoodsTyped
  <2>3. SaleTyped'
    BY <1>0 DEF Typed, SaleTyped, Calls, Waiting
  <2>4. Bounded'
    BY <1>0, CheckoutAssumption DEF Typed, Bounded, Edits
  <2> QED BY <2>1, <2>2, <2>3, <2>4 DEF Typed
<1>2. Addressed'
  BY <1>0 DEF Addressed, Waiting, Place, Carrier
<1>3. Submitting'
  BY <1>0 DEF Submitting, Waiting, Filling
<1>4. Sales'
  BY <1>0 DEF Sales, Ordered, Placed, Unsold, Sold, Waiting
<1>5. PromoFollowsTotal'
  BY <1>0 DEF PromoFollowsTotal, Filling, Edits
<1> QED BY <1>1, <1>2, <1>3, <1>4, <1>5 DEF CInv

\* An answer is the discount of its total, and notes if that is outdated.
LEMMA AnswerCheckStep ==
    ASSUME CInv, NEW units \in SUBSET Unit, AnswerCheck(units)
    PROVE  CInv'
<1> USE DEF AnswerCheck, delivery, contact, cart, sale, bounds
<1>0. Typed /\ Addressed /\ Submitting /\ Sales /\ PromoFollowsTotal
  BY DEF CInv
<1>1. Typed'
  <2>1. FormTyped'
    BY <1>0 DEF Typed, FormTyped, Method
  <2>2. GoodsTyped'
    BY <1>0 DEF Typed, GoodsTyped
  <2>3. SaleTyped'
    BY <1>0 DEF Typed, SaleTyped, Calls, Waiting
  <2>4. Bounded'
    BY <1>0, CheckoutAssumption DEF Typed, Bounded
  <2> QED BY <2>1, <2>2, <2>3, <2>4 DEF Typed
<1>2. Addressed'
  BY <1>0 DEF Addressed, Waiting, Place, Carrier
<1>3. Submitting'
  BY <1>0 DEF Submitting, Waiting, Filling
<1>4. Sales'
  BY <1>0 DEF Sales, Ordered, Placed, Unsold, Sold, Waiting
<1>5. PromoFollowsTotal'
  BY <1>0 DEF PromoFollowsTotal, Filling
<1> QED BY <1>1, <1>2, <1>3, <1>4, <1>5 DEF CInv

\* The order takes the place from the form and the units from the page.
LEMMA SubmitStep ==
    ASSUME CInv, Submit
    PROVE  CInv'
<1> USE DEF Submit, delivery, contact, cart, code, bounds
<1>0. Typed /\ Addressed /\ Submitting /\ Sales /\ PromoFollowsTotal
  BY DEF CInv
<1>1. Typed'
  <2>1. FormTyped'
    BY <1>0 DEF Typed, FormTyped, Method
  <2>2. GoodsTyped'
    BY <1>0 DEF Typed, GoodsTyped
  <2>3. SaleTyped'
    <3>1. Order \in OrderType
      BY <1>0 DEF Order, OrderType, Typed, FormTyped, GoodsTyped, Complete
    <3>2. call' \in Calls
      BY <3>1 DEF Call, Calls
    <3> QED BY <1>0, <3>2 DEF Typed, SaleTyped
  <2>4. Bounded'
    BY <1>0, CheckoutAssumption DEF Typed, Bounded
  <2> QED BY <2>1, <2>2, <2>3, <2>4 DEF Typed
<1>2. Addressed'
  <2>1. Place(type, city, branch, showroom)'
    BY <1>0 DEF Addressed, Place
  <2>2. /\ Order.type = type /\ Order.city = city /\ Order.branch = branch
        /\ Order.showroom = showroom /\ Order.service = service
    BY DEF Order
  <2>3. Fits(Order)
    BY <1>0, <2>2 DEF Addressed, Place, Fits, Complete, DeliveryFilled, Carrier
  <2>4. call'.order = Order
    BY CallFacts
  <2> QED BY <2>1, <2>3, <2>4 DEF Addressed
<1>3. Submitting'
  BY <1>0 DEF Submitting, Call, Waiting, Filling
<1>4. Sales'
  <2> SUFFICES ASSUME Ordered, ~excused PROVE Ordered'
    BY <1>0 DEF Sales
  <2>1. UNCHANGED <<shown, kept, clear, page, orders>> /\ ~Waiting("create") /\ page = "form"
    BY <1>0 DEF Submitting, Filling
  <2>2. call'.op = "create" /\ call'.stage = "sent" /\ call'.order.units = shown
    BY CallFacts DEF Order
  <2>3. (\A u : Sold(u)' <=> Sold(u)) /\ ~Placed' /\ ~Placed
    BY <2>1, <2>2 DEF Sold, Placed, Waiting
  <2> QED BY <2>1, <2>2, <2>3 DEF Ordered, Unsold, Waiting
<1>5. PromoFollowsTotal'
  BY <1>0 DEF PromoFollowsTotal, Filling
<1> QED BY <1>1, <1>2, <1>3, <1>4, <1>5 DEF CInv

\* An order is added whose units were in no order that stands.
LEMMA ServeCreateStep ==
    ASSUME CInv, ServeCreate
    PROVE  CInv'
<1> USE DEF ServeCreate, delivery, contact, cart, code, bounds
<1>0. Typed /\ Addressed /\ Submitting /\ Sales /\ PromoFollowsTotal
  BY DEF CInv
<1>1. Typed'
  <2>1. FormTyped'
    BY <1>0 DEF Typed, FormTyped, Method
  <2>2. GoodsTyped'
    BY <1>0 DEF Typed, GoodsTyped
  <2>3. SaleTyped'
    <3>1. call' \in Calls
      BY <1>0, Settling DEF Typed, SaleTyped, Waiting
    <3>2. orders' \in Seq(Sale)
      <4>1. call.order.units \in SUBSET Unit
        BY <1>0 DEF Typed, SaleTyped, Calls, Waiting, OrderType, NoCall
      <4>2. \A stands \in BOOLEAN : [units |-> call.order.units, stands |-> stands] \in Sale
        BY <4>1 DEF Sale
      <4> QED BY <1>0, <4>2, NewOrder DEF Typed, SaleTyped
    <3> QED BY <1>0, <3>1, <3>2 DEF Typed, SaleTyped
  <2>4. Bounded'
    BY <1>0, CheckoutAssumption DEF Typed, Bounded
  <2> QED BY <2>1, <2>2, <2>3, <2>4 DEF Typed
<1>2. Addressed'
  <2>1. Place(type, city, branch, showroom)'
    BY <1>0 DEF Addressed, Place
  <2>2. call'.op = call.op /\ call'.order = call.order
    BY <1>0, Settling DEF Typed, SaleTyped
  <2> QED BY <1>0, <2>1, <2>2 DEF Addressed, Waiting
<1>3. Submitting'
  BY <1>0 DEF Submitting, Settled, Waiting, Filling
<1>4. Sales'
  <2> SUFFICES ASSUME Ordered, ~excused PROVE Ordered'
    BY <1>0 DEF Sales
  <2> DEFINE U == call.order.units
  <2>1. /\ UNCHANGED <<shown, kept, clear, page>> /\ page = "form" /\ Unsold(U)
        /\ call.op = "create" /\ call.stage = "sent" /\ ~Placed
        /\ U \in SUBSET Unit
    BY <1>0 DEF Submitting, Ordered, Placed, Waiting, Typed, SaleTyped, Calls, OrderType, NoCall
  <2>2. CASE UNCHANGED orders /\ Settled("failed")
    <3>1. call'.stage = "failed"
      BY <1>0, <2>2, Settling DEF Typed, SaleTyped
    <3>2. (\A u : Sold(u)' <=> Sold(u)) /\ ~Placed'
      BY <2>2, <3>1 DEF Sold, Placed
    <3> QED BY <2>1, <2>2, <3>1, <3>2 DEF Ordered, Unsold
  <2>3. ASSUME NEW stands \in BOOLEAN,
               Settled(IF stands THEN "served" ELSE "failed"),
               orders' = Append(orders, [units |-> U, stands |-> stands])
        PROVE  Ordered'
    <3>1. PICK o : o = [units |-> U, stands |-> stands]
      OBVIOUS
    <3>2. o \in Sale /\ o.units = U /\ (o.stands <=> stands)
      BY <2>1, <3>1, Zenon DEF Sale
    <3>3. orders \in Seq(Sale) /\ orders' = Append(orders, o)
      BY <1>0, <2>3, <3>1 DEF Typed, SaleTyped
    <3>4. call'.op = "create" /\ call'.stage = IF stands THEN "served" ELSE "failed"
      <4>1. CASE stands
        BY <1>0, <2>1, <2>3, <4>1, Settling DEF Typed, SaleTyped
      <4>2. CASE ~stands
        BY <1>0, <2>1, <2>3, <4>2, Settling DEF Typed, SaleTyped
      <4> QED BY <4>1, <4>2
    <3>5. ASSUME NEW i \in DOMAIN orders', NEW j \in DOMAIN orders', i # j,
                 orders'[i].stands, orders'[j].stands
          PROVE  orders'[i].units \intersect orders'[j].units = {}
      <4>1. /\ orders'[i] = o \/ (i \in DOMAIN orders /\ orders'[i] = orders[i])
            /\ orders'[j] = o \/ (j \in DOMAIN orders /\ orders'[j] = orders[j])
            /\ i \in DOMAIN orders \/ j \in DOMAIN orders
        BY <3>2, <3>3, <3>5, NewOrder
      <4>2. \A l \in DOMAIN orders : orders[l].stands => orders[l].units \intersect U = {}
        BY <2>1 DEF Unsold, Sold
      <4>3. DOMAIN orders = 1 .. Len(orders) /\ orders'[Len(orders) + 1] = o
            /\ DOMAIN orders' = 1 .. (Len(orders) + 1) /\ Len(orders) \in Nat
            /\ \A l \in DOMAIN orders : orders'[l] = orders[l]
        BY <3>2, <3>3
      <4>4. CASE i \in DOMAIN orders /\ j \in DOMAIN orders
        BY <3>5, <4>3, <4>4 DEF Ordered
      <4>5. CASE i \notin DOMAIN orders
        <5>1. orders'[i] = o /\ orders'[j] = orders[j] /\ j \in DOMAIN orders
          BY <4>1, <4>3, <4>5
        <5> QED BY <3>2, <3>5, <4>2, <5>1
      <4>6. CASE j \notin DOMAIN orders
        <5>1. orders'[j] = o /\ orders'[i] = orders[i] /\ i \in DOMAIN orders
          BY <4>1, <4>3, <4>6
        <5> QED BY <3>2, <3>5, <4>2, <5>1
      <4> QED BY <4>4, <4>5, <4>6
    <3>6. \A u : Sold(u)' <=> Sold(u) \/ (o.stands /\ u \in o.units)
      BY <3>2, <3>3, NewOrder
    <3>7. ~Placed' => (\A u : Sold(u)' <=> Sold(u))
      BY <3>2, <3>4, <3>6 DEF Placed, Waiting
    <3>8. call'.stage # "sent" /\ page' # "payment"
      BY <2>1, <3>4
    <3> QED BY <2>1, <3>5, <3>7, <3>8 DEF Ordered, Unsold
  <2> QED BY <2>2, <2>3
<1>5. PromoFollowsTotal'
  BY <1>0 DEF PromoFollowsTotal, Filling
<1> QED BY <1>1, <1>2, <1>3, <1>4, <1>5 DEF CInv

\* The payment and the details are answered without a change of the sale.
LEMMA ServeOtherStep ==
    ASSUME CInv, ServeOther
    PROVE  CInv'
<1> USE DEF ServeOther, delivery, contact, cart, code, bounds
<1>0. Typed /\ Addressed /\ Submitting /\ Sales /\ PromoFollowsTotal
  BY DEF CInv
<1>1. Typed'
  <2>1. FormTyped'
    BY <1>0 DEF Typed, FormTyped, Method
  <2>2. GoodsTyped'
    BY <1>0 DEF Typed, GoodsTyped
  <2>3. SaleTyped'
    BY <1>0 DEF Typed, SaleTyped, Calls, Settled, Waiting, NoCall
  <2>4. Bounded'
    BY <1>0, CheckoutAssumption DEF Typed, Bounded
  <2> QED BY <2>1, <2>2, <2>3, <2>4 DEF Typed
<1>2. Addressed'
  BY <1>0 DEF Addressed, Settled, Waiting, Place, Carrier
<1>3. Submitting'
  BY <1>0 DEF Submitting, Settled, Waiting, Filling
<1>4. Sales'
  BY <1>0 DEF Sales, Ordered, Placed, Unsold, Sold, Settled, Waiting
<1>5. PromoFollowsTotal'
  BY <1>0 DEF PromoFollowsTotal, Filling
<1> QED BY <1>1, <1>2, <1>3, <1>4, <1>5 DEF CInv

\* The page empties its cart when it learns of the order, or has no order
\* to know of.
LEMMA AnswerCreateStep ==
    ASSUME CInv, AnswerCreate
    PROVE  CInv'
<1> USE DEF AnswerCreate, delivery, contact, cart, bounds
<1>0. Typed /\ Addressed /\ Submitting /\ Sales /\ PromoFollowsTotal
  BY DEF CInv
<1>1. Typed'
  <2>1. FormTyped'
    BY <1>0 DEF Typed, FormTyped, Method
  <2>2. GoodsTyped'
    BY <1>0 DEF Typed, GoodsTyped, Shows, Asked, Cleared
  <2>3. SaleTyped'
    <3>1. call' \in Calls
      BY CallFacts
    <3>2. page' = page /\ user' = user /\ orders' = orders /\ excused' = excused
          /\ submitting' \in {FALSE, submitting}
      BY DEF Enabled
    <3> QED BY <1>0, <3>1, <3>2 DEF Typed, SaleTyped
  <2>4. Bounded'
    BY <1>0, CheckoutAssumption DEF Typed, Bounded
  <2> QED BY <2>1, <2>2, <2>3, <2>4 DEF Typed
<1>2. Addressed'
  BY <1>0 DEF Addressed, Call, NoCall, Waiting, Place, Carrier
<1>3. Submitting'
  BY <1>0, CallFacts DEF Submitting, Waiting
<1>4. Sales'
  <2>1. CASE call.stage = "failed"
    <3>1. ~Placed /\ call' = NoCall /\ UNCHANGED <<shown, kept, clear, orders, page, excused>>
      BY <2>1 DEF Placed
    <3> QED BY <3>1, CallFacts, Apart
  <2>2. CASE call.stage # "failed"
    <3> SUFFICES ASSUME Ordered PROVE Ordered'
      BY <1>0 DEF Sales
    <3>1. /\ shown' = {} /\ clear' = "sent" /\ call'.op = "pay" /\ page' # "payment"
          /\ UNCHANGED <<kept, orders>>
      BY <1>0, <2>2, CallFacts DEF Cleared, Shows, Submitting
    <3> QED BY <3>1 DEF Ordered, Unsold, Sold, Waiting, Placed
  <2> QED BY <2>1, <2>2
<1>5. PromoFollowsTotal'
  BY <1>0 DEF PromoFollowsTotal, Filling, Shows, Asked, Cleared
<1> QED BY <1>1, <1>2, <1>3, <1>4, <1>5 DEF CInv

\* The browser leaves for Stripe, or the page shows the order.
LEMMA AnswerPayStep ==
    ASSUME CInv, AnswerPay
    PROVE  CInv'
<1> USE DEF AnswerPay, delivery, contact, cart, code, bounds
<1>0. Typed /\ Addressed /\ Submitting /\ Sales /\ PromoFollowsTotal
  BY DEF CInv
<1>1. Typed'
  <2>1. FormTyped'
    BY <1>0 DEF Typed, FormTyped, Method
  <2>2. GoodsTyped'
    BY <1>0 DEF Typed, GoodsTyped
  <2>3. SaleTyped'
    <3>1. call' \in Calls
      BY CallFacts DEF Pays
    <3>2. /\ UNCHANGED <<user, submitting, orders>>
          /\ page' \in {page, "resume", "payment"}
          /\ excused' \in {excused, excused \/ clear = "sent"}
      BY DEF Pays
    <3> QED BY <1>0, <3>1, <3>2 DEF Typed, SaleTyped
  <2>4. Bounded'
    BY <1>0, CheckoutAssumption DEF Typed, Bounded
  <2> QED BY <2>1, <2>2, <2>3, <2>4 DEF Typed
<1>2. Addressed'
  BY <1>0 DEF Addressed, Call, NoCall, Pays, Waiting, Place, Carrier
<1>3. Submitting'
  BY <1>0 DEF Submitting, Call, NoCall, Pays, Waiting, Filling
<1>4. Sales'
  <2>1. ~Placed /\ UNCHANGED <<shown, kept, clear, orders>> /\ call'.op # "create"
    BY CallFacts DEF Placed, Waiting, Pays
  <2>2. clear \in {"none", "sent"}
    BY <1>0 DEF Typed, GoodsTyped
  <2>3. (page' = "resume" /\ excused' = excused) \/ (page' = page /\ excused' = excused) \/ Pays
    OBVIOUS
  <2>4. (excused => excused') /\ (page' = "payment" => page = "payment" \/ clear = "none" \/ excused')
    <3>1. CASE page' = "resume" /\ excused' = excused
      BY <3>1
    <3>2. CASE page' = page /\ excused' = excused
      BY <3>2
    <3>3. CASE Pays
      <4>1. excused' = (excused \/ clear = "sent")
        BY <3>3 DEF Pays
      <4>2. excused => excused'
        BY <4>1, Zenon
      <4>3. clear = "sent" => excused'
        BY <4>1, Zenon
      <4> QED BY <2>2, <4>2, <4>3
    <3> QED BY <2>3, <3>1, <3>2, <3>3
  <2> QED BY <2>1, <2>4, Apart
<1>5. PromoFollowsTotal'
  BY <1>0 DEF PromoFollowsTotal, Filling, Pays
<1> QED BY <1>1, <1>2, <1>3, <1>4, <1>5 DEF CInv

\* The browser leaves for Stripe.
LEMMA AnswerSaveStep ==
    ASSUME CInv, AnswerSave
    PROVE  CInv'
<1> USE DEF AnswerSave, delivery, contact, cart, code, bounds
<1>0. Typed /\ Addressed /\ Submitting /\ Sales /\ PromoFollowsTotal
  BY DEF CInv
<1>1. Typed'
  <2>1. FormTyped'
    BY <1>0 DEF Typed, FormTyped, Method
  <2>2. GoodsTyped'
    BY <1>0 DEF Typed, GoodsTyped
  <2>3. SaleTyped'
    BY <1>0 DEF Typed, SaleTyped, Calls, NoCall, Pays, Waiting
  <2>4. Bounded'
    BY <1>0, CheckoutAssumption DEF Typed, Bounded
  <2> QED BY <2>1, <2>2, <2>3, <2>4 DEF Typed
<1>2. Addressed'
  BY <1>0 DEF Addressed, NoCall, Pays, Waiting, Place, Carrier
<1>3. Submitting'
  BY <1>0 DEF Submitting, NoCall, Pays, Waiting, Filling
<1>4. Sales'
  <2>1. ~Placed /\ UNCHANGED <<shown, kept, clear, orders>> /\ call'.op # "create"
    BY CallFacts DEF Placed, Waiting, Pays
  <2>2. clear \in {"none", "sent"} /\ (excused => excused')
        /\ (page' = "payment" => page = "payment" \/ clear = "none" \/ excused')
    BY <1>0 DEF Pays, Typed, GoodsTyped
  <2> QED BY <2>1, <2>2, Apart
<1>5. PromoFollowsTotal'
  BY <1>0 DEF PromoFollowsTotal, Filling, Pays
<1> QED BY <1>1, <1>2, <1>3, <1>4, <1>5 DEF CInv

\* The server's cart is emptied.
LEMMA ServeClearStep ==
    ASSUME CInv, ServeClear
    PROVE  CInv'
<1> USE DEF ServeClear, delivery, contact, code, sale, bounds
<1>0. Typed /\ Addressed /\ Submitting /\ Sales /\ PromoFollowsTotal
  BY DEF CInv
<1>1. Typed'
  <2>1. FormTyped'
    BY <1>0 DEF Typed, FormTyped, Method
  <2>2. GoodsTyped'
    BY <1>0 DEF Typed, GoodsTyped
  <2>3. SaleTyped'
    BY <1>0 DEF Typed, SaleTyped, Calls, Waiting
  <2>4. Bounded'
    BY <1>0, CheckoutAssumption DEF Typed, Bounded
  <2> QED BY <2>1, <2>2, <2>3, <2>4 DEF Typed
<1>2. Addressed'
  BY <1>0 DEF Addressed, Waiting, Place, Carrier
<1>3. Submitting'
  BY <1>0 DEF Submitting, Waiting, Filling
<1>4. Sales'
  BY <1>0 DEF Sales, Ordered, Placed, Unsold, Sold, Waiting
<1>5. PromoFollowsTotal'
  BY <1>0 DEF PromoFollowsTotal, Filling
<1> QED BY <1>1, <1>2, <1>3, <1>4, <1>5 DEF CInv

\* A cart that could not be cleared is excused.
LEMMA FailClearStep ==
    ASSUME CInv, FailClear
    PROVE  CInv'
<1> USE DEF FailClear, delivery, contact
<1>0. Typed /\ Addressed /\ Submitting /\ Sales /\ PromoFollowsTotal
  BY DEF CInv
<1>1. Typed'
  <2>1. FormTyped'
    BY <1>0 DEF Typed, FormTyped, Method
  <2>2. GoodsTyped'
    <3>1. CASE page # "payment"
      BY <1>0, <3>1 DEF Typed, GoodsTyped, Shows, Asked
    <3>2. CASE page = "payment"
      BY <1>0, <3>2 DEF Typed, GoodsTyped
    <3> QED BY <3>1, <3>2
  <2>3. SaleTyped'
    BY <1>0 DEF Typed, SaleTyped, Calls, Waiting
  <2>4. Bounded'
    BY <1>0, CheckoutAssumption DEF Typed, Bounded
  <2> QED BY <2>1, <2>2, <2>3, <2>4 DEF Typed
<1>2. Addressed'
  BY <1>0 DEF Addressed, Waiting, Place, Carrier
<1>3. Submitting'
  BY <1>0 DEF Submitting, Waiting, Filling
<1>4. Sales'
  BY <1>0 DEF Sales, Ordered, Placed, Unsold, Sold, Waiting, Shows
<1>5. PromoFollowsTotal'
  BY <1>0 DEF PromoFollowsTotal, Filling, Shows, Asked
<1> QED BY <1>1, <1>2, <1>3, <1>4, <1>5 DEF CInv

\* A lost answer to a new order is excused.
LEMMA FailCallStep ==
    ASSUME CInv, FailCall
    PROVE  CInv'
<1> USE DEF FailCall, delivery, contact, cart, code
<1>0. Typed /\ Addressed /\ Submitting /\ Sales /\ PromoFollowsTotal
  BY DEF CInv
<1>1. Typed'
  <2>1. FormTyped'
    BY <1>0 DEF Typed, FormTyped, Method
  <2>2. GoodsTyped'
    BY <1>0 DEF Typed, GoodsTyped
  <2>3. SaleTyped'
    BY <1>0 DEF Typed, SaleTyped, Calls, Settled, Waiting, NoCall
  <2>4. Bounded'
    BY <1>0, CheckoutAssumption DEF Typed, Bounded
  <2> QED BY <2>1, <2>2, <2>3, <2>4 DEF Typed
<1>2. Addressed'
  BY <1>0 DEF Addressed, Settled, Waiting, Place, Carrier
<1>3. Submitting'
  BY <1>0 DEF Submitting, Settled, Waiting, Filling
<1>4. Sales'
  <2>1. call'.op = call.op /\ call'.stage = "failed"
    BY <1>0, Settling DEF Typed, SaleTyped
  <2>2. UNCHANGED <<shown, kept, clear, orders, page>> /\ (excused => excused')
    OBVIOUS
  <2>3. ~Placed \/ excused'
    BY DEF Placed
  <2> QED BY <2>1, <2>2, <2>3, Apart
<1>5. PromoFollowsTotal'
  BY <1>0 DEF PromoFollowsTotal, Filling
<1> QED BY <1>1, <1>2, <1>3, <1>4, <1>5 DEF CInv

\* The page of the order shows what is left in the cart.
LEMMA ViewStep ==
    ASSUME CInv, View
    PROVE  CInv'
<1> USE DEF View, delivery, contact, code, bounds
<1>0. Typed /\ Addressed /\ Submitting /\ Sales /\ PromoFollowsTotal
  BY DEF CInv
<1>1. Typed'
  <2>1. FormTyped'
    BY <1>0 DEF Typed, FormTyped, Method
  <2>2. GoodsTyped'
    BY <1>0 DEF Typed, GoodsTyped
  <2>3. SaleTyped'
    BY <1>0 DEF Typed, SaleTyped, Calls, Waiting
  <2>4. Bounded'
    BY <1>0, CheckoutAssumption DEF Typed, Bounded
  <2> QED BY <2>1, <2>2, <2>3, <2>4 DEF Typed
<1>2. Addressed'
  BY <1>0 DEF Addressed, Waiting, Place, Carrier
<1>3. Submitting'
  BY <1>0 DEF Submitting, Waiting, Filling
<1>4. Sales'
  BY <1>0 DEF Sales, Ordered, Placed, Unsold, Sold, Waiting
<1>5. PromoFollowsTotal'
  BY <1>0 DEF PromoFollowsTotal, Filling
<1> QED BY <1>1, <1>2, <1>3, <1>4, <1>5 DEF CInv

\* An order is paid for without a change of the sale.
LEMMA PayOrderStep ==
    ASSUME CInv, PayOrder
    PROVE  CInv'
<1> USE DEF PayOrder, delivery, contact, cart, code, bounds
<1>0. Typed /\ Addressed /\ Submitting /\ Sales /\ PromoFollowsTotal
  BY DEF CInv
<1>1. Typed'
  <2>1. FormTyped'
    BY <1>0 DEF Typed, FormTyped, Method
  <2>2. GoodsTyped'
    BY <1>0 DEF Typed, GoodsTyped
  <2>3. SaleTyped'
    BY <1>0 DEF Typed, SaleTyped, Calls, Call, NoCall, Waiting
  <2>4. Bounded'
    BY <1>0, CheckoutAssumption DEF Typed, Bounded
  <2> QED BY <2>1, <2>2, <2>3, <2>4 DEF Typed
<1>2. Addressed'
  BY <1>0 DEF Addressed, Call, NoCall, Waiting, Place, Carrier
<1>3. Submitting'
  BY <1>0 DEF Submitting, Call, NoCall, Waiting, Filling
<1>4. Sales'
  BY <1>0 DEF Sales, Ordered, Placed, Unsold, Sold, Call, NoCall, Waiting
<1>5. PromoFollowsTotal'
  BY <1>0 DEF PromoFollowsTotal, Filling
<1> QED BY <1>1, <1>2, <1>3, <1>4, <1>5 DEF CInv

\* The browser leaves for Stripe, or stays.
LEMMA AnswerPayOrderStep ==
    ASSUME CInv, AnswerPayOrder
    PROVE  CInv'
<1> USE DEF AnswerPayOrder, delivery, contact, cart, code, bounds
<1>0. Typed /\ Addressed /\ Submitting /\ Sales /\ PromoFollowsTotal
  BY DEF CInv
<1>1. Typed'
  <2>1. FormTyped'
    BY <1>0 DEF Typed, FormTyped, Method
  <2>2. GoodsTyped'
    BY <1>0 DEF Typed, GoodsTyped
  <2>3. SaleTyped'
    BY <1>0 DEF Typed, SaleTyped, Calls, NoCall, Pays, Waiting
  <2>4. Bounded'
    BY <1>0, CheckoutAssumption DEF Typed, Bounded
  <2> QED BY <2>1, <2>2, <2>3, <2>4 DEF Typed
<1>2. Addressed'
  BY <1>0 DEF Addressed, NoCall, Pays, Waiting, Place, Carrier
<1>3. Submitting'
  BY <1>0 DEF Submitting, NoCall, Pays, Waiting, Filling
<1>4. Sales'
  <2>1. ~Placed /\ UNCHANGED <<shown, kept, clear, orders>> /\ call'.op # "create"
    BY CallFacts DEF Placed, Waiting, Pays
  <2>2. clear \in {"none", "sent"} /\ (excused => excused')
        /\ (page' = "payment" => page = "payment" \/ clear = "none" \/ excused')
    BY <1>0 DEF Pays, Typed, GoodsTyped
  <2> QED BY <2>1, <2>2, Apart
<1>5. PromoFollowsTotal'
  BY <1>0 DEF PromoFollowsTotal, Filling, Pays
<1> QED BY <1>1, <1>2, <1>3, <1>4, <1>5 DEF CInv

\* A new form holds what the server has, which was cleared or is excused.
LEMMA ReturnStep ==
    ASSUME CInv, Return
    PROVE  CInv'
<1> USE DEF Return, cart, bounds
<1>0. Typed /\ Addressed /\ Submitting /\ Sales /\ PromoFollowsTotal
  BY DEF CInv
<1>1. Typed'
  <2>1. FormTyped'
    BY <1>0 DEF Typed, FormTyped, NewForm, Method
  <2>2. GoodsTyped'
    BY <1>0 DEF Typed, GoodsTyped, NewForm, Fresh
  <2>3. SaleTyped'
    BY <1>0 DEF Typed, SaleTyped, Calls, NoCall, NewForm, Waiting
  <2>4. Bounded'
    BY <1>0, CheckoutAssumption DEF Typed, Bounded
  <2> QED BY <2>1, <2>2, <2>3, <2>4 DEF Typed
<1>2. Addressed'
  BY <1>0 DEF Addressed, NoCall, NewForm, Waiting, Place, Carrier
<1>3. Submitting'
  BY <1>0 DEF Submitting, NoCall, NewForm, Waiting, Filling
<1>4. Sales'
  <2> SUFFICES ASSUME ~excused' PROVE Ordered'
    BY DEF Sales
  <2> PICK more \in SUBSET Fresh :
        LET read == page = "payment" \/ more # {} IN
        /\ kept' = kept \union more
        /\ shown' = IF read THEN kept' ELSE shown
        /\ excused' = (excused \/ (read /\ clear = "sent"))
    OBVIOUS
  <2>1. Ordered /\ ~Placed /\ clear \in {"none", "sent"}
    BY <1>0, CallFacts DEF Sales, Placed, Waiting, Typed, GoodsTyped
  <2>2. call' = NoCall /\ page' = "form" /\ UNCHANGED <<clear, orders>>
    BY DEF NewForm
  <2>3. /\ ~Placed' /\ ~Waiting("create")'
        /\ \A u : Sold(u)' <=> Sold(u)
    BY <2>2, CallFacts DEF Placed, Waiting, Sold
  <2>4. Unsold(shown) /\ (clear = "none" => Unsold(kept)) /\ Unsold(more)
    BY <2>1, FreshUnsold DEF Ordered, Unsold
  <2>5. clear = "none" => Unsold(kept')
    BY <2>4 DEF Unsold
  <2>6. Unsold(shown')
    BY <2>1, <2>4, <2>5
  <2> QED BY <2>1, <2>2, <2>3, <2>5, <2>6 DEF Ordered, Unsold
<1>5. PromoFollowsTotal'
  BY <1>0 DEF PromoFollowsTotal, Filling, NewForm
<1> QED BY <1>1, <1>2, <1>3, <1>4, <1>5 DEF CInv

\* A reloaded page holds what the server has, unless that is excused.
LEMMA ReloadStep ==
    ASSUME CInv, Reload
    PROVE  CInv'
<1> USE DEF Reload, cart
<1>0. Typed /\ Addressed /\ Submitting /\ Sales /\ PromoFollowsTotal
  BY DEF CInv
<1>1. Typed'
  <2>1. FormTyped'
    BY <1>0 DEF Typed, FormTyped, NewForm, Method
  <2>2. GoodsTyped'
    BY <1>0 DEF Typed, GoodsTyped, NewForm
  <2>3. SaleTyped'
    BY <1>0 DEF Typed, SaleTyped, Calls, NoCall, NewForm, Waiting
  <2>4. Bounded'
    BY <1>0, CheckoutAssumption DEF Typed, Bounded
  <2> QED BY <2>1, <2>2, <2>3, <2>4 DEF Typed
<1>2. Addressed'
  BY <1>0 DEF Addressed, NoCall, NewForm, Waiting, Place, Carrier
<1>3. Submitting'
  BY <1>0 DEF Submitting, NoCall, NewForm, Waiting, Filling
<1>4. Sales'
  <2> SUFFICES ASSUME ~excused' PROVE Ordered'
    BY DEF Sales
  <2>1. Ordered /\ ~Placed /\ clear = "none"
    BY <1>0 DEF Sales, Placed, Typed, GoodsTyped
  <2>2. call' = NoCall /\ page' = "form" /\ shown' = kept /\ UNCHANGED <<kept, clear, orders>>
    BY DEF NewForm
  <2>3. /\ ~Placed' /\ ~Waiting("create")'
        /\ \A u : Sold(u)' <=> Sold(u)
    BY <2>2, CallFacts DEF Placed, Waiting, Sold
  <2> QED BY <2>1, <2>2, <2>3 DEF Ordered, Unsold
<1>5. PromoFollowsTotal'
  BY <1>0 DEF PromoFollowsTotal, Filling, NewForm
<1> QED BY <1>1, <1>2, <1>3, <1>4, <1>5 DEF CInv

\* Every step of the page, of the buyer and of the server keeps the invariant.
LEMMA Inductive == CInv /\ [Next]_vars => CInv'
<1> SUFFICES ASSUME CInv, [Next]_vars PROVE CInv'
  OBVIOUS
<1>1. CASE Form
  BY <1>1, SelectCityStep, SelectTypeStep, SelectBranchStep, SelectShowroomStep,
     SelectServiceStep, ChangeOwnStep, ChangeReceiverStep, BlurStep,
     ChangeQuantityStep, ApplyStep, RemoveCodeStep, SubmitStep DEF Form
<1>2. CASE Served
  BY <1>2, ServeCreateStep, ServeOtherStep, ServeClearStep DEF Served
<1>3. CASE Answer
  BY <1>3, AnswerCreateStep, AnswerPayStep, AnswerSaveStep, AnswerPayOrderStep DEF Answer
<1>4. CASE Fetched
  BY <1>4, FetchedStep
<1>5. CASE \E units \in SUBSET Unit : AnswerCheck(units)
  BY <1>5, AnswerCheckStep
<1>6. CASE FailClear \/ FailCall
  BY <1>6, FailClearStep, FailCallStep
<1>7. CASE View \/ PayOrder \/ Return \/ Reload
  BY <1>7, ViewStep, PayOrderStep, ReturnStep, ReloadStep
<1>8. CASE UNCHANGED vars
  <2>1. /\ UNCHANGED <<delivery, contact, cached, cart, code, sale, bounds>>
    BY <1>8 DEF vars
  <2>2. FormTyped' /\ Bounded' /\ Place(type, city, branch, showroom)'
    BY <2>1 DEF CInv, Typed, FormTyped, Bounded, Addressed, Place, delivery, contact, bounds
  <2> QED BY <2>1, <2>2, Elsewhere DEF CInv, Typed, Addressed
<1> QED BY <1>1, <1>2, <1>3, <1>4, <1>5, <1>6, <1>7, <1>8 DEF Next

-----------------------------------------------------------------------------
\* The invariant holds throughout.
THEOREM Always == Spec => []CInv
<1>1. Init => CInv
  BY Base
<1>2. CInv /\ [Next]_vars => CInv'
  BY Inductive
<1> QED BY <1>1, <1>2, PTL DEF Spec

\* Every variable of the page keeps its type, the calls and the orders too.
THEOREM TypeCorrect == Spec => []TypeOK
<1>1. CInv => TypeOK
  BY DEF CInv, Typed, FormTyped, GoodsTyped, SaleTyped, Bounded, Calls, Sale, TypeOK
<1> QED BY <1>1, Always, PTL

\* Whatever was changed in between, an order that is sent names a showroom, a
\* branch of its own carrier and city, or a courier (page.tsx:448-462).
THEOREM OrdersReachTheirPlace == Spec => []AddressFits
<1>1. CInv => AddressFits
  BY DEF CInv, Addressed, Fits, AddressFits
<1> QED BY <1>1, Always, PTL

\* Nothing is sold twice while no answer, and no clearing of the cart, is lost
\* (page.tsx:375-388).
THEOREM SoldOnce == Spec => []OrderedOnce
<1>1. CInv => OrderedOnce
  BY DEF CInv, Sales, Ordered, OrderedOnce
<1> QED BY <1>1, Always, PTL

\* The discount shown is that of the total shown, or is being asked for, unless
\* the page had an outdated answer (promo-code.tsx:45).
THEOREM DiscountFollows == Spec => []PromoFollowsTotal
<1>1. CInv => PromoFollowsTotal
  BY DEF CInv
<1> QED BY <1>1, Always, PTL
=============================================================================

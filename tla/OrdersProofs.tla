----------------------------- MODULE OrdersProofs -----------------------------
(***************************************************************************)
(* Proofs about the order saga, for every set of orders, workers and       *)
(* mishaps.  The saga keeps its types, it uses the inventory only as module*)
(* Inventory allows, and so inherits what is proved of the inventory; what *)
(* it says of orders, promo codes, refunds and shipments is so; and units  *)
(* are reserved for the open orders, no more and no less.                  *)
(***************************************************************************)
EXTENDS Orders, Sums

\* What is to be known of a request being served: beyond its type, it works
\* on an order once it is past "rest", it calls inventory-service only for an
\* order that is filled from a warehouse, and for a line the order has.
RequestOK(r) ==
    /\ r \in Request
    /\ r.step # "rest" => r.order \in Order
    /\ r.order \in Order => r.got \subseteq LineNumbers(r.order)
    /\ r.step \in Calling => Stocked(r.order)
    /\ r.step \in Calling \ {"deduct"} => r.line \in LineNumbers(r.order)
    /\ r.slot # NoCall => r.step \in Calling

WorkersOK ==
    /\ worker \in [Worker -> Request]
    /\ \A w \in Worker : RequestOK(worker[w])

\* Deductions on their way are of orders that are filled from a warehouse.
AdriftOK ==
    /\ adrift \in [Deduction -> Nat]
    /\ \A d \in Deduction : adrift[d] > 0 => Stocked(d[1])

\* The inductive invariant: the variables of the order service have their
\* types, and every request is as it should be.
OwnTypeOK ==
    /\ row \in [Order -> Row]
    /\ recorded \in [Order -> Status \cup {"none"}]
    /\ promoUses \in Nat
    /\ session \subseteq Order /\ notified \subseteq Order
    /\ money \in [Order -> {"none", "captured", "kept", "refunded"}]
    /\ AdriftOK
    /\ WorkersOK
    /\ served \in Nat

-----------------------------------------------------------------------------
(* The helpers that map a request to its next step keep it as it should be. *)

LEMMA LinesAreNumbers ==
    ASSUME NEW o \in Order
    PROVE  LineNumbers(o) \subseteq Nat
BY DEF LineNumbers

LEMMA AtOK ==
    ASSUME NEW r, RequestOK(r), r.order \in Order, NEW step \in Step,
           step \in Calling => step = "deduct" /\ Stocked(r.order)
    PROVE  /\ RequestOK(At(r, step))
           /\ At(r, step).order = r.order
BY DEF RequestOK, At, Request, Calling

LEMMA OverOK ==
    ASSUME NEW r, RequestOK(r), r.order \in Order, Stocked(r.order),
           NEW step \in Calling \ {"deduct"},
           NEW S, S \subseteq LineNumbers(r.order),
           NEW after, RequestOK(after)
    PROVE  RequestOK(Over(r, step, S, after))
<1>1. CASE S = {}
  BY <1>1 DEF Over
<1>2. CASE S # {}
  <2> DEFINE i == CHOOSE i \in S : \A j \in S : i <= j
             new == [At(r, step) EXCEPT !.line = i]
  <2>1. i \in S
    BY <1>2, Smallest, LinesAreNumbers
  <2>2. i \in LineNumbers(r.order) /\ i \in Nat
    BY <2>1, LinesAreNumbers
  <2>3. RequestOK(new)
    <3> HIDE DEF i
    <3> DEFINE at == At(r, step)
    <3>1. at \in Request /\ at.order = r.order /\ at.step = step /\ at.got = r.got
          /\ at.slot = NoCall
      BY DEF RequestOK, Request, At, Calling, Step
    <3> HIDE DEF at
    <3>2. /\ [at EXCEPT !.line = i] \in Request
          /\ \A new2 : new2 = [at EXCEPT !.line = i] =>
                /\ new2.order = r.order /\ new2.step = step /\ new2.got = r.got
                /\ new2.line = i /\ new2.slot = NoCall
      BY <2>2, <3>1 DEF Request
    <3>3. new = [at EXCEPT !.line = i]
      BY DEF at
    <3> HIDE DEF new
    <3> QED BY <2>2, <3>2, <3>3 DEF RequestOK, Calling
  <2>4. Over(r, step, S, after) = new
    BY <1>2 DEF Over
  <2> QED BY <2>3, <2>4
<1> QED BY <1>1, <1>2

LEMMA GiveUpOK ==
    ASSUME NEW r, RequestOK(r), r.order \in Order
    PROVE  RequestOK(GiveUp(r))
<1> DEFINE a == At(r, "change")
<1>1. RequestOK(a) /\ a.order \in Order
  BY AtOK DEF Step, Calling
<1>2. GiveUp(r) = [a EXCEPT !.target = "cancelled"]
  BY DEF GiveUp
<1> HIDE DEF a
<1> QED BY <1>1, <1>2 DEF RequestOK, Request, Status

LEMMA AfterUndoOK ==
    ASSUME NEW r, RequestOK(r), r.order \in Order
    PROVE  RequestOK(AfterUndo(r))
BY GiveUpOK, AtOK DEF AfterUndo, Step, Calling

LEMMA UndoingOK ==
    ASSUME NEW r, RequestOK(r), r.order \in Order, Stocked(r.order)
    PROVE  RequestOK(Undoing(r))
BY AfterUndoOK, OverOK DEF Undoing, Calling, RequestOK

LEMMA RestingOK == RequestOK(Resting)
BY DEF Resting, RequestOK, Request, Step, Kind, Status, Row, NoRow, Payment, Calling

LEMMA ReservingOK ==
    ASSUME NEW r, RequestOK(r), r.order \in Order, Stocked(r.order)
    PROVE  RequestOK(Reserving(r))
BY RestingOK, OverOK, AfterUndoOK DEF Reserving, Calling

LEMMA AfterReleaseOK ==
    ASSUME NEW r, RequestOK(r), r.order \in Order
    PROVE  RequestOK(AfterRelease(r))
BY AtOK DEF AfterRelease, Step, Calling

LEMMA ReleasingOK ==
    ASSUME NEW r, RequestOK(r), r.order \in Order
    PROVE  RequestOK(Releasing(r))
<1>1. CASE Stocked(r.order) /\ Named(r)
  BY <1>1, AfterReleaseOK, OverOK DEF Releasing, Calling
<1>2. CASE ~ (Stocked(r.order) /\ Named(r))
  BY <1>2, AfterReleaseOK DEF Releasing, Over
<1> QED BY <1>1, <1>2

LEMMA AnsweredOK ==
    ASSUME NEW r, RequestOK(r), r.step \in Calling, NEW success \in BOOLEAN
    PROVE  RequestOK(Answered(r, success))
<1> DEFINE rest == LinesAfter(r)
           tried == [r EXCEPT !.ok = @ /\ success,
                              !.got = IF success THEN @ \cup {r.line} ELSE @]
<1>1. r.order \in Order /\ Stocked(r.order) /\ rest \subseteq LineNumbers(r.order)
  BY DEF RequestOK, Calling, LinesAfter
<1>2. CASE r.step = "reserve"
  <2>1. RequestOK(tried) /\ tried.order = r.order
    BY <1>1, <1>2, LinesAreNumbers DEF RequestOK, Request, Calling
  <2>2. Answered(r, success) = Over(tried, "reserve", rest,
                                  IF tried.ok THEN Resting ELSE Undoing(tried))
    BY <1>2 DEF Answered
  <2> HIDE DEF tried, rest
  <2>3. RequestOK(IF tried.ok THEN Resting ELSE Undoing(tried))
    BY <1>1, <2>1, RestingOK, UndoingOK
  <2> QED BY <1>1, <2>1, <2>2, <2>3, OverOK DEF Calling
<1>3. CASE r.step = "undo"
  <2>1. Answered(r, success) = Over(r, "undo", rest \cap r.got, AfterUndo(r))
    BY <1>3 DEF Answered
  <2> HIDE DEF rest
  <2> QED BY <1>1, <2>1, AfterUndoOK, OverOK DEF Calling
<1>4. CASE r.step = "release"
  <2>1. Answered(r, success) = Over(r, "release", rest, AfterRelease(r))
    BY <1>4 DEF Answered
  <2> HIDE DEF rest
  <2> QED BY <1>1, <2>1, AfterReleaseOK, OverOK DEF Calling
<1>5. CASE r.step = "deduct"
  <2>1. Answered(r, success) \in {At(r, "complete"), GiveUp(r), At(r, "record"),
                                  At(r, "revert")}
    BY <1>5 DEF Answered
  <2> QED BY <1>1, <2>1, AtOK, GiveUpOK DEF Step, Calling
<1> QED BY <1>2, <1>3, <1>4, <1>5 DEF Calling

LEMMA AfterChangeOK ==
    ASSUME NEW r, RequestOK(r), r.order \in Order
    PROVE  RequestOK(AfterChange(r))
<1>1. AfterChange(r) \in {Releasing(r), At(r, "record")}
          \cup (IF Stocked(r.order) THEN {At(r, "deduct")} ELSE {})
  BY DEF AfterChange
<1> QED BY <1>1, ReleasingOK, AtOK DEF Step, Calling

LEMMA LoadedOK ==
    ASSUME NEW kind \in Kind, NEW o \in Order, NEW step \in Step \ Calling,
           NEW target \in Status, row \in [Order -> Row]
    PROVE  /\ RequestOK(Loaded(kind, o, step, target))
           /\ Loaded(kind, o, step, target).order = o
BY DEF Loaded, Resting, RequestOK, Request, Row, Calling

LEMMA NewOK ==
    ASSUME NEW kind \in Kind, NEW o \in Order, NEW r, r = New(kind, o)
    PROVE  RequestOK(r) /\ r.order = o
BY DEF New, Resting, RequestOK, Request, Row, Kind, Status, NoRow, Payment, Step,
       Calling

LEMMA WorkerReplaced ==
    ASSUME WorkersOK, NEW w \in Worker, NEW r, RequestOK(r),
           worker' = [worker EXCEPT ![w] = r]
    PROVE  WorkersOK'
BY DEF WorkersOK, RequestOK

LEMMA AllRows ==
    /\ NoRow \in Row
    /\ \A x \in Row : x.status \in Status \cup {"none"} /\ x.pay \in Payment
                      /\ x.intent \in BOOLEAN
    /\ \A x \in Row, t \in Status \cup {"none"} : [x EXCEPT !.status = t] \in Row
    /\ \A x \in Row, p \in Payment : [x EXCEPT !.pay = p] \in Row
BY DEF Row, NoRow, Payment

-----------------------------------------------------------------------------
(* The steps of the order service leave the inventory alone.               *)

LEMMA PlacedOK ==
    ASSUME OwnTypeOK, NEW w \in Worker, NEW o \in Order, Placed(w, o)
    PROVE  /\ row' \in [Order -> Row]
           /\ recorded' \in [Order -> Status \cup {"none"}]
           /\ promoUses' \in Nat
           /\ session' \subseteq Order /\ notified' \subseteq Order
           /\ money' \in [Order -> {"none", "captured", "kept", "refunded"}]
           /\ adrift' = adrift
           /\ UNCHANGED stockVars
<1>1. "unpaid" \in Status
  BY DEF Status
<1>2. row' = [row EXCEPT ![o] = [row[o] EXCEPT !.status = "unpaid"]]
  BY DEF Placed
<1> QED
  BY <1>1, <1>2, AllRows DEF Placed, OwnTypeOK, awayVars

LEMMA ArrivalOK ==
    ASSUME OwnTypeOK, NEW w \in Worker, Arrival(w)
    PROVE  OwnTypeOK' /\ UNCHANGED stockVars
<1> USE DEF Accept
<1>1. ASSUME NEW o \in Order, Create(w, o)
      PROVE  OwnTypeOK' /\ UNCHANGED stockVars
  <2>1. RequestOK(Reserving(New("create", o))) \/ ~Stocked(o)
    BY NewOK, ReservingOK DEF Kind
  <2>2. WorkersOK'
    BY <1>1, <2>1, WorkerReplaced DEF Create, OwnTypeOK, WorkersOK, AdriftOK
  <2> QED
    BY <1>1, <2>2, PlacedOK DEF Create, OwnTypeOK, WorkersOK, AdriftOK
<1>2. ASSUME NEW o \in Order, Ring(w, o)
      PROVE  OwnTypeOK' /\ UNCHANGED stockVars
  <2> DEFINE r == New("till", o)
  <2>1. RequestOK(r) /\ r.order = o
    BY NewOK DEF Kind
  <2>2. Stocked(o) /\ "deduct" \in Step
    BY <1>2, OrdersAssumption DEF Ring, Stocked, Step, Calling
  <2>3. RequestOK(At(r, "deduct"))
    <3> HIDE DEF r
    <3> QED BY <2>1, <2>2, AtOK
  <2>4. WorkersOK'
    BY <1>2, <2>3, WorkerReplaced DEF Ring, OwnTypeOK, WorkersOK, AdriftOK
  <2> QED
    BY <1>2, <2>4, PlacedOK DEF Ring, OwnTypeOK, WorkersOK, AdriftOK
<1>3. ASSUME NEW o \in Order, NEW target \in Status, AskStatus(w, o, target)
      PROVE  OwnTypeOK' /\ UNCHANGED stockVars
  <2>1. RequestOK(Loaded("status", o, "change", target))
    BY LoadedOK DEF OwnTypeOK, Kind, Step, Calling
  <2>2. WorkersOK'
    BY <1>3, <2>1, WorkerReplaced DEF AskStatus, OwnTypeOK, WorkersOK, AdriftOK
  <2> QED
    BY <1>3, <2>2 DEF AskStatus, OwnTypeOK, WorkersOK, AdriftOK, awayVars, orderVars
<1>5. ASSUME NEW o \in Order, Webhook(w, o)
      PROVE  OwnTypeOK' /\ UNCHANGED stockVars
  <2>1. RequestOK(Loaded("webhook", o, "markPaid", "paid"))
    BY LoadedOK DEF OwnTypeOK, Kind, Step, Calling, Status
  <2>2. WorkersOK'
    BY <1>5, <2>1, WorkerReplaced DEF Webhook, OwnTypeOK, WorkersOK, AdriftOK
  <2> QED
    BY <1>5, <2>2 DEF Webhook, OwnTypeOK, WorkersOK, AdriftOK, awayVars, orderVars
<1>6. ASSUME NEW o \in Order, PickStuck(w, o)
      PROVE  OwnTypeOK' /\ UNCHANGED stockVars
  <2> DEFINE r == Loaded("stuck", o, "refund", "cancelled")
  <2>1. RequestOK(r) /\ r.order \in Order
    BY LoadedOK DEF OwnTypeOK, Kind, Step, Calling, Status
  <2>2. RequestOK(Releasing(r))
    <3> HIDE DEF r
    <3> QED BY <2>1, ReleasingOK
  <2>3. WorkersOK'
    BY <1>6, <2>2, WorkerReplaced DEF PickStuck, OwnTypeOK, WorkersOK, AdriftOK
  <2> QED
    BY <1>6, <2>3 DEF PickStuck, OwnTypeOK, WorkersOK, AdriftOK, awayVars, orderVars
<1> QED
  BY <1>1, <1>2, <1>3, <1>5, <1>6 DEF Arrival

LEMMA TransactionOK ==
    ASSUME OwnTypeOK, NEW w \in Worker, Transaction(w)
    PROVE  OwnTypeOK' /\ UNCHANGED stockVars
<1> DEFINE r == worker[w]
           o == r.order
<1>0. /\ RequestOK(r) /\ r \in Request /\ RequestOK(Resting)
      /\ r.mine \in Row /\ r.target \in Status
      /\ r.step # "rest" => o \in Order /\ row[o] \in Row
  BY RestingOK DEF OwnTypeOK, WorkersOK, AdriftOK, RequestOK, Request
<1>a. \A step \in Step \ Calling :
        r.step # "rest" => RequestOK(At(r, step))
  BY <1>0, AtOK
<1>1. CASE Change(w)
  <2> DEFINE new == [r.mine EXCEPT !.status = r.target]
             next == [r EXCEPT !.mine = new, !.old = r.mine.status]
  <2>1. new \in Row /\ o \in Order
    BY <1>0, <1>1, AllRows DEF Change
  <2>2. RequestOK(next) /\ next.order \in Order
    <3> HIDE DEF new
    <3>1. r.mine.status \in Status \cup {"none"}
      BY <1>0, AllRows
    <3> QED BY <1>0, <2>1, <3>1 DEF RequestOK, Request
  <2>3. RequestOK(AfterChange(next))
    <3> HIDE DEF next
    <3> QED BY <2>2, AfterChangeOK
  <2>4. WorkersOK'
    BY <1>0, <1>1, <2>3, WorkerReplaced DEF Change, OwnTypeOK, WorkersOK, AdriftOK
  <2>5. row' \in [Order -> Row]
    <3>1. row' = row \/ row' = [row EXCEPT ![o] = new]
      BY <1>1 DEF Change
    <3> HIDE DEF new
    <3> QED BY <2>1, <3>1 DEF OwnTypeOK
  <2>6. promoUses' \in Nat
    BY <1>1 DEF Change, GiveBack, OwnTypeOK
  <2> QED
    BY <1>1, <2>4, <2>5, <2>6 DEF Change, OwnTypeOK, WorkersOK, AdriftOK, awayVars
<1>2. CASE Revert(w)
  <2>1. row' = [row EXCEPT ![o] = [row[o] EXCEPT !.status = r.old]]
        /\ o \in Order /\ row[o] \in Row
    BY <1>0, <1>2 DEF Revert
  <2>2. [row[o] EXCEPT !.status = r.old] \in Row
    BY <1>0, <2>1, AllRows DEF Request
  <2>3. WorkersOK'
    BY <1>0, <1>2, WorkerReplaced DEF Revert, OwnTypeOK, WorkersOK, AdriftOK
  <2> QED
    BY <1>2, <2>1, <2>2, <2>3 DEF Revert, OwnTypeOK, WorkersOK, AdriftOK, awayVars
<1>3. CASE Record(w)
  <2>1. WorkersOK'
    BY <1>0, <1>3, WorkerReplaced DEF Record, OwnTypeOK, WorkersOK, AdriftOK
  <2>2. r.mine.status \in Status \cup {"none"} /\ o \in Order
    BY <1>0, <1>3, AllRows DEF Record
  <2> QED
    BY <1>3, <2>1, <2>2 DEF Record, OwnTypeOK, WorkersOK, AdriftOK, awayVars
<1>4. CASE MarkPaid(w)
  <2> DEFINE new == [status |-> "paid", pay |-> "paid", intent |-> TRUE]
             paid == [r EXCEPT !.mine = new]
  <2>1. new \in Row /\ o \in Order
    BY <1>0, <1>4 DEF MarkPaid, Row, Status, Payment
  <2>2. RequestOK(paid) /\ paid.order \in Order /\ paid.order = o
    <3> HIDE DEF new
    <3> QED BY <1>0, <2>1 DEF RequestOK, Request
  <2>3. Stocked(o) => RequestOK(Reserving(paid))
    <3> HIDE DEF paid
    <3> QED BY <2>2, ReservingOK
  <2>4. WorkersOK'
    BY <1>0, <1>4, <2>3, WorkerReplaced DEF MarkPaid, OwnTypeOK, WorkersOK, AdriftOK
  <2>5. row' = [row EXCEPT ![o] = new] /\ recorded' = [recorded EXCEPT ![o] = "paid"]
    BY <1>4 DEF MarkPaid
  <2>6. UNCHANGED <<stockVars, promoUses, awayVars, served>>
    BY <1>4 DEF MarkPaid
  <2> HIDE DEF new, paid
  <2>7. row' \in [Order -> Row] /\ recorded' \in [Order -> Status \cup {"none"}]
    BY <2>1, <2>5 DEF OwnTypeOK, Status
  <2> QED
    BY <2>4, <2>6, <2>7 DEF OwnTypeOK, AdriftOK, awayVars
<1>5. CASE Refund(w)
  <2>1. RequestOK(At(r, "cancelStuck")) /\ RequestOK(At(r, "unpay"))
    BY <1>5, <1>a DEF Refund, Step, Calling
  <2>2. WorkersOK'
    BY <1>5, <2>1, WorkerReplaced DEF Refund, OwnTypeOK, WorkersOK, AdriftOK
  <2> QED
    BY <1>5, <2>2 DEF Refund, OwnTypeOK, WorkersOK, AdriftOK, orderVars
<1>6. CASE Unpay(w)
  <2> DEFINE next == [r EXCEPT !.mine.pay = "refunded"]
  <2>1. RequestOK(next) /\ next.order \in Order /\ o \in Order
    BY <1>0, <1>6 DEF Unpay, RequestOK, Request, Row, Payment
  <2>2. RequestOK(GiveUp(next))
    <3> HIDE DEF next
    <3> QED BY <2>1, GiveUpOK
  <2>3. WorkersOK'
    BY <1>6, <2>2, WorkerReplaced DEF Unpay, OwnTypeOK, WorkersOK, AdriftOK
  <2>4. row' = [row EXCEPT ![o] = [row[o] EXCEPT !.pay = "refunded"]]
    BY <1>6 DEF Unpay
  <2>5. [row[o] EXCEPT !.pay = "refunded"] \in Row
    BY <1>0, <1>6, AllRows DEF Unpay, Payment
  <2> QED
    BY <1>6, <2>1, <2>3, <2>4, <2>5 DEF Unpay, OwnTypeOK, WorkersOK, AdriftOK, awayVars
<1>7. CASE CancelStuck(w)
  <2>1. WorkersOK'
    BY <1>0, <1>7, WorkerReplaced DEF CancelStuck, OwnTypeOK, WorkersOK, AdriftOK
  <2>2. row' \in [Order -> Row]
    BY <1>0, <1>7 DEF CancelStuck, OwnTypeOK, Row, Status, Payment
  <2> QED
    BY <1>7, <2>1, <2>2 DEF CancelStuck, OwnTypeOK, WorkersOK, AdriftOK, awayVars
<1>8. CASE Complete(w)
  <2> DEFINE a == At(r, "record")
             next == [a EXCEPT !.mine.status = "completed"]
  <2>1. RequestOK(a)
    BY <1>8, <1>a DEF Complete, Step, Calling
  <2>2. RequestOK(next)
    <3> HIDE DEF a
    <3> QED BY <2>1 DEF RequestOK, Request, Row, Status
  <2>3. WorkersOK'
    BY <1>8, <2>2, WorkerReplaced DEF Complete, OwnTypeOK, WorkersOK, AdriftOK
  <2>4. row' \in [Order -> Row]
    BY <1>0, <1>8 DEF Complete, OwnTypeOK, Row, Status, Payment
  <2> QED
    BY <1>8, <2>3, <2>4 DEF Complete, OwnTypeOK, WorkersOK, AdriftOK, awayVars
<1> QED
  BY <1>1, <1>2, <1>3, <1>4, <1>5, <1>6, <1>7, <1>8 DEF Transaction

LEMMA MoneyOK ==
    ASSUME OwnTypeOK, NEW o \in Order, Pay(o) \/ CustomerPays(o)
    PROVE  OwnTypeOK' /\ UNCHANGED stockVars
BY DEF Pay, CustomerPays, OwnTypeOK, WorkersOK, AdriftOK, orderVars

LEMMA AbandonOK ==
    ASSUME AdriftOK, NEW r, RequestOK(r), Abandon(r)
    PROVE  AdriftOK'
<1>1. CASE UNCHANGED adrift
  BY <1>1 DEF AdriftOK
<1>2. CASE r.step = "deduct"
  <2> DEFINE d == <<r.order, FromReserved(r)>>
  <2>1. r.order \in Order /\ Stocked(r.order)
    BY <1>2 DEF RequestOK, Calling
  <2>2. d \in Deduction /\ d[1] = r.order
    BY <2>1 DEF Deduction, FromReserved
  <2>3. adrift' = adrift \/ adrift' = [adrift EXCEPT ![d] = @ + 1]
    BY DEF Abandon
  <2> HIDE DEF d
  <2> QED BY <2>1, <2>2, <2>3 DEF AdriftOK
<1> QED BY <1>1, <1>2 DEF Abandon

LEMMA DieOK ==
    ASSUME OwnTypeOK, NEW w \in Worker, Die(w)
    PROVE  OwnTypeOK' /\ UNCHANGED stockVars
<1>0. AdriftOK'
  BY AbandonOK DEF Die, OwnTypeOK, WorkersOK
<1>1. WorkersOK'
  BY RestingOK, WorkerReplaced DEF Die, OwnTypeOK, WorkersOK, AdriftOK
<1> QED
  BY <1>0, <1>1 DEF Die, OwnTypeOK, WorkersOK, orderVars

LEMMA NoAnswerOK ==
    ASSUME OwnTypeOK, NEW w \in Worker, NoAnswer(w)
    PROVE  OwnTypeOK' /\ UNCHANGED stockVars
<1>1. RequestOK(Answered(worker[w], FALSE))
  BY AnsweredOK DEF OwnTypeOK, WorkersOK, AdriftOK, NoAnswer
<1>2. WorkersOK'
  BY <1>1, WorkerReplaced DEF NoAnswer, OwnTypeOK, WorkersOK
<1>3. AdriftOK'
  BY AbandonOK DEF NoAnswer, OwnTypeOK, WorkersOK
<1> QED
  BY <1>2, <1>3 DEF NoAnswer, OwnTypeOK, WorkersOK, orderVars

-----------------------------------------------------------------------------
(* The calls of the order service, and the work of inventory-service on    *)
(* them, are steps of the inventory.                                       *)

LEMMA ServeOK ==
    ASSUME OwnTypeOK, NEW c \in Call, Serve(c)
    PROVE  OwnTypeOK' /\ Stock!Next
<1>1. OwnTypeOK'
  BY DEF Serve, OwnTypeOK, WorkersOK, AdriftOK, orderVars, awayVars
<1>2. Stock!Next
  BY DEF Serve, Stock!Next
<1> QED BY <1>1, <1>2

LEMMA AnswerOK ==
    ASSUME OwnTypeOK, NEW w \in Worker, Answer(w)
    PROVE  OwnTypeOK' /\ Stock!Next
<1> DEFINE r == worker[w]
           ok == Success(call[r.slot].reply)
<1>1. r \in Request /\ RequestOK(r) /\ r.slot \in Call
  BY DEF OwnTypeOK, WorkersOK, AdriftOK, Answer, Request
<1>2. Stock!Next
  BY <1>1 DEF Answer, Stock!Next
<1>3. r.step \in Calling
  BY <1>1 DEF RequestOK, Answer
<1>4. ok \in BOOLEAN
  BY DEF Success
<1>5. RequestOK(Answered(r, ok))
  <2> HIDE DEF ok
  <2> QED BY <1>1, <1>3, <1>4, AnsweredOK
<1>6. WorkersOK'
  BY <1>5, WorkerReplaced DEF Answer, OwnTypeOK, WorkersOK, AdriftOK
<1> QED
  BY <1>2, <1>6 DEF Answer, OwnTypeOK, WorkersOK, AdriftOK, orderVars, awayVars

\* The quantities of a call are those of the order; the theorem's hypothesis
\* on them is that MaxQty does not stand in the way.
LEMMA DeductOK ==
    ASSUME NEW o \in Order, Stocked(o), NEW c \in Call, NEW b \in BOOLEAN,
           Deduct(c, o, b),
           \A oo \in Order : \A p \in Items(oo) : Units(oo, p) \in Stock!Qty
    PROVE  Stock!Next
<1> DEFINE wanted == [p \in Items(o) |-> Units(o, p)]
           k == <<"deduct", o, NoProduct>>
<1>1. Lines[o] \in Seq(Line) /\ Lines[o] # << >> /\ WarehouseOf[o] \in Warehouse
  BY OrdersAssumption DEF Stocked
<1>2. Items(o) \in (SUBSET Product) \ {{}}
  <2>1. Len(Lines[o]) \in Nat /\ Len(Lines[o]) > 0
    BY <1>1
  <2>2. 1 \in LineNumbers(o)
    BY <2>1 DEF LineNumbers
  <2>a. \A i \in LineNumbers(o) : Lines[o][i] \in Line
    BY <1>1 DEF LineNumbers
  <2>3. \A i \in LineNumbers(o) : Lines[o][i].item \in Product
    BY <2>a DEF Line
  <2>4. Lines[o][1].item \in Items(o)
    BY <2>2 DEF Items
  <2>5. Items(o) \subseteq Product
    BY <2>3 DEF Items
  <2> QED BY <2>4, <2>5
<1>3. wanted \in [Items(o) -> Stock!Qty]
  OBVIOUS
<1>4. Stock!DeductBatch(c, WarehouseOf[o], wanted, k, b)
  BY DEF Deduct
<1>5. k \in StockKey
  BY DEF StockKey
<1> HIDE DEF wanted, k
<1>6. wanted \in Stock!Batches
  BY <1>2, <1>3 DEF Stock!Batches
<1> QED BY <1>1, <1>4, <1>5, <1>6 DEF Stock!Next

LEMMA AskLineOK ==
    ASSUME NEW r, RequestOK(r), r.step \in Calling \ {"deduct"},
           NEW c \in Call, AskLine(c, r)
    PROVE  Stock!Next
<1> DEFINE o == r.order
           op == IF r.step = "reserve" THEN "reserve" ELSE "release"
           k == KeyFor(r)
<1>1. o \in Order /\ Stocked(o) /\ r.line \in LineNumbers(o)
  BY DEF RequestOK, Calling
<1>2. Lines[o] \in Seq(Line) /\ WarehouseOf[o] \in Warehouse
  BY <1>1, OrdersAssumption DEF Stocked
<1>3. Lines[o][r.line] \in Line
  BY <1>1, <1>2 DEF LineNumbers
<1>4. LocOf(o, r.line) \in Stock!Loc /\ Lines[o][r.line].qty \in Stock!Qty
  BY <1>2, <1>3 DEF LocOf, Line, Stock!Loc, Stock!Qty
<1>5. k \in StockKey
  <2>1. Lines[o][r.line].item \in Product
    BY <1>3 DEF Line
  <2>2. k \in {"reserve", "release", "compensate"} \X {o}
             \X {Lines[o][r.line].item}
    BY DEF KeyFor, Calling
  <2> HIDE DEF k
  <2> QED BY <1>1, <2>1, <2>2 DEF StockKey
<1>6. op \in Stock!SingleOp
  BY DEF Stock!SingleOp
<1>7. Stock!Begin(c, op, LocOf(o, r.line), Lines[o][r.line].qty, k)
  BY DEF AskLine
<1> HIDE DEF op, k
<1> QED BY <1>4, <1>5, <1>6, <1>7 DEF Stock!Next

LEMMA SendOK ==
    ASSUME OwnTypeOK, NEW w \in Worker, Send(w),
           \A o \in Order : \A p \in Items(o) : Units(o, p) \in Stock!Qty
    PROVE  OwnTypeOK' /\ Stock!Next
<1> DEFINE r == worker[w]
           o == r.order
<1>0. r \in Request /\ RequestOK(r) /\ r.step \in Calling
  BY DEF OwnTypeOK, WorkersOK, Send
<1>1. o \in Order /\ Stocked(o)
  BY <1>0 DEF RequestOK, Calling
<1>2. PICK c \in Call :
        /\ IF r.step = "deduct" THEN Deduct(c, o, FromReserved(r))
           ELSE AskLine(c, r)
        /\ worker' = [worker EXCEPT ![w].slot = c]
  BY DEF Send
<1>3. OwnTypeOK'
  <2> DEFINE next == [r EXCEPT !.slot = c]
  <2>1. RequestOK(next)
    BY <1>0, <1>2 DEF RequestOK, Request
  <2>2. worker' = [worker EXCEPT ![w] = next]
    BY <1>2
  <2>3. WorkersOK'
    <3> HIDE DEF next
    <3> QED BY <2>1, <2>2, WorkerReplaced DEF OwnTypeOK, WorkersOK
  <2> QED
    BY <2>3 DEF Send, OwnTypeOK, WorkersOK, AdriftOK, orderVars, awayVars
<1>4. CASE r.step = "deduct"
  BY <1>1, <1>2, <1>3, <1>4, DeductOK DEF FromReserved
<1>5. CASE r.step # "deduct"
  BY <1>0, <1>2, <1>3, <1>5, AskLineOK
<1> QED BY <1>4, <1>5

LEMMA ArriveOK ==
    ASSUME OwnTypeOK, NEW c \in Call, NEW d \in Deduction, Arrive(c, d),
           \A o \in Order : \A p \in Items(o) : Units(o, p) \in Stock!Qty
    PROVE  OwnTypeOK' /\ Stock!Next
<1>1. d[1] \in Order /\ d[2] \in BOOLEAN /\ Stocked(d[1])
  BY DEF Deduction, Arrive, OwnTypeOK, AdriftOK
<1>2. AdriftOK'
  BY DEF Arrive, OwnTypeOK, AdriftOK
<1>3. OwnTypeOK'
  BY <1>2 DEF Arrive, OwnTypeOK, WorkersOK, orderVars
<1>4. Stock!Next
  BY <1>1, DeductOK DEF Arrive
<1> QED BY <1>3, <1>4

LEMMA SagaStep ==
    ASSUME OwnTypeOK, [Next]_vars,
           \A o \in Order : \A p \in Items(o) : Units(o, p) \in Stock!Qty
    PROVE  OwnTypeOK' /\ [Stock!Next]_(Stock!vars)
<1>1. UNCHANGED stockVars => UNCHANGED Stock!vars
  BY DEF stockVars, Stock!vars, Stock!stockVars, Stock!busVars
<1>2. CASE UNCHANGED vars
  BY <1>1, <1>2 DEF vars, orderVars, awayVars, OwnTypeOK, WorkersOK, AdriftOK
<1>3. CASE Next
  BY <1>1, <1>3, ArrivalOK, TransactionOK, SendOK, AnswerOK, NoAnswerOK, DieOK,
     MoneyOK, ServeOK, ArriveOK DEF Next
<1> QED BY <1>2, <1>3

LEMMA InitOK == Init => OwnTypeOK
BY RestingOK DEF Init, OwnTypeOK, WorkersOK, AdriftOK, Row, NoRow, Payment, Status, RequestOK

-----------------------------------------------------------------------------

\* The saga starts from the initial inventory, and each of its steps is one of
\* the inventory's or leaves the inventory alone.
THEOREM SagaUsesInventory ==
    ASSUME \A o \in Order : \A p \in Items(o) : Units(o, p) \in Stock!Qty
    PROVE  Spec => UsesInventory
<1>1. Init => Stock!Init
  BY DEF Init
<1>2. OwnTypeOK /\ [Next]_vars => OwnTypeOK' /\ [Stock!Next]_(Stock!vars)
  BY SagaStep
<1> QED BY <1>1, <1>2, InitOK, PTL DEF Spec, UsesInventory, Stock!Spec

(* What is proved of the inventory alone holds of the saga.  "Shelf" names   *)
(* the inventory's theorems, and with them a second copy of its definitions;*)
(* the two copies say the same.                                             *)

Shelf == INSTANCE InventoryProofs WITH Key <- StockKey

LEMMA SameConstants ==
    /\ Stock!Loc = Shelf!Loc /\ Stock!Qty = Shelf!Qty
    /\ Stock!SingleOp = Shelf!SingleOp
    /\ Stock!Batches = Shelf!Batches /\ Stock!Deliveries = Shelf!Deliveries
BY DEF Stock!Loc, Shelf!Loc, Stock!Qty, Shelf!Qty, Stock!SingleOp,
          Shelf!SingleOp, Stock!Batches, Shelf!Batches, Stock!Deliveries,
          Shelf!Deliveries

LEMMA SameInit == Stock!Init = Shelf!Init
BY DEF Stock!Init, Shelf!Init, Stock!Loc, Shelf!Loc, Stock!MovementType,
       Shelf!MovementType, Stock!AnyKey, Shelf!AnyKey, Stock!ItemKey, Shelf!ItemKey,
       Stock!Idle, Shelf!Idle, Stock!Event, Shelf!Event, Stock!SingleOp,
       Shelf!SingleOp, Stock!NoRequest, Shelf!NoRequest

LEMMA SameStep == Stock!Next <=> Shelf!Next
<1>1. \A c, op, l, q, k : Stock!Begin(c, op, l, q, k) <=> Shelf!Begin(c, op, l, q, k)
  BY DEF Stock!Begin, Shelf!Begin, Stock!Committed, Shelf!Committed,
          Stock!KeyUsed, Shelf!KeyUsed, Stock!stockVars, Shelf!stockVars,
          Stock!busVars, Shelf!busVars
<1>2. \A c : Stock!Apply(c) <=> Shelf!Apply(c)
  BY DEF Stock!Apply, Shelf!Apply, Stock!Enough, Shelf!Enough,
          Stock!QuantityChange, Shelf!QuantityChange, Stock!ReservedChange,
          Shelf!ReservedChange, Stock!Committed, Shelf!Committed, Stock!Owes,
          Shelf!Owes, Stock!Loc, Shelf!Loc, Stock!LowAfter, Shelf!LowAfter,
          Stock!Available, Shelf!Available, Stock!Lesser, Shelf!Lesser
<1>3. \A c, w, wanted, k, b : Stock!DeductBatch(c, w, wanted, k, b) <=> Shelf!DeductBatch(c, w, wanted, k, b)
  BY DEF Stock!DeductBatch, Shelf!DeductBatch, Stock!BatchSeen,
          Shelf!BatchSeen, Stock!Available, Shelf!Available, Stock!Committed,
          Shelf!Committed, Stock!NoRequest, Shelf!NoRequest, Stock!Loc,
          Shelf!Loc, Stock!AnyKey, Shelf!AnyKey, Stock!ItemKey, Shelf!ItemKey,
          Stock!LowAfter, Shelf!LowAfter
<1>4. \A c, p, from, to, q : Stock!Transfer(c, p, from, to, q) <=> Shelf!Transfer(c, p, from, to, q)
  BY DEF Stock!Transfer, Shelf!Transfer, Stock!Available, Shelf!Available,
          Stock!Committed, Shelf!Committed, Stock!NoRequest, Shelf!NoRequest,
          Stock!Loc, Shelf!Loc, Stock!LowAfter, Shelf!LowAfter
<1>5. \A c, l, n : Stock!Adjust(c, l, n) <=> Shelf!Adjust(c, l, n)
  BY DEF Stock!Adjust, Shelf!Adjust, Stock!Committed, Shelf!Committed,
          Stock!NoRequest, Shelf!NoRequest, Stock!Difference,
          Shelf!Difference, Stock!LowAfter, Shelf!LowAfter, Stock!Loc,
          Shelf!Loc
<1>6. \A c, w, items : Stock!Receive(c, w, items) <=> Shelf!Receive(c, w, items)
  BY DEF Stock!Receive, Shelf!Receive, Stock!Committed, Shelf!Committed,
          Stock!NoRequest, Shelf!NoRequest, Stock!Event, Shelf!Event,
          Stock!LowAfter, Shelf!LowAfter, Stock!Loc, Shelf!Loc
<1>7. \A c : Stock!Announce(c) <=> Shelf!Announce(c)
  BY DEF Stock!Announce, Shelf!Announce, Stock!Committed, Shelf!Committed,
          Stock!Topic, Shelf!Topic, Stock!IsLow, Shelf!IsLow, Stock!stockVars,
          Shelf!stockVars
<1>8. \A c : Stock!Collect(c) <=> Shelf!Collect(c)
  BY DEF Stock!Collect, Shelf!Collect, Stock!Idle, Shelf!Idle,
          Stock!NoRequest, Shelf!NoRequest, Stock!stockVars, Shelf!stockVars,
          Stock!busVars, Shelf!busVars
<1>9. \A c : Stock!Crash(c) <=> Shelf!Crash(c)
  BY DEF Stock!Crash, Shelf!Crash, Stock!Committed, Shelf!Committed,
          Stock!stockVars, Shelf!stockVars
<1> QED
  BY <1>1, <1>2, <1>3, <1>4, <1>5, <1>6, <1>7, <1>8, <1>9, SameConstants
     DEF Stock!Next, Shelf!Next

LEMMA UsesShelf ==
    ASSUME \A o \in Order : \A p \in Items(o) : Units(o, p) \in Stock!Qty
    PROVE  Spec => Shelf!Spec
<1>1. Init => Shelf!Init
  BY SameInit DEF Init
<1>2. [Stock!Next]_(Stock!vars) => [Shelf!Next]_(Shelf!vars)
  BY SameStep DEF Stock!vars, Shelf!vars, Stock!stockVars, Shelf!stockVars,
                  Stock!busVars, Shelf!busVars
<1>3. OwnTypeOK /\ [Next]_vars => OwnTypeOK' /\ [Shelf!Next]_(Shelf!vars)
  BY <1>2, SagaStep
<1> QED BY <1>1, <1>3, InitOK, PTL DEF Spec, Shelf!Spec

LEMMA ShelfAssumption == Shelf!InventoryAssumption
BY StockAssumption
   DEF Stock!InventoryAssumption, Shelf!InventoryAssumption, Stock!Loc, Shelf!Loc,
       Stock!ItemKey, Shelf!ItemKey, Stock!IsFiniteSet, Shelf!IsFiniteSet

\* Whatever the saga does, retries, abandons or does twice, neither column of a
\* stock row goes below zero.
THEOREM SagaNeverNegative ==
    ASSUME \A o \in Order : \A p \in Items(o) : Units(o, p) \in Stock!Qty
    PROVE  Spec => []Stock!NoNegativeStock
<1>1. Shelf!NoNegativeStock => Stock!NoNegativeStock
  BY DEF Stock!NoNegativeStock, Shelf!NoNegativeStock, Stock!Loc, Shelf!Loc
<1>2. Shelf!Spec => []Shelf!NoNegativeStock
  BY ShelfAssumption, Shelf!NeverNegative
<1> QED BY <1>1, <1>2, UsesShelf, PTL

\* An order's goods are deducted at most once, however often its shipment is
\* tried.
THEOREM SagaShipsOnce ==
    ASSUME \A o \in Order : \A p \in Items(o) : Units(o, p) \in Stock!Qty
    PROVE  Spec => []Stock!BatchDeductedOnce
<1>1. Shelf!BatchDeductedOnce => Stock!BatchDeductedOnce
  BY DEF Stock!BatchDeductedOnce, Shelf!BatchDeductedOnce, Stock!ItemKey, Shelf!ItemKey
<1>2. Shelf!Spec => []Shelf!BatchDeductedOnce
  BY ShelfAssumption, Shelf!BatchExactlyOnce
<1> QED BY <1>1, <1>2, UsesShelf, PTL

\* Every variable of the saga keeps its type.
THEOREM TypeCorrect ==
    ASSUME \A o \in Order : \A p \in Items(o) : Units(o, p) \in Stock!Qty
    PROVE  Spec => []TypeOK
<1>1. OwnTypeOK /\ [Next]_vars => OwnTypeOK'
  BY SagaStep
<1>2. Shelf!Spec => []Shelf!TypeOK
  BY ShelfAssumption, Shelf!TypeCorrect
<1>3. Shelf!TypeOK => Stock!TypeOK
  BY DEF Stock!TypeOK, Shelf!TypeOK, Stock!Loc, Shelf!Loc, Stock!MovementType,
         Shelf!MovementType, Stock!AnyKey, Shelf!AnyKey, Stock!ItemKey, Shelf!ItemKey,
         Stock!SingleOp, Shelf!SingleOp, Stock!Event, Shelf!Event, Stock!CallState,
         Shelf!CallState, Stock!Request, Shelf!Request, Stock!NoRequest,
         Shelf!NoRequest, Stock!Reply, Shelf!Reply, Stock!Qty, Shelf!Qty,
         Stock!Announcement, Shelf!Announcement
<1>4. OwnTypeOK /\ Stock!TypeOK => TypeOK
  BY DEF OwnTypeOK, WorkersOK, RequestOK, AdriftOK, TypeOK
<1> QED BY <1>1, <1>2, <1>3, <1>4, InitOK, UsesShelf, PTL DEF Spec

-----------------------------------------------------------------------------
(* Sums of units.  The models' MapThenSumSet is SumOver of module Sums.     *)

LEMMA UnitsAreSums ==
    ASSUME NEW o, NEW T
    PROVE  MapThenSumSet(LAMBDA i : Lines[o][i].qty, T)
             = SumOver([i \in T |-> Lines[o][i].qty], T)
<1> DEFINE f == [i \in T |-> Lines[o][i].qty]
<1>1. \A it : IsTable(it, f, T) <=>
        it = [s \in SUBSET T |->
                IF s = {} THEN 0 ELSE Lines[o][Picked(s)].qty + it[s \ {Picked(s)}]]
  <2>1. \A s \in SUBSET T : s # {} => f[Picked(s)] = Lines[o][Picked(s)].qty
    BY PickedIn
  <2> HIDE DEF f
  <2> QED BY <2>1 DEF IsTable
<1> HIDE DEF f
<1>2. (CHOOSE it : IsTable(it, f, T))
        = CHOOSE it : it = [s \in SUBSET T |->
            IF s = {} THEN 0 ELSE Lines[o][Picked(s)].qty + it[s \ {Picked(s)}]]
  BY <1>1
<1>3. MapThenSumSet(LAMBDA i : Lines[o][i].qty, T)
        = (CHOOSE it : it = [s \in SUBSET T |->
            IF s = {} THEN 0 ELSE Lines[o][Picked(s)].qty + it[s \ {Picked(s)}]])[T]
  BY DEF MapThenSumSet, MapThenFoldSet, Picked
<1> QED BY <1>2, <1>3 DEF SumOver, f

LEMMA AllWantIsSum ==
    ASSUME NEW T, NEW l
    PROVE  AllWant(T, l) = SumOver([o \in T |-> Wants(o, l)], T)
<1> DEFINE f == [o \in T |-> Wants(o, l)]
<1>1. \A it : IsTable(it, f, T) <=>
        it = [s \in SUBSET T |->
                IF s = {} THEN 0 ELSE Wants(Picked(s), l) + it[s \ {Picked(s)}]]
  <2>1. \A s \in SUBSET T : s # {} => f[Picked(s)] = Wants(Picked(s), l)
    BY PickedIn
  <2> HIDE DEF f
  <2> QED BY <2>1 DEF IsTable
<1> HIDE DEF f
<1>2. (CHOOSE it : IsTable(it, f, T))
        = CHOOSE it : it = [s \in SUBSET T |->
            IF s = {} THEN 0 ELSE Wants(Picked(s), l) + it[s \ {Picked(s)}]]
  BY <1>1
<1>3. AllWant(T, l) = (CHOOSE it : it = [s \in SUBSET T |->
            IF s = {} THEN 0 ELSE Wants(Picked(s), l) + it[s \ {Picked(s)}]])[T]
  BY DEF AllWant, MapThenSumSet, MapThenFoldSet, Picked
<1> QED BY <1>2, <1>3 DEF SumOver, f

\* An order wants nothing of a product that none of its lines names.
LEMMA WantsType ==
    ASSUME NEW o \in Order, NEW l \in Stock!Loc,
           \A p \in Items(o) : Units(o, p) \in Stock!Qty
    PROVE  /\ Wants(o, l) \in Int
           /\ l[1] \notin Items(o) => Wants(o, l) = 0
<1>1. ASSUME l[1] \notin Items(o) PROVE Units(o, l[1]) = 0
  <2> DEFINE T == {i \in LineNumbers(o) : Lines[o][i].item = l[1]}
             f == [i \in T |-> Lines[o][i].qty]
  <2>1. T = {}
    BY <1>1 DEF Items
  <2>2. Units(o, l[1]) = MapThenSumSet(LAMBDA i : Lines[o][i].qty, T)
    BY Zenon DEF Units
  <2>3. MapThenSumSet(LAMBDA i : Lines[o][i].qty, T) = SumOver(f, T)
    <3> HIDE DEF T
    <3> QED BY UnitsAreSums, Zenon
  <2>4. SumOver(f, {}) = 0
    BY SumEmpty, Zenon
  <2> HIDE DEF T, f
  <2> QED BY <2>1, <2>2, <2>3, <2>4
<1>2. MaxQty \in Nat
  BY StockAssumption DEF Stock!InventoryAssumption
<1>3. Units(o, l[1]) \in Int
  BY <1>1, <1>2 DEF Stock!Qty
<1> QED BY <1>1, <1>3 DEF Wants

LEMMA AllWantWith ==
    ASSUME NEW T \in SUBSET Order, IsFiniteSet(T), NEW o \in Order, o \notin T,
           NEW l \in Stock!Loc,
           \A x \in Order : \A p \in Items(x) : Units(x, p) \in Stock!Qty
    PROVE  /\ AllWant(T \cup {o}, l) = AllWant(T, l) + Wants(o, l)
           /\ AllWant(T, l) \in Int
<1> DEFINE f == [x \in T \cup {o} |-> Wants(x, l)]
           g == [x \in T |-> Wants(x, l)]
<1>1. \A x \in T \cup {o} : f[x] \in Int /\ f[x] = Wants(x, l)
  BY WantsType
<1>2. \A x \in T : g[x] = f[x] /\ g[x] \in Int
  BY WantsType
<1>3. AllWant(T \cup {o}, l) = SumOver(f, T \cup {o}) /\ AllWant(T, l) = SumOver(g, T)
  BY AllWantIsSum
<1> HIDE DEF f, g
<1>4. SumOver(f, T \cup {o}) = f[o] + SumOver(f, T)
  BY <1>1, SumWith
<1>5. SumOver(f, T) = SumOver(g, T)
  BY <1>2, SumSame
<1>6. SumOver(g, T) \in Int
  BY <1>2, SumType
<1> QED BY <1>1, <1>3, <1>4, <1>5, <1>6

-----------------------------------------------------------------------------
(* What takes units off the shelf: the first deduction under an order's     *)
(* key, and nothing else.                                                   *)

DeductKey(o) == <<"deduct", o, NoProduct>>
Sold == {o \in Order : Deducted(o)}

\* A call that has still to run its transaction holds units or lets them go.
OnlyHolds ==
    \A c \in Call : call[c].pc = "checked" => call[c].req.op \in {"reserve", "release"}

\* A deduction is recorded for products the order has.
KeysFit ==
    \A o \in Order, p \in Product :
        uses["deduct"][<<DeductKey(o), p>>] > 0 => p \in Items(o)

\* The inductive invariant of TakenOnce.
TakeInv == OnlyHolds /\ KeysFit /\ IsFiniteSet(Sold) /\ TakenOnce

LEMMA TakeKept ==
    ASSUME TakeInv, OnlyHolds', UNCHANGED quantity, uses'["deduct"] = uses["deduct"]
    PROVE  TakeInv'
<1>1. Sold' = Sold
  BY DEF Sold, Deducted
<1>2. KeysFit'
  BY DEF TakeInv, KeysFit
<1>3. TakenOnce'
  <2>1. \A l \in Stock!Loc : quantity[l] = Seed[l] - AllWant(Sold, l)
    BY DEF TakeInv, TakenOnce, Sold
  <2>2. \A l \in Stock!Loc : quantity'[l] = Seed[l] - AllWant(Sold', l)
    BY <1>1, <2>1
  <2> QED BY <2>2 DEF TakenOnce, Sold
<1> QED BY <1>1, <1>2, <1>3 DEF TakeInv

\* The work on the calls under way takes nothing.
LEMMA ServedTakesNothing ==
    ASSUME TakeInv, Stock!TypeOK, NEW c \in Call,
           Stock!Apply(c) \/ Stock!Announce(c) \/ Stock!Crash(c) \/ Stock!Collect(c)
    PROVE  TakeInv'
<1>1. CASE Stock!Apply(c)
  <2> DEFINE req == call[c].req
  <2>1. /\ call[c].pc = "checked" /\ req.op \in {"reserve", "release"}
        /\ req \in Stock!Request
    BY <1>1 DEF Stock!Apply, TakeInv, OnlyHolds, Stock!TypeOK
  <2>2. UNCHANGED quantity
    <3>1. \/ UNCHANGED quantity
          \/ quantity' = [quantity EXCEPT ![req.loc] =
                            @ + Stock!QuantityChange(req.op, req.qty)]
      BY <1>1 DEF Stock!Apply
    <3>2. Stock!QuantityChange(req.op, req.qty) = 0
      BY <2>1 DEF Stock!QuantityChange
    <3>3. quantity \in [Stock!Loc -> Int]
      BY DEF Stock!TypeOK
    <3> HIDE DEF req
    <3> QED BY <3>1, <3>2, <3>3
  <2>3. uses'["deduct"] = uses["deduct"]
    <3>1. \/ UNCHANGED uses
          \/ uses' = [uses EXCEPT ![req.op][req.key] = @ + 1]
      BY <1>1 DEF Stock!Apply
    <3>2. /\ req.op # "deduct" /\ "deduct" \in Stock!MovementType
          /\ uses \in [Stock!MovementType -> [Stock!AnyKey -> Nat]]
      BY <2>1 DEF Stock!TypeOK, Stock!MovementType, Stock!SingleOp
    <3> HIDE DEF req
    <3> QED BY <3>1, <3>2
  <2>4. OnlyHolds'
    <3>1. PICK x, y : call' = [call EXCEPT ![c] = Stock!Committed(req, x, y)]
      BY <1>1 DEF Stock!Apply
    <3>2. Stock!Committed(req, x, y).pc # "checked"
      BY DEF Stock!Committed
    <3>3. call \in [Call -> Stock!CallState]
      BY DEF Stock!TypeOK
    <3> HIDE DEF req
    <3> QED BY <3>1, <3>2, <3>3 DEF TakeInv, OnlyHolds
  <2> QED BY <2>2, <2>3, <2>4, TakeKept
<1>2. CASE Stock!Announce(c) \/ Stock!Crash(c) \/ Stock!Collect(c)
  <2>1. UNCHANGED <<quantity, uses>>
    BY <1>2 DEF Stock!Announce, Stock!Crash, Stock!Collect, Stock!stockVars
  <2>2. PICK r : call' = [call EXCEPT ![c] = r] /\ r.pc # "checked"
    <3>1. \A q, x, y : Stock!Committed(q, x, y).pc # "checked"
      BY DEF Stock!Committed
    <3>2. Stock!Idle.pc # "checked"
      BY DEF Stock!Idle
    <3>3. \/ \E q, x, y : call' = [call EXCEPT ![c] = Stock!Committed(q, x, y)]
          \/ call' = [call EXCEPT ![c] = Stock!Idle]
      <4>1. CASE Stock!Announce(c)
        <5>1. PICK left : call' = [call EXCEPT ![c] =
                              Stock!Committed(call[c].req, call[c].reply, left)]
          <6> HIDE DEF Stock!Committed
          <6> QED BY <4>1 DEF Stock!Announce
        <5> QED BY <5>1
      <4>2. CASE Stock!Crash(c)
        BY <4>2 DEF Stock!Crash
      <4>3. CASE Stock!Collect(c)
        BY <4>3 DEF Stock!Collect
      <4> QED BY <1>2, <4>1, <4>2, <4>3
    <3> QED BY <3>1, <3>2, <3>3
  <2>3. OnlyHolds'
    <3>3. call \in [Call -> Stock!CallState]
      BY DEF Stock!TypeOK
    <3> QED BY <2>2, <3>3 DEF TakeInv, OnlyHolds
  <2> QED BY <2>1, <2>3, TakeKept
<1> QED BY <1>1, <1>2

\* A first deduction takes what the order wants, and a later one nothing.
LEMMA DeductTakesOnce ==
    ASSUME TakeInv, Stock!TypeOK, NEW c \in Call, NEW o \in Order,
           NEW fromReserved, Deduct(c, o, fromReserved),
           \A x \in Order : \A p \in Items(x) : Units(x, p) \in Stock!Qty
    PROVE  TakeInv'
<1> DEFINE wanted == [p \in Items(o) |-> Units(o, p)]
           k == DeductKey(o)
           first == [x \in Stock!AnyKey |->
                       IF k # NoKey /\ \E p \in Items(o) : x = <<k, p>>
                       THEN uses["deduct"][x] + 1 ELSE uses["deduct"][x]]
<1>1. k \in StockKey /\ k # NoKey
  <2>1. k \in StockKey
    BY DEF DeductKey, StockKey
  <2> QED BY <2>1, StockAssumption DEF Stock!InventoryAssumption
<1>2. Stock!DeductBatch(c, WarehouseOf[o], wanted, k, fromReserved)
  BY DEF Deduct, DeductKey
<1>3. DOMAIN wanted = Items(o)
  OBVIOUS
<1> HIDE DEF k
<1>4. OnlyHolds'
  <2>1. PICK x, y : call' = [call EXCEPT ![c] = Stock!Committed(Stock!NoRequest, x, y)]
    <3> HIDE DEF wanted
    <3> QED BY <1>2 DEF Stock!DeductBatch
  <2>2. Stock!Committed(Stock!NoRequest, x, y).pc # "checked"
    BY DEF Stock!Committed
  <2>3. call \in [Call -> Stock!CallState]
    BY DEF Stock!TypeOK
  <2> QED BY <2>1, <2>2, <2>3 DEF TakeInv, OnlyHolds
<1>5. \/ UNCHANGED <<quantity, uses>>
      \/ /\ ~ Stock!BatchSeen(k, Items(o))
         /\ quantity' = [l \in Stock!Loc |-> quantity[l] -
               (IF l[2] = WarehouseOf[o] /\ l[1] \in Items(o)
                THEN wanted[l[1]] ELSE 0)]
         /\ uses' = [uses EXCEPT !["deduct"] = first]
  <2> HIDE DEF wanted
  <2> QED BY <1>2, <1>3 DEF Stock!DeductBatch
<1>6. CASE UNCHANGED <<quantity, uses>>
  BY <1>4, <1>6, TakeKept
<1>7. CASE /\ ~ Stock!BatchSeen(k, Items(o))
           /\ quantity' = [l \in Stock!Loc |-> quantity[l] -
                 (IF l[2] = WarehouseOf[o] /\ l[1] \in Items(o)
                  THEN wanted[l[1]] ELSE 0)]
           /\ uses' = [uses EXCEPT !["deduct"] = first]
  <2>1. ~ Deducted(o)
    BY <1>1, <1>7 DEF Stock!BatchSeen, Deducted, TakeInv, KeysFit, k, DeductKey
  <2>2. /\ uses \in [Stock!MovementType -> [Stock!AnyKey -> Nat]]
        /\ "deduct" \in Stock!MovementType
    BY DEF Stock!TypeOK, Stock!MovementType, Stock!SingleOp
  <2>3. \A x \in Order, p \in Product : <<DeductKey(x), p>> \in Stock!AnyKey
    BY DEF Stock!AnyKey, Stock!ItemKey, DeductKey, StockKey
  <2>4. uses'["deduct"] = first
    BY <1>7, <2>2
  <2>5. \A x \in Order, p \in Product :
          uses'["deduct"][<<DeductKey(x), p>>]
            = IF x = o /\ p \in Items(o)
              THEN uses["deduct"][<<DeductKey(x), p>>] + 1
              ELSE uses["deduct"][<<DeductKey(x), p>>]
    <3>1. \A x \in Order, p \in Product :
             (\E p2 \in Items(o) : <<DeductKey(x), p>> = <<k, p2>>)
                <=> x = o /\ p \in Items(o)
      BY DEF k, DeductKey
    <3> QED BY <1>1, <2>3, <2>4, <3>1
  <2>6. \A x \in Order, p \in Product : uses["deduct"][<<DeductKey(x), p>>] \in Nat
    <3>1. uses["deduct"] \in [Stock!AnyKey -> Nat]
      BY <2>2
    <3> QED BY <2>3, <3>1
  <2>7. KeysFit'
    <3>1. \A x \in Order, p \in Product :
            uses'["deduct"][<<DeductKey(x), p>>] > 0 => p \in Items(x)
      BY <2>5 DEF TakeInv, KeysFit
    <3> QED BY <3>1 DEF KeysFit
  <2>8. Sold' = Sold \cup {o} /\ o \notin Sold
    <3>1. \E p \in Product : p \in Items(o)
      <4>1. Lines[o] \in Seq(Line) /\ Lines[o] # << >>
        BY OrdersAssumption
      <4>2. 1 \in LineNumbers(o) /\ Lines[o][1] \in Line
        BY <4>1 DEF LineNumbers
      <4> QED BY <4>2 DEF Line, Items
    <3>2. \A x \in Order : Deducted(x)' <=> Deducted(x) \/ x = o
      <4>1. \A x \in Order : Deducted(x) <=>
               \E p \in Product : uses["deduct"][<<DeductKey(x), p>>] > 0
        BY DEF Deducted, DeductKey
      <4>2. \A x \in Order : Deducted(x)' <=>
               \E p \in Product : uses'["deduct"][<<DeductKey(x), p>>] > 0
        BY DEF Deducted, DeductKey
      <4>3. \A p \in Product : p \in Items(o) =>
              uses'["deduct"][<<DeductKey(o), p>>] > 0
        BY <2>5, <2>6
      <4>4. \A x \in Order, p \in Product : x # o =>
              uses'["deduct"][<<DeductKey(x), p>>] = uses["deduct"][<<DeductKey(x), p>>]
        BY <2>5
      <4>5. \A x \in Order : x = o => Deducted(x)'
        BY <3>1, <4>2, <4>3
      <4>6. \A x \in Order : x # o => (Deducted(x)' <=> Deducted(x))
        BY <4>1, <4>2, <4>4
      <4> QED BY <4>5, <4>6
    <3> QED BY <2>1, <3>2 DEF Sold
  <2>9. IsFiniteSet(Sold')
    BY <2>8, FS_AddElement DEF TakeInv
  <2>10. \A l \in Stock!Loc : quantity'[l] = Seed[l] - AllWant(Sold', l)
    <3>1. SUFFICES ASSUME NEW l \in Stock!Loc
                   PROVE  quantity'[l] = Seed[l] - AllWant(Sold', l)
      OBVIOUS
    <3>2. quantity'[l] = quantity[l] - Wants(o, l)
      <4>1. l[1] \notin Items(o) => Wants(o, l) = 0
        BY WantsType
      <4>2. l[1] \in Items(o) => wanted[l[1]] = Units(o, l[1])
        OBVIOUS
      <4> HIDE DEF wanted
      <4>3. quantity'[l] = quantity[l] -
              (IF l[2] = WarehouseOf[o] /\ l[1] \in Items(o) THEN wanted[l[1]] ELSE 0)
        BY <1>7
      <4>4. (IF l[2] = WarehouseOf[o] /\ l[1] \in Items(o) THEN wanted[l[1]] ELSE 0)
              = Wants(o, l)
        BY <4>1, <4>2 DEF Wants
      <4> QED BY <4>3, <4>4
    <3>3. quantity[l] = Seed[l] - AllWant(Sold, l)
      BY DEF TakeInv, TakenOnce, Sold
    <3>4. Seed[l] \in Int
      BY StockAssumption DEF Stock!InventoryAssumption
    <3>5. AllWant(Sold \cup {o}, l) = AllWant(Sold, l) + Wants(o, l)
          /\ AllWant(Sold, l) \in Int
      <4>1. Sold \in SUBSET Order /\ IsFiniteSet(Sold)
        BY DEF Sold, TakeInv
      <4> QED BY <2>8, <4>1, AllWantWith
    <3>6. Wants(o, l) \in Int
      BY WantsType
    <3> QED BY <2>8, <3>2, <3>3, <3>4, <3>5, <3>6
  <2> QED BY <1>4, <2>7, <2>9, <2>10 DEF TakeInv, TakenOnce, Sold
<1> QED BY <1>5, <1>6, <1>7

\* A reservation or a release takes nothing.
LEMMA AskTakesNothing ==
    ASSUME TakeInv, Stock!TypeOK, NEW c \in Call, NEW op, NEW l, NEW q, NEW k,
           Stock!Begin(c, op, l, q, k), op \in {"reserve", "release"}
    PROVE  TakeInv'
<1>2. UNCHANGED <<quantity, uses>>
  BY DEF Stock!Begin, Stock!stockVars
<1>3. OnlyHolds'
  <2>1. \A q1, x, y : Stock!Committed(q1, x, y).pc # "checked"
    BY DEF Stock!Committed
  <2>2. PICK s : call' = [call EXCEPT ![c] = s]
                 /\ (s.pc = "checked" => s.req.op \in {"reserve", "release"})
    <3> DEFINE req == [op |-> op, loc |-> l, qty |-> q, key |-> k]
               s1 == Stock!Committed(req, "conflict", {})
               s2 == [pc |-> "checked", req |-> req, reply |-> "none", todo |-> {}]
    <3>1. call' = [call EXCEPT ![c] = s1] \/ call' = [call EXCEPT ![c] = s2]
      <4> HIDE DEF Stock!Committed
      <4> QED BY DEF Stock!Begin
    <3>2. s1.pc # "checked" /\ s2.req.op \in {"reserve", "release"}
      BY <2>1
    <3> HIDE DEF s1, s2
    <3> QED BY <3>1, <3>2
  <2>3. call \in [Call -> Stock!CallState]
    BY DEF Stock!TypeOK
  <2> QED BY <2>2, <2>3 DEF TakeInv, OnlyHolds
<1> QED BY <1>2, <1>3, TakeKept

LEMMA SentTakesOnce ==
    ASSUME TakeInv, OwnTypeOK, Stock!TypeOK, NEW w \in Worker, Send(w),
           \A o \in Order : \A p \in Items(o) : Units(o, p) \in Stock!Qty
    PROVE  TakeInv'
<1>1. worker[w].order \in Order
  BY DEF OwnTypeOK, WorkersOK, Send, RequestOK, Calling
<1>2. PICK c \in Call :
        \/ Deduct(c, worker[w].order, FromReserved(worker[w]))
        \/ AskLine(c, worker[w])
  BY DEF Send
<1>3. CASE Deduct(c, worker[w].order, FromReserved(worker[w]))
  BY <1>1, <1>3, DeductTakesOnce
<1>4. CASE AskLine(c, worker[w])
  <2>1. PICK op, l, q, k : /\ Stock!Begin(c, op, l, q, k)
                           /\ op \in {"reserve", "release"}
    BY <1>4 DEF AskLine
  <2> QED BY <2>1, AskTakesNothing
<1> QED BY <1>2, <1>3, <1>4

LEMMA TakeStep ==
    ASSUME TakeInv, OwnTypeOK, Stock!TypeOK, [Next]_vars,
           \A o \in Order : \A p \in Items(o) : Units(o, p) \in Stock!Qty
    PROVE  TakeInv'
<1>1. UNCHANGED stockVars => TakeInv'
  <2>1. UNCHANGED stockVars => UNCHANGED <<quantity, uses, call>>
    BY DEF stockVars
  <2>2. UNCHANGED call => OnlyHolds'
    BY DEF TakeInv, OnlyHolds
  <2> QED BY <2>1, <2>2, TakeKept
<1>2. CASE UNCHANGED vars
  BY <1>1, <1>2 DEF vars
<1>3. ASSUME NEW w \in Worker, Answer(w) PROVE TakeInv'
  <2>1. worker[w].slot \in Call
    BY <1>3 DEF OwnTypeOK, WorkersOK, Answer, Request
  <2> QED BY <1>3, <2>1, ServedTakesNothing DEF Answer
<1>4. ASSUME NEW c \in Call, Serve(c) PROVE TakeInv'
  BY <1>4, ServedTakesNothing DEF Serve
<1>5. ASSUME NEW c \in Call, NEW d \in Deduction, Arrive(c, d) PROVE TakeInv'
  <2>1. d[1] \in Order
    BY DEF Deduction
  <2> QED BY <1>5, <2>1, DeductTakesOnce DEF Arrive
<1>6. CASE Next
  BY <1>1, <1>3, <1>4, <1>5, <1>6, ArrivalOK, TransactionOK, SentTakesOnce,
     NoAnswerOK, DieOK, MoneyOK DEF Next
<1> QED BY <1>2, <1>6

LEMMA TakeInit == Init /\ Stock!TypeOK => TakeInv
<1> SUFFICES ASSUME Init, Stock!TypeOK PROVE TakeInv
  OBVIOUS
<1>1. Stock!Init
  BY DEF Init
<1>2. OnlyHolds
  BY <1>1 DEF Stock!Init, Stock!Idle, OnlyHolds
<1>3. \A o \in Order, p \in Product : uses["deduct"][<<DeductKey(o), p>>] = 0
  <2>1. \A x \in Stock!AnyKey : uses["deduct"][x] = 0
    BY <1>1 DEF Stock!Init, Stock!MovementType, Stock!SingleOp
  <2>2. \A o \in Order, p \in Product : <<DeductKey(o), p>> \in Stock!AnyKey
    BY DEF Stock!AnyKey, Stock!ItemKey, DeductKey, StockKey
  <2> QED BY <2>1, <2>2
<1>4. KeysFit
  BY <1>3 DEF KeysFit
<1>5. Sold = {}
  <2>1. \A o \in Order : ~ Deducted(o)
    <3>1. ~ (0 > 0)
      OBVIOUS
    <3> QED BY <1>3, <3>1, Zenon DEF Deducted, DeductKey
  <2> QED BY <2>1 DEF Sold
<1>6. TakenOnce
  <2>1. \A l \in Stock!Loc : AllWant(Sold, l) = 0
    BY <1>5, AllWantIsSum, SumEmpty
  <2>2. quantity = Seed /\ \A l \in Stock!Loc : Seed[l] \in Int
    BY <1>1, StockAssumption DEF Stock!Init, Stock!InventoryAssumption
  <2> QED BY <2>1, <2>2 DEF TakenOnce, Sold
<1> QED BY <1>2, <1>4, <1>5, <1>6, FS_EmptySet DEF TakeInv

\* An order never takes its units off the shelf twice, and nothing but a
\* shipment or a sale takes any, whatever the surroundings do: workers may die,
\* calls be abandoned and arrive late, orders be revived or handled twice at
\* once.
THEOREM ShelfTakenOnce ==
    ASSUME \A o \in Order : \A p \in Items(o) : Units(o, p) \in Stock!Qty
    PROVE  Spec => []TakenOnce
<1>1. Init => OwnTypeOK
  BY InitOK
<1>2. OwnTypeOK /\ [Next]_vars => OwnTypeOK'
  BY SagaStep
<1>3. TakeInv /\ OwnTypeOK /\ TypeOK /\ [Next]_vars => TakeInv'
  BY TakeStep DEF TypeOK
<1>4. Init /\ TypeOK => TakeInv
  BY TakeInit DEF TypeOK
<1>5. TakeInv => TakenOnce
  BY DEF TakeInv
<1>6. Spec => []TypeOK
  BY TypeCorrect
<1> QED BY <1>1, <1>2, <1>3, <1>4, <1>5, <1>6, PTL DEF Spec

-----------------------------------------------------------------------------
(* One worker per order.  Unless two requests work on an order at once, or  *)
(* a worker dies, the copy of the row a request has in memory is the row,   *)
(* and the request is somewhere on the way its kind takes.                  *)

Undisturbed == Mishap \cap {"sameOrder", "crash"} = {}

\* Stripe reports each payment once, and only for an order still unpaid.
Punctual == Mishap \cap {"redelivery", "latePayment"} = {}

Working(o) == \E w \in Worker : worker[w].step # "rest" /\ worker[w].order = o

Alone ==
    /\ \A v, w \in Worker :
          /\ worker[v].step # "rest" /\ worker[w].step # "rest"
          /\ worker[v].order = worker[w].order
          => v = w
    /\ \A w \in Worker : worker[w].step = "rest" => worker[w] = Resting

PaidRow     == [status |-> "paid", pay |-> "paid", intent |-> TRUE]
UnpaidAgain == [status |-> "paid", pay |-> "refunded", intent |-> TRUE]
GivenUp     == [status |-> "cancelled", pay |-> "refunded", intent |-> TRUE]

\* The way of a request, by its kind.
Course(r) ==
    \/ /\ r.kind = "create"
       /\ \/ r.step \in {"reserve", "undo"} /\ r.mine.status = "unpaid"
          \/ r.step = "change" /\ r.target = "cancelled" /\ r.mine.status = "unpaid"
          \/ r.step = "record" /\ r.mine.status # "unpaid"
    \/ /\ r.kind = "till" /\ r.order \in Till
       /\ \/ r.step \in {"deduct", "complete"} /\ r.mine.status = "unpaid"
          \/ r.step = "change" /\ r.target = "cancelled" /\ r.mine.status = "unpaid"
          \/ r.step = "record" /\ r.mine.status # "unpaid"
    \/ /\ r.kind = "status"
       /\ \/ r.step = "change"
          \/ r.step \in {"release", "record"} /\ r.mine.status # "unpaid"
          \/ /\ r.step \in {"deduct", "revert"}
             /\ r.mine.status = "delivering" /\ r.old = "paid"
    \/ /\ r.kind = "webhook"
       /\ \/ r.step = "markPaid"
          \/ r.step \in {"refund", "unpay"} /\ r.mine = PaidRow
          \/ r.step = "change" /\ r.target = "cancelled" /\ r.mine = UnpaidAgain
          \/ r.step = "record" /\ r.mine = GivenUp
    \/ /\ r.kind = "stuck" /\ "stuck" \in Mishap
       /\ r.step \in {"refund", "cancelStuck"}
       /\ r.mine.status = "paid" /\ r.mine.intent

\* What the last history row of an order should say.
Current(x) == IF x.status = "unpaid" THEN "none" ELSE x.status

\* And what it says while a request is served.
HistoryOf(r, x, h) ==
    \/ r.step \in {"record", "release"}
    \/ r.kind = "status" /\ r.step \in {"deduct", "revert"} /\ h = r.old
    \/ ~ (r.kind = "status" /\ r.step \in {"deduct", "revert"}) /\ h = Current(x)

\* Where the request can be once the money was given back.
Repaying(r, x) ==
    \/ r.kind = "webhook" /\ r.step \in {"unpay", "change", "record"}
    \/ r.kind = "stuck" /\ r.step = "cancelStuck"
    \/ r.kind = "status" /\ r.step = "change" /\ x = GivenUp

\* A request r being served, and the row x, the last history status h, the
\* money m and the notification d of its order.
Good(r, x, h, m, d) ==
    /\ Course(r)
    /\ r.mine.status = x.status
    /\ r.kind # "till" => r.mine = x
    /\ "stuck" \notin Mishap => HistoryOf(r, x, h)
    /\ Punctual => /\ m # "none" => d
                   /\ r.step = "markPaid" => x.status = "unpaid"
                   /\ m = "refunded" => Repaying(r, x)

\* An order nobody works on.
Calm(x, h, m, d) ==
    /\ "stuck" \notin Mishap => h = Current(x)
    /\ Punctual => /\ m # "none" /\ ~ d => x.status = "unpaid" /\ m = "captured"
                   /\ m = "refunded" => x = GivenUp

\* The inductive invariant behind the properties of statuses, history,
\* promo codes and refunds.
InCourse ==
    /\ Alone
    /\ \A w \in Worker : worker[w].step # "rest" =>
          Good(worker[w], row[worker[w].order], recorded[worker[w].order],
               money[worker[w].order], worker[w].order \in notified)
    /\ \A o \in Order : ~ Working(o) =>
          Calm(row[o], recorded[o], money[o], o \in notified)

-----------------------------------------------------------------------------
(* How a request goes on, as far as its way is concerned.                   *)

Follows(r, n) ==
    n.order = r.order /\ n.kind = r.kind /\ n.mine = r.mine /\ n.old = r.old

LEMMA AtGoes ==
    ASSUME NEW r \in Request, NEW step, NEW n, n = At(r, step)
    PROVE  Follows(r, n) /\ n.step = step /\ n.target = r.target
BY DEF At, Request, Follows

LEMMA OverGoes ==
    ASSUME NEW r \in Request, NEW step, NEW S, NEW after, NEW n,
           n = Over(r, step, S, after)
    PROVE  n = after \/ (Follows(r, n) /\ n.step = step /\ n.target = r.target)
<1> DEFINE a == At(r, step)
<1>1. /\ Follows(r, a) /\ a.step = step /\ a.target = r.target
      /\ \A i, b : b = [a EXCEPT !.line = i] =>
            b.order = a.order /\ b.kind = a.kind /\ b.mine = a.mine
            /\ b.old = a.old /\ b.step = a.step /\ b.target = a.target
  BY DEF At, Request, Follows
<1>2. n = after \/ \E i : n = [a EXCEPT !.line = i]
  BY DEF Over
<1> HIDE DEF a
<1> QED BY <1>1, <1>2 DEF Follows

LEMMA GiveUpGoes ==
    ASSUME NEW r \in Request, NEW n, n = GiveUp(r)
    PROVE  Follows(r, n) /\ n.step = "change" /\ n.target = "cancelled"
BY DEF At, Request, Follows, GiveUp

\* After the reserved lines were let go, or none was reserved.
Undone(r, n) ==
    /\ Follows(r, n)
    /\ \/ n.step = "undo"
       \/ r.kind = "create" /\ n.step = "change" /\ n.target = "cancelled"
       \/ r.kind # "create" /\ n.step = "refund"

LEMMA AfterUndoGoes ==
    ASSUME NEW r \in Request
    PROVE  Undone(r, AfterUndo(r))
BY AtGoes, GiveUpGoes DEF AfterUndo, Undone

LEMMA UndoingGoes ==
    ASSUME NEW r \in Request, NEW S, NEW n, n = Over(r, "undo", S, AfterUndo(r))
    PROVE  Undone(r, n)
BY OverGoes, AfterUndoGoes DEF Undone

LEMMA ReservingGoes ==
    ASSUME NEW r \in Request, NEW n, n = Reserving(r)
    PROVE  \/ Named(r) /\ n = Resting
           \/ Named(r) /\ Follows(r, n) /\ n.step = "reserve"
           \/ /\ ~ Named(r) /\ Follows(r, n)
              /\ \/ r.kind = "create" /\ n.step = "change" /\ n.target = "cancelled"
                 \/ r.kind # "create" /\ n.step = "refund"
BY OverGoes, AtGoes, GiveUpGoes DEF Reserving, AfterUndo

\* After the lines of a cancelled order were let go.
Let(r, n) ==
    /\ Follows(r, n)
    /\ \/ n.step = "release"
       \/ r.kind = "stuck" /\ n.step = "refund"
       \/ r.kind # "stuck" /\ n.step = "record"

LEMMA AfterReleaseGoes ==
    ASSUME NEW r \in Request
    PROVE  Let(r, AfterRelease(r))
BY AtGoes DEF AfterRelease, Let

LEMMA ReleasingGoes ==
    ASSUME NEW r \in Request, NEW S, NEW n,
           n = Over(r, "release", S, AfterRelease(r))
    PROVE  Let(r, n)
BY OverGoes, AfterReleaseGoes DEF Let

LEMMA AnsweredGoes ==
    ASSUME NEW r \in Request, r.step \in Calling, NEW success \in BOOLEAN,
           NEW n, n = Answered(r, success)
    PROVE  \/ n = Resting /\ r.step = "reserve"
           \/ Follows(r, n) /\ r.step = "reserve" /\ n.step = "reserve"
           \/ r.step \in {"reserve", "undo"} /\ Undone(r, n)
           \/ r.step = "release" /\ Let(r, n)
           \/ /\ r.step = "deduct" /\ Follows(r, n)
              /\ \/ r.kind = "till" /\ n.step = "complete" /\ success
                 \/ r.kind = "till" /\ n.step = "change" /\ n.target = "cancelled"
                 \/ r.kind # "till" /\ n.step = "record" /\ success
                 \/ r.kind # "till" /\ n.step = "revert"
<1>1. CASE r.step = "reserve"
  <2> DEFINE tried == [r EXCEPT !.ok = @ /\ success,
                                !.got = IF success THEN @ \cup {r.line} ELSE @]
             then == IF tried.ok THEN Resting ELSE Undoing(tried)
  <2>1. n = Over(tried, "reserve", LinesAfter(r), then)
    BY <1>1 DEF Answered
  <2>2. Follows(r, tried) /\ tried.step = r.step
    BY DEF Request, Follows
  <2>3. \/ tried \in Request
        \/ r.line \notin Nat
    BY DEF Request
  <2>4. tried \in Request
    BY <2>3 DEF Request
  <2> HIDE DEF tried
  <2>5. (Follows(tried, n) /\ n.step = "reserve") \/ n = then
    BY <2>1, <2>4, OverGoes
  <2>6. then = Resting \/ Undone(tried, then)
    BY <2>4, UndoingGoes DEF Undoing
  <2>7. \A x : Follows(tried, x) => Follows(r, x)
    BY <2>2 DEF Follows
  <2>8. \A x : Undone(tried, x) => Undone(r, x)
    BY <2>2, <2>7 DEF Undone, Follows
  <2> HIDE DEF then
  <2> QED BY <1>1, <2>5, <2>6, <2>7, <2>8
<1>2. CASE r.step = "undo"
  <2>1. n = Over(r, "undo", LinesAfter(r) \cap r.got, AfterUndo(r))
    BY <1>2 DEF Answered
  <2> QED BY <1>2, <2>1, UndoingGoes
<1>3. CASE r.step = "release"
  <2>1. n = Over(r, "release", LinesAfter(r), AfterRelease(r))
    BY <1>3 DEF Answered
  <2> QED BY <1>3, <2>1, ReleasingGoes
<1>4. CASE r.step = "deduct"
  <2>1. n = IF r.kind = "till"
            THEN IF success THEN At(r, "complete") ELSE GiveUp(r)
            ELSE IF success THEN At(r, "record") ELSE At(r, "revert")
    BY <1>4 DEF Answered
  <2> QED BY <1>4, <2>1, AtGoes, GiveUpGoes
<1> QED BY <1>1, <1>2, <1>3, <1>4 DEF Calling

LEMMA AfterChangeGoes ==
    ASSUME NEW r \in Request, NEW n, n = AfterChange(r)
    PROVE  \/ r.target = "cancelled" /\ r.kind = "status" /\ Let(r, n)
           \/ /\ r.target = "delivering" /\ Stocked(r.order)
              /\ Follows(r, n) /\ n.step = "deduct"
           \/ /\ ~ (r.target = "cancelled" /\ r.kind = "status")
              /\ ~ (r.target = "delivering" /\ Stocked(r.order))
              /\ Follows(r, n) /\ n.step = "record"
<1>1. \/ r.target = "cancelled" /\ r.kind = "status" /\ n = Releasing(r)
      \/ r.target = "delivering" /\ Stocked(r.order) /\ n = At(r, "deduct")
      \/ /\ ~ (r.target = "cancelled" /\ r.kind = "status")
         /\ ~ (r.target = "delivering" /\ Stocked(r.order)) /\ n = At(r, "record")
  BY DEF AfterChange
<1> QED BY <1>1, AtGoes, ReleasingGoes DEF Releasing

-----------------------------------------------------------------------------
(* Each step keeps the requests in course.                                  *)

\* A worker takes up, goes on with or leaves an order; the others and their
\* orders stay as they are.
LEMMA OneMoves ==
    ASSUME InCourse, OwnTypeOK, NEW w \in Worker, NEW n, NEW o \in Order,
           \/ worker[w].step # "rest" /\ worker[w].order = o
           \/ worker[w].step = "rest" /\ ~ Working(o),
           n.step # "rest" => n.order = o,
           n.step = "rest" => n = Resting,
           worker' = [worker EXCEPT ![w] = n],
           \A q \in Order \ {o} :
              /\ row'[q] = row[q] /\ recorded'[q] = recorded[q]
              /\ money'[q] = money[q] /\ (q \in notified' <=> q \in notified),
           n.step # "rest" =>
              Good(n, row'[o], recorded'[o], money'[o], o \in notified'),
           n.step = "rest" =>
              Calm(row'[o], recorded'[o], money'[o], o \in notified')
    PROVE  InCourse'
<1>1. /\ worker'[w] = n
      /\ \A v \in Worker \ {w} : worker'[v] = worker[v]
  BY DEF OwnTypeOK, WorkersOK
<1>2. \A v \in Worker \ {w} : worker[v].step # "rest" =>
         worker[v].order \in Order \ {o}
  BY DEF InCourse, Alone, Working, OwnTypeOK, WorkersOK, RequestOK
<1>3. Alone'
  <2>1. \A u, v \in Worker :
          /\ worker'[u].step # "rest" /\ worker'[v].step # "rest"
          /\ worker'[u].order = worker'[v].order
          => u = v
    BY <1>1, <1>2 DEF InCourse, Alone
  <2>2. \A v \in Worker : worker'[v].step = "rest" => worker'[v] = Resting
    BY <1>1 DEF InCourse, Alone
  <2> QED BY <2>1, <2>2 DEF Alone
<1>4. \A v \in Worker : worker'[v].step # "rest" =>
         Good(worker'[v], row'[worker'[v].order], recorded'[worker'[v].order],
              money'[worker'[v].order], worker'[v].order \in notified')
  <2>1. ASSUME NEW v \in Worker \ {w}, worker'[v].step # "rest"
        PROVE  Good(worker'[v], row'[worker'[v].order], recorded'[worker'[v].order],
                    money'[worker'[v].order], worker'[v].order \in notified')
    <3> DEFINE q == worker[v].order
    <3>1. worker'[v] = worker[v] /\ q \in Order \ {o}
      BY <1>1, <1>2, <2>1
    <3>2. Good(worker[v], row[q], recorded[q], money[q], q \in notified)
      BY <1>1, <2>1 DEF InCourse
    <3>3. /\ row'[q] = row[q] /\ recorded'[q] = recorded[q]
          /\ money'[q] = money[q] /\ (q \in notified') = (q \in notified)
      BY <3>1
    <3>4. Good(worker[v], row'[q], recorded'[q], money'[q], q \in notified')
      <4> HIDE DEF q
      <4> QED BY <3>2, <3>3
    <3> QED BY <3>1, <3>4
  <2> QED BY <1>1, <2>1
<1>5. ASSUME NEW q \in Order,
             ~ \E v \in Worker : worker'[v].step # "rest" /\ worker'[v].order = q
      PROVE  Calm(row'[q], recorded'[q], money'[q], q \in notified')
  <2>1. CASE q = o
    BY <1>1, <1>5, <2>1
  <2>2. CASE q # o
    <3>1. ~ Working(q)
      <4>1. SUFFICES ASSUME NEW v \in Worker, worker[v].step # "rest",
                            worker[v].order = q
                     PROVE  FALSE
        BY DEF Working
      <4>2. v # w
        BY <2>2, <4>1
      <4> QED BY <1>1, <1>5, <4>1, <4>2
    <3>2. Calm(row[q], recorded[q], money[q], q \in notified)
      BY <3>1 DEF InCourse
    <3>3. /\ row'[q] = row[q] /\ recorded'[q] = recorded[q]
          /\ money'[q] = money[q] /\ (q \in notified') = (q \in notified)
      BY <2>2
    <3> QED BY <3>2, <3>3
  <2> QED BY <2>1, <2>2
<1> QED BY <1>3, <1>4, <1>5 DEF InCourse, Working

\* What is known of an order somebody works on, and of one taken up.
LEMMA Serving ==
    ASSUME InCourse, OwnTypeOK, NEW w \in Worker, worker[w].step # "rest",
           NEW o, o = worker[w].order
    PROVE  /\ worker[w] \in Request /\ o \in Order /\ row[o] \in Row
           /\ worker[w].mine \in Row
           /\ Good(worker[w], row[o], recorded[o], money[o], o \in notified)
BY DEF InCourse, OwnTypeOK, WorkersOK, RequestOK, Request

LEMMA TakenUp ==
    ASSUME InCourse, OwnTypeOK, Undisturbed, NEW w \in Worker,
           worker[w].step = "rest", NEW o \in Order,
           Busy(o) => "sameOrder" \in Mishap
    PROVE  /\ ~ Working(o) /\ worker[w] = Resting /\ row[o] \in Row
           /\ Calm(row[o], recorded[o], money[o], o \in notified)
<1>1. ~ Working(o)
  BY DEF Undisturbed, Busy, Working
<1> QED BY <1>1 DEF InCourse, Alone, OwnTypeOK

\* A loaded request finds its order as it stands.
LEMMA LoadedGoes ==
    ASSUME NEW kind, NEW o, NEW step, NEW target, NEW r,
           r = Loaded(kind, o, step, target)
    PROVE  /\ r.kind = kind /\ r.order = o /\ r.step = step /\ r.target = target
           /\ r.mine = row[o] /\ r.old = row[o].status
BY DEF Loaded, Resting

LEMMA NewGoes ==
    ASSUME NEW kind, NEW o, NEW r, r = New(kind, o)
    PROVE  /\ r.kind = kind /\ r.order = o
           /\ r.mine = [NoRow EXCEPT !.status = "unpaid"]
BY DEF New, Resting

LEMMA PlacedInCourse ==
    ASSUME InCourse, OwnTypeOK, Undisturbed, NEW w \in Worker, NEW o \in Order,
           Accept(w, o), Placed(w, o), NEW n,
           worker' = [worker EXCEPT ![w] = n],
           \/ n = Resting
           \/ /\ Course(n) /\ n.order = o /\ n.step \in {"reserve", "deduct", "change"}
              /\ n.kind # "status"
              /\ n.mine = [NoRow EXCEPT !.status = "unpaid"]
    PROVE  InCourse'
<1> DEFINE placed == [NoRow EXCEPT !.status = "unpaid"]
<1>1. /\ ~ Working(o) /\ worker[w].step = "rest"
      /\ Calm(row[o], recorded[o], money[o], o \in notified)
  BY TakenUp DEF Accept
<1>2. row[o] = NoRow /\ placed.status = "unpaid" /\ row[o].status = "none"
  BY DEF Placed, NoRow
<1>3. /\ row'[o] = placed /\ recorded'[o] = recorded[o]
      /\ \A q \in Order \ {o} : row'[q] = row[q] /\ recorded'[q] = recorded[q]
  BY <1>2 DEF Placed, OwnTypeOK
<1>4. UNCHANGED <<money, notified>>
  BY DEF Placed, awayVars
<1>5. Calm(row'[o], recorded'[o], money'[o], o \in notified')
      /\ (Punctual => (money[o] # "none" => o \in notified) /\ money[o] # "refunded")
  BY <1>1, <1>2, <1>3, <1>4 DEF Calm, GivenUp, Current
<1>6. CASE n = Resting
  <2>1. n.step = "rest"
    BY <1>6 DEF Resting
  <2> QED BY <1>1, <1>3, <1>4, <1>5, <1>6, <2>1, OneMoves
<1>7. CASE /\ Course(n) /\ n.order = o /\ n.step \in {"reserve", "deduct", "change"}
           /\ n.kind # "status" /\ n.mine = placed
  <2>1. Good(n, row'[o], recorded'[o], money'[o], o \in notified')
    <3>1. HistoryOf(n, placed, recorded[o]) \/ "stuck" \in Mishap
      BY <1>1, <1>2, <1>7 DEF HistoryOf, Calm, Current
    <3> QED BY <1>2, <1>3, <1>4, <1>5, <1>7, <3>1 DEF Good
  <2>2. n.order = o /\ n.step # "rest"
    BY <1>7
  <2>3. \A q \in Order \ {o} :
           /\ row'[q] = row[q] /\ recorded'[q] = recorded[q]
           /\ money'[q] = money[q] /\ (q \in notified' <=> q \in notified)
    BY <1>3, <1>4
  <2> QED BY <1>1, <2>1, <2>2, <2>3, OneMoves
<1> QED BY <1>6, <1>7

LEMMA ArrivalInCourse ==
    ASSUME InCourse, OwnTypeOK, Undisturbed, NEW w \in Worker, Arrival(w)
    PROVE  InCourse'
<1>1. ASSUME NEW o \in Order, Create(w, o) PROVE InCourse'
  <2>0. Accept(w, o) /\ Placed(w, o)
    BY <1>1 DEF Create
  <2> DEFINE r == New("create", o)
             n == IF Stocked(o) THEN Reserving(r) ELSE Resting
  <2>1. worker[w] = Resting
    BY <2>0, TakenUp DEF Accept
  <2>2. worker' = [worker EXCEPT ![w] = n]
    BY <1>1, <2>1 DEF Create
  <2>3. /\ r \in Request /\ r.kind = "create" /\ r.order = o
        /\ r.mine = [NoRow EXCEPT !.status = "unpaid"]
    BY NewOK, NewGoes DEF Kind, RequestOK
  <2> HIDE DEF r
  <2>4. \/ n = Resting
        \/ /\ Follows(r, n)
           /\ \/ n.step = "reserve"
              \/ n.step = "change" /\ n.target = "cancelled"
    BY <2>3, ReservingGoes
  <2> HIDE DEF n
  <2>5. n # Resting => Course(n)
    BY <2>3, <2>4 DEF Follows, Course, NoRow
  <2> QED BY <2>0, <2>2, <2>3, <2>4, <2>5, PlacedInCourse DEF Follows
<1>2. ASSUME NEW o \in Order, Ring(w, o) PROVE InCourse'
  <2>0. Accept(w, o) /\ Placed(w, o) /\ o \in Till
    BY <1>2 DEF Ring
  <2> DEFINE r == New("till", o)
             n == At(r, "deduct")
  <2>2. worker' = [worker EXCEPT ![w] = n]
    BY <1>2 DEF Ring
  <2>3. /\ r \in Request /\ r.kind = "till" /\ r.order = o
        /\ r.mine = [NoRow EXCEPT !.status = "unpaid"]
    BY NewOK, NewGoes DEF Kind, RequestOK
  <2> HIDE DEF r
  <2>4. Follows(r, n) /\ n.step = "deduct"
    BY <2>3, AtGoes
  <2> HIDE DEF n
  <2>5. Course(n)
    BY <2>0, <2>3, <2>4 DEF Follows, Course, NoRow
  <2> QED BY <2>0, <2>2, <2>3, <2>4, <2>5, PlacedInCourse DEF Follows
<1>3. ASSUME NEW o \in Order, NEW target \in Status, AskStatus(w, o, target)
      PROVE  InCourse'
  <2> DEFINE n == Loaded("status", o, "change", target)
  <2>1. /\ worker[w].step = "rest" /\ worker' = [worker EXCEPT ![w] = n]
        /\ InFlight(o) => "latePayment" \in Mishap
        /\ UNCHANGED <<row, recorded, money, notified>>
        /\ Busy(o) => "sameOrder" \in Mishap
    BY <1>3 DEF AskStatus, Accept, orderVars, awayVars
  <2>2. /\ ~ Working(o) /\ row[o] \in Row
        /\ Calm(row[o], recorded[o], money[o], o \in notified)
    BY <2>1, TakenUp
  <2>3. n.kind = "status" /\ n.order = o /\ n.step = "change" /\ n.mine = row[o]
    BY LoadedGoes
  <2> HIDE DEF n
  <2>4. Good(n, row[o], recorded[o], money[o], o \in notified)
    BY <2>1, <2>2, <2>3 DEF Good, Calm, Course, HistoryOf, Repaying, Punctual, InFlight
  <2> QED BY <2>1, <2>2, <2>3, <2>4, OneMoves
<1>4. ASSUME NEW o \in Order, Webhook(w, o) PROVE InCourse'
  <2> DEFINE r == Loaded("webhook", o, "markPaid", "paid")
             n == IF row[o].pay = "paid" THEN Resting ELSE r
  <2>1. /\ worker[w].step = "rest" /\ notified' = notified \cup {o}
        /\ UNCHANGED <<row, recorded, money>> /\ money[o] # "none"
        /\ o \in notified => "redelivery" \in Mishap
        /\ Busy(o) => "sameOrder" \in Mishap
    BY <1>4 DEF Webhook, orderVars
  <2>2. /\ ~ Working(o) /\ row[o] \in Row /\ worker[w] = Resting
        /\ Calm(row[o], recorded[o], money[o], o \in notified)
    BY <2>1, TakenUp
  <2>3. worker' = [worker EXCEPT ![w] = n]
    BY <1>4, <2>2 DEF Webhook
  <2>4. r.kind = "webhook" /\ r.order = o /\ r.step = "markPaid" /\ r.mine = row[o]
    BY LoadedGoes
  <2> HIDE DEF r
  <2>5. Calm(row[o], recorded[o], money[o], TRUE)
    BY <2>2 DEF Calm
  <2>6. Good(r, row[o], recorded[o], money[o], TRUE)
    <3>1. HistoryOf(r, row[o], recorded[o]) \/ "stuck" \in Mishap
      BY <2>2, <2>4 DEF Calm, Course, HistoryOf
    <3>2. Course(r)
      BY <2>4 DEF Course
    <3>3. Punctual => row[o].status = "unpaid" /\ money[o] = "captured"
      BY <2>1, <2>2 DEF Calm, Punctual
    <3> QED BY <2>4, <3>1, <3>2, <3>3 DEF Good
  <2>7. CASE row[o].pay = "paid"
    <3>1. n = Resting /\ n.step = "rest"
      BY <2>7 DEF Resting
    <3> HIDE DEF n
    <3> QED BY <2>1, <2>2, <2>3, <2>5, <3>1, OneMoves
  <2>8. CASE row[o].pay # "paid"
    <3>1. n = r
      BY <2>8
    <3> HIDE DEF n
    <3> QED BY <2>1, <2>2, <2>3, <2>4, <2>6, <3>1, OneMoves
  <2> QED BY <2>7, <2>8
<1>5. ASSUME NEW o \in Order, PickStuck(w, o) PROVE InCourse'
  <2> DEFINE r == Loaded("stuck", o, "refund", "cancelled")
             n == Releasing(r)
  <2>1. /\ worker[w].step = "rest" /\ "stuck" \in Mishap
        /\ row[o].status = "paid" /\ row[o].intent
        /\ UNCHANGED <<row, recorded, money, notified>>
        /\ Busy(o) => "sameOrder" \in Mishap
        /\ worker' = [worker EXCEPT ![w] = n]
    BY <1>5 DEF PickStuck, Accept, orderVars, awayVars
  <2>2. /\ ~ Working(o) /\ row[o] \in Row
        /\ Calm(row[o], recorded[o], money[o], o \in notified)
    BY <2>1, TakenUp
  <2>3. r.kind = "stuck" /\ r.order = o /\ r.mine = row[o]
    BY LoadedGoes
  <2>4. r \in Request
    BY LoadedOK DEF OwnTypeOK, Kind, Step, Calling, Status, RequestOK
  <2> HIDE DEF r
  <2>5. Follows(r, n) /\ n.step = "refund"
    <3>1. n = At(r, "refund")
      BY <2>3 DEF Releasing, AfterRelease, Named, Over
    <3> QED BY <2>4, <3>1, AtGoes
  <2> HIDE DEF n
  <2>6. Good(n, row[o], recorded[o], money[o], o \in notified)
    <3>1. Course(n) /\ n.kind # "till" /\ n.mine = row[o]
          /\ n.step = "refund"
      BY <2>1, <2>3, <2>5 DEF Follows, Course
    <3>2. Punctual => (money[o] # "none" => o \in notified) /\ money[o] # "refunded"
      BY <2>1, <2>2 DEF Calm, GivenUp
    <3> QED BY <2>1, <3>1, <3>2 DEF Good
  <2> QED BY <2>1, <2>2, <2>3, <2>5, <2>6, OneMoves DEF Follows
<1> QED
  BY <1>1, <1>2, <1>3, <1>4, <1>5 DEF Arrival

\* A request goes on without touching the row.
LEMMA GoesOn ==
    ASSUME InCourse, OwnTypeOK, NEW w \in Worker, worker[w].step # "rest",
           NEW o, o = worker[w].order,
           NEW n, worker' = [worker EXCEPT ![w] = n],
           UNCHANGED <<row, recorded, money, notified>>,
           n.step # "rest" =>
              n.order = o /\ Good(n, row[o], recorded[o], money[o], o \in notified),
           n.step = "rest" =>
              n = Resting /\ Calm(row[o], recorded[o], money[o], o \in notified)
    PROVE  InCourse'
<1>1. o \in Order
  BY Serving
<1>3. \A q : /\ row'[q] = row[q] /\ recorded'[q] = recorded[q]
             /\ money'[q] = money[q] /\ (q \in notified') = (q \in notified)
  OBVIOUS
<1>4. /\ n.step # "rest" => /\ n.order = o
                            /\ Good(n, row'[o], recorded'[o], money'[o], o \in notified')
      /\ n.step = "rest" => Calm(row'[o], recorded'[o], money'[o], o \in notified')
  BY <1>3
<1> QED BY <1>1, <1>3, <1>4, OneMoves

LEMMA AnswersInCourse ==
    ASSUME InCourse, OwnTypeOK, NEW w \in Worker, worker[w].step \in Calling,
           NEW success \in BOOLEAN,
           worker' = [worker EXCEPT ![w] = Answered(worker[w], success)],
           UNCHANGED <<row, recorded, money, notified>>
    PROVE  InCourse'
<1> DEFINE r == worker[w]
           n == Answered(r, success)
           o == r.order
           x == row[o]
           h == recorded[o]
           m == money[o]
           d == o \in notified
<1>1. r.step # "rest"
  BY DEF Calling
<1>2. r \in Request /\ o \in Order /\ Good(r, x, h, m, d)
  BY <1>1, Serving
<1>3. worker' = [worker EXCEPT ![w] = n]
  OBVIOUS
<1>4. \/ n = Resting /\ r.step = "reserve"
      \/ Follows(r, n) /\ r.step = "reserve" /\ n.step = "reserve"
      \/ r.step \in {"reserve", "undo"} /\ Undone(r, n)
      \/ r.step = "release" /\ Let(r, n)
      \/ /\ r.step = "deduct" /\ Follows(r, n)
         /\ \/ r.kind = "till" /\ n.step = "complete"
            \/ r.kind = "till" /\ n.step = "change" /\ n.target = "cancelled"
            \/ r.kind # "till" /\ n.step \in {"record", "revert"}
  BY <1>2, AnsweredGoes
<1>o. r.order = o
  OBVIOUS
<1> HIDE DEF r, n, o, x, h, m, d
<1>5. ASSUME n = Resting, r.step = "reserve"
      PROVE  n.step = "rest" /\ Calm(x, h, m, d)
  <2>1. n.step = "rest"
    BY <1>5 DEF Resting
  <2>2. "stuck" \notin Mishap => h = Current(x)
    BY <1>2, <1>5 DEF Good, HistoryOf
  <2>3. Punctual => (m # "none" => d) /\ m # "refunded"
    BY <1>2, <1>5 DEF Good, Repaying
  <2> QED BY <2>1, <2>2, <2>3 DEF Calm
<1>6. ASSUME n # Resting
      PROVE  n.step # "rest" /\ n.order = o /\ Good(n, x, h, m, d)
  <2>1. Follows(r, n)
    BY <1>4, <1>6 DEF Undone, Let
  <2>2. Course(r) /\ Course(n) /\ n.step \notin {"rest", "markPaid"}
    <3>1. Course(r)
      BY <1>2 DEF Good
    <3>2. ASSUME r.step = "reserve", n.step = "reserve"
          PROVE  Course(n) /\ n.step \notin {"rest", "markPaid"}
      BY <2>1, <3>1, <3>2 DEF Course, Follows
    <3>3. ASSUME r.step \in {"reserve", "undo"}, Undone(r, n)
          PROVE  Course(n) /\ n.step \notin {"rest", "markPaid"}
      BY <2>1, <3>1, <3>3 DEF Course, Follows, Undone
    <3>4. ASSUME r.step = "release", Let(r, n)
          PROVE  Course(n) /\ n.step \notin {"rest", "markPaid"}
      BY <2>1, <3>1, <3>4 DEF Course, Follows, Let
    <3>5. ASSUME r.step = "deduct",
                 \/ r.kind = "till" /\ n.step = "complete"
                 \/ r.kind = "till" /\ n.step = "change" /\ n.target = "cancelled"
                 \/ r.kind # "till" /\ n.step \in {"record", "revert"}
          PROVE  Course(n) /\ n.step \notin {"rest", "markPaid"}
      BY <2>1, <3>1, <3>5 DEF Course, Follows
    <3> QED BY <1>4, <1>6, <3>1, <3>2, <3>3, <3>4, <3>5
  <2>3. n.mine.status = x.status /\ (n.kind # "till" => n.mine = x)
    BY <1>2, <2>1 DEF Good, Follows
  <2>4. "stuck" \notin Mishap => HistoryOf(n, x, h)
    <3>1. "stuck" \notin Mishap => HistoryOf(r, x, h) /\ r.kind # "stuck"
      BY <1>2, <2>2 DEF Good, Course
    <3>2. \/ n.step = "record"
          \/ r.step \in {"reserve", "undo"} /\ n.step \notin {"deduct", "revert", "record", "release"}
          \/ r.step = "release" /\ n.step = "release"
          \/ r.kind = "stuck"
          \/ r.step = "deduct" /\ r.kind = "till" /\ n.step \in {"complete", "change"}
          \/ r.step = "deduct" /\ r.kind # "till" /\ n.step = "revert"
      BY <1>4, <1>6 DEF Undone, Let
    <3>3. r.step = "deduct" /\ r.kind # "till" => r.kind = "status"
      BY <2>2 DEF Course
    <3>4. n.kind = r.kind /\ n.old = r.old
      BY <2>1 DEF Follows
    <3> QED BY <3>1, <3>2, <3>3, <3>4 DEF HistoryOf
  <2>5. Punctual => (m # "none" => d) /\ (m = "refunded" => Repaying(n, x))
    <3>1. r.step \in Calling => ~ Repaying(r, x)
      BY DEF Repaying, Calling
    <3>2. Punctual => (m # "none" => d) /\ (m = "refunded" => Repaying(r, x))
      BY <1>2 DEF Good
    <3> QED BY <3>1, <3>2 DEF r
  <2> QED BY <1>o, <2>1, <2>2, <2>3, <2>4, <2>5 DEF Good, Follows
<1>7. /\ n.step # "rest" => n.order = o /\ Good(n, x, h, m, d)
      /\ n.step = "rest" => n = Resting /\ Calm(x, h, m, d)
  BY <1>4, <1>5, <1>6 DEF Resting, Undone, Let
<1>8. /\ n.step # "rest" =>
            n.order = o /\ Good(n, row[o], recorded[o], money[o], o \in notified)
      /\ n.step = "rest" =>
            n = Resting /\ Calm(row[o], recorded[o], money[o], o \in notified)
  BY <1>7 DEF x, h, m, d
<1>9. worker[w].step # "rest" /\ o = worker[w].order
  BY <1>1 DEF r, o
<1> QED BY <1>3, <1>8, <1>9, GoesOn

LEMMA SameRow ==
    \A a, b \in Row :
        a.status = b.status /\ a.pay = b.pay /\ a.intent = b.intent => a = b
BY DEF Row

LEMMA RowShapes ==
    /\ \A x : x = UnpaidAgain => [x EXCEPT !.status = "cancelled"] = GivenUp
    /\ \A x : x = PaidRow => [x EXCEPT !.pay = "refunded"] = UnpaidAgain
    /\ \A x \in Row : x.intent =>
          [x EXCEPT !.status = "cancelled", !.pay = "refunded"] = GivenUp
<1>1. /\ UnpaidAgain \in Row /\ PaidRow \in Row /\ GivenUp \in Row
      /\ UnpaidAgain.status = "paid" /\ UnpaidAgain.pay = "refunded"
      /\ UnpaidAgain.intent = TRUE
      /\ PaidRow.status = "paid" /\ PaidRow.pay = "paid" /\ PaidRow.intent = TRUE
      /\ GivenUp.status = "cancelled" /\ GivenUp.pay = "refunded"
      /\ GivenUp.intent = TRUE
  BY DEF UnpaidAgain, PaidRow, GivenUp, Row, Status, Payment
<1>2. \A x \in Row, s \in Status : \A y : y = [x EXCEPT !.status = s] =>
         y \in Row /\ y.status = s /\ y.pay = x.pay /\ y.intent = x.intent
  BY DEF Row
<1>3. \A x \in Row, p \in Payment : \A y : y = [x EXCEPT !.pay = p] =>
         y \in Row /\ y.status = x.status /\ y.pay = p /\ y.intent = x.intent
  BY DEF Row
<1>5. "cancelled" \in Status /\ "refunded" \in Payment
  BY DEF Status, Payment
<1>6. [UnpaidAgain EXCEPT !.status = "cancelled"] = GivenUp
  <2> SUFFICES ASSUME NEW y, y = [UnpaidAgain EXCEPT !.status = "cancelled"]
               PROVE  y = GivenUp
    OBVIOUS
  <2>1. /\ y \in Row /\ y.status = "cancelled" /\ y.pay = UnpaidAgain.pay
        /\ y.intent = UnpaidAgain.intent
    BY <1>1, <1>2, <1>5
  <2> QED BY <1>1, <2>1, SameRow
<1>7. [PaidRow EXCEPT !.pay = "refunded"] = UnpaidAgain
  <2> SUFFICES ASSUME NEW y, y = [PaidRow EXCEPT !.pay = "refunded"]
               PROVE  y = UnpaidAgain
    OBVIOUS
  <2>1. /\ y \in Row /\ y.status = PaidRow.status /\ y.pay = "refunded"
        /\ y.intent = PaidRow.intent
    BY <1>1, <1>3, <1>5
  <2> QED BY <1>1, <2>1, SameRow
<1>8. ASSUME NEW x \in Row, x.intent
      PROVE  [x EXCEPT !.status = "cancelled", !.pay = "refunded"] = GivenUp
  <2>1. x.intent = TRUE
    BY <1>8 DEF Row
  <2> SUFFICES ASSUME NEW y,
                      y = [x EXCEPT !.status = "cancelled", !.pay = "refunded"]
               PROVE  y = GivenUp
    OBVIOUS
  <2>2. /\ y \in Row /\ y.status = "cancelled" /\ y.pay = "refunded"
        /\ y.intent = x.intent
    BY DEF Row, Status, Payment
  <2> QED BY <1>1, <2>1, <2>2, SameRow
<1> QED BY <1>6, <1>7, <1>8

LEMMA TransactionInCourse ==
    ASSUME InCourse, OwnTypeOK, Undisturbed, NEW w \in Worker, Transaction(w)
    PROVE  InCourse'
<1> DEFINE r == worker[w]
           o == r.order
           x == row[o]
           h == recorded[o]
           m == money[o]
           d == o \in notified
<1>1. r.step # "rest"
  BY DEF Transaction, Change, Revert, Record, MarkPaid, Refund, Unpay, CancelStuck,
         Complete
<1>2. r \in Request /\ o \in Order /\ x \in Row /\ r.mine \in Row /\ Good(r, x, h, m, d)
  BY <1>1, Serving
<1>3. Course(r)
  BY <1>2 DEF Good
<1>4. Resting.step = "rest"
  BY DEF Resting
<1>5. /\ row \in [Order -> Row] /\ recorded \in [Order -> Status \cup {"none"}]
      /\ money \in [Order -> {"none", "captured", "kept", "refunded"}]
  BY DEF OwnTypeOK
<1>6. \A step : At(r, step).order = o /\ Follows(r, At(r, step))
                /\ At(r, step).step = step
  BY <1>2, AtGoes DEF Follows
\* How a transaction that writes x2, h2 and m2 and goes on as n is settled.
<1>7. ASSUME NEW n, NEW x2, NEW h2, NEW m2,
             worker' = [worker EXCEPT ![w] = n],
             row' = [row EXCEPT ![o] = x2],
             recorded' = [recorded EXCEPT ![o] = h2],
             money' = [money EXCEPT ![o] = m2], UNCHANGED notified,
             n = Resting \/ (n.step # "rest" /\ n.order = o /\ Good(n, x2, h2, m2, d)),
             n = Resting => Calm(x2, h2, m2, d)
      PROVE  InCourse'
  <2>1. row'[o] = x2 /\ recorded'[o] = h2 /\ money'[o] = m2
        /\ (o \in notified') = d
    BY <1>2, <1>5, <1>7
  <2>2. \A q \in Order \ {o} :
              /\ row'[q] = row[q] /\ recorded'[q] = recorded[q]
              /\ money'[q] = money[q] /\ (q \in notified' <=> q \in notified)
    BY <1>5, <1>7
  <2>3. worker[w].step # "rest" /\ worker[w].order = o
    BY <1>1
  <2>4. n.step # "rest" => n.order = o /\ Good(n, x2, h2, m2, d)
    BY <1>4, <1>7
  <2>5. n.step = "rest" => n = Resting /\ Calm(x2, h2, m2, d)
    BY <1>7
  <2>6. worker' = [worker EXCEPT ![w] = n] /\ o \in Order
    BY <1>2, <1>7
  <2> HIDE DEF r, o, x, h, m, d
  <2> QED BY <2>1, <2>2, <2>3, <2>4, <2>5, <2>6, OneMoves
<1>8. /\ row = [row EXCEPT ![o] = x] /\ recorded = [recorded EXCEPT ![o] = h]
      /\ money = [money EXCEPT ![o] = m]
  BY <1>5
<1>a. CASE Change(w)
  <2> DEFINE new == [r.mine EXCEPT !.status = r.target]
             next == [r EXCEPT !.mine = new, !.old = r.mine.status]
             n == AfterChange(next)
  <2>1. r.step = "change" /\ UNCHANGED <<recorded, money, notified>>
    BY <1>a DEF Change, awayVars
  <2>2. CASE ~ Permitted(r)
    <3>1. worker' = [worker EXCEPT ![w] = Resting] /\ UNCHANGED row
      BY <1>a, <2>2 DEF Change
    <3>2. "stuck" \notin Mishap => h = Current(x)
      BY <1>2, <2>1 DEF Good, HistoryOf
    <3>3. Punctual => (m # "none" => d) /\ (m = "refunded" => x = GivenUp)
      <4>1. m = "refunded" /\ r.kind = "webhook" /\ Punctual => FALSE
        <5>1. r.kind = "webhook" => r.target = "cancelled" /\ r.mine = UnpaidAgain
          BY <1>3, <2>1 DEF Course
        <5> QED BY <2>2, <5>1 DEF Permitted, CanTransition, UnpaidAgain
      <4> QED BY <1>2, <2>1, <4>1 DEF Good, Repaying
    <3>4. Calm(x, h, m, d)
      BY <3>2, <3>3 DEF Calm
    <3> HIDE DEF r, o, x, h, m, d
    <3> QED BY <1>7, <1>8, <2>1, <3>1, <3>4
  <2>3. CASE Permitted(r)
    <3>1. /\ worker' = [worker EXCEPT ![w] = n]
          /\ row' = [row EXCEPT ![o] = new]
      BY <1>a, <2>3 DEF Change
    <3>2. new \in Row /\ new.status = r.target
      BY <1>2 DEF Row, Request
    <3>3. /\ next \in Request /\ next.order = o /\ next.kind = r.kind
          /\ next.mine = new /\ next.old = r.mine.status /\ next.target = r.target
      <4> HIDE DEF new
      <4> QED BY <1>2, <3>2, AllRows DEF Request
    <3> HIDE DEF next
    <3>4. \/ r.target = "cancelled" /\ r.kind = "status" /\ Let(next, n)
          \/ /\ r.target = "delivering" /\ Stocked(o)
             /\ Follows(next, n) /\ n.step = "deduct"
          \/ /\ ~ (r.target = "cancelled" /\ r.kind = "status")
             /\ Follows(next, n) /\ n.step = "record"
      BY <3>3, AfterChangeGoes
    <3> HIDE DEF n
    <3>5. n.order = o /\ n.kind = r.kind /\ n.mine = new /\ n.old = r.mine.status
      BY <3>3, <3>4 DEF Let, Follows
    <3>6. r.mine.status = x.status /\ (r.kind # "till" => r.mine = x)
      BY <1>2 DEF Good
    <3>7. r.kind # "status" => r.target = "cancelled"
      BY <1>3, <2>1 DEF Course
    <3>8. n.step = "deduct" => r.mine.status = "paid" /\ r.kind = "status"
      BY <2>3, <3>4, <3>7 DEF Permitted, CanTransition, Let
    <3>9. /\ r.kind # "status" => n.step = "record"
          /\ r.kind = "status" => n.step \in {"release", "deduct", "record"}
      BY <3>3, <3>4, <3>7, <3>8 DEF Let
    <3>n. new.status # "unpaid"
      BY <2>3, <3>2 DEF Permitted, CanTransition
    <3>10. Course(n)
      <4>1. CASE r.kind = "webhook"
        <5>1. r.mine = UnpaidAgain /\ r.target = "cancelled"
          BY <1>3, <2>1, <4>1 DEF Course
        <5>2. new = GivenUp
          BY <5>1, RowShapes
        <5> QED BY <3>5, <3>9, <4>1, <5>2 DEF Course
      <4>2. CASE r.kind = "status"
        <5>1. n.step = "deduct" => new.status = "delivering"
          BY <3>2, <3>4, <4>2 DEF Let
        <5> QED BY <3>n, <3>5, <3>8, <3>9, <4>2, <5>1 DEF Course
      <4>3. CASE r.kind \notin {"webhook", "status"}
        <5>1. r.kind \in {"create", "till"} /\ (r.kind = "till" => o \in Till)
          BY <1>3, <2>1, <4>3 DEF Course
        <5> QED BY <3>n, <3>5, <3>9, <5>1 DEF Course
      <4> QED BY <4>1, <4>2, <4>3
    <3>11. "stuck" \notin Mishap => HistoryOf(n, new, h)
      <4>1. "stuck" \notin Mishap => h = Current(x)
        BY <1>2, <2>1 DEF Good, HistoryOf
      <4> QED BY <3>5, <3>6, <3>8, <3>9, <4>1 DEF HistoryOf, Current
    <3>12. Punctual => (m # "none" => d) /\ (m = "refunded" => Repaying(n, new))
      <4>1. Punctual /\ m = "refunded" => r.kind = "webhook"
        <5>1. x # GivenUp \/ r.kind # "status"
          BY <2>3, <3>6 DEF Permitted, CanTransition, GivenUp
        <5> QED BY <1>2, <2>1, <5>1 DEF Good, Repaying
      <4> QED BY <1>2, <3>5, <3>9, <4>1 DEF Good, Repaying
    <3>13. n.step # "rest" /\ n.step # "markPaid" /\ n # Resting
      BY <1>4, <3>9
    <3>14. Good(n, new, h, m, d)
      BY <3>5, <3>10, <3>11, <3>12, <3>13 DEF Good
    <3>15. recorded' = [recorded EXCEPT ![o] = h] /\ money' = [money EXCEPT ![o] = m]
           /\ UNCHANGED notified
      BY <1>8, <2>1
    <3>16. n.order = o
      BY <3>5
    <3> HIDE DEF r, o, x, h, m, d, new
    <3> QED BY <1>7, <3>1, <3>13, <3>14, <3>15, <3>16
  <2> QED BY <2>2, <2>3
<1>b. CASE Revert(w)
  <2> DEFINE new == [x EXCEPT !.status = r.old]
  <2>1. /\ r.step = "revert" /\ UNCHANGED <<recorded, money, notified>>
        /\ row' = [row EXCEPT ![o] = new]
        /\ worker' = [worker EXCEPT ![w] = Resting]
    BY <1>b DEF Revert, awayVars
  <2>2. r.kind = "status" /\ r.old = "paid"
    BY <1>3, <2>1 DEF Course
  <2>3. "stuck" \notin Mishap => h = r.old
    BY <1>2, <2>1, <2>2 DEF Good, HistoryOf
  <2>4. Punctual => (m # "none" => d) /\ m # "refunded"
    BY <1>2, <2>1, <2>2 DEF Good, Repaying
  <2>5. Calm(new, h, m, d)
    BY <1>2, <2>2, <2>3, <2>4 DEF Calm, Row, Current
  <2> HIDE DEF r, o, x, h, m, d, new
  <2> QED BY <1>7, <1>8, <2>1, <2>5
<1>c. CASE Record(w)
  <2>1. /\ r.step = "record" /\ UNCHANGED <<row, money, notified>>
        /\ recorded' = [recorded EXCEPT ![o] = r.mine.status]
        /\ worker' = [worker EXCEPT ![w] = Resting]
    BY <1>c DEF Record, awayVars
  <2>2. r.mine.status = x.status /\ r.mine.status # "unpaid"
    BY <1>2, <1>3, <2>1 DEF Good, Course, GivenUp
  <2>3. Punctual => (m # "none" => d) /\ (m = "refunded" => x = GivenUp)
    <3>1. r.kind = "webhook" => r.mine = GivenUp
      BY <1>3, <2>1 DEF Course
    <3> QED BY <1>2, <2>1, <3>1 DEF Good, Repaying
  <2>4. Calm(x, r.mine.status, m, d)
    BY <2>2, <2>3 DEF Calm, Current
  <2> HIDE DEF r, o, x, h, m, d
  <2> QED BY <1>7, <1>8, <2>1, <2>4
<1>d. CASE MarkPaid(w)
  <2> DEFINE paid == [r EXCEPT !.mine = PaidRow]
             n == IF Stocked(o) THEN Reserving(paid) ELSE Resting
  <2>1. /\ r.step = "markPaid" /\ UNCHANGED <<money, notified>>
        /\ row' = [row EXCEPT ![o] = PaidRow]
        /\ recorded' = [recorded EXCEPT ![o] = "paid"]
        /\ worker' = [worker EXCEPT ![w] = n]
    BY <1>d DEF MarkPaid, awayVars, PaidRow
  <2>2. /\ paid \in Request /\ paid.order = o /\ paid.kind = r.kind
        /\ paid.mine = PaidRow
    <3>1. PaidRow \in Row
      BY DEF PaidRow, Row, Status, Payment
    <3> QED BY <1>2, <3>1 DEF Request
  <2> HIDE DEF paid
  <2>4. r.kind = "webhook"
    BY <1>3, <2>1 DEF Course
  <2>3. n = Resting \/ (Follows(paid, n) /\ n.step = "refund")
    BY <2>2, <2>4, ReservingGoes DEF Named
  <2> HIDE DEF n
  <2>5. Punctual => (m # "none" => d) /\ m # "refunded"
    BY <1>2, <2>1, <2>4 DEF Good, Repaying
  <2>6. Calm(PaidRow, "paid", m, d)
    BY <2>5 DEF Calm, PaidRow, Current
  <2>7. Follows(paid, n) /\ n.step = "refund" =>
           n.step # "rest" /\ n.order = o /\ Good(n, PaidRow, "paid", m, d)
    BY <2>2, <2>4, <2>5 DEF Follows, Good, Course, HistoryOf, PaidRow, Current
  <2> HIDE DEF r, o, x, h, m, d
  <2> QED BY <1>7, <1>8, <2>1, <2>3, <2>6, <2>7
<1>e. CASE Refund(w)
  <2> DEFINE n == IF r.kind = "stuck" THEN At(r, "cancelStuck") ELSE At(r, "unpay")
  <2>1. /\ r.step = "refund" /\ UNCHANGED <<row, recorded, notified>>
        /\ worker' = [worker EXCEPT ![w] = n]
    BY <1>e DEF Refund, orderVars
  <2>2. PICK m2 : money' = [money EXCEPT ![o] = m2]
                  /\ (m2 = m \/ (m2 \in {"refunded", "kept"} /\ m # "none"))
    <3>1. \/ UNCHANGED money
          \/ /\ m # "none"
             /\ \E m2 \in {"refunded", "kept"} : money' = [money EXCEPT ![o] = m2]
      BY <1>e DEF Refund, Captured
    <3> QED BY <1>8, <3>1
  <2>3. /\ Follows(r, n) /\ n.order = o
        /\ n.step = IF r.kind = "stuck" THEN "cancelStuck" ELSE "unpay"
    BY <1>6
  <2> HIDE DEF n
  <2>4. Course(n) /\ r.kind \in {"webhook", "stuck"}
    BY <1>3, <2>1, <2>3 DEF Course, Follows
  <2>5. /\ n.mine.status = x.status /\ (n.kind # "till" => n.mine = x)
        /\ n.kind = r.kind
    BY <1>2, <2>3 DEF Good, Follows
  <2>6. "stuck" \notin Mishap => HistoryOf(n, x, h)
    BY <1>2, <2>1, <2>3, <2>4, <2>5 DEF Good, HistoryOf
  <2>7. Punctual => (m2 # "none" => d) /\ (m2 = "refunded" => Repaying(n, x))
    BY <1>2, <2>2, <2>3, <2>4, <2>5 DEF Good, Repaying
  <2>8. Good(n, x, h, m2, d) /\ n.step # "rest"
    BY <2>3, <2>4, <2>5, <2>6, <2>7 DEF Good
  <2> HIDE DEF r, o, x, h, m, d
  <2> QED BY <1>4, <1>7, <1>8, <2>1, <2>2, <2>3, <2>8
<1>f. CASE Unpay(w)
  <2> DEFINE new == [x EXCEPT !.pay = "refunded"]
             next == [r EXCEPT !.mine.pay = "refunded"]
             n == GiveUp(next)
  <2>1. /\ r.step = "unpay" /\ UNCHANGED <<recorded, money, notified>>
        /\ row' = [row EXCEPT ![o] = new]
        /\ worker' = [worker EXCEPT ![w] = n]
    BY <1>f DEF Unpay, awayVars
  <2>2. r.kind = "webhook" /\ r.mine = PaidRow /\ x = PaidRow
    BY <1>2, <1>3, <2>1 DEF Course, Good
  <2>3. new = UnpaidAgain
    BY <2>2, RowShapes
  <2>4. next \in Request /\ next.order = o /\ next.kind = "webhook" /\ next.mine = UnpaidAgain
    <3>1. next = [r EXCEPT !.mine = [r.mine EXCEPT !.pay = "refunded"]]
      OBVIOUS
    <3>2. [r.mine EXCEPT !.pay = "refunded"] = UnpaidAgain
      BY <2>2, RowShapes
    <3>3. UnpaidAgain \in Row
      BY DEF UnpaidAgain, Row, Status, Payment
    <3> HIDE DEF next
    <3> QED BY <1>2, <2>2, <3>1, <3>2, <3>3 DEF Request
  <2> HIDE DEF next
  <2>5. Follows(next, n) /\ n.step = "change" /\ n.target = "cancelled"
    BY <2>4, GiveUpGoes
  <2> HIDE DEF n
  <2>6. n.order = o /\ n.kind = "webhook" /\ n.mine = UnpaidAgain
    BY <2>4, <2>5 DEF Follows
  <2>7. "stuck" \notin Mishap => h = "paid"
    BY <1>2, <2>1, <2>2 DEF Good, HistoryOf, PaidRow, Current
  <2>8. Good(n, UnpaidAgain, h, m, d)
    <3>1. Course(n)
      BY <2>5, <2>6 DEF Course
    <3>2. HistoryOf(n, UnpaidAgain, "paid")
      BY <2>5, <2>6 DEF HistoryOf, UnpaidAgain, Current
    <3>3. Repaying(n, UnpaidAgain)
      BY <2>5, <2>6 DEF Repaying
    <3>4. Punctual => (m # "none" => d)
      BY <1>2 DEF Good
    <3> QED BY <2>5, <2>6, <2>7, <3>1, <3>2, <3>3, <3>4 DEF Good
  <2> HIDE DEF r, o, x, h, m, d, new
  <2>9. n.step # "rest"
    BY <2>5
  <2> QED BY <1>4, <1>7, <1>8, <2>1, <2>3, <2>6, <2>8, <2>9
<1>g. CASE CancelStuck(w)
  <2> DEFINE new == [x EXCEPT !.status = "cancelled", !.pay = "refunded"]
  <2>1. /\ r.step = "cancelStuck" /\ UNCHANGED <<recorded, money, notified>>
        /\ worker' = [worker EXCEPT ![w] = Resting]
    BY <1>g DEF CancelStuck, awayVars
  <2>2. row' = [row EXCEPT ![o] = new]
    BY <1>2, <1>5, <1>g DEF CancelStuck
  <2>3. r.kind = "stuck" /\ "stuck" \in Mishap /\ x.intent
    BY <1>2, <1>3, <2>1 DEF Course, Good
  <2>4. new = GivenUp
    BY <1>2, <2>3, RowShapes
  <2>5. Calm(GivenUp, h, m, d)
    BY <1>2, <2>3 DEF Good, Calm
  <2> HIDE DEF r, o, x, h, m, d, new
  <2> QED BY <1>7, <1>8, <2>1, <2>2, <2>4, <2>5
<1>h. CASE Complete(w)
  <2> DEFINE new == [x EXCEPT !.status = "completed", !.pay = "paid"]
             a == At(r, "record")
             n == [a EXCEPT !.mine.status = "completed"]
  <2>1. /\ r.step = "complete" /\ UNCHANGED <<recorded, money, notified>>
        /\ worker' = [worker EXCEPT ![w] = n]
    BY <1>h DEF Complete, awayVars
  <2>2. row' = [row EXCEPT ![o] = new]
    BY <1>2, <1>5, <1>h DEF Complete
  <2>3. r.kind = "till" /\ o \in Till
    BY <1>3, <2>1 DEF Course
  <2>4. n.order = o /\ n.kind = "till" /\ n.step = "record" /\ n.mine.status = "completed"
    BY <1>2, <2>3 DEF At, Request, Row
  <2> HIDE DEF n
  <2>5. Good(n, new, h, m, d)
    <3>1. new.status = "completed"
      BY <1>2 DEF Row
    <3>2. Punctual => (m # "none" => d) /\ m # "refunded"
      BY <1>2, <2>3 DEF Good, Repaying
    <3> HIDE DEF new
    <3> QED BY <2>3, <2>4, <3>1, <3>2 DEF Good, Course, HistoryOf
  <2> HIDE DEF r, o, x, h, m, d, new
  <2>6. n.step # "rest" /\ n.order = o /\ n # Resting
    BY <1>4, <2>4
  <2>7. /\ recorded' = [recorded EXCEPT ![o] = h] /\ money' = [money EXCEPT ![o] = m]
        /\ UNCHANGED notified /\ worker' = [worker EXCEPT ![w] = n]
    BY <1>8, <2>1
  <2> QED BY <1>7, <2>2, <2>5, <2>6, <2>7
<1> QED
  BY <1>a, <1>b, <1>c, <1>d, <1>e, <1>f, <1>g, <1>h DEF Transaction

LEMMA PaymentInCourse ==
    ASSUME InCourse, OwnTypeOK, Undisturbed, NEW o \in Order, CustomerPays(o)
    PROVE  InCourse'
<1>1. /\ row[o].status # "unpaid" => "latePayment" \in Mishap
      /\ UNCHANGED <<row, recorded, notified, worker>>
      /\ money' = [money EXCEPT ![o] = "captured"]
      /\ ~ Busy(o)
  BY DEF CustomerPays, orderVars, Undisturbed
<1>2. /\ money'[o] = "captured"
      /\ \A q \in Order \ {o} : money'[q] = money[q]
  BY <1>1 DEF OwnTypeOK
<1>3. Alone'
  BY <1>1 DEF InCourse, Alone
<1>4. ASSUME NEW v \in Worker, worker[v].step # "rest"
      PROVE  Good(worker[v], row[worker[v].order], recorded[worker[v].order],
                  money'[worker[v].order], worker[v].order \in notified)
  <2>1. worker[v].order \in Order \ {o}
    BY <1>1, <1>4, Serving DEF Busy
  <2>2. Good(worker[v], row[worker[v].order], recorded[worker[v].order],
             money[worker[v].order], worker[v].order \in notified)
    BY <1>4 DEF InCourse
  <2> QED BY <1>2, <2>1, <2>2
<1>5. ASSUME NEW q \in Order, ~ Working(q)
      PROVE  Calm(row[q], recorded[q], money'[q], q \in notified)
  <2>1. Calm(row[q], recorded[q], money[q], q \in notified)
    BY <1>5 DEF InCourse
  <2>2. CASE q = o
    <3>1. Punctual => row[o].status = "unpaid"
      BY <1>1 DEF Punctual
    <3> QED BY <1>2, <2>1, <2>2, <3>1 DEF Calm
  <2>3. CASE q # o
    BY <1>2, <2>1, <2>3
  <2> QED BY <2>2, <2>3
<1> QED BY <1>1, <1>3, <1>4, <1>5 DEF InCourse, Working

LEMMA SendInCourse ==
    ASSUME InCourse, OwnTypeOK, NEW w \in Worker, Send(w)
    PROVE  InCourse'
<1> DEFINE r == worker[w]
<1>1. r.step \in Calling /\ UNCHANGED <<row, recorded, money, notified>>
  BY DEF Send, orderVars, awayVars
<1>2. PICK c : worker' = [worker EXCEPT ![w] = [r EXCEPT !.slot = c]]
  BY DEF Send
<1> DEFINE n == [r EXCEPT !.slot = c]
<1>3. r.step # "rest"
  BY <1>1 DEF Calling
<1>4. r \in Request /\ Good(r, row[r.order], recorded[r.order], money[r.order],
                            r.order \in notified)
  BY <1>3, Serving
<1>5. /\ n.step = r.step /\ n.kind = r.kind /\ n.mine = r.mine /\ n.order = r.order
      /\ n.old = r.old /\ n.target = r.target
  BY <1>4 DEF Request
<1> HIDE DEF n
<1>6. \A x, h, m, d : Good(r, x, h, m, d) => Good(n, x, h, m, d)
  BY <1>5 DEF Good, Course, HistoryOf, Repaying
<1>7. n.order = r.order /\ Good(n, row[r.order], recorded[r.order], money[r.order],
                                r.order \in notified)
  BY <1>4, <1>5, <1>6
<1>8. worker' = [worker EXCEPT ![w] = n]
  BY <1>2 DEF n
<1> QED BY <1>1, <1>3, <1>5, <1>7, <1>8, GoesOn

LEMMA CourseStep ==
    ASSUME InCourse, OwnTypeOK, Undisturbed, [Next]_vars
    PROVE  InCourse'
<1>1. UNCHANGED <<row, recorded, money, notified, worker>> => InCourse'
  BY DEF InCourse, Alone, Working
<1>2. CASE UNCHANGED vars
  BY <1>1, <1>2 DEF vars, orderVars, awayVars
<1>3. ASSUME NEW w \in Worker, Answer(w) PROVE InCourse'
  <2> DEFINE ok == Success(call[worker[w].slot].reply)
  <2>1. ok \in BOOLEAN
    BY DEF Success
  <2>2. /\ worker' = [worker EXCEPT ![w] = Answered(worker[w], ok)]
        /\ UNCHANGED <<row, recorded, money, notified>>
    BY <1>3 DEF Answer, orderVars, awayVars
  <2>3. worker[w].step \in Calling
    BY <1>3 DEF Answer, OwnTypeOK, WorkersOK, RequestOK
  <2> HIDE DEF ok
  <2> QED BY <2>1, <2>2, <2>3, AnswersInCourse
<1>4. ASSUME NEW w \in Worker, NoAnswer(w) PROVE InCourse'
  BY <1>4, AnswersInCourse DEF NoAnswer, orderVars, awayVars
<1>5. ASSUME NEW w \in Worker, Die(w) PROVE InCourse'
  BY <1>5 DEF Die, Undisturbed
<1>6. ASSUME NEW o \in Order, Pay(o) PROVE InCourse'
  BY <1>1, <1>6 DEF Pay, orderVars
<1>7. ASSUME NEW c \in Call, Serve(c) PROVE InCourse'
  BY <1>1, <1>7 DEF Serve, orderVars, awayVars
<1>8. ASSUME NEW c \in Call, NEW d \in Deduction, Arrive(c, d) PROVE InCourse'
  BY <1>1, <1>8 DEF Arrive, orderVars
<1>9. CASE Next
  BY <1>3, <1>4, <1>5, <1>6, <1>7, <1>8, <1>9, ArrivalInCourse,
     TransactionInCourse, SendInCourse, PaymentInCourse DEF Next
<1> QED BY <1>2, <1>9

LEMMA CourseInit == Init => InCourse
<1> SUFFICES ASSUME Init PROVE InCourse
  OBVIOUS
<1>1. \A w \in Worker : worker[w] = Resting /\ worker[w].step = "rest"
  BY DEF Init, Resting
<1>2. \A o \in Order : /\ row[o] = NoRow /\ recorded[o] = "none"
                       /\ money[o] = "none" /\ Current(row[o]) = "none"
  BY DEF Init, NoRow, Current
<1>3. \A o \in Order : Calm(row[o], recorded[o], money[o], o \in notified)
  BY <1>2 DEF Calm
<1> QED BY <1>1, <1>3 DEF InCourse, Alone

LEMMA StaysInCourse ==
    ASSUME Undisturbed,
           \A o \in Order : \A p \in Items(o) : Units(o, p) \in Stock!Qty
    PROVE  Spec => [](OwnTypeOK /\ InCourse)
<1>1. OwnTypeOK /\ InCourse /\ [Next]_vars => (OwnTypeOK /\ InCourse)'
  BY SagaStep, CourseStep
<1>2. Init => OwnTypeOK /\ InCourse
  BY InitOK, CourseInit
<1> QED BY <1>1, <1>2, PTL DEF Spec

\* The last history row of an order shows its status whenever nobody works on
\* the order, as long as no two requests work on one order, no worker dies and
\* the clean-up command, which writes no history, does not run: inventory may
\* time out or refuse, shipments be reverted, payments come late or twice.  An
\* order that never left its first status has no history row.
THEOREM HistoryIsCurrent ==
    ASSUME Undisturbed, "stuck" \notin Mishap,
           \A o \in Order : \A p \in Items(o) : Units(o, p) \in Stock!Qty
    PROVE  Spec => []HistoryCurrent
<1>1. OwnTypeOK /\ InCourse => HistoryCurrent
  <2> SUFFICES ASSUME InCourse, NEW o \in Order, ~ Busy(o)
               PROVE  recorded[o] = Current(row[o])
    BY DEF HistoryCurrent, Current
  <2>1. ~ Working(o)
    BY DEF Busy, Working
  <2> QED BY <2>1 DEF InCourse, Calm
<1> QED BY <1>1, StaysInCourse, PTL

\* A refunded order is a cancelled one, whether the webhook gave it up or the
\* clean-up command took it: the columns and Stripe agree whenever nobody works
\* on the order.  Assumed are no two requests on one order, no dying worker,
\* and payments that Stripe reports once and in time.
THEOREM RefundedIsCancelled ==
    ASSUME Undisturbed, Punctual,
           \A o \in Order : \A p \in Items(o) : Units(o, p) \in Stock!Qty
    PROVE  Spec => []RefundedMeansCancelled
<1>1. OwnTypeOK /\ InCourse => RefundedMeansCancelled
  <2> SUFFICES ASSUME InCourse, NEW o \in Order, ~ Busy(o), money[o] = "refunded"
               PROVE  row[o] = GivenUp
    BY DEF RefundedMeansCancelled, GivenUp
  <2>1. ~ Working(o)
    BY DEF Busy, Working
  <2> QED BY <2>1 DEF InCourse, Calm
<1> QED BY <1>1, StaysInCourse, PTL

-----------------------------------------------------------------------------
(* The counter of the promo code.                                           *)

Counts(x) == x.status \notin {"none", "cancelled"}
Counting == {o \in Coupon : Counts(row[o])}

\* The inductive invariant of PromoCounted, beside InCourse.
PromoInv == IsFiniteSet(Counting) /\ promoUses = Cardinality(Counting)

LEMMA CounterMoves ==
    ASSUME PromoInv, OwnTypeOK, NEW o \in Order, NEW x, row' = [row EXCEPT ![o] = x],
           promoUses' = IF o \in Coupon /\ Counts(x) /\ ~ Counts(row[o])
                        THEN promoUses + 1
                        ELSE IF o \in Coupon /\ ~ Counts(x) /\ Counts(row[o])
                             THEN IF promoUses > 0 THEN promoUses - 1 ELSE promoUses
                             ELSE promoUses
    PROVE  PromoInv'
<1> DEFINE S == Counting
           T == {q \in Coupon : Counts(row'[q])}
<1>1. \A q \in Order : row'[q] = IF q = o THEN x ELSE row[q]
  BY DEF OwnTypeOK
<1>2. Coupon \subseteq Order
  BY OrdersAssumption
<1>3. /\ IsFiniteSet(S) /\ promoUses = Cardinality(S) /\ Cardinality(S) \in Nat
      /\ (o \in S <=> o \in Coupon /\ Counts(row[o]))
  BY FS_CardinalityType DEF PromoInv, Counting
<1>4. \A q \in Coupon : q # o => (q \in S <=> q \in T)
  BY <1>1, <1>2 DEF Counting
<1>5. o \in T <=> o \in Coupon /\ Counts(x)
  BY <1>1, <1>2
<1>6. S \subseteq Coupon /\ T \subseteq Coupon
  BY DEF Counting
<1>7. IsFiniteSet(T) /\ promoUses' = Cardinality(T)
  <2> HIDE DEF S, T
  <2>1. CASE o \in T /\ o \notin S
    <3>1. T = S \cup {o}
      BY <1>4, <1>6, <2>1
    <3> QED BY <1>3, <1>5, <2>1, <3>1, FS_AddElement
  <2>2. CASE o \notin T /\ o \in S
    <3>1. T = S \ {o}
      BY <1>4, <1>6, <2>2
    <3>2. IsFiniteSet(T) /\ Cardinality(T) = Cardinality(S) - 1
      BY <1>3, <2>2, <3>1, FS_RemoveElement
    <3>3. Cardinality(T) \in Nat
      BY <3>2, FS_CardinalityType
    <3>4. promoUses' = IF promoUses > 0 THEN promoUses - 1 ELSE promoUses
      BY <1>3, <1>5, <2>2
    <3> QED BY <1>3, <3>2, <3>3, <3>4
  <2>3. CASE o \in T <=> o \in S
    <3>1. T = S
      BY <1>4, <1>6, <2>3
    <3>2. promoUses' = promoUses
      BY <1>3, <1>5, <2>3
    <3> QED BY <1>3, <3>1, <3>2
  <2> QED BY <2>1, <2>2, <2>3
<1> QED BY <1>7 DEF PromoInv, Counting

LEMMA PromoStep ==
    ASSUME PromoInv, InCourse, OwnTypeOK, Punctual, "stuck" \notin Mishap,
           Undisturbed, [Next]_vars
    PROVE  PromoInv'
<1>1. UNCHANGED <<row, promoUses>> => PromoInv'
  BY DEF PromoInv, Counting
<1>2. ASSUME NEW o \in Order, NEW x, row' = [row EXCEPT ![o] = x],
             Counts(x) <=> Counts(row[o]), UNCHANGED promoUses
      PROVE  PromoInv'
  BY <1>2, CounterMoves
<1>3. ASSUME NEW w \in Worker, NEW o \in Order, Placed(w, o) PROVE PromoInv'
  <2> DEFINE x == [row[o] EXCEPT !.status = "unpaid"]
  <2>1. row' = [row EXCEPT ![o] = x] /\ Counts(x) /\ ~ Counts(row[o])
        /\ promoUses' = IF o \in Coupon THEN promoUses + 1 ELSE promoUses
    BY <1>3 DEF Placed, NoRow, Counts
  <2> HIDE DEF x
  <2> QED BY <2>1, CounterMoves
<1>4. ASSUME NEW w \in Worker, Transaction(w) PROVE PromoInv'
  <2> DEFINE r == worker[w]
             o == r.order
             x == row[o]
  <2>1. r.step # "rest"
    BY <1>4 DEF Transaction, Change, Revert, Record, MarkPaid, Refund, Unpay,
                CancelStuck, Complete
  <2>2. /\ r \in Request /\ o \in Order /\ x \in Row /\ r.mine \in Row
        /\ Good(r, x, recorded[o], money[o], o \in notified)
    BY <2>1, Serving
  <2>3. Course(r) /\ r.mine.status = x.status
    BY <2>2 DEF Good
  <2>4. CASE Change(w)
    <3> DEFINE new == [r.mine EXCEPT !.status = r.target]
    <3>1. new.status = r.target
      BY <2>2 DEF Row
    <3>2. CASE ~ Permitted(r)
      BY <1>1, <2>4, <3>2 DEF Change
    <3>3. CASE Permitted(r)
      <4>1. /\ row' = [row EXCEPT ![o] = new]
            /\ promoUses' = IF r.target = "cancelled" THEN GiveBack(o) ELSE promoUses
        BY <2>4, <3>3 DEF Change
      <4>2. Counts(x) /\ (Counts(new) <=> r.target # "cancelled")
        BY <2>3, <3>1, <3>3 DEF Permitted, CanTransition, Counts
      <4>3. promoUses' = IF o \in Coupon /\ ~ Counts(new) /\ Counts(x)
                         THEN IF promoUses > 0 THEN promoUses - 1 ELSE promoUses
                         ELSE promoUses
        BY <4>1, <4>2 DEF GiveBack
      <4> HIDE DEF new, o
      <4> QED BY <2>2, <4>1, <4>2, <4>3, CounterMoves DEF x
    <3> QED BY <3>2, <3>3
  <2>5. CASE Revert(w)
    <3>1. /\ row' = [row EXCEPT ![o] = [x EXCEPT !.status = r.old]]
          /\ UNCHANGED promoUses /\ r.step = "revert"
      BY <2>5 DEF Revert
    <3>2. r.old = "paid" /\ x.status = "delivering"
      BY <2>3, <3>1 DEF Course
    <3>3. Counts([x EXCEPT !.status = r.old]) /\ Counts(x)
      BY <2>2, <3>2 DEF Counts, Row
    <3> HIDE DEF o, r
    <3> QED BY <1>2, <2>2, <3>1, <3>3 DEF x
  <2>6. CASE MarkPaid(w)
    <3>1. /\ r.step = "markPaid" /\ row' = [row EXCEPT ![o] = PaidRow]
          /\ UNCHANGED promoUses
      BY <2>6 DEF MarkPaid, PaidRow
    <3>2. x.status = "unpaid"
      BY <2>2, <3>1 DEF Good
    <3>3. Counts(PaidRow) /\ Counts(x)
      BY <3>2 DEF Counts, PaidRow
    <3> HIDE DEF o, r
    <3> QED BY <1>2, <2>2, <3>1, <3>3 DEF x
  <2>7. CASE Unpay(w)
    <3>1. /\ row' = [row EXCEPT ![o] = [x EXCEPT !.pay = "refunded"]]
          /\ UNCHANGED promoUses
      BY <2>7 DEF Unpay
    <3>2. [x EXCEPT !.pay = "refunded"].status = x.status
      BY <2>2 DEF Row
    <3>3. Counts([x EXCEPT !.pay = "refunded"]) <=> Counts(x)
      BY <3>2 DEF Counts
    <3> HIDE DEF o, r
    <3> QED BY <1>2, <2>2, <3>1, <3>3 DEF x
  <2>8. CASE CancelStuck(w)
    <3>1. r.step = "cancelStuck"
      BY <2>8 DEF CancelStuck
    <3> QED BY <2>3, <3>1 DEF Course
  <2>9. CASE Complete(w)
    <3>1. /\ row' = [row EXCEPT ![o] =
                       [x EXCEPT !.status = "completed", !.pay = "paid"]]
          /\ UNCHANGED promoUses /\ r.step = "complete"
      BY <2>2, <2>9 DEF Complete, OwnTypeOK
    <3>2. [x EXCEPT !.status = "completed", !.pay = "paid"].status = "completed"
      BY <2>2 DEF Row
    <3>3. x.status = "unpaid"
      BY <2>3, <3>1 DEF Course
    <3>4. Counts([x EXCEPT !.status = "completed", !.pay = "paid"]) /\ Counts(x)
      BY <3>2, <3>3 DEF Counts
    <3> HIDE DEF o, r
    <3> QED BY <1>2, <2>2, <3>1, <3>4 DEF x
  <2>10. CASE Record(w) \/ Refund(w)
    BY <1>1, <2>10 DEF Record, Refund, orderVars
  <2> QED BY <1>4, <2>4, <2>5, <2>6, <2>7, <2>8, <2>9, <2>10 DEF Transaction
<1>5. ASSUME NEW w \in Worker, Arrival(w) PROVE PromoInv'
  BY <1>1, <1>3, <1>5 DEF Arrival, Create, Ring, AskStatus, Webhook, PickStuck,
                          orderVars
<1>6. ASSUME NEW w \in Worker, Send(w) \/ Answer(w) \/ NoAnswer(w) \/ Die(w)
      PROVE  PromoInv'
  BY <1>1, <1>6 DEF Send, Answer, NoAnswer, Die, orderVars
<1>7. ASSUME NEW o \in Order, Pay(o) \/ CustomerPays(o) PROVE PromoInv'
  BY <1>1, <1>7 DEF Pay, CustomerPays, orderVars
<1>8. ASSUME NEW c \in Call, Serve(c) PROVE PromoInv'
  BY <1>1, <1>8 DEF Serve, orderVars
<1>9. ASSUME NEW c \in Call, NEW d \in Deduction, Arrive(c, d) PROVE PromoInv'
  BY <1>1, <1>9 DEF Arrive, orderVars
<1>10. UNCHANGED vars => PromoInv'
  BY <1>1 DEF vars, orderVars
<1> QED BY <1>4, <1>5, <1>6, <1>7, <1>8, <1>9, <1>10 DEF Next

LEMMA PromoInit == Init => PromoInv
<1> SUFFICES ASSUME Init PROVE PromoInv
  OBVIOUS
<1>1. \A o \in Coupon : ~ Counts(row[o])
  BY OrdersAssumption DEF Init, NoRow, Counts
<1>2. Counting = {}
  BY <1>1 DEF Counting
<1>3. promoUses = 0
  BY DEF Init
<1> QED BY <1>2, <1>3, FS_EmptySet DEF PromoInv

\* used_count is the number of orders that use the code and still count, for
\* any number of orders and workers, whatever creations fail and are undone and
\* whatever shipments are reverted, as long as
\*   - no two requests work on one order and no worker dies (Undisturbed): two
\*     cancellations of one order that overlap give its use back twice;
\*   - Stripe reports payments once and in time (Punctual): a late one revives
\*     a cancelled order, which has given its use back;
\*   - the clean-up command does not run: it gives nothing back.
THEOREM PromoExact ==
    ASSUME Undisturbed, Punctual, "stuck" \notin Mishap,
           \A o \in Order : \A p \in Items(o) : Units(o, p) \in Stock!Qty
    PROVE  Spec => []PromoCounted
<1>1. OwnTypeOK /\ InCourse /\ PromoInv /\ [Next]_vars => PromoInv'
  BY PromoStep
<1>2. PromoInv => PromoCounted
  BY DEF PromoInv, PromoCounted, Counting, Counts
<1> QED BY <1>1, <1>2, PromoInit, StaysInCourse, PTL DEF Spec

-----------------------------------------------------------------------------
(* Shipped orders were deducted: the answer a request acts on is the answer *)
(* to its own deduction.                                                    *)

\* The movement log has a deduction of the order: Deducted, of any log.
Recorded(log, o) == \E p \in Product : log["deduct"][<<DeductKey(o), p>>] > 0

SlotsApart ==
    \A v, w \in Worker :
        worker[v].slot # NoCall /\ worker[v].slot = worker[w].slot => v = w

\* The call of a deduction has committed, and says yes only to what is recorded.
Truthful ==
    \A w \in Worker : worker[w].step = "deduct" /\ worker[w].slot # NoCall =>
        /\ call[worker[w].slot].pc \in {"publishing", "done"}
        /\ call[worker[w].slot].reply \in {"ok", "conflict"}
             => Recorded(uses, worker[w].order)

\* A shipment whose deduction is not settled yet.
Deciding(r) == r.kind = "status" /\ r.step \in {"deduct", "revert"}
SeenTo(o) == \E w \in Worker : worker[w].order = o /\ Deciding(worker[w])
LeftTheShop ==
    /\ \A w \in Worker : worker[w].step = "complete" =>
          Recorded(uses, worker[w].order)
    /\ \A o \in Order : Shipped(o) /\ Stocked(o) => Recorded(uses, o) \/ SeenTo(o)

\* The inductive invariant of ShippedMeansDeducted, beside InCourse.
ShipInv == SlotsApart /\ Truthful /\ LeftTheShop

\* A recorded deduction stays recorded.
StillDeducted == \A o \in Order : Recorded(uses, o) => Recorded(uses', o)

LEMMA DeductionsStay ==
    ASSUME OwnTypeOK, Stock!TypeOK, [Next]_vars,
           \A o \in Order : \A p \in Items(o) : Units(o, p) \in Stock!Qty
    PROVE  StillDeducted
<1>1. [Stock!Next]_(Stock!vars)
  BY SagaStep
<1>2. /\ uses \in [Stock!MovementType -> [Stock!AnyKey -> Nat]]
      /\ "deduct" \in Stock!MovementType
  BY DEF Stock!TypeOK, Stock!MovementType, Stock!SingleOp
<1>3. \A o \in Order, p \in Product : <<DeductKey(o), p>> \in Stock!AnyKey
  BY DEF Stock!AnyKey, Stock!ItemKey, DeductKey, StockKey
<1>4. SUFFICES \A x \in Stock!AnyKey : uses["deduct"][x] > 0 => uses'["deduct"][x] > 0
  BY <1>3 DEF StillDeducted, Recorded
<1>5. CASE UNCHANGED uses
  BY <1>5
<1>6. ASSUME NEW c \in Call, Stock!Apply(c)
      PROVE  \A x \in Stock!AnyKey : uses["deduct"][x] > 0 => uses'["deduct"][x] > 0
  <2> DEFINE req == call[c].req
  <2>1. \/ UNCHANGED uses
        \/ uses' = [uses EXCEPT ![req.op][req.key] = @ + 1]
    BY <1>6 DEF Stock!Apply
  <2> HIDE DEF req
  <2>2. \A x \in Stock!AnyKey : uses["deduct"][x] \in Nat
    BY <1>2
  <2>3. CASE uses' = [uses EXCEPT ![req.op][req.key] = @ + 1]
    <3>1. \/ uses'["deduct"] = uses["deduct"]
          \/ uses'["deduct"] = [uses["deduct"] EXCEPT ![req.key] = @ + 1]
      <4>1. CASE req.op = "deduct"
        BY <1>2, <2>3, <4>1
      <4>2. CASE req.op # "deduct"
        BY <1>2, <2>3, <4>2
      <4> QED BY <4>1, <4>2
    <3>2. uses["deduct"] \in [Stock!AnyKey -> Nat]
      BY <1>2
    <3> QED BY <3>1, <3>2
  <2> QED BY <1>5, <2>1, <2>3
<1>7. ASSUME NEW c, NEW q, NEW wanted, NEW k, NEW b, Stock!DeductBatch(c, q, wanted, k, b)
      PROVE  \A x \in Stock!AnyKey : uses["deduct"][x] > 0 => uses'["deduct"][x] > 0
  <2> DEFINE more == [x \in Stock!AnyKey |->
                        IF k # NoKey /\ \E p \in DOMAIN wanted : x = <<k, p>>
                        THEN uses["deduct"][x] + 1 ELSE uses["deduct"][x]]
  <2>1. UNCHANGED uses \/ uses' = [uses EXCEPT !["deduct"] = more]
    BY <1>7 DEF Stock!DeductBatch
  <2>2. \A x \in Stock!AnyKey : uses["deduct"][x] \in Nat
    BY <1>2
  <2>3. \A x \in Stock!AnyKey : uses["deduct"][x] > 0 => more[x] > 0
    BY <2>2
  <2> HIDE DEF more
  <2>4. CASE uses' = [uses EXCEPT !["deduct"] = more]
    BY <1>2, <2>3, <2>4
  <2> QED BY <1>5, <2>1, <2>4
<1>8. \/ UNCHANGED uses
      \/ \E c \in Call : Stock!Apply(c)
      \/ \E c, q, wanted, k, b : Stock!DeductBatch(c, q, wanted, k, b)
  <2>1. CASE UNCHANGED Stock!vars
    BY <2>1 DEF Stock!vars, Stock!stockVars
  <2>2. ASSUME NEW c \in Call, NEW op, NEW l, NEW q, NEW k, Stock!Begin(c, op, l, q, k)
        PROVE  UNCHANGED uses
    BY <2>2 DEF Stock!Begin, Stock!stockVars
  <2>3. ASSUME NEW c \in Call, NEW p, NEW from, NEW to, NEW q,
               Stock!Transfer(c, p, from, to, q)
        PROVE  UNCHANGED uses
    BY <2>3 DEF Stock!Transfer
  <2>4. ASSUME NEW c \in Call, NEW l, NEW n, Stock!Adjust(c, l, n)
        PROVE  UNCHANGED uses
    BY <2>4 DEF Stock!Adjust
  <2>5. ASSUME NEW c \in Call, NEW q, NEW items, Stock!Receive(c, q, items)
        PROVE  UNCHANGED uses
    BY <2>5 DEF Stock!Receive
  <2>6. ASSUME NEW c \in Call, Stock!Announce(c) \/ Stock!Collect(c) \/ Stock!Crash(c)
        PROVE  UNCHANGED uses
    BY <2>6 DEF Stock!Announce, Stock!Collect, Stock!Crash, Stock!stockVars
  <2>7. CASE Stock!Next
    BY <2>2, <2>3, <2>4, <2>5, <2>6, <2>7 DEF Stock!Next
  <2> QED BY <1>1, <2>1, <2>7
<1> QED BY <1>5, <1>6, <1>7, <1>8

-----------------------------------------------------------------------------
(* A request that goes on to its next step waits for no call.               *)

LEMMA AtUnheard ==
    ASSUME NEW r \in Request, NEW step
    PROVE  At(r, step).slot = NoCall
BY DEF At, Request

LEMMA OverUnheard ==
    ASSUME NEW r \in Request, NEW step, NEW S, NEW after, after.slot = NoCall
    PROVE  Over(r, step, S, after).slot = NoCall
<1> DEFINE a == At(r, step)
<1>1. a.slot = NoCall /\ \A i, b : b = [a EXCEPT !.line = i] => b.slot = a.slot
  BY DEF At, Request
<1>2. \/ Over(r, step, S, after) = after
      \/ \E i : Over(r, step, S, after) = [a EXCEPT !.line = i]
  BY DEF Over
<1> HIDE DEF a
<1> QED BY <1>1, <1>2

LEMMA GiveUpUnheard ==
    ASSUME NEW r \in Request
    PROVE  GiveUp(r).slot = NoCall
BY DEF GiveUp, At, Request

LEMMA RestUnheard == Resting.slot = NoCall
BY DEF Resting

LEMMA UndoUnheard ==
    ASSUME NEW r \in Request
    PROVE  AfterUndo(r).slot = NoCall
BY AtUnheard, GiveUpUnheard DEF AfterUndo

LEMMA ReservingUnheard ==
    ASSUME NEW r \in Request
    PROVE  Reserving(r).slot = NoCall
BY OverUnheard, RestUnheard, UndoUnheard DEF Reserving

LEMMA ReleaseUnheard ==
    ASSUME NEW r \in Request
    PROVE  AfterRelease(r).slot = NoCall /\ Releasing(r).slot = NoCall
<1>1. AfterRelease(r).slot = NoCall
  BY AtUnheard DEF AfterRelease
<1> QED BY <1>1, OverUnheard DEF Releasing

LEMMA ChangeUnheard ==
    ASSUME NEW r \in Request
    PROVE  AfterChange(r).slot = NoCall
BY AtUnheard, ReleaseUnheard DEF AfterChange

LEMMA AnsweredUnheard ==
    ASSUME NEW r \in Request, r.step \in Calling, NEW success \in BOOLEAN
    PROVE  Answered(r, success).slot = NoCall
<1>1. CASE r.step = "reserve"
  <2> DEFINE tried == [r EXCEPT !.ok = @ /\ success,
                                !.got = IF success THEN @ \cup {r.line} ELSE @]
             then == IF tried.ok THEN Resting ELSE Undoing(tried)
  <2>1. Answered(r, success) = Over(tried, "reserve", LinesAfter(r), then)
    BY <1>1 DEF Answered
  <2>2. tried \in Request
    <3>1. r.got \cup {r.line} \in SUBSET Nat /\ r.ok \in BOOLEAN /\ r.got \in SUBSET Nat
      BY DEF Request
    <3> QED BY <3>1 DEF Request
  <2> HIDE DEF tried
  <2>3. then.slot = NoCall
    BY <2>2, RestUnheard, UndoUnheard, OverUnheard DEF Undoing
  <2> QED BY <2>1, <2>2, <2>3, OverUnheard
<1>2. CASE r.step = "undo"
  <2>1. Answered(r, success)
          = Over(r, "undo", LinesAfter(r) \cap r.got, AfterUndo(r))
    BY <1>2 DEF Answered
  <2> QED BY <2>1, UndoUnheard, OverUnheard
<1>3. CASE r.step = "release"
  <2>1. Answered(r, success) = Over(r, "release", LinesAfter(r), AfterRelease(r))
    BY <1>3 DEF Answered
  <2> QED BY <2>1, ReleaseUnheard, OverUnheard
<1>4. CASE r.step = "deduct"
  <2>1. Answered(r, success) \in {At(r, "complete"), GiveUp(r), At(r, "record"),
                                  At(r, "revert")}
    BY <1>4 DEF Answered
  <2> QED BY <2>1, AtUnheard, GiveUpUnheard
<1> QED BY <1>1, <1>2, <1>3, <1>4 DEF Calling

\* A worker turns from its call to something else; the calls of the others go
\* on, or stay as they are.
LEMMA CallsKept ==
    ASSUME OwnTypeOK, SlotsApart, Truthful, StillDeducted, NEW w \in Worker, NEW n,
           worker' = [worker EXCEPT ![w] = n], n.slot = NoCall,
           \A v \in Worker \ {w} : worker[v].slot # NoCall =>
              call'[worker[v].slot] = call[worker[v].slot]
    PROVE  SlotsApart' /\ Truthful'
<1>1. worker'[w] = n /\ \A v \in Worker \ {w} : worker'[v] = worker[v]
  BY DEF OwnTypeOK, WorkersOK
<1>2. SlotsApart'
  BY <1>1 DEF SlotsApart
<1>3. ASSUME NEW v \in Worker, worker'[v].step = "deduct", worker'[v].slot # NoCall
      PROVE  /\ call'[worker'[v].slot].pc \in {"publishing", "done"}
             /\ call'[worker'[v].slot].reply \in {"ok", "conflict"}
                  => Recorded(uses', worker'[v].order)
  <2>1. v # w /\ worker'[v] = worker[v]
    BY <1>1, <1>3
  <2>2. call'[worker[v].slot] = call[worker[v].slot]
    BY <1>3, <2>1
  <2>3. worker[v].order \in Order
    BY <1>3, <2>1 DEF OwnTypeOK, WorkersOK, RequestOK
  <2>4. Recorded(uses, worker[v].order) => Recorded(uses', worker[v].order)
    BY <2>3 DEF StillDeducted
  <2>5. /\ call[worker[v].slot].pc \in {"publishing", "done"}
        /\ call[worker[v].slot].reply \in {"ok", "conflict"}
             => Recorded(uses, worker[v].order)
    BY <1>3, <2>1 DEF Truthful
  <2> QED BY <2>1, <2>2, <2>4, <2>5
<1> QED BY <1>2, <1>3 DEF Truthful

\* A worker moves its order on; it does not let it leave the shop without its
\* deduction.
LEMMA ShopKept ==
    ASSUME LeftTheShop, OwnTypeOK, StillDeducted, NEW w \in Worker, NEW n,
           NEW o \in Order,
           worker' = [worker EXCEPT ![w] = n],
           worker[w].order \in Order => worker[w].order = o \/ ~ Deciding(worker[w]),
           \A q \in Order \ {o} : row'[q] = row[q],
           n.step = "complete" => n.order = o /\ Recorded(uses', o),
           Stocked(o) /\ row'[o].status \in {"delivering", "delivered", "completed"} =>
              \/ Recorded(uses', o)
              \/ n.order = o /\ Deciding(n)
    PROVE  LeftTheShop'
<1>1. worker'[w] = n /\ \A v \in Worker \ {w} : worker'[v] = worker[v]
  BY DEF OwnTypeOK, WorkersOK
<1>2. \A q \in Order : Recorded(uses, q) => Recorded(uses', q)
  BY DEF StillDeducted
<1>3. ASSUME NEW v \in Worker, worker'[v].step = "complete"
      PROVE  Recorded(uses', worker'[v].order)
  <2>1. CASE v = w
    <3>1. n.order = o /\ worker'[v].order = o
      BY <1>1, <1>3, <2>1
    <3>2. Recorded(uses', o)
      BY <1>1, <1>3, <2>1
    <3> QED BY <3>1, <3>2
  <2>2. CASE v # w
    <3>1. worker'[v] = worker[v] /\ worker[v].step = "complete"
      BY <1>1, <1>3, <2>2
    <3>2. Recorded(uses, worker[v].order) /\ worker[v].order \in Order
      BY <3>1 DEF LeftTheShop, OwnTypeOK, WorkersOK, RequestOK
    <3> QED BY <1>2, <3>1, <3>2
  <2> QED BY <2>1, <2>2
<1>4. ASSUME NEW q \in Order, Stocked(q),
             row'[q].status \in {"delivering", "delivered", "completed"}
      PROVE  Recorded(uses', q) \/ \E v \in Worker : worker'[v].order = q /\ Deciding(worker'[v])
  <2>1. CASE q = o
    BY <1>1, <1>4, <2>1
  <2>2. CASE q # o
    <3>1. row'[q] = row[q]
      BY <2>2
    <3>2. Recorded(uses, q) \/ SeenTo(q)
      BY <1>4, <3>1 DEF LeftTheShop, Shipped
    <3>3. ASSUME NEW v \in Worker, worker[v].order = q, Deciding(worker[v])
          PROVE  worker'[v].order = q /\ Deciding(worker'[v])
      <4>1. v # w
        BY <2>2, <3>3
      <4>2. worker'[v] = worker[v]
        BY <1>1, <4>1
      <4> QED BY <3>3, <4>2
    <3> QED BY <1>2, <3>2, <3>3 DEF SeenTo
  <2> QED BY <2>1, <2>2
<1> QED BY <1>3, <1>4 DEF LeftTheShop, Shipped, Stocked, SeenTo

\* An order nobody is seeing to has its deduction once it left the shop.
LEMMA NotSeenTo ==
    ASSUME LeftTheShop, InCourse, NEW w \in Worker, NEW o \in Order,
           \/ ~ Working(o)
           \/ worker[w].order = o /\ worker[w].step # "rest" /\ ~ Deciding(worker[w])
    PROVE  Shipped(o) /\ Stocked(o) => Recorded(uses, o)
<1>1. ~ SeenTo(o)
  <2>1. SUFFICES ASSUME NEW v \in Worker, worker[v].order = o, Deciding(worker[v])
                 PROVE  FALSE
    BY DEF SeenTo
  <2>2. worker[v].step # "rest"
    BY <2>1 DEF Deciding
  <2>3. v = w
    BY <2>1, <2>2 DEF InCourse, Alone, Working
  <2> QED BY <2>1, <2>2, <2>3 DEF Working
<1> QED BY <1>1 DEF LeftTheShop

\* A request that arrives.
LEMMA ArrivalShips ==
    ASSUME ShipInv, InCourse, OwnTypeOK, StillDeducted, Undisturbed,
           NEW w \in Worker, Arrival(w)
    PROVE  ShipInv'
<1>1. PICK o \in Order :
         \/ Create(w, o) \/ Ring(w, o)
         \/ \E target \in Status : AskStatus(w, o, target)
         \/ Webhook(w, o) \/ PickStuck(w, o)
  BY DEF Arrival
<1>2. worker[w].step = "rest" /\ (Busy(o) => "sameOrder" \in Mishap)
  BY <1>1 DEF Create, Ring, AskStatus, Webhook, PickStuck, Accept
<1>3. ~ Working(o) /\ worker[w] = Resting
  BY <1>2, TakenUp
<1>4. \A kind, step, target :
         /\ Loaded(kind, o, step, target).slot = NoCall
         /\ Loaded(kind, o, step, target).step = step
  BY DEF Loaded, Resting
<1>5. PICK n : /\ worker' = [worker EXCEPT ![w] = n]
               /\ n.slot = NoCall /\ n.step # "complete"
  <2>1. ASSUME Create(w, o)
        PROVE  \E n : /\ worker' = [worker EXCEPT ![w] = n]
                      /\ n.slot = NoCall /\ n.step # "complete"
    <3> DEFINE r == New("create", o)
               n == IF Stocked(o) THEN Reserving(r) ELSE worker[w]
    <3>1. worker' = [worker EXCEPT ![w] = n]
      BY <2>1 DEF Create
    <3>2. r \in Request
      BY NewOK DEF Kind, RequestOK
    <3> HIDE DEF r
    <3>3. Reserving(r).slot = NoCall
      BY <3>2, ReservingUnheard
    <3>4. Reserving(r).step # "complete"
      BY <3>2, ReservingGoes DEF Resting
    <3>5. n.slot = NoCall /\ n.step # "complete"
      BY <1>2, <1>3, <3>3, <3>4, RestUnheard
    <3> QED BY <3>1, <3>5
  <2>2. ASSUME Ring(w, o)
        PROVE  \E n : /\ worker' = [worker EXCEPT ![w] = n]
                      /\ n.slot = NoCall /\ n.step # "complete"
    <3> DEFINE r == New("till", o)
    <3>1. worker' = [worker EXCEPT ![w] = At(r, "deduct")]
      BY <2>2 DEF Ring
    <3>2. r \in Request
      BY NewOK DEF Kind, RequestOK
    <3> HIDE DEF r
    <3>3. At(r, "deduct").slot = NoCall /\ At(r, "deduct").step = "deduct"
      BY <3>2, AtUnheard, AtGoes
    <3> QED BY <3>1, <3>3
  <2>3. ASSUME NEW target \in Status, AskStatus(w, o, target)
        PROVE  \E n : /\ worker' = [worker EXCEPT ![w] = n]
                      /\ n.slot = NoCall /\ n.step # "complete"
    <3> DEFINE n == Loaded("status", o, "change", target)
    <3>1. worker' = [worker EXCEPT ![w] = n]
      BY <2>3 DEF AskStatus
    <3>2. n.slot = NoCall /\ n.step # "complete"
      BY <1>4
    <3> HIDE DEF n
    <3> QED BY <3>1, <3>2
  <2>4. ASSUME Webhook(w, o)
        PROVE  \E n : /\ worker' = [worker EXCEPT ![w] = n]
                      /\ n.slot = NoCall /\ n.step # "complete"
    <3> DEFINE n == IF row[o].pay = "paid" THEN worker[w]
                    ELSE Loaded("webhook", o, "markPaid", "paid")
    <3>1. worker' = [worker EXCEPT ![w] = n]
      BY <2>4 DEF Webhook
    <3>2. n.slot = NoCall /\ n.step # "complete"
      BY <1>2, <1>3, <1>4, RestUnheard
    <3> HIDE DEF n
    <3> QED BY <3>1, <3>2
  <2>5. ASSUME PickStuck(w, o)
        PROVE  \E n : /\ worker' = [worker EXCEPT ![w] = n]
                      /\ n.slot = NoCall /\ n.step # "complete"
    <3> DEFINE r == Loaded("stuck", o, "refund", "cancelled")
    <3>1. worker' = [worker EXCEPT ![w] = Releasing(r)]
      BY <2>5 DEF PickStuck
    <3>2. r \in Request
      BY LoadedOK DEF OwnTypeOK, Kind, Step, Calling, Status, RequestOK
    <3> HIDE DEF r
    <3>3. Releasing(r).slot = NoCall /\ Releasing(r).step # "complete"
      BY <3>2, ReleaseUnheard, ReleasingGoes DEF Releasing, Let
    <3> QED BY <3>1, <3>3
  <2> QED BY <1>1, <2>1, <2>2, <2>3, <2>4, <2>5
<1>6. UNCHANGED call
  BY ArrivalOK DEF stockVars
<1>7. SlotsApart' /\ Truthful'
  BY <1>5, <1>6, CallsKept DEF ShipInv
<1>8. \/ UNCHANGED row
      \/ row' = [row EXCEPT ![o] = [row[o] EXCEPT !.status = "unpaid"]]
  BY <1>1 DEF Create, Ring, AskStatus, Webhook, PickStuck, Placed, orderVars
<1>9. /\ \A q \in Order \ {o} : row'[q] = row[q]
      /\ row'[o] = row[o] \/ row'[o].status = "unpaid"
  <2>1. row \in [Order -> Row] /\ [row[o] EXCEPT !.status = "unpaid"].status = "unpaid"
    BY DEF OwnTypeOK, Row
  <2> QED BY <1>8, <2>1
<1>10. row'[o].status \in {"delivering", "delivered", "completed"} /\ Stocked(o)
         => Recorded(uses', o)
  <2>1. Shipped(o) /\ Stocked(o) => Recorded(uses, o)
    BY <1>3, NotSeenTo DEF ShipInv
  <2> QED BY <1>9, <2>1 DEF Shipped, StillDeducted
<1>11. ~ Deciding(worker[w])
  BY <1>2 DEF Deciding
<1>12. LeftTheShop'
  BY <1>5, <1>9, <1>10, <1>11, ShopKept DEF ShipInv
<1> QED BY <1>7, <1>12 DEF ShipInv

\* A transaction on the order row.
LEMMA TransactionShips ==
    ASSUME ShipInv, InCourse, OwnTypeOK, StillDeducted, Undisturbed,
           NEW w \in Worker, Transaction(w)
    PROVE  ShipInv'
<1> DEFINE r == worker[w]
           o == r.order
           x == row[o]
           gone(s) == s \in {"delivering", "delivered", "completed"}
<1>1. r.step # "rest"
  BY DEF Transaction, Change, Revert, Record, MarkPaid, Refund, Unpay, CancelStuck,
         Complete
<1>2. /\ r \in Request /\ o \in Order /\ x \in Row /\ r.mine \in Row
      /\ Good(r, x, recorded[o], money[o], o \in notified)
  BY <1>1, Serving
<1>3. Course(r) /\ r.mine.status = x.status
  BY <1>2 DEF Good
<1>4. ~ Deciding(r) => (gone(x.status) /\ Stocked(o) => Recorded(uses', o))
  <2>1. ~ Deciding(r) => (Shipped(o) /\ Stocked(o) => Recorded(uses, o))
    BY <1>1, <1>2, NotSeenTo DEF ShipInv
  <2> QED BY <1>2, <2>1 DEF Shipped, StillDeducted
<1>5. UNCHANGED call
  BY TransactionOK DEF stockVars
\* How a transaction that writes the row x2 and goes on as n is settled.
<1>6. ASSUME NEW n, NEW x2,
             worker' = [worker EXCEPT ![w] = n], n.slot = NoCall,
             row' = [row EXCEPT ![o] = x2], n.step # "complete",
             Stocked(o) /\ gone(x2.status) =>
                Recorded(uses', o) \/ (n.order = o /\ Deciding(n))
      PROVE  ShipInv'
  <2>1. SlotsApart' /\ Truthful'
    BY <1>5, <1>6, CallsKept DEF ShipInv
  <2>2. row'[o] = x2 /\ \A q \in Order \ {o} : row'[q] = row[q]
    BY <1>2, <1>6 DEF OwnTypeOK
  <2>3. worker[w].order = o
    OBVIOUS
  <2>4. LeftTheShop'
    <3> HIDE DEF r, o, x
    <3> QED BY <1>2, <1>6, <2>2, <2>3, ShopKept DEF ShipInv
  <2> QED BY <2>1, <2>4 DEF ShipInv
<1>7. row = [row EXCEPT ![o] = x]
  BY DEF OwnTypeOK
<1>8. Resting.slot = NoCall /\ Resting.step = "rest"
  BY DEF Resting
<1>9. \A step : At(r, step).slot = NoCall /\ At(r, step).step = step
  BY <1>2, AtUnheard, AtGoes
<1>a. CASE Change(w)
  <2> DEFINE new == [r.mine EXCEPT !.status = r.target]
             next == [r EXCEPT !.mine = new, !.old = r.mine.status]
             n == AfterChange(next)
  <2>1. r.step = "change" /\ ~ Deciding(r)
    BY <1>a DEF Change, Deciding
  <2>2. CASE ~ Permitted(r)
    <3>1. worker' = [worker EXCEPT ![w] = Resting] /\ UNCHANGED row
      BY <1>a, <2>2 DEF Change
    <3> HIDE DEF r, o, x
    <3> QED BY <1>4, <1>6, <1>7, <1>8, <2>1, <3>1
  <2>3. CASE Permitted(r)
    <3>1. /\ worker' = [worker EXCEPT ![w] = n]
          /\ row' = [row EXCEPT ![o] = new]
      BY <1>a, <2>3 DEF Change
    <3>2. new \in Row /\ new.status = r.target
      BY <1>2 DEF Row, Request
    <3>3. /\ next \in Request /\ next.order = o /\ next.kind = r.kind
          /\ next.target = r.target
      <4> HIDE DEF new
      <4> QED BY <1>2, <3>2, AllRows DEF Request
    <3> HIDE DEF next, new
    <3>4. n.slot = NoCall
      BY <3>3, ChangeUnheard
    <3>5. \/ r.target = "cancelled" /\ r.kind = "status" /\ Let(next, n)
          \/ /\ r.target = "delivering" /\ Stocked(o)
             /\ Follows(next, n) /\ n.step = "deduct"
          \/ /\ ~ (r.target = "delivering" /\ Stocked(o))
             /\ Follows(next, n) /\ n.step = "record"
      BY <3>3, AfterChangeGoes
    <3> HIDE DEF n
    <3>6. n.step # "complete"
      BY <3>5 DEF Let
    <3>7. Stocked(o) /\ gone(r.target) =>
            Recorded(uses', o) \/ (n.order = o /\ Deciding(n))
      <4>1. CASE r.target = "delivering" /\ Stocked(o)
        <5>1. r.kind = "status"
          BY <1>3, <2>1, <4>1 DEF Course
        <5>2. n.order = o /\ n.kind = "status" /\ n.step = "deduct"
          BY <3>3, <3>5, <4>1, <5>1 DEF Follows
        <5> QED BY <5>2 DEF Deciding
      <4>2. CASE r.target \in {"delivered", "completed"} /\ Stocked(o)
        <5>1. x.status \in {"delivering", "delivered"}
          BY <1>3, <2>3, <4>2 DEF Permitted, CanTransition
        <5> QED BY <1>4, <2>1, <4>2, <5>1
      <4> QED BY <4>1, <4>2
    <3> HIDE DEF r, o, x
    <3> QED BY <1>6, <3>1, <3>2, <3>4, <3>6, <3>7
  <2> QED BY <2>2, <2>3
<1>b. CASE Revert(w)
  <2>1. r.step = "revert" /\ row' = [row EXCEPT ![o] = [x EXCEPT !.status = r.old]]
        /\ worker' = [worker EXCEPT ![w] = Resting]
    BY <1>b DEF Revert
  <2>2. r.old = "paid"
    BY <1>3, <2>1 DEF Course
  <2>3. [x EXCEPT !.status = r.old].status = "paid"
    BY <1>2, <2>2 DEF Row
  <2> HIDE DEF r, o, x
  <2> QED BY <1>6, <1>8, <2>1, <2>3
<1>c. CASE Record(w)
  <2>1. r.step = "record" /\ UNCHANGED row /\ worker' = [worker EXCEPT ![w] = Resting]
    BY <1>c DEF Record
  <2>2. ~ Deciding(r)
    BY <2>1 DEF Deciding
  <2> HIDE DEF r, o, x
  <2> QED BY <1>4, <1>6, <1>7, <1>8, <2>1, <2>2
<1>d. CASE MarkPaid(w)
  <2> DEFINE paid == [r EXCEPT !.mine = PaidRow]
             n == IF Stocked(o) THEN Reserving(paid) ELSE Resting
  <2>1. row' = [row EXCEPT ![o] = PaidRow] /\ worker' = [worker EXCEPT ![w] = n]
    BY <1>d DEF MarkPaid, PaidRow
  <2>2. paid \in Request
    <3>1. PaidRow \in Row
      BY DEF PaidRow, Row, Status, Payment
    <3> QED BY <1>2, <3>1 DEF Request
  <2> HIDE DEF paid
  <2>3. n.slot = NoCall /\ n.step # "complete"
    <3>1. Reserving(paid).slot = NoCall
      BY <2>2, ReservingUnheard
    <3>2. Reserving(paid).step # "complete"
      BY <1>8, <2>2, ReservingGoes
    <3> QED BY <1>8, <3>1, <3>2
  <2>4. PaidRow.status = "paid"
    BY DEF PaidRow
  <2> HIDE DEF r, o, x, n
  <2> QED BY <1>6, <2>1, <2>3, <2>4
<1>e. CASE Refund(w)
  <2> DEFINE n == IF r.kind = "stuck" THEN At(r, "cancelStuck") ELSE At(r, "unpay")
  <2>1. r.step = "refund" /\ UNCHANGED row /\ worker' = [worker EXCEPT ![w] = n]
    BY <1>e DEF Refund, orderVars
  <2>2. ~ Deciding(r)
    BY <2>1 DEF Deciding
  <2>3. n.slot = NoCall /\ n.step # "complete"
    BY <1>9
  <2> HIDE DEF r, o, x, n
  <2> QED BY <1>4, <1>6, <1>7, <2>1, <2>2, <2>3
<1>f. CASE Unpay(w)
  <2> DEFINE again == [r EXCEPT !.mine.pay = "refunded"]
             x2 == [x EXCEPT !.pay = "refunded"]
  <2>1. /\ r.step = "unpay" /\ row' = [row EXCEPT ![o] = x2]
        /\ worker' = [worker EXCEPT ![w] = GiveUp(again)]
    BY <1>f DEF Unpay
  <2>2. ~ Deciding(r)
    BY <2>1 DEF Deciding
  <2>3. x2.status = x.status
    BY <1>2 DEF Row
  <2>4. again \in Request
    <3>1. [r.mine EXCEPT !.pay = "refunded"] \in Row
      BY <1>2, AllRows DEF Payment
    <3>2. again = [r EXCEPT !.mine = [r.mine EXCEPT !.pay = "refunded"]]
      BY <1>2 DEF Request
    <3> DEFINE back == [r.mine EXCEPT !.pay = "refunded"]
    <3> HIDE DEF back
    <3> QED BY <1>2, <3>1, <3>2 DEF Request, back
  <2> HIDE DEF again
  <2>5. GiveUp(again).slot = NoCall /\ GiveUp(again).step # "complete"
    BY <2>4, GiveUpUnheard, GiveUpGoes
  <2> HIDE DEF r, o, x, x2
  <2> QED BY <1>4, <1>6, <2>1, <2>2, <2>3, <2>5
<1>g. CASE CancelStuck(w)
  <2> DEFINE x2 == [x EXCEPT !.status = "cancelled", !.pay = "refunded"]
  <2>1. row' = [row EXCEPT ![o] = x2] /\ worker' = [worker EXCEPT ![w] = Resting]
    BY <1>2, <1>g DEF CancelStuck, OwnTypeOK
  <2>2. x2.status = "cancelled"
    BY <1>2 DEF Row
  <2> HIDE DEF r, o, x, x2
  <2> QED BY <1>6, <1>8, <2>1, <2>2
<1>h. CASE Complete(w)
  <2> DEFINE x2 == [x EXCEPT !.status = "completed", !.pay = "paid"]
             a == At(r, "record")
             n == [a EXCEPT !.mine.status = "completed"]
  <2>1. /\ r.step = "complete" /\ row' = [row EXCEPT ![o] = x2]
        /\ worker' = [worker EXCEPT ![w] = n]
    BY <1>2, <1>h DEF Complete, OwnTypeOK
  <2>2. Recorded(uses', o)
    BY <1>2, <2>1 DEF ShipInv, LeftTheShop, StillDeducted
  <2>3. n.slot = NoCall /\ n.step # "complete"
    BY <1>2 DEF At, Request
  <2> HIDE DEF r, o, x, x2, n
  <2> QED BY <1>6, <2>1, <2>2, <2>3
<1> QED BY <1>a, <1>b, <1>c, <1>d, <1>e, <1>f, <1>g, <1>h DEF Transaction

\* Inventory's answer, or its absence: a success is believed only when the
\* deduction is recorded.
LEMMA AnswerShips ==
    ASSUME ShipInv, InCourse, OwnTypeOK, StillDeducted,
           NEW w \in Worker, worker[w].step \in Calling, NEW success \in BOOLEAN,
           worker' = [worker EXCEPT ![w] = Answered(worker[w], success)],
           success /\ worker[w].step = "deduct" => Recorded(uses, worker[w].order),
           \A v \in Worker \ {w} : worker[v].slot # NoCall =>
              call'[worker[v].slot] = call[worker[v].slot],
           UNCHANGED row
    PROVE  ShipInv'
<1> DEFINE r == worker[w]
           n == Answered(r, success)
           o == r.order
<1>1. r.step # "rest"
  BY DEF Calling
<1>2. /\ r \in Request /\ o \in Order
      /\ Good(r, row[o], recorded[o], money[o], o \in notified)
  BY <1>1, Serving
<1>3. worker' = [worker EXCEPT ![w] = n] /\ n.slot = NoCall
  BY <1>2, AnsweredUnheard
<1>4. \/ n = Resting /\ r.step = "reserve"
      \/ Follows(r, n) /\ r.step = "reserve" /\ n.step = "reserve"
      \/ r.step \in {"reserve", "undo"} /\ Undone(r, n)
      \/ r.step = "release" /\ Let(r, n)
      \/ /\ r.step = "deduct" /\ Follows(r, n)
         /\ \/ r.kind = "till" /\ n.step = "complete" /\ success
            \/ r.kind = "till" /\ n.step = "change" /\ n.target = "cancelled"
            \/ r.kind # "till" /\ n.step = "record" /\ success
            \/ r.kind # "till" /\ n.step = "revert"
  BY <1>2, AnsweredGoes
<1>5. success /\ r.step = "deduct" => Recorded(uses', o)
  BY <1>2 DEF StillDeducted
<1>6. Course(r)
  BY <1>2 DEF Good
<1>7. ~ Deciding(r) => (Shipped(o) /\ Stocked(o) => Recorded(uses', o))
  BY <1>1, <1>2, NotSeenTo DEF ShipInv, StillDeducted
<1> HIDE DEF n
<1>8. n.step = "complete" => n.order = o /\ Recorded(uses', o)
  BY <1>4, <1>5 DEF Resting, Undone, Let, Follows
<1>9. Shipped(o) /\ Stocked(o) => Recorded(uses', o) \/ (n.order = o /\ Deciding(n))
  <2>1. CASE Deciding(r)
    <3>1. r.step = "deduct" /\ r.kind = "status"
      BY <2>1 DEF Deciding, Calling
    <3>2. success \/ (n.order = o /\ n.kind = "status" /\ n.step = "revert")
      BY <1>4, <3>1 DEF Follows
    <3> QED BY <1>5, <3>1, <3>2 DEF Deciding
  <2> QED BY <1>7, <2>1
<1>10. SlotsApart' /\ Truthful'
  BY <1>3, CallsKept DEF ShipInv
<1>11. LeftTheShop'
  <2>1. worker[w].order = o
    OBVIOUS
  <2>2. /\ \A q \in Order \ {o} : row'[q] = row[q]
        /\ Stocked(o) /\ row'[o].status \in {"delivering", "delivered", "completed"} =>
              Recorded(uses', o) \/ (n.order = o /\ Deciding(n))
    BY <1>9 DEF Shipped
  <2> HIDE DEF r, o
  <2> QED BY <1>2, <1>3, <1>8, <2>1, <2>2, ShopKept DEF ShipInv
<1> QED BY <1>10, <1>11 DEF ShipInv

\* A deduction has committed when it is made, and neither its success nor its
\* being a duplicate is said without a record.
LEMMA DeductSays ==
    ASSUME Stock!TypeOK, NEW c \in Call, NEW o \in Order, NEW fromReserved,
           Deduct(c, o, fromReserved)
    PROVE  /\ call'[c].pc \in {"publishing", "done"}
           /\ call'[c].reply \in {"ok", "conflict"} => Recorded(uses', o)
<1> DEFINE k == DeductKey(o)
           wanted == [p \in Items(o) |-> Units(o, p)]
           more == [x \in Stock!AnyKey |->
                      IF k # NoKey /\ \E p \in Items(o) : x = <<k, p>>
                      THEN uses["deduct"][x] + 1 ELSE uses["deduct"][x]]
<1>1. k # NoKey
  <2>1. k \in StockKey
    BY DEF DeductKey, StockKey
  <2> QED BY <2>1, StockAssumption DEF Stock!InventoryAssumption
<1>2. Stock!DeductBatch(c, WarehouseOf[o], wanted, k, fromReserved)
  BY DEF Deduct, DeductKey
<1>3. DOMAIN wanted = Items(o)
  OBVIOUS
<1>4. \E x \in {"ok", "conflict", "error"} : \E todo :
         /\ call' = [call EXCEPT ![c] = Stock!Committed(Stock!NoRequest, x, todo)]
         /\ x = "ok" => uses' = [uses EXCEPT !["deduct"] = more]
         /\ x = "conflict" => Stock!BatchSeen(k, Items(o)) /\ UNCHANGED uses
  <2> DEFINE yes == {[event |-> "deducted", loc |-> <<p, WarehouseOf[o]>>,
                      n |-> -wanted[p]] : p \in Items(o)}
  <2>1. \/ /\ call' = [call EXCEPT ![c] = Stock!Committed(Stock!NoRequest, "ok", yes)]
           /\ uses' = [uses EXCEPT !["deduct"] = more]
        \/ /\ call' = [call EXCEPT ![c] =
                         Stock!Committed(Stock!NoRequest, "conflict", {})]
           /\ Stock!BatchSeen(k, Items(o)) /\ UNCHANGED uses
        \/ call' = [call EXCEPT ![c] = Stock!Committed(Stock!NoRequest, "error", {})]
    <3> HIDE DEF wanted, k
    <3>1. CASE Stock!BatchSeen(k, Items(o))
      BY <1>2, <1>3, <3>1 DEF Stock!DeductBatch
    <3>2. CASE ~ Stock!BatchSeen(k, Items(o))
      BY <1>2, <1>3, <3>2 DEF Stock!DeductBatch
    <3> QED BY <3>1, <3>2
  <2> HIDE DEF yes, more, wanted, k
  <2> QED BY <2>1
<1>5. PICK x \in {"ok", "conflict", "error"} : \E todo :
         /\ call' = [call EXCEPT ![c] = Stock!Committed(Stock!NoRequest, x, todo)]
         /\ x = "ok" => uses' = [uses EXCEPT !["deduct"] = more]
         /\ x = "conflict" => Stock!BatchSeen(k, Items(o)) /\ UNCHANGED uses
  BY <1>4
<1>6. call'[c].pc \in {"publishing", "done"} /\ call'[c].reply = x
  <2>1. PICK todo : call'[c] = Stock!Committed(Stock!NoRequest, x, todo)
    <3>1. call \in [Call -> Stock!CallState]
      BY DEF Stock!TypeOK
    <3> QED BY <1>5, <3>1
  <2> QED BY <2>1 DEF Stock!Committed
<1>7. PICK p \in Product : p \in Items(o)
  <2>1. Lines[o] \in Seq(Line) /\ Lines[o] # << >>
    BY OrdersAssumption
  <2>2. 1 \in LineNumbers(o) /\ Lines[o][1] \in Line
    BY <2>1 DEF LineNumbers
  <2> QED BY <2>2 DEF Line, Items
<1>8. CASE x = "ok"
  <2>1. /\ uses \in [Stock!MovementType -> [Stock!AnyKey -> Nat]]
        /\ "deduct" \in Stock!MovementType /\ <<k, p>> \in Stock!AnyKey
    BY DEF Stock!TypeOK, Stock!MovementType, Stock!SingleOp, Stock!AnyKey,
             Stock!ItemKey, DeductKey, StockKey
  <2>2. uses'["deduct"][<<k, p>>] = uses["deduct"][<<k, p>>] + 1
    <3>1. uses'["deduct"] = more
      BY <1>5, <1>8, <2>1
    <3> QED BY <1>1, <1>7, <2>1, <3>1
  <2>3. uses["deduct"][<<k, p>>] \in Nat
    <3>1. uses["deduct"] \in [Stock!AnyKey -> Nat]
      BY <2>1
    <3> QED BY <2>1, <3>1
  <2>4. uses'["deduct"][<<k, p>>] > 0
    BY <2>2, <2>3
  <2> QED BY <1>6, <2>4 DEF Recorded
<1>9. CASE x = "conflict"
  <2>1. PICK q \in Items(o) : uses'["deduct"][<<k, q>>] > 0
    BY <1>5, <1>9 DEF Stock!BatchSeen
  <2>2. q \in Product
    <3>1. Lines[o] \in Seq(Line)
      BY OrdersAssumption
    <3>2. \A i \in LineNumbers(o) : Lines[o][i] \in Line
      BY <3>1 DEF LineNumbers
    <3>3. \A i \in LineNumbers(o) : Lines[o][i].item \in Product
      BY <3>2 DEF Line
    <3> QED BY <3>3 DEF Items
  <2> QED BY <1>6, <2>1, <2>2 DEF Recorded
<1> QED BY <1>6, <1>8, <1>9

\* Making a call changes that call alone.
LEMMA OneCallMade ==
    ASSUME Stock!TypeOK, NEW c \in Call, NEW d \in Call \ {c},
           \/ \E o, b : Deduct(c, o, b)
           \/ \E r : AskLine(c, r)
    PROVE  call'[d] = call[d]
<1>1. \E s : call' = [call EXCEPT ![c] = s]
  <2>1. ASSUME NEW o, NEW b, Deduct(c, o, b)
        PROVE  \E s : call' = [call EXCEPT ![c] = s]
    <3>1. \E q, wanted, key : Stock!DeductBatch(c, q, wanted, key, b)
      BY <2>1 DEF Deduct
    <3> QED BY <3>1 DEF Stock!DeductBatch
  <2>2. ASSUME NEW r, AskLine(c, r)
        PROVE  \E s : call' = [call EXCEPT ![c] = s]
    <3>1. \E op, l, q, key : Stock!Begin(c, op, l, q, key)
      BY <2>2 DEF AskLine
    <3> QED BY <3>1 DEF Stock!Begin
  <2> QED BY <2>1, <2>2
<1> QED BY <1>1 DEF Stock!TypeOK

\* What a call of another client says of the request of v does not change.
LEMMA OthersTold ==
    ASSUME ShipInv, OwnTypeOK, Stock!TypeOK, StillDeducted, NEW c \in Call, NEW v \in Worker,
           worker[v].slot # c, worker[v].step = "deduct", worker[v].slot # NoCall,
           \/ \E o, b : Deduct(c, o, b)
           \/ \E r : AskLine(c, r)
    PROVE  /\ call'[worker[v].slot].pc \in {"publishing", "done"}
           /\ call'[worker[v].slot].reply \in {"ok", "conflict"}
                => Recorded(uses', worker[v].order)
<1>1. worker[v].slot \in Call \ {c} /\ worker[v].order \in Order
  BY DEF OwnTypeOK, WorkersOK, RequestOK, Request
<1>2. call'[worker[v].slot] = call[worker[v].slot]
  BY <1>1, OneCallMade
<1>3. /\ call[worker[v].slot].pc \in {"publishing", "done"}
      /\ call[worker[v].slot].reply \in {"ok", "conflict"}
           => Recorded(uses, worker[v].order)
  BY DEF ShipInv, Truthful
<1>4. Recorded(uses, worker[v].order) => Recorded(uses', worker[v].order)
  BY <1>1 DEF StillDeducted
<1> QED BY <1>2, <1>3, <1>4

\* A call is made.
LEMMA SendShips ==
    ASSUME ShipInv, OwnTypeOK, Stock!TypeOK, StillDeducted, NEW w \in Worker, Send(w)
    PROVE  ShipInv'
<1> DEFINE r == worker[w]
           o == r.order
<1>1. /\ r \in Request /\ o \in Order /\ r.step \in Calling
      /\ UNCHANGED row
  BY DEF OwnTypeOK, WorkersOK, Send, RequestOK, Calling, orderVars
<1>2. PICK c \in Call :
        /\ Free(c)
        /\ IF r.step = "deduct" THEN Deduct(c, o, FromReserved(r)) ELSE AskLine(c, r)
        /\ worker' = [worker EXCEPT ![w].slot = c]
  BY DEF Send
<1> DEFINE n == [r EXCEPT !.slot = c]
<1>3. /\ n.slot = c /\ n.step = r.step /\ n.kind = r.kind /\ n.order = o
  BY <1>1 DEF Request
<1>4. worker' = [worker EXCEPT ![w] = n]
  BY <1>2
<1>5. worker'[w] = n /\ \A v \in Worker \ {w} : worker'[v] = worker[v]
  BY <1>4 DEF OwnTypeOK, WorkersOK
<1>6. \A v \in Worker : worker[v].slot # c
  BY <1>2 DEF Free
<1>7. c # NoCall
  BY OrdersAssumption
<1>8. SlotsApart'
  <2> HIDE DEF n
  <2> QED BY <1>3, <1>5, <1>6 DEF ShipInv, SlotsApart
<1>9. r.step = "deduct" => /\ call'[c].pc \in {"publishing", "done"}
                           /\ call'[c].reply \in {"ok", "conflict"} => Recorded(uses', o)
  BY <1>1, <1>2, DeductSays
<1>10. (\E x, b : Deduct(c, x, b)) \/ \E x : AskLine(c, x)
  BY <1>2
<1>11. Truthful'
  <2>1. ASSUME NEW v \in Worker, worker'[v].step = "deduct", worker'[v].slot # NoCall
        PROVE  /\ call'[worker'[v].slot].pc \in {"publishing", "done"}
               /\ call'[worker'[v].slot].reply \in {"ok", "conflict"}
                    => Recorded(uses', worker'[v].order)
    <3>1. CASE v = w
      <4> HIDE DEF n
      <4> QED BY <1>3, <1>5, <1>9, <2>1, <3>1
    <3>2. CASE v # w
      <4>1. worker'[v] = worker[v] /\ worker[v].slot # c
        BY <1>5, <1>6, <3>2
      <4> QED BY <1>10, <2>1, <4>1, OthersTold
    <3> QED BY <3>1, <3>2
  <2> QED BY <2>1 DEF Truthful
<1>12. LeftTheShop'
  <2>1. \A v \in Worker : /\ worker'[v].order = worker[v].order
                          /\ worker'[v].step = worker[v].step
                          /\ worker'[v].kind = worker[v].kind
    BY <1>3, <1>5
  <2>2. \A q \in Order : SeenTo(q) => \E v \in Worker :
                            worker'[v].order = q /\ Deciding(worker'[v])
    BY <2>1 DEF SeenTo, Deciding
  <2>3. \A v \in Worker : worker'[v].step = "complete" =>
           Recorded(uses', worker'[v].order)
    BY <2>1 DEF ShipInv, LeftTheShop, StillDeducted, OwnTypeOK, WorkersOK, RequestOK
  <2>4. \A q \in Order :
           /\ Stocked(q)
           /\ row'[q].status \in {"delivering", "delivered", "completed"}
           =>
           \/ Recorded(uses', q)
           \/ \E v \in Worker : worker'[v].order = q /\ Deciding(worker'[v])
    BY <1>1, <2>2 DEF ShipInv, LeftTheShop, Shipped, StillDeducted
  <2> QED BY <2>3, <2>4 DEF LeftTheShop, Shipped, Stocked, SeenTo
<1> QED BY <1>8, <1>11, <1>12 DEF ShipInv

\* An abandoned deduction arrives: nobody listens to it.
LEMMA ArriveShips ==
    ASSUME ShipInv, OwnTypeOK, Stock!TypeOK, StillDeducted, NEW c \in Call,
           NEW d \in Deduction, Arrive(c, d)
    PROVE  ShipInv'
<1>1. UNCHANGED <<row, worker>> /\ Deduct(c, d[1], d[2]) /\ Free(c)
  BY DEF Arrive, orderVars
<1>2. LeftTheShop'
  BY <1>1 DEF ShipInv, LeftTheShop, SeenTo, Shipped, Stocked, StillDeducted, OwnTypeOK,
              WorkersOK, RequestOK
<1>3. SlotsApart'
  BY <1>1 DEF ShipInv, SlotsApart
<1>4. Truthful'
  <2>1. ASSUME NEW v \in Worker, worker[v].step = "deduct", worker[v].slot # NoCall
        PROVE  /\ call'[worker[v].slot].pc \in {"publishing", "done"}
               /\ call'[worker[v].slot].reply \in {"ok", "conflict"}
                    => Recorded(uses', worker[v].order)
    <3>1. worker[v].slot # c
      BY <1>1 DEF Free
    <3>2. \E o, b : Deduct(c, o, b)
      BY <1>1
    <3> QED BY <2>1, <3>1, <3>2, OthersTold
  <2> QED BY <1>1, <2>1 DEF Truthful
<1> QED BY <1>2, <1>3, <1>4 DEF ShipInv

\* Inventory works on its calls: what a deduction has said stays said, until
\* its worker hears it or the connection drops.
LEMMA ServeShips ==
    ASSUME ShipInv, OwnTypeOK, Stock!TypeOK, StillDeducted, NEW c \in Call, Serve(c)
    PROVE  ShipInv'
<1>1. UNCHANGED <<row, worker>>
  BY DEF Serve, orderVars
<1>2. call \in [Call -> Stock!CallState]
  BY DEF Stock!TypeOK
<1>3. LeftTheShop'
  BY <1>1 DEF ShipInv, LeftTheShop, SeenTo, Shipped, Stocked, StillDeducted, OwnTypeOK,
              WorkersOK, RequestOK
<1>4. SlotsApart'
  BY <1>1 DEF ShipInv, SlotsApart
<1>5. PICK s : /\ call' = [call EXCEPT ![c] = s]
               /\ \/ call[c].pc = "checked"
                  \/ \A w \in Worker : worker[w].slot # c
                  \/ /\ s.pc \in {"publishing", "done"}
                     /\ s.reply \in {call[c].reply, "dropped"}
  <2>0. \A q, x, y : /\ Stock!Committed(q, x, y).pc \in {"publishing", "done"}
                     /\ Stock!Committed(q, x, y).reply = x
    BY DEF Stock!Committed
  <2>1. CASE Stock!Apply(c)
    <3>1. PICK x, y : call' = [call EXCEPT ![c] =
                              Stock!Committed(call[c].req, x, y)]
      BY <2>1 DEF Stock!Apply
    <3>2. call[c].pc = "checked"
      BY <2>1 DEF Stock!Apply
    <3> QED BY <3>1, <3>2
  <2>2. CASE Stock!Announce(c)
    <3>1. PICK y : call' = [call EXCEPT ![c] =
                              Stock!Committed(call[c].req, call[c].reply, y)]
      <4> HIDE DEF Stock!Committed
      <4> QED BY <2>2 DEF Stock!Announce
    <3> DEFINE s == Stock!Committed(call[c].req, call[c].reply, y)
    <3>2. s.pc \in {"publishing", "done"} /\ s.reply = call[c].reply
      BY <2>0
    <3> HIDE DEF s
    <3> QED BY <3>1, <3>2 DEF s
  <2>3. CASE Stock!Crash(c)
    <3> DEFINE s == Stock!Committed(call[c].req, "dropped", {})
    <3>1. call' = [call EXCEPT ![c] = s]
      BY <2>3 DEF Stock!Crash
    <3>2. s.pc \in {"publishing", "done"} /\ s.reply = "dropped"
      BY <2>0
    <3> HIDE DEF s
    <3> QED BY <3>1, <3>2
  <2>4. CASE (\A w \in Worker : worker[w].slot # c) /\ Stock!Collect(c)
    BY <2>4 DEF Stock!Collect
  <2> QED BY <2>1, <2>2, <2>3, <2>4 DEF Serve
<1>6. ASSUME NEW v \in Worker, worker[v].step = "deduct", worker[v].slot # NoCall
      PROVE  /\ call'[worker[v].slot].pc \in {"publishing", "done"}
             /\ call'[worker[v].slot].reply \in {"ok", "conflict"}
                  => Recorded(uses', worker[v].order)
  <2> DEFINE d == worker[v].slot
  <2>1. d \in Call /\ worker[v].order \in Order
    BY <1>6 DEF OwnTypeOK, WorkersOK, RequestOK, Request
  <2>2. /\ call[d].pc \in {"publishing", "done"}
        /\ call[d].reply \in {"ok", "conflict"} => Recorded(uses, worker[v].order)
    BY <1>6 DEF ShipInv, Truthful
  <2>3. /\ call'[d].pc \in {"publishing", "done"}
        /\ call'[d].reply \in {call[d].reply, "dropped"}
    <3>1. CASE d = c
      BY <1>2, <1>5, <2>1, <2>2, <3>1
    <3>2. CASE d # c
      BY <1>2, <1>5, <2>1, <2>2, <3>2
    <3> QED BY <3>1, <3>2
  <2>4. Recorded(uses, worker[v].order) => Recorded(uses', worker[v].order)
    BY <2>1 DEF StillDeducted
  <2> QED BY <2>2, <2>3, <2>4
<1>7. Truthful'
  BY <1>1, <1>6 DEF Truthful
<1> QED BY <1>3, <1>4, <1>7 DEF ShipInv

LEMMA ShipStep ==
    ASSUME ShipInv, InCourse, OwnTypeOK, Stock!TypeOK, Undisturbed, [Next]_vars,
           \A o \in Order : \A p \in Items(o) : Units(o, p) \in Stock!Qty
    PROVE  ShipInv'
<1>1. StillDeducted
  BY DeductionsStay
<1>2. UNCHANGED <<row, worker, call, uses>> => ShipInv'
  BY DEF ShipInv, SlotsApart, Truthful, LeftTheShop, SeenTo, Shipped, Stocked
<1>3. UNCHANGED stockVars => UNCHANGED <<call, uses>>
  BY DEF stockVars
<1>4. CASE UNCHANGED vars
  BY <1>2, <1>3, <1>4 DEF vars, orderVars
<1>5. ASSUME NEW w \in Worker, Answer(w) PROVE ShipInv'
  <2> DEFINE r == worker[w]
             ok == Success(call[r.slot].reply)
  <2>1. /\ worker' = [worker EXCEPT ![w] = Answered(worker[w], ok)] /\ UNCHANGED row
        /\ r.slot # NoCall /\ call' = [call EXCEPT ![r.slot] = Stock!Idle]
    BY <1>5 DEF Answer, orderVars, Stock!Collect
  <2>2. r.step \in Calling /\ ok \in BOOLEAN
    BY <2>1 DEF OwnTypeOK, WorkersOK, RequestOK, Success
  <2>3. ok /\ r.step = "deduct" => Recorded(uses, worker[w].order)
    BY <2>1 DEF Success, ShipInv, Truthful
  <2>4. \A v \in Worker \ {w} : worker[v].slot # NoCall =>
           call'[worker[v].slot] = call[worker[v].slot]
    <3>1. \A v \in Worker \ {w} : worker[v].slot # NoCall =>
             worker[v].slot # r.slot /\ worker[v].slot \in Call
      BY DEF ShipInv, SlotsApart, OwnTypeOK, WorkersOK, Request
    <3>2. call \in [Call -> Stock!CallState]
      BY DEF Stock!TypeOK
    <3> QED BY <2>1, <3>1, <3>2
  <2> HIDE DEF ok
  <2> QED BY <1>1, <2>1, <2>2, <2>3, <2>4, AnswerShips
<1>6. ASSUME NEW w \in Worker, NoAnswer(w) PROVE ShipInv'
  <2>1. /\ worker[w].step \in Calling /\ UNCHANGED <<row, call>>
        /\ worker' = [worker EXCEPT ![w] = Answered(worker[w], FALSE)]
    BY <1>3, <1>6 DEF NoAnswer, orderVars
  <2> QED BY <1>1, <2>1, AnswerShips
<1>7. ASSUME NEW w \in Worker, Die(w) PROVE ShipInv'
  BY <1>7 DEF Die, Undisturbed
<1>8. ASSUME NEW o \in Order, Pay(o) \/ CustomerPays(o) PROVE ShipInv'
  BY <1>2, <1>3, <1>8 DEF Pay, CustomerPays, orderVars
<1>9. CASE Next
  BY <1>1, <1>5, <1>6, <1>7, <1>8, <1>9, ArrivalShips, TransactionShips, SendShips,
     ServeShips, ArriveShips DEF Next
<1> QED BY <1>4, <1>9

LEMMA ShipInit == Init => ShipInv
<1> SUFFICES ASSUME Init PROVE ShipInv
  OBVIOUS
<1>1. \A w \in Worker : worker[w].slot = NoCall /\ worker[w].step = "rest"
  BY DEF Init, Resting
<1>2. \A o \in Order : row[o].status = "none"
  BY DEF Init, NoRow
<1> QED BY <1>1, <1>2 DEF ShipInv, SlotsApart, Truthful, LeftTheShop, Shipped

\* An order that left the shop had its stock deducted, or is being put back:
\* also when calls to inventory are abandoned or served late, inventory dies
\* after its transaction, payments are reported late or twice and the clean-up
\* command runs.
THEOREM ShippedWasDeducted ==
    ASSUME Undisturbed,
           \A o \in Order : \A p \in Items(o) : Units(o, p) \in Stock!Qty
    PROVE  Spec => []ShippedMeansDeducted
<1>1. /\ Init => OwnTypeOK /\ InCourse /\ ShipInv
  BY InitOK, CourseInit, ShipInit
<1>2. OwnTypeOK /\ InCourse /\ ShipInv /\ TypeOK /\ [Next]_vars
        => (OwnTypeOK /\ InCourse /\ ShipInv)'
  BY SagaStep, CourseStep, ShipStep DEF TypeOK
<1>3. OwnTypeOK /\ InCourse /\ ShipInv => ShippedMeansDeducted
  <2> SUFFICES ASSUME ShipInv, NEW o \in Order, Shipped(o), Stocked(o), ~ Busy(o)
               PROVE  Deducted(o)
    BY DEF ShippedMeansDeducted
  <2>1. ~ SeenTo(o)
    BY DEF Busy, SeenTo
  <2>2. Recorded(uses, o)
    BY <2>1 DEF ShipInv, LeftTheShop
  <2> QED BY <2>2 DEF Recorded, DeductKey, Deducted
<1>4. Spec => []TypeOK
  BY TypeCorrect
<1> QED BY <1>1, <1>2, <1>3, <1>4, PTL DEF Spec


-----------------------------------------------------------------------------
(* The saga balances: the units an order holds are those its movement log   *)
(* says it holds, and who works on the order knows which.                   *)

\* Nothing goes wrong but a refund, and the clean-up command runs.
Smooth == Mishap \subseteq {"refundFails", "stuck"} /\ ~ Crashes

\* No two lines of an order name one product.
LinesApart ==
    \A o \in Order : \A i, j \in LineNumbers(o) :
        Lines[o][i].item = Lines[o][j].item => i = j

\* By the movement log, the order holds units of the product, and the order has
\* not touched the product yet.
LetGo(log, o, p) ==
    \/ log["release"][<<"release", o, p>>] > 0
    \/ log["release"][<<"compensate", o, p>>] > 0
    \/ log["deduct"][<<DeductKey(o), p>>] > 0
Holds(log, o, p) == log["reserve"][<<"reserve", o, p>>] > 0 /\ ~ LetGo(log, o, p)
Fresh(log, o, p) == ~ (log["reserve"][<<"reserve", o, p>>] > 0) /\ ~ LetGo(log, o, p)

\* The accounts: what is reserved at a location is what the orders hold there.
Holding(p) == {o \in Order : Holds(uses, o, p)}
Accounts ==
    /\ \A p \in Product : IsFiniteSet(Holding(p))
    /\ \A l \in Stock!Loc : reserved[l] = AllWant(Holding(l[1]), l)
    /\ \A l \in Stock!Loc \ rows : reserved[l] = 0

\* An order with the row x has units reserved: it is open, or the webhook gave
\* it up.
Stands(o, x) ==
    /\ o \notin Till
    /\ \/ x.status \in {"unpaid", "paid"}
       \/ x.status = "cancelled" /\ x.pay = "refunded"

\* The lines whose units a request r counts on holding, before its call does
\* anything.
Owns(r, x, i) ==
    \/ r.kind = "create" /\ r.step = "reserve" /\ i \in r.got
    \/ r.kind = "create" /\ r.step = "undo" /\ i \in r.got /\ i >= r.line
    \/ r.step = "release" /\ i >= r.line
    \/ r.kind \in {"webhook", "stuck"}
    \/ r.kind = "status" /\ r.step \in {"deduct", "revert"}
    \/ r.kind = "status" /\ r.step \in {"change", "record"} /\ Stands(r.order, x)

\* The answer the call of a request has been given, and the lines it changed.
ReplyOf(r, calls) == IF r.slot = NoCall THEN "none" ELSE calls[r.slot].reply
Moved(r, reply, i) ==
    /\ r.kind # "till" /\ reply = "ok"
    /\ r.step = "deduct" \/ i = r.line

\* What else is known of a request at work on an order with the row x.
Path(r, x) ==
    /\ x # NoRow
    /\ r.kind = "create" =>
         /\ r.order \notin Till /\ x.pay = "unpaid"
         /\ r.step = "reserve" =>
               /\ \A i \in r.got : i < r.line
               /\ r.ok => \A i \in LineNumbers(r.order) : i < r.line => i \in r.got
         /\ r.step = "undo" => r.line \in r.got
         /\ r.step = "record" => x.status = "cancelled"
    /\ r.kind = "till" =>
         /\ r.step = "record" => x.status \in {"completed", "cancelled"}
         /\ x.pay # "refunded" /\ r.mine.pay # "refunded"
    /\ r.kind = "status" =>
         /\ r.step = "release" => x.status = "cancelled"
         /\ r.step = "change" /\ r.target = "cancelled" =>
               x.status \notin {"delivering", "delivered"}
         /\ r.order \in Till =>
               r.step = "change" /\ x.status \in {"none", "completed", "cancelled"}
         /\ x.pay = "refunded" =>
               r.order \notin Till /\ r.step = "change" /\ x.status = "cancelled"
    /\ r.kind \in {"webhook", "stuck"} => r.order \notin Till

\* A request r, and the row x of its order, the log and the reply of its call.
Steady(r, x, log, reply) ==
    /\ Path(r, x)
    /\ Stocked(r.order) =>
         \A i \in LineNumbers(r.order) : LET p == Lines[r.order][i].item IN
            /\ Holds(log, r.order, p) <=> (Owns(r, x, i) <=> ~ Moved(r, reply, i))
            /\ r.kind = "create" /\ r.step = "reserve" /\ i \notin r.got
                 /\ ~ Moved(r, reply, i) => Fresh(log, r.order, p)

\* An order nobody works on holds its lines while it is open, and for good when
\* the webhook gave it up.
Settled(o, x, log) ==
    /\ o \in Till => x.status \in {"none", "completed", "cancelled"}
    /\ x.pay = "refunded" => o \notin Till /\ x.status = "cancelled"
    /\ Stocked(o) =>
         \A i \in LineNumbers(o) : LET p == Lines[o][i].item IN
            /\ Holds(log, o, p) <=> Stands(o, x)
            /\ x = NoRow => Fresh(log, o, p)

\* A call k is the one that the request r made.
Fits(r, k) ==
    /\ k.pc # "idle"
    /\ k.pc = "checked" =>
         /\ r.step # "deduct" /\ k.reply = "none"
         /\ k.req = [op |-> IF r.step = "reserve" THEN "reserve" ELSE "release",
                     loc |-> LocOf(r.order, r.line),
                     qty |-> Lines[r.order][r.line].qty, key |-> KeyFor(r)]
    /\ k.pc # "checked" =>
         /\ r.step \in {"undo", "release"} => k.reply = "ok"
         /\ r.step = "reserve" => k.reply \in {"ok", "error"}
         /\ r.kind = "status" /\ r.step = "deduct" => k.reply \in {"ok", "error"}

\* Every call under way belongs to one request, and is the one it made.
CallsMade ==
    /\ SlotsApart
    /\ \A c \in Call : call[c].pc = "checked" => \E w \in Worker : worker[w].slot = c
    /\ \A w \in Worker : worker[w].slot # NoCall =>
          Fits(worker[w], call[worker[w].slot])

LinesKnown ==
    /\ \A w \in Worker : worker[w].step # "rest" =>
          Steady(worker[w], row[worker[w].order], uses, ReplyOf(worker[w], call))
    /\ \A o \in Order : ~ Working(o) => Settled(o, row[o], uses)

\* Customers pay online orders only; finitely many orders were placed.
Placings ==
    /\ \A o \in Till : money[o] = "none"
    /\ IsFiniteSet({o \in Order : row[o] # NoRow})

\* The inductive invariant of ReservedAccounted, beside InCourse.
HoldInv == CallsMade /\ LinesKnown /\ Placings /\ Accounts

\* No deduction was abandoned on its way.
NoneAdrift == \A d \in Deduction : adrift[d] = 0

-----------------------------------------------------------------------------
(* Which lines a request counts on as it goes on.                           *)

LEMMA AtLines ==
    ASSUME NEW r \in Request, NEW step, NEW n, n = At(r, step)
    PROVE  /\ n.order = r.order /\ n.kind = r.kind /\ n.mine = r.mine
           /\ n.old = r.old /\ n.step = step /\ n.target = r.target
           /\ n.slot = NoCall /\ n.got = r.got /\ n.ok = r.ok /\ n.line = r.line
BY DEF At, Request

\* A loop starts at the smallest of its lines.
LeastOf(i, S) == i \in S /\ \A j \in S : i <= j

LEMMA OverLines ==
    ASSUME NEW r \in Request, NEW step, NEW S \in SUBSET Nat, S # {}, NEW after, NEW n,
           n = Over(r, step, S, after)
    PROVE  /\ n.order = r.order /\ n.kind = r.kind /\ n.step = step
           /\ n.slot = NoCall /\ n.got = r.got /\ n.ok = r.ok
           /\ n.target = r.target
           /\ LeastOf(n.line, S)
<1> DEFINE i == CHOOSE i \in S : \A j \in S : i <= j
           a == At(r, step)
<1>1. i \in S /\ \A j \in S : i <= j
  BY Smallest
<1>2. n = [a EXCEPT !.line = i]
  BY DEF Over
<1> HIDE DEF i
<1>3. /\ a.order = r.order /\ a.kind = r.kind /\ a.step = step
      /\ a.slot = NoCall /\ a.got = r.got /\ a.ok = r.ok /\ a.target = r.target
      /\ \A b : b = [a EXCEPT !.line = i] =>
            /\ b.order = a.order /\ b.kind = a.kind /\ b.step = a.step
            /\ b.slot = a.slot /\ b.got = a.got /\ b.ok = a.ok
            /\ b.target = a.target /\ b.line = i
  BY DEF At, Request
<1> HIDE DEF a
<1>4. LeastOf(i, S)
  BY <1>1 DEF LeastOf
<1> QED BY <1>2, <1>3, <1>4

\* A reservation that was tried: the lines obtained are known.
LEMMA ReserveSteady ==
    ASSUME NEW r, RequestOK(r), r.step = "reserve", NEW x, NEW log,
           NEW reply, NEW success \in BOOLEAN, Steady(r, x, log, reply),
           r.kind = "create", x.status = "unpaid",
           reply \in {"ok", "error"}, success <=> reply = "ok",
           NEW n, n = Answered(r, success)
    PROVE  /\ n.step = "rest" => n = Resting /\ Settled(r.order, x, log)
           /\ n.step # "rest" => Steady(n, x, log, "none")
<1> DEFINE o == r.order
           tried == [r EXCEPT !.ok = @ /\ success,
                              !.got = IF success THEN @ \cup {r.line} ELSE @]
           then == IF tried.ok THEN Resting ELSE Undoing(tried)
           rest == LinesAfter(r)
           item(i) == Lines[o][i].item
<1>1. /\ r \in Request /\ o \in Order /\ Stocked(o) /\ r.line \in LineNumbers(o)
      /\ rest = {i \in LineNumbers(o) : i > r.line}
      /\ LineNumbers(o) \subseteq Nat /\ r.got \subseteq LineNumbers(o)
  BY LinesAreNumbers DEF RequestOK, Calling, LinesAfter
<1>2. n = Over(tried, "reserve", rest, then)
  BY DEF Answered
<1>3. /\ tried \in Request /\ tried.order = o /\ tried.kind = r.kind
      /\ tried.step = "reserve" /\ tried.ok = (r.ok /\ success)
      /\ tried.got = IF success THEN r.got \cup {r.line} ELSE r.got
  <2>1. r.got \cup {r.line} \in SUBSET Nat /\ r.ok \in BOOLEAN /\ r.got \in SUBSET Nat
    BY <1>1 DEF Request
  <2> QED BY <1>1, <2>1 DEF Request
<1> HIDE DEF tried
<1>4. Resting.step = "rest"
  BY DEF Resting
<1>5. Path(r, x) /\ o \notin Till
  BY DEF Steady, Path
<1>a. rest \in SUBSET Nat /\ \A i \in LineNumbers(o) : i \in Int
  BY <1>1
<1>6. rest = {} => n = then
  BY <1>2 DEF Over
<1>7. rest # {} => /\ n.order = o /\ n.kind = r.kind /\ n.step = "reserve"
                   /\ n.slot = NoCall /\ n.got = tried.got /\ n.ok = tried.ok
                   /\ LeastOf(n.line, rest)
  <2> HIDE DEF rest, then
  <2> QED BY <1>2, <1>3, <1>a, OverLines
<1>b. rest # {} => n.line \in rest /\ \A j \in rest : n.line <= j
  BY <1>7 DEF LeastOf
<1> QED
  <2>1. r.line \notin r.got /\ (\A i \in r.got : i < r.line)
    BY <1>1, <1>5 DEF Path
  <2>2. \A i \in LineNumbers(o) :
           /\ Holds(log, o, item(i)) <=> i \in tried.got
           /\ i \notin tried.got => Fresh(log, o, item(i))
    <3>1. SUFFICES ASSUME NEW i \in LineNumbers(o)
                   PROVE  /\ Holds(log, o, item(i)) <=> i \in tried.got
                          /\ i \notin tried.got => Fresh(log, o, item(i))
      OBVIOUS
    <3>2. Owns(r, x, i) <=> i \in r.got
      BY DEF Owns
    <3>3. Moved(r, reply, i) <=> success /\ i = r.line
      BY DEF Moved
    <3>4. i \in tried.got <=> i \in r.got \/ (success /\ i = r.line)
      BY <1>3
    <3>5. /\ Holds(log, o, item(i)) <=> (Owns(r, x, i) <=> ~ Moved(r, reply, i))
          /\ i \notin r.got /\ ~ Moved(r, reply, i) => Fresh(log, o, item(i))
      BY <1>1 DEF Steady
    <3> QED BY <2>1, <3>2, <3>3, <3>4, <3>5
  <2>3. tried.ok => \A i \in LineNumbers(o) : i <= r.line => i \in tried.got
    <3>1. SUFFICES ASSUME tried.ok, NEW i \in LineNumbers(o), i <= r.line
                   PROVE  i \in tried.got
      OBVIOUS
    <3>2. r.ok /\ success
      BY <1>3, <3>1
    <3>3. i = r.line \/ i < r.line
      BY <1>1, <1>a, <3>1
    <3>4. i < r.line => i \in r.got
      BY <1>5, <3>2 DEF Path
    <3> QED BY <1>3, <3>2, <3>3, <3>4
  <2>4. \A i \in tried.got : i \in LineNumbers(o) /\ i <= r.line
    BY <1>1, <1>3, <2>1
  <2>5. CASE rest # {}
    <3>1. Path(n, x)
      <4>1. \A i \in n.got : i < n.line
        BY <1>1, <1>7, <1>b, <2>4, <2>5
      <4>2. n.ok => \A i \in LineNumbers(o) : i < n.line => i \in n.got
        <5>1. SUFFICES ASSUME n.ok, NEW i \in LineNumbers(o), i < n.line
                       PROVE  i \in n.got
          OBVIOUS
        <5>2. i <= r.line
          <6>1. n.line \in Int /\ i \in Int
            BY <1>1, <1>b, <2>5
          <6>2. i \in rest => n.line <= i
            BY <1>b, <2>5
          <6>3. i \notin rest
            BY <5>1, <6>1, <6>2
          <6> QED BY <1>1, <1>a, <6>3
        <5> QED BY <1>7, <2>3, <2>5, <5>1, <5>2
      <4> QED BY <1>5, <1>7, <2>5, <4>1, <4>2 DEF Path
    <3>2. \A i \in LineNumbers(o) : Owns(n, x, i) <=> i \in tried.got
      BY <1>7, <2>5 DEF Owns
    <3>3. \A i : ~ Moved(n, "none", i)
      BY DEF Moved
    <3> QED BY <1>7, <2>2, <2>5, <3>1, <3>2, <3>3 DEF Steady
  <2>6. CASE rest = {} /\ tried.ok
    <3>1. n = Resting
      BY <1>6, <2>6
    <3>2. \A i \in LineNumbers(o) : i <= r.line
      BY <1>1, <2>6
    <3>3. \A i \in LineNumbers(o) : Holds(log, o, item(i))
      BY <2>2, <2>3, <2>6, <3>2
    <3>4. Settled(o, x, log)
      BY <1>5, <3>3 DEF Settled, Stands, Path, NoRow
    <3> QED BY <1>4, <3>1, <3>4
  <2>7. CASE rest = {} /\ ~ tried.ok
    <3>1. n = Over(tried, "undo", tried.got, AfterUndo(tried))
      BY <1>6, <2>7 DEF Undoing
    <3>2. CASE tried.got = {}
      <4>1. n = GiveUp(tried)
        BY <1>3, <3>1, <3>2 DEF Over, AfterUndo
      <4>2. n.order = o /\ n.kind = "create" /\ n.step = "change"
        BY <1>3, <4>1, GiveUpGoes DEF Follows
      <4>3. Path(n, x)
        BY <1>5, <4>2 DEF Path
      <4>4. \A i : ~ Owns(n, x, i) /\ ~ Moved(n, "none", i)
        BY <4>2 DEF Owns, Moved
      <4> QED BY <2>2, <3>2, <4>2, <4>3, <4>4 DEF Steady
    <3>3. CASE tried.got # {}
      <4>1. tried.got \in SUBSET Nat
        BY <1>1, <2>4
      <4>2. /\ n.order = o /\ n.kind = "create" /\ n.step = "undo"
            /\ n.got = tried.got /\ n.line \in tried.got
            /\ \A j \in tried.got : n.line <= j
        <5> DEFINE got == tried.got
                   after == AfterUndo(tried)
        <5>1. n = Over(tried, "undo", got, after) /\ got \in SUBSET Nat /\ got # {}
          BY <3>1, <3>3, <4>1
        <5> HIDE DEF got, after
        <5>2. /\ n.order = tried.order /\ n.kind = tried.kind /\ n.step = "undo"
              /\ n.got = tried.got /\ LeastOf(n.line, got)
          BY <1>3, <5>1, OverLines
        <5> QED BY <1>3, <5>2 DEF got, LeastOf
      <4>3. Path(n, x)
        BY <1>5, <4>2 DEF Path
      <4>4. \A i : ~ Moved(n, "none", i)
        BY DEF Moved
      <4>5. \A i \in LineNumbers(o) : Owns(n, x, i) <=> i \in tried.got
        <5>1. \A i \in tried.got : i >= n.line
          BY <4>1, <4>2
        <5> QED BY <4>2, <5>1 DEF Owns
      <4> QED BY <2>2, <4>2, <4>3, <4>4, <4>5 DEF Steady
    <3> QED BY <3>2, <3>3
  <2> QED BY <2>5, <2>6, <2>7

\* The lines from the next one on are those after the last one.
LEMMA NextOn ==
    \A a, b, c \in Int : b > c /\ (a > c => b <= a) => (a >= b <=> a > c)
OBVIOUS

\* A line that was let go: the lines after it are still to be let go.
LEMMA UndoSteady ==
    ASSUME NEW r, RequestOK(r), r.step = "undo", r.kind = "create",
           NEW x, NEW log, Steady(r, x, log, "ok"),
           NEW n, n = Over(r, "undo", LinesAfter(r) \cap r.got, AfterUndo(r))
    PROVE  n.step # "rest" /\ n.order = r.order /\ Steady(n, x, log, "none")
<1> DEFINE o == r.order
           rest == LinesAfter(r) \cap r.got
           item(i) == Lines[o][i].item
<1>1. /\ r \in Request /\ o \in Order /\ Stocked(o) /\ r.line \in LineNumbers(o)
      /\ LineNumbers(o) \subseteq Nat /\ r.got \subseteq LineNumbers(o)
  BY LinesAreNumbers DEF RequestOK, Calling
<1>q. r \in Request
  BY <1>1
<1>r. rest = {i \in LineNumbers(o) : i > r.line} \cap r.got
  BY DEF LinesAfter
<1>s. rest \in SUBSET Nat
  BY <1>1, <1>r
<1>2. n = Over(r, "undo", rest, AfterUndo(r))
  OBVIOUS
<1>3. Path(r, x) /\ r.line \in r.got
  BY DEF Steady, Path
<1>4. \A i \in LineNumbers(o) : Holds(log, o, item(i)) <=> i \in r.got /\ i > r.line
  <2>1. SUFFICES ASSUME NEW i \in LineNumbers(o)
                 PROVE  Holds(log, o, item(i)) <=> i \in r.got /\ i > r.line
    OBVIOUS
  <2>2. Holds(log, o, item(i)) <=> (Owns(r, x, i) <=> ~ Moved(r, "ok", i))
    BY <1>1 DEF Steady
  <2>3. /\ Owns(r, x, i) <=> i \in r.got /\ i >= r.line
        /\ Moved(r, "ok", i) <=> i = r.line
    BY DEF Owns, Moved
  <2>4. i \in Int /\ r.line \in Int
    BY <1>1
  <2> QED BY <1>3, <2>2, <2>3, <2>4
<1> HIDE DEF rest
<1>5. CASE rest = {}
  <2>1. n = GiveUp(r)
    BY <1>2, <1>5 DEF Over, AfterUndo
  <2>2. n.order = o /\ n.kind = "create" /\ n.step = "change"
    BY <1>1, <2>1, GiveUpGoes DEF Follows
  <2>3. Path(n, x)
    BY <1>3, <2>2 DEF Path
  <2>4. \A i : ~ Owns(n, x, i) /\ ~ Moved(n, "none", i)
    BY <2>2 DEF Owns, Moved
  <2>5. \A i \in LineNumbers(o) : ~ (i \in r.got /\ i > r.line)
    BY <1>r, <1>5
  <2> QED BY <1>4, <2>2, <2>3, <2>4, <2>5 DEF Steady
<1>6. CASE rest # {}
  <2>0. PICK after : n = Over(r, "undo", rest, after)
    BY <1>2, Zenon
  <2>1. /\ n.order = o /\ n.kind = r.kind /\ n.step = "undo" /\ n.got = r.got
        /\ LeastOf(n.line, rest)
    BY <1>q, <1>s, <1>6, <2>0, OverLines
  <2>1a. n.line \in rest /\ \A j \in rest : n.line <= j
    BY <2>1 DEF LeastOf
  <2>2. Path(n, x)
    BY <1>r, <1>3, <2>1, <2>1a DEF Path
  <2>3. \A i : ~ Moved(n, "none", i)
    BY DEF Moved
  <2>4. \A i \in LineNumbers(o) : Owns(n, x, i) <=> i \in r.got /\ i > r.line
    <3>1. SUFFICES ASSUME NEW i \in LineNumbers(o), i \in r.got
                   PROVE  i >= n.line <=> i > r.line
      BY <2>1 DEF Owns
    <3>1a. n.line \in LineNumbers(o) /\ n.line > r.line
      BY <1>r, <2>1a
    <3>1b. \A j \in LineNumbers(o) : j \in Int
      BY <1>1
    <3>2. i \in Int /\ r.line \in Int /\ n.line \in Int /\ n.line > r.line
      BY <1>1, <3>1a, <3>1b, Zenon
    <3>3. i > r.line => i \in rest
      BY <1>r, <3>1
    <3>4. i > r.line => n.line <= i
      BY <2>1a, <3>3
    <3> QED BY <3>2, <3>4, NextOn
  <2> QED BY <1>4, <2>1, <2>2, <2>3, <2>4 DEF Steady
<1> QED BY <1>5, <1>6

LEMMA ReleaseSteady ==
    ASSUME NEW r, RequestOK(r), r.step = "release", r.kind = "status",
           NEW x, NEW log, Steady(r, x, log, "ok"),
           NEW n, n = Over(r, "release", LinesAfter(r), AfterRelease(r))
    PROVE  n.step # "rest" /\ n.order = r.order /\ Steady(n, x, log, "none")
<1> DEFINE o == r.order
           rest == LinesAfter(r)
           item(i) == Lines[o][i].item
<1>1. /\ r \in Request /\ o \in Order /\ Stocked(o) /\ r.line \in LineNumbers(o)
      /\ LineNumbers(o) \subseteq Nat
  BY LinesAreNumbers DEF RequestOK, Calling
<1>q. r \in Request
  BY <1>1
<1>r. rest = {i \in LineNumbers(o) : i > r.line}
  BY DEF LinesAfter
<1>s. rest \in SUBSET Nat
  BY <1>1, <1>r
<1>2. n = Over(r, "release", rest, AfterRelease(r))
  OBVIOUS
<1>3. Path(r, x) /\ o \notin Till /\ x.status = "cancelled" /\ x.pay # "refunded"
  BY DEF Steady, Path
<1>4. \A i \in LineNumbers(o) : Holds(log, o, item(i)) <=> i > r.line
  <2>1. SUFFICES ASSUME NEW i \in LineNumbers(o)
                 PROVE  Holds(log, o, item(i)) <=> i > r.line
    OBVIOUS
  <2>2. Holds(log, o, item(i)) <=> (Owns(r, x, i) <=> ~ Moved(r, "ok", i))
    BY <1>1 DEF Steady
  <2>3. /\ Owns(r, x, i) <=> i >= r.line
        /\ Moved(r, "ok", i) <=> i = r.line
    BY DEF Owns, Moved
  <2>4. i \in Int /\ r.line \in Int
    BY <1>1
  <2> QED BY <2>2, <2>3, <2>4
<1> HIDE DEF rest
<1>5. CASE rest = {}
  <2>1. n = AfterRelease(r)
    BY <1>2, <1>5 DEF Over
  <2>1a. n = At(r, "record")
    BY <2>1 DEF AfterRelease
  <2>2. n.order = o /\ n.kind = "status" /\ n.step = "record"
    BY <1>1, <2>1a, AtLines
  <2>3. Path(n, x)
    BY <1>3, <2>2 DEF Path
  <2>4. \A i : ~ Owns(n, x, i) /\ ~ Moved(n, "none", i)
    BY <1>3, <2>2 DEF Owns, Moved, Stands
  <2>5. \A i \in LineNumbers(o) : ~ (i > r.line)
    BY <1>r, <1>5
  <2> QED BY <1>4, <2>2, <2>3, <2>4, <2>5 DEF Steady
<1>6. CASE rest # {}
  <2>0. PICK after : n = Over(r, "release", rest, after)
    BY <1>2, Zenon
  <2>1. /\ n.order = o /\ n.kind = r.kind /\ n.step = "release" /\ n.got = r.got
        /\ LeastOf(n.line, rest)
    BY <1>q, <1>s, <1>6, <2>0, OverLines
  <2>1a. n.line \in rest /\ \A j \in rest : n.line <= j
    BY <2>1 DEF LeastOf
  <2>2. Path(n, x)
    BY <1>3, <2>1 DEF Path
  <2>3. \A i : ~ Moved(n, "none", i)
    BY DEF Moved
  <2>4. \A i \in LineNumbers(o) : Owns(n, x, i) <=> i > r.line
    <3>1. SUFFICES ASSUME NEW i \in LineNumbers(o)
                   PROVE  i >= n.line <=> i > r.line
      BY <2>1 DEF Owns
    <3>1a. n.line \in LineNumbers(o) /\ n.line > r.line
      BY <1>r, <2>1a
    <3>1b. \A j \in LineNumbers(o) : j \in Int
      BY <1>1
    <3>2. i \in Int /\ r.line \in Int /\ n.line \in Int /\ n.line > r.line
      BY <1>1, <3>1a, <3>1b, Zenon
    <3>3. i > r.line => n.line <= i
      BY <1>r, <2>1a, <3>1
    <3> QED BY <3>2, <3>3, NextOn
  <2> QED BY <1>4, <2>1, <2>2, <2>3, <2>4 DEF Steady
<1> QED BY <1>5, <1>6

\* A deduction, of a shipment or of a sale.
LEMMA DeductSteady ==
    ASSUME NEW r, RequestOK(r), r.step = "deduct",
           NEW x, NEW log, NEW reply, Steady(r, x, log, reply),
           NEW success \in BOOLEAN,
           \/ r.kind = "till"
           \/ /\ r.kind = "status" /\ x.status = "delivering"
              /\ reply \in {"ok", "error"} /\ (success <=> reply = "ok"),
           NEW n, n = Answered(r, success)
    PROVE  n.step # "rest" /\ n.order = r.order /\ Steady(n, x, log, "none")
<1> DEFINE o == r.order
           item(i) == Lines[o][i].item
<1>1. r \in Request /\ o \in Order /\ Stocked(o)
  BY DEF RequestOK, Calling
<1>2. Path(r, x)
  BY DEF Steady
<1>3. \A i : ~ Moved(n, "none", i)
  BY DEF Moved
<1>4. CASE r.kind = "till"
  <2>1. n = At(r, "complete") \/ n = GiveUp(r)
    BY <1>4 DEF Answered
  <2>2. /\ n.order = o /\ n.kind = "till" /\ n.step \in {"complete", "change"}
        /\ n.mine = r.mine
    BY <1>1, <1>4, <2>1, AtLines, GiveUpGoes DEF Follows
  <2>3. Path(n, x)
    BY <1>2, <1>4, <2>2 DEF Path
  <2>4. \A i : ~ Owns(n, x, i) /\ ~ Owns(r, x, i) /\ ~ Moved(r, reply, i)
    BY <1>4, <2>2 DEF Owns, Moved
  <2> QED BY <1>1, <1>3, <1>4, <2>2, <2>3, <2>4 DEF Steady
<1>5. CASE r.kind = "status"
  <2>1. n = IF success THEN At(r, "record") ELSE At(r, "revert")
    BY <1>5 DEF Answered
  <2>2. /\ n.order = o /\ n.kind = "status"
        /\ n.step = IF success THEN "record" ELSE "revert"
    BY <1>1, <1>5, <2>1, AtLines
  <2>3. Path(n, x)
    BY <1>2, <1>5, <2>2 DEF Path
  <2>4. \A i : /\ Owns(n, x, i) <=> ~ success
               /\ Owns(r, x, i) /\ (Moved(r, reply, i) <=> success)
    BY <1>5, <2>2 DEF Owns, Moved, Stands
  <2> QED BY <1>1, <1>3, <1>5, <2>2, <2>3, <2>4 DEF Steady
<1> QED BY <1>4, <1>5

\* Every answer keeps what is known of the lines.
LEMMA AnswerSteady ==
    ASSUME NEW r, RequestOK(r), r.step \in Calling, Course(r),
           NEW x, r.mine.status = x.status, r.kind # "till" => r.mine = x,
           NEW log, NEW k, Fits(r, k), k.pc = "done", Steady(r, x, log, k.reply),
           NEW success \in BOOLEAN, success = Success(k.reply),
           NEW n, n = Answered(r, success)
    PROVE  /\ n.step = "rest" => n = Resting /\ Settled(r.order, x, log)
           /\ n.step # "rest" => n.order = r.order /\ Steady(n, x, log, "none")
<1>1. success <=> k.reply \in {"ok", "conflict"}
  BY DEF Success
<1>2. Path(r, x)
  BY DEF Steady
<1>3. CASE r.step = "reserve"
  <2>1. r.kind = "create" /\ x.status = "unpaid"
    BY <1>3 DEF Course
  <2>2. k.reply \in {"ok", "error"} /\ (success <=> k.reply = "ok")
    BY <1>1, <1>3 DEF Fits
  <2>3. n = Resting \/ n.order = r.order
    BY <1>3, AnsweredGoes DEF RequestOK, Follows, Undone
  <2>4. /\ n.step = "rest" => n = Resting /\ Settled(r.order, x, log)
        /\ n.step # "rest" => Steady(n, x, log, "none")
    BY <1>3, <2>1, <2>2, ReserveSteady
  <2>5. Resting.step = "rest"
    BY DEF Resting
  <2> QED BY <2>3, <2>4, <2>5
<1>4. CASE r.step = "undo"
  <2>1. r.kind = "create" /\ k.reply = "ok"
    BY <1>4 DEF Course, Fits
  <2>2. n = Over(r, "undo", LinesAfter(r) \cap r.got, AfterUndo(r))
    BY <1>4 DEF Answered
  <2> QED BY <1>4, <2>1, <2>2, UndoSteady
<1>5. CASE r.step = "release"
  <2>1. r.kind = "status" /\ k.reply = "ok"
    BY <1>5 DEF Course, Fits
  <2>2. n = Over(r, "release", LinesAfter(r), AfterRelease(r))
    BY <1>5 DEF Answered
  <2> QED BY <1>5, <2>1, <2>2, ReleaseSteady
<1>6. CASE r.step = "deduct"
  <2>1. \/ r.kind = "till"
        \/ r.kind = "status" /\ x.status = "delivering" /\ k.reply \in {"ok", "error"}
    BY <1>6 DEF Course, Fits
  <2>2. r.kind = "status" => (success <=> k.reply = "ok")
    BY <1>1, <1>6 DEF Fits
  <2> QED BY <1>6, <2>1, <2>2, DeductSteady
<1> QED BY <1>3, <1>4, <1>5, <1>6 DEF Calling

-----------------------------------------------------------------------------
(* The units of an order's line, and the accounts.                          *)

LEMMA LineOf ==
    ASSUME NEW o \in Order, NEW i \in LineNumbers(o)
    PROVE  /\ Lines[o][i].item \in Product /\ Lines[o][i].qty \in Stock!Qty
           /\ Lines[o][i].item \in Items(o)
<1>1. Lines[o] \in Seq(Line)
  BY OrdersAssumption
<1>2. Lines[o][i] \in Line
  BY <1>1 DEF LineNumbers
<1> QED BY <1>2 DEF Line, Items, Stock!Qty

\* Without two lines of one product an order's units of it are its line's.
LEMMA OneLine ==
    ASSUME LinesApart, NEW o \in Order, NEW i \in LineNumbers(o)
    PROVE  Units(o, Lines[o][i].item) = Lines[o][i].qty
<1> DEFINE p == Lines[o][i].item
           T == {j \in LineNumbers(o) : Lines[o][j].item = p}
           f == [j \in T |-> Lines[o][j].qty]
<1>1. T = {i}
  BY DEF LinesApart
<1>2. Units(o, p) = MapThenSumSet(LAMBDA j : Lines[o][j].qty, T)
  BY Zenon DEF Units
<1>3. MapThenSumSet(LAMBDA j : Lines[o][j].qty, T) = SumOver(f, T)
  <2> HIDE DEF T
  <2> QED BY UnitsAreSums, Zenon
<1>4. f[i] = Lines[o][i].qty /\ f[i] \in Int
  <2>1. Lines[o][i].qty \in Stock!Qty /\ MaxQty \in Nat
    BY LineOf, StockAssumption DEF Stock!InventoryAssumption
  <2>2. Lines[o][i].qty \in Int
    BY <2>1 DEF Stock!Qty
  <2> QED BY <1>1, <2>2
<1> HIDE DEF f, T
<1>5. SumOver(f, {i}) = f[i]
  BY <1>4, SumSingle
<1> QED BY <1>1, <1>2, <1>3, <1>4, <1>5

LEMMA UnitsFit ==
    ASSUME LinesApart
    PROVE  \A o \in Order : \A p \in Items(o) : Units(o, p) \in Stock!Qty
<1> SUFFICES ASSUME NEW o \in Order, NEW p \in Items(o)
             PROVE  Units(o, p) \in Stock!Qty
  OBVIOUS
<1>1. PICK i \in LineNumbers(o) : Lines[o][i].item = p
  BY DEF Items
<1> QED BY <1>1, OneLine, LineOf

\* What an order wants at a location: a natural number, its line's quantity at
\* the line's location, nothing at the others.
LEMMA WantsLine ==
    ASSUME LinesApart, NEW o \in Order, NEW l \in Stock!Loc
    PROVE  /\ Wants(o, l) \in Nat
           /\ l[1] \notin Items(o) => Wants(o, l) = 0
           /\ ~ Stocked(o) => Wants(o, l) = 0
           /\ \A i \in LineNumbers(o) :
                 l[1] = Lines[o][i].item =>
                    Wants(o, l) = IF l = LocOf(o, i) THEN Lines[o][i].qty ELSE 0
<1>1. Wants(o, l) \in Int /\ (l[1] \notin Items(o) => Wants(o, l) = 0)
  BY WantsType, UnitsFit
<1>2. l[2] \in Warehouse /\ l = <<l[1], l[2]>>
  BY DEF Stock!Loc
<1>3. ~ Stocked(o) => Wants(o, l) = 0
  BY <1>2, OrdersAssumption DEF Stocked, Wants
<1>4. ASSUME NEW i \in LineNumbers(o), l[1] = Lines[o][i].item
      PROVE  Wants(o, l) = IF l = LocOf(o, i) THEN Lines[o][i].qty ELSE 0
  <2>1. Units(o, l[1]) = Lines[o][i].qty
    BY <1>4, OneLine
  <2>2. l = LocOf(o, i) <=> WarehouseOf[o] = l[2]
    BY <1>2, <1>4 DEF LocOf
  <2> QED BY <2>1, <2>2 DEF Wants
<1>5. Wants(o, l) \in Nat
  <2>1. CASE l[1] \in Items(o)
    <3>1. PICK i \in LineNumbers(o) : Lines[o][i].item = l[1]
      BY <2>1 DEF Items
    <3>2. Lines[o][i].qty \in Nat
      <4>1. Lines[o][i].qty \in Stock!Qty /\ MaxQty \in Nat
        BY LineOf, StockAssumption DEF Stock!InventoryAssumption
      <4> QED BY <4>1 DEF Stock!Qty
    <3> QED BY <1>4, <3>1, <3>2
  <2> QED BY <1>1, <2>1
<1> QED BY <1>1, <1>3, <1>4, <1>5

\* What one order holds is added to what the others hold.
LEMMA HoldingSum ==
    ASSUME LinesApart, NEW T \in SUBSET Order, IsFiniteSet(T), NEW o \in Order,
           NEW l \in Stock!Loc
    PROVE  /\ AllWant(T, l) = AllWant(T \ {o}, l)
                                + IF o \in T THEN Wants(o, l) ELSE 0
           /\ AllWant(T \ {o}, l) \in Nat
<1> DEFINE U == T \ {o}
           f == [x \in U |-> Wants(x, l)]
<1>1. U \in SUBSET Order /\ IsFiniteSet(U) /\ o \notin U
  BY FS_Subset
<1>2. AllWant(U, l) \in Nat
  <2>1. \A x \in U : f[x] \in Nat
    BY WantsLine
  <2>2. AllWant(U, l) = SumOver(f, U)
    BY AllWantIsSum
  <2> HIDE DEF f, U
  <2> QED BY <1>1, <2>1, <2>2, SumNat
<1>3. CASE o \in T
  <2>1. T = U \cup {o}
    BY <1>3
  <2> HIDE DEF U
  <2>2. AllWant(U \cup {o}, l) = AllWant(U, l) + Wants(o, l)
    BY <1>1, UnitsFit, AllWantWith
  <2> QED BY <1>2, <1>3, <2>1, <2>2 DEF U
<1>4. CASE o \notin T
  <2>1. T = U
    BY <1>4
  <2> HIDE DEF U
  <2>2. AllWant(T, l) = AllWant(U, l) + 0
    BY <1>2, <2>1
  <2> QED BY <1>2, <1>4, <2>2 DEF U
<1> QED BY <1>3, <1>4

\* One order's holding changes, and "reserved" changes by as much.
LEMMA AccountsMove ==
    ASSUME LinesApart, Accounts, NEW o \in Order,
           \A q \in Order \ {o}, p \in Product :
              Holds(uses', q, p) <=> Holds(uses, q, p),
           \A l \in Stock!Loc : reserved'[l] = reserved[l]
              + (IF Holds(uses', o, l[1]) THEN Wants(o, l) ELSE 0)
              - (IF Holds(uses, o, l[1]) THEN Wants(o, l) ELSE 0),
           UNCHANGED rows, \A l \in Stock!Loc \ rows : reserved'[l] = 0
    PROVE  Accounts'
<1>1. ASSUME NEW p \in Product
      PROVE  /\ IsFiniteSet(Holding(p)') /\ Holding(p) \in SUBSET Order
             /\ Holding(p)' \in SUBSET Order
             /\ Holding(p)' \ {o} = Holding(p) \ {o}
             /\ o \in Holding(p)' <=> Holds(uses', o, p)
             /\ o \in Holding(p) <=> Holds(uses, o, p)
  <2>1. /\ Holding(p)' = {q \in Order : Holds(uses', q, p)}
        /\ Holding(p) = {q \in Order : Holds(uses, q, p)}
    BY DEF Holding, Holds, LetGo
  <2>2. Holding(p)' \ {o} = Holding(p) \ {o}
    BY <2>1
  <2>3. IsFiniteSet(Holding(p) \cup {o})
    BY FS_AddElement DEF Accounts
  <2>4. Holding(p)' \subseteq Holding(p) \cup {o}
    BY <2>2
  <2>5. IsFiniteSet(Holding(p)')
    BY <2>3, <2>4, FS_Subset
  <2> QED BY <2>1, <2>2, <2>5
<1>2. ASSUME NEW l \in Stock!Loc
      PROVE  reserved'[l] = AllWant(Holding(l[1])', l)
  <2> DEFINE p == l[1]
             S == Holding(p)
             T == Holding(p)'
  <2>1. p \in Product
    BY DEF Stock!Loc
  <2>2. IsFiniteSet(S) /\ reserved[l] = AllWant(S, l)
    BY <2>1 DEF Accounts
  <2>3. /\ IsFiniteSet(T) /\ S \in SUBSET Order /\ T \in SUBSET Order
        /\ T \ {o} = S \ {o}
        /\ o \in T <=> Holds(uses', o, p)
        /\ o \in S <=> Holds(uses, o, p)
    BY <1>1, <2>1
  <2> HIDE DEF S, T
  <2>4. /\ AllWant(S, l) = AllWant(S \ {o}, l) + IF o \in S THEN Wants(o, l) ELSE 0
        /\ AllWant(S \ {o}, l) \in Nat
    BY <2>2, <2>3, HoldingSum
  <2>5. AllWant(T, l) = AllWant(S \ {o}, l) + IF o \in T THEN Wants(o, l) ELSE 0
    <3>1. AllWant(T, l) = AllWant(T \ {o}, l) + IF o \in T THEN Wants(o, l) ELSE 0
      BY <2>3, HoldingSum
    <3> QED BY <2>3, <3>1
  <2>6. reserved'[l] = reserved[l]
              + (IF Holds(uses', o, p) THEN Wants(o, l) ELSE 0)
              - (IF Holds(uses, o, p) THEN Wants(o, l) ELSE 0)
    OBVIOUS
  <2>7. Wants(o, l) \in Nat
    BY WantsLine
  <2>8. reserved'[l] = AllWant(T, l)
    BY <2>2, <2>3, <2>4, <2>5, <2>6, <2>7
  <2> QED BY <2>8 DEF T
<1>3. \A l \in Stock!Loc \ rows' : reserved'[l] = 0
  OBVIOUS
<1> QED BY <1>1, <1>2, <1>3 DEF Accounts

\* What an order holds is there.
LEMMA HeldThere ==
    ASSUME LinesApart, Accounts, NEW o \in Order, NEW i \in LineNumbers(o),
           Stocked(o), Holds(uses, o, Lines[o][i].item)
    PROVE  /\ LocOf(o, i) \in rows
           /\ reserved[LocOf(o, i)] >= Lines[o][i].qty
<1> DEFINE p == Lines[o][i].item
           l == LocOf(o, i)
           S == Holding(p)
<1>1. p \in Product /\ Lines[o][i].qty \in Stock!Qty
  BY LineOf
<1>2. l \in Stock!Loc /\ l[1] = p
  BY <1>1, OrdersAssumption DEF LocOf, Stock!Loc, Stocked
<1>3. Wants(o, l) = Lines[o][i].qty
  BY <1>2, WantsLine
<1>4. o \in S /\ S \in SUBSET Order
  BY DEF Holding
<1>5. IsFiniteSet(S) /\ reserved[l] = AllWant(S, l)
  BY <1>1, <1>2 DEF Accounts
<1>6. l \notin rows => reserved[l] = 0
  BY <1>2 DEF Accounts
<1>q. Lines[o][i].qty \in Nat /\ Lines[o][i].qty >= 1
  BY <1>1, StockAssumption DEF Stock!Qty, Stock!InventoryAssumption
<1> HIDE DEF S, l
<1>7. /\ AllWant(S, l) = AllWant(S \ {o}, l) + Wants(o, l)
      /\ AllWant(S \ {o}, l) \in Nat
  BY <1>2, <1>4, <1>5, HoldingSum
<1>8. reserved[l] >= Lines[o][i].qty
  BY <1>3, <1>5, <1>7, <1>q
<1>9. l \in rows
  BY <1>6, <1>8, <1>q
<1> QED BY <1>8, <1>9 DEF l

-----------------------------------------------------------------------------
(* What a movement adds to the log.                                         *)

\* Two logs say the same of an order.
Alike(log, new, o) ==
    \A p \in Product : /\ Holds(new, o, p) <=> Holds(log, o, p)
                       /\ Fresh(new, o, p) <=> Fresh(log, o, p)

LEMMA AlikeSteady ==
    ASSUME NEW log, NEW new, NEW r, r.order \in Order, Alike(log, new, r.order),
           NEW x, NEW reply, Steady(r, x, log, reply)
    PROVE  Steady(r, x, new, reply)
<1>1. \A i \in LineNumbers(r.order) : Lines[r.order][i].item \in Product
  BY LineOf
<1> QED BY <1>1 DEF Steady, Alike

LEMMA AlikeSettled ==
    ASSUME NEW log, NEW new, NEW o \in Order, Alike(log, new, o),
           NEW x, Settled(o, x, log)
    PROVE  Settled(o, x, new)
<1>1. \A i \in LineNumbers(o) : Lines[o][i].item \in Product
  BY LineOf
<1> QED BY <1>1 DEF Settled, Alike

LEMMA LogType ==
    ASSUME Stock!TypeOK
    PROVE  /\ \A t \in {"reserve", "release", "deduct"} :
                 uses[t] \in [Stock!AnyKey -> Nat]
           /\ uses \in [Stock!MovementType -> [Stock!AnyKey -> Nat]]
           /\ {"reserve", "release", "deduct"} \subseteq Stock!MovementType
           /\ \A o \in Order, p \in Product :
                 /\ <<"reserve", o, p>> \in Stock!AnyKey
                 /\ <<"release", o, p>> \in Stock!AnyKey
                 /\ <<"compensate", o, p>> \in Stock!AnyKey
                 /\ <<DeductKey(o), p>> \in Stock!AnyKey
BY DEF Stock!TypeOK, Stock!MovementType, Stock!SingleOp, Stock!AnyKey, Stock!ItemKey,
       DeductKey, StockKey

\* A reservation or a release is recorded under its key.
LEMMA KeyRecorded ==
    ASSUME Stock!TypeOK, NEW o \in Order, NEW p \in Product,
           NEW op \in {"reserve", "release"},
           NEW tag \in {"reserve", "release", "compensate"},
           op = "reserve" <=> tag = "reserve",
           uses' = [uses EXCEPT ![op][<<tag, o, p>>] = @ + 1]
    PROVE  /\ \A q \in Order, z \in Product : q # o \/ z # p =>
                 /\ Holds(uses', q, z) <=> Holds(uses, q, z)
                 /\ Fresh(uses', q, z) <=> Fresh(uses, q, z)
           /\ op = "reserve" /\ Fresh(uses, o, p) => Holds(uses', o, p)
           /\ op = "release" => ~ Holds(uses', o, p)
<1> DEFINE key == <<tag, o, p>>
<1>1. key \in Stock!AnyKey
  BY LogType
<1>2. \A t \in {"reserve", "release", "deduct"}, x \in Stock!AnyKey :
         uses'[t][x] = IF t = op /\ x = key THEN uses[t][x] + 1 ELSE uses[t][x]
  <2> HIDE DEF key
  <2>1. uses'[op] = [uses[op] EXCEPT ![key] = @ + 1]
        /\ \A t \in Stock!MovementType : t # op => uses'[t] = uses[t]
    BY LogType DEF key
  <2>2. \A x \in Stock!AnyKey :
           uses'[op][x] = IF x = key THEN uses[op][x] + 1 ELSE uses[op][x]
    <3>1. uses[op] \in [Stock!AnyKey -> Nat]
      BY LogType
    <3> QED BY <2>1, <3>1
  <2> QED BY <2>1, <2>2, LogType
<1>3. \A x \in Stock!AnyKey : uses[op][x] \in Nat
  BY LogType
<1>4. uses'[op][key] > 0
  BY <1>1, <1>2, <1>3
<1>5. \A t \in {"reserve", "release", "deduct"}, x \in Stock!AnyKey :
         t # op \/ x # key => uses'[t][x] = uses[t][x]
  BY <1>2
<1>6. ASSUME NEW q \in Order, NEW z \in Product, q # o \/ z # p
      PROVE  /\ Holds(uses', q, z) <=> Holds(uses, q, z)
             /\ Fresh(uses', q, z) <=> Fresh(uses, q, z)
  <2>1. \A s : <<s, q, z>> # key
    BY <1>6
  <2> HIDE DEF key
  <2>2. /\ uses'["reserve"][<<"reserve", q, z>>] = uses["reserve"][<<"reserve", q, z>>]
        /\ uses'["release"][<<"release", q, z>>] = uses["release"][<<"release", q, z>>]
        /\ uses'["release"][<<"compensate", q, z>>] = uses["release"][<<"compensate", q, z>>]
        /\ uses'["deduct"][<<DeductKey(q), z>>] = uses["deduct"][<<DeductKey(q), z>>]
    BY <1>5, <2>1, LogType
  <2> QED BY <2>2 DEF Holds, Fresh, LetGo
<1>7. ASSUME op = "reserve", Fresh(uses, o, p) PROVE Holds(uses', o, p)
  <2>1. /\ uses'["release"][<<"release", o, p>>] = uses["release"][<<"release", o, p>>]
        /\ uses'["release"][<<"compensate", o, p>>] = uses["release"][<<"compensate", o, p>>]
        /\ uses'["deduct"][<<DeductKey(o), p>>] = uses["deduct"][<<DeductKey(o), p>>]
    BY <1>5, <1>7, LogType
  <2>2. uses'["reserve"][<<"reserve", o, p>>] > 0
    BY <1>4, <1>7
  <2> QED BY <1>7, <2>1, <2>2 DEF Holds, Fresh, LetGo
<1>8. ASSUME op = "release" PROVE ~ Holds(uses', o, p)
  BY <1>4, <1>8 DEF Holds, LetGo
<1> QED BY <1>6, <1>7, <1>8

\* A deduction is recorded for every product of its order.
LEMMA BatchRecorded ==
    ASSUME Stock!TypeOK, NEW o \in Order, DeductKey(o) # NoKey,
           uses' = [uses EXCEPT !["deduct"] =
              [x \in Stock!AnyKey |->
                 IF DeductKey(o) # NoKey /\ \E p \in Items(o) : x = <<DeductKey(o), p>>
                 THEN uses["deduct"][x] + 1 ELSE uses["deduct"][x]]]
    PROVE  \A q \in Order, z \in Product :
              IF q = o /\ z \in Items(o) THEN ~ Holds(uses', q, z)
              ELSE /\ Holds(uses', q, z) <=> Holds(uses, q, z)
                   /\ Fresh(uses', q, z) <=> Fresh(uses, q, z)
<1> DEFINE k == DeductKey(o)
           more == [x \in Stock!AnyKey |->
                      IF k # NoKey /\ \E p \in Items(o) : x = <<k, p>>
                      THEN uses["deduct"][x] + 1 ELSE uses["deduct"][x]]
<1>1. /\ uses'["deduct"] = more /\ uses'["reserve"] = uses["reserve"]
      /\ uses'["release"] = uses["release"]
  <2> HIDE DEF more
  <2>1. uses' = [uses EXCEPT !["deduct"] = more]
    BY DEF more
  <2> QED BY <2>1, LogType
<1>2. \A q \in Order, z \in Product :
         more[<<DeductKey(q), z>>] = IF q = o /\ z \in Items(o)
                                     THEN uses["deduct"][<<DeductKey(q), z>>] + 1
                                     ELSE uses["deduct"][<<DeductKey(q), z>>]
  <2>1. \A q \in Order, z \in Product :
           (\E p \in Items(o) : <<DeductKey(q), z>> = <<k, p>>) <=> q = o /\ z \in Items(o)
    BY DEF DeductKey
  <2> QED BY <2>1, LogType
<1>3. \A q \in Order, z \in Product : uses["deduct"][<<DeductKey(q), z>>] \in Nat
  BY LogType
<1> HIDE DEF more
<1> SUFFICES ASSUME NEW q \in Order, NEW z \in Product
             PROVE  IF q = o /\ z \in Items(o) THEN ~ Holds(uses', q, z)
                    ELSE /\ Holds(uses', q, z) <=> Holds(uses, q, z)
                         /\ Fresh(uses', q, z) <=> Fresh(uses, q, z)
  OBVIOUS
<1>4. CASE q = o /\ z \in Items(o)
  <2>1. uses'["deduct"][<<DeductKey(q), z>>] > 0
    BY <1>1, <1>2, <1>3, <1>4
  <2> QED BY <1>4, <2>1 DEF Holds, LetGo
<1>5. CASE ~ (q = o /\ z \in Items(o))
  <2>1. uses'["deduct"][<<DeductKey(q), z>>] = uses["deduct"][<<DeductKey(q), z>>]
    BY <1>1, <1>2, <1>5
  <2> QED BY <1>1, <1>5, <2>1 DEF Holds, Fresh, LetGo
<1> QED BY <1>4, <1>5

-----------------------------------------------------------------------------
(* How a step on one order, or on one call, keeps the invariant.            *)

\* A worker takes up, goes on with or leaves an order, and waits for no call.
LEMMA LineMoves ==
    ASSUME HoldInv, InCourse, OwnTypeOK, NEW w \in Worker, NEW n, NEW o \in Order,
           \/ worker[w].step # "rest" /\ worker[w].order = o
           \/ worker[w].step = "rest" /\ ~ Working(o),
           worker' = [worker EXCEPT ![w] = n], n.slot = NoCall,
           n.step # "rest" => n.order = o /\ Steady(n, row'[o], uses, "none"),
           n.step = "rest" => Settled(o, row'[o], uses),
           \A q \in Order \ {o} : row'[q] = row[q] /\ money'[q] = money[q],
           o \in Till => money'[o] = "none",
           UNCHANGED <<uses, reserved, rows>>,
           \A v \in Worker \ {w} : worker[v].slot # NoCall =>
              call'[worker[v].slot] = call[worker[v].slot],
           \A c \in Call : call'[c].pc = "checked" =>
              call[c].pc = "checked" /\ worker[w].slot # c
    PROVE  HoldInv'
<1>1. worker'[w] = n /\ \A v \in Worker \ {w} : worker'[v] = worker[v]
  BY DEF OwnTypeOK, WorkersOK
<1>2. \A v \in Worker \ {w} : worker[v].step # "rest" =>
         worker[v].order \in Order \ {o}
  BY DEF InCourse, Alone, Working, OwnTypeOK, WorkersOK, RequestOK
<1>3. CallsMade'
  <2>1. SlotsApart'
    BY <1>1 DEF HoldInv, CallsMade, SlotsApart
  <2>2. ASSUME NEW c \in Call, call'[c].pc = "checked"
        PROVE  \E v \in Worker : worker'[v].slot = c
    <3>1. PICK v \in Worker : worker[v].slot = c
      BY <2>2 DEF HoldInv, CallsMade
    <3>2. v # w
      BY <2>2, <3>1
    <3> QED BY <1>1, <3>1, <3>2
  <2>3. ASSUME NEW v \in Worker, worker'[v].slot # NoCall
        PROVE  Fits(worker'[v], call'[worker'[v].slot])
    <3>1. v # w /\ worker'[v] = worker[v]
      BY <1>1, <2>3
    <3>2. call'[worker[v].slot] = call[worker[v].slot]
      BY <2>3, <3>1
    <3>3. Fits(worker[v], call[worker[v].slot])
      BY <2>3, <3>1 DEF HoldInv, CallsMade
    <3> QED BY <3>1, <3>2, <3>3
  <2> QED BY <2>1, <2>2, <2>3 DEF CallsMade
<1>4. LinesKnown'
  <2>1. ASSUME NEW v \in Worker, worker'[v].step # "rest"
        PROVE  Steady(worker'[v], row'[worker'[v].order], uses',
                      ReplyOf(worker'[v], call'))
    <3>1. CASE v = w
      <4>1. worker'[v] = n /\ n.order = o /\ Steady(n, row'[o], uses', "none")
        BY <1>1, <2>1, <3>1
      <4>2. ReplyOf(n, call') = "none"
        BY DEF ReplyOf
      <4> QED BY <4>1, <4>2
    <3>2. CASE v # w
      <4>1. worker'[v] = worker[v] /\ worker[v].order \in Order \ {o}
        BY <1>1, <1>2, <2>1, <3>2
      <4>2. Steady(worker[v], row[worker[v].order], uses, ReplyOf(worker[v], call))
        BY <2>1, <4>1 DEF HoldInv, LinesKnown
      <4>3. ReplyOf(worker[v], call') = ReplyOf(worker[v], call)
        BY <3>2 DEF ReplyOf
      <4>4. row'[worker[v].order] = row[worker[v].order]
        BY <4>1
      <4> QED BY <4>1, <4>2, <4>3, <4>4
    <3> QED BY <3>1, <3>2
  <2>2. ASSUME NEW q \in Order,
               ~ \E v \in Worker : worker'[v].step # "rest" /\ worker'[v].order = q
        PROVE  Settled(q, row'[q], uses')
    <3>1. CASE q = o
      <4>1. n.step = "rest"
        BY <1>1, <2>2, <3>1
      <4> QED BY <3>1, <4>1
    <3>2. CASE q # o
      <4>1. ~ Working(q)
        <5>1. SUFFICES ASSUME NEW v \in Worker, worker[v].step # "rest",
                              worker[v].order = q
                       PROVE  FALSE
          BY DEF Working
        <5>2. v # w
          BY <3>2, <5>1
        <5> QED BY <1>1, <2>2, <5>1, <5>2
      <4>2. Settled(q, row[q], uses)
        BY <4>1 DEF HoldInv, LinesKnown
      <4>3. row'[q] = row[q]
        BY <3>2
      <4> QED BY <4>2, <4>3
    <3> QED BY <3>1, <3>2
  <2> QED BY <2>1, <2>2 DEF LinesKnown, Working
<1>5. Placings'
  <2>1. \A q \in Till : money'[q] = "none"
    <3>1. \A q \in Till : q \in Order /\ money[q] = "none"
      BY OrdersAssumption DEF HoldInv, Placings
    <3> QED BY <3>1
  <2>2. IsFiniteSet({q \in Order : row'[q] # NoRow})
    <3>1. IsFiniteSet({q \in Order : row[q] # NoRow} \cup {o})
      BY FS_AddElement DEF HoldInv, Placings
    <3>2. {q \in Order : row'[q] # NoRow} \subseteq {q \in Order : row[q] # NoRow} \cup {o}
      OBVIOUS
    <3> QED BY <3>1, <3>2, FS_Subset
  <2> QED BY <2>1, <2>2 DEF Placings
<1>6. Accounts'
  BY DEF HoldInv, Accounts, Holding, Holds, LetGo
<1> QED BY <1>3, <1>4, <1>5, <1>6 DEF HoldInv

\* The call of a worker is made or goes on; it may move units of its order.
LEMMA CallMoves ==
    ASSUME HoldInv, InCourse, OwnTypeOK, NEW w \in Worker, worker[w].step # "rest",
           NEW n, worker' = [worker EXCEPT ![w] = n],
           n.step # "rest", n.order = worker[w].order,
           NEW c \in Call, n.slot = c, worker[w].slot \in {NoCall, c},
           \A v \in Worker \ {w} : worker[v].slot # c,
           NEW k, call'[c] = k, \A d \in Call \ {c} : call'[d] = call[d],
           Fits(n, k), Steady(n, row[n.order], uses', k.reply),
           \A q \in Order \ {n.order} : Alike(uses, uses', q),
           UNCHANGED <<row, money>>, Accounts'
    PROVE  HoldInv'
<1> DEFINE o == n.order
<1>1. worker'[w] = n /\ \A v \in Worker \ {w} : worker'[v] = worker[v]
  BY DEF OwnTypeOK, WorkersOK
<1>2. \A v \in Worker \ {w} : worker[v].step # "rest" =>
         worker[v].order \in Order \ {o}
  BY DEF InCourse, Alone, OwnTypeOK, WorkersOK, RequestOK
<1>3. c # NoCall /\ \A v \in Worker : worker[v].slot \in Call \cup {NoCall}
  BY OrdersAssumption DEF OwnTypeOK, WorkersOK, Request
<1>4. CallsMade'
  <2>1. SlotsApart'
    <3>1. \A u, v \in Worker : worker'[u].slot # NoCall
             /\ worker'[u].slot = worker'[v].slot => u = v
      BY <1>1 DEF HoldInv, CallsMade, SlotsApart
    <3> QED BY <3>1 DEF SlotsApart
  <2>2. ASSUME NEW d \in Call, call'[d].pc = "checked"
        PROVE  \E v \in Worker : worker'[v].slot = d
    <3>1. CASE d = c
      BY <1>1, <3>1
    <3>2. CASE d # c
      <4>1. PICK v \in Worker : worker[v].slot = d
        BY <2>2, <3>2 DEF HoldInv, CallsMade
      <4>2. d # NoCall
        BY OrdersAssumption
      <4>3. v # w
        BY <3>2, <4>1, <4>2
      <4> QED BY <1>1, <4>1, <4>3
    <3> QED BY <3>1, <3>2
  <2>3. ASSUME NEW v \in Worker, worker'[v].slot # NoCall
        PROVE  Fits(worker'[v], call'[worker'[v].slot])
    <3>1. CASE v = w
      BY <1>1, <3>1
    <3>2. CASE v # w
      <4>1. worker'[v] = worker[v] /\ worker[v].slot \in Call \ {c}
        BY <1>1, <1>3, <2>3, <3>2
      <4>2. call'[worker[v].slot] = call[worker[v].slot]
        BY <4>1
      <4>3. Fits(worker[v], call[worker[v].slot])
        BY <2>3, <4>1 DEF HoldInv, CallsMade
      <4> QED BY <4>1, <4>2, <4>3
    <3> QED BY <3>1, <3>2
  <2> QED BY <2>1, <2>2, <2>3 DEF CallsMade
<1>5. LinesKnown'
  <2>1. ASSUME NEW v \in Worker, worker'[v].step # "rest"
        PROVE  Steady(worker'[v], row'[worker'[v].order], uses',
                      ReplyOf(worker'[v], call'))
    <3>1. CASE v = w
      <4>1. worker'[v] = n /\ row'[n.order] = row[n.order]
        BY <1>1, <3>1
      <4>2. ReplyOf(n, call') = k.reply
        BY <1>3 DEF ReplyOf
      <4> QED BY <4>1, <4>2
    <3>2. CASE v # w
      <4>1. worker'[v] = worker[v] /\ worker[v].order \in Order \ {o}
        BY <1>1, <1>2, <2>1, <3>2
      <4>2. Steady(worker[v], row[worker[v].order], uses, ReplyOf(worker[v], call))
        BY <2>1, <4>1 DEF HoldInv, LinesKnown
      <4>3. ReplyOf(worker[v], call') = ReplyOf(worker[v], call)
        <5>1. worker[v].slot # NoCall => worker[v].slot \in Call \ {c}
          BY <1>3, <3>2
        <5> QED BY <5>1 DEF ReplyOf
      <4>4. row'[worker[v].order] = row[worker[v].order]
            /\ Alike(uses, uses', worker[v].order)
        BY <4>1
      <4>5. Steady(worker[v], row[worker[v].order], uses', ReplyOf(worker[v], call))
        BY <4>1, <4>2, <4>4, AlikeSteady
      <4> QED BY <4>1, <4>3, <4>4, <4>5
    <3> QED BY <3>1, <3>2
  <2>2. ASSUME NEW q \in Order,
               ~ \E v \in Worker : worker'[v].step # "rest" /\ worker'[v].order = q
        PROVE  Settled(q, row'[q], uses')
    <3>1. q # o
      BY <1>1, <2>2
    <3>2. ~ Working(q)
      <4>1. SUFFICES ASSUME NEW v \in Worker, worker[v].step # "rest",
                            worker[v].order = q
                     PROVE  FALSE
        BY DEF Working
      <4>2. v # w
        BY <3>1, <4>1
      <4> QED BY <1>1, <2>2, <4>1, <4>2
    <3>3. Settled(q, row[q], uses) /\ Alike(uses, uses', q) /\ row'[q] = row[q]
      BY <3>1, <3>2 DEF HoldInv, LinesKnown
    <3> QED BY <3>3, AlikeSettled
  <2> QED BY <2>1, <2>2 DEF LinesKnown, Working
<1>6. Placings'
  BY DEF HoldInv, Placings
<1> QED BY <1>4, <1>5, <1>6 DEF HoldInv

\* A call nobody waits for goes on.
LEMMA StrayMoves ==
    ASSUME HoldInv, NEW c \in Call, \A w \in Worker : worker[w].slot # c,
           \A w \in Worker : worker[w].slot \in Call \cup {NoCall},
           call'[c].pc # "checked", \A d \in Call \ {c} : call'[d] = call[d],
           UNCHANGED <<row, money, worker, uses, reserved, rows>>
    PROVE  HoldInv'
<1>1. \A w \in Worker : worker[w].slot # NoCall =>
         call'[worker[w].slot] = call[worker[w].slot]
  OBVIOUS
<1>2. CallsMade'
  <2>1. SlotsApart'
    BY DEF HoldInv, CallsMade, SlotsApart
  <2>2. \A d \in Call : call'[d].pc = "checked" => \E w \in Worker : worker[w].slot = d
    <3>1. \A d \in Call : call'[d].pc = "checked" => d # c /\ call[d].pc = "checked"
      OBVIOUS
    <3> QED BY <3>1 DEF HoldInv, CallsMade
  <2>3. \A w \in Worker : worker[w].slot # NoCall =>
           Fits(worker[w], call'[worker[w].slot])
    BY <1>1 DEF HoldInv, CallsMade
  <2> QED BY <2>1, <2>2, <2>3 DEF CallsMade
<1>3. LinesKnown'
  <2>1. \A w \in Worker : ReplyOf(worker[w], call') = ReplyOf(worker[w], call)
    BY <1>1 DEF ReplyOf
  <2> QED BY <2>1 DEF HoldInv, LinesKnown, Working
<1>4. Placings'
  BY DEF HoldInv, Placings
<1>5. Accounts'
  BY DEF HoldInv, Accounts, Holding, Holds, LetGo
<1> QED BY <1>2, <1>3, <1>4, <1>5 DEF HoldInv

-----------------------------------------------------------------------------
(* The steps on the order row keep the invariant.                           *)

\* A step on the row of one order, with no call under way for it.
LEMMA RowMoves ==
    ASSUME HoldInv, InCourse, OwnTypeOK, NEW w \in Worker, NEW n, NEW o \in Order,
           \/ worker[w].step # "rest" /\ worker[w].order = o
           \/ worker[w].step = "rest" /\ ~ Working(o),
           worker[w].step \notin Calling,
           worker' = [worker EXCEPT ![w] = n], n.slot = NoCall,
           NEW x2, row' = [row EXCEPT ![o] = x2],
           NEW m2, money' = [money EXCEPT ![o] = m2], o \in Till => m2 = "none",
           UNCHANGED stockVars,
           n.step # "rest" => n.order = o /\ Steady(n, x2, uses, "none"),
           n.step = "rest" => Settled(o, x2, uses)
    PROVE  HoldInv'
<1>1. row'[o] = x2 /\ money'[o] = m2
      /\ \A q \in Order \ {o} : row'[q] = row[q] /\ money'[q] = money[q]
  BY DEF OwnTypeOK
<1>2. UNCHANGED <<uses, reserved, rows>> /\ UNCHANGED call
  BY DEF stockVars
<1>3. worker[w].slot = NoCall
  BY DEF OwnTypeOK, WorkersOK, RequestOK
<1>4. \A c \in Call : call'[c].pc = "checked" =>
         call[c].pc = "checked" /\ worker[w].slot # c
  BY <1>2, <1>3, OrdersAssumption
<1>5. \A v \in Worker \ {w} : worker[v].slot # NoCall =>
         call'[worker[v].slot] = call[worker[v].slot]
  BY <1>2
<1>6. o \in Till => money'[o] = "none"
  BY <1>1
<1>7. /\ n.step # "rest" => n.order = o /\ Steady(n, row'[o], uses, "none")
      /\ n.step = "rest" => Settled(o, row'[o], uses)
  BY <1>1
<1> QED BY <1>1, <1>2, <1>4, <1>5, <1>6, <1>7, LineMoves

LEMMA NewLines ==
    ASSUME NEW kind, NEW o, NEW r, r = New(kind, o)
    PROVE  r.got = {} /\ r.ok = TRUE /\ r.slot = NoCall /\ r.mine.pay = "unpaid"
BY DEF New, Resting, NoRow

LEMMA GiveUpLines ==
    ASSUME NEW r \in Request, NEW n, n = GiveUp(r)
    PROVE  n.slot = NoCall
BY DEF GiveUp, At, Request

LEMMA LoadedLines ==
    ASSUME NEW kind, NEW o, NEW step, NEW target, NEW r,
           r = Loaded(kind, o, step, target)
    PROVE  r.got = {} /\ r.ok = TRUE /\ r.slot = NoCall
BY DEF Loaded, Resting

LEMMA FirstLine ==
    ASSUME NEW o \in Order
    PROVE  LineNumbers(o) \in SUBSET Nat /\ LineNumbers(o) # {}
<1>1. Lines[o] \in Seq(Line) /\ Lines[o] # << >>
  BY OrdersAssumption
<1>2. Len(Lines[o]) \in Nat /\ Len(Lines[o]) # 0
  BY <1>1
<1>3. 1 \in LineNumbers(o)
  BY <1>2 DEF LineNumbers
<1> QED BY <1>3 DEF LineNumbers

\* A request that arrives.
LEMMA ArrivalHolds ==
    ASSUME HoldInv, InCourse, OwnTypeOK, Smooth, NEW w \in Worker, Arrival(w)
    PROVE  HoldInv'
<1>1. PICK o \in Order :
         \/ Create(w, o) \/ Ring(w, o)
         \/ \E target \in Status : AskStatus(w, o, target)
         \/ Webhook(w, o) \/ PickStuck(w, o)
  BY DEF Arrival
<1>2. /\ "sameOrder" \notin Mishap /\ "recall" \notin Mishap
      /\ "redelivery" \notin Mishap /\ Undisturbed /\ Punctual
  BY DEF Smooth, Undisturbed, Punctual
<1>3. worker[w].step = "rest" /\ (Busy(o) => "sameOrder" \in Mishap)
  BY <1>1 DEF Create, Ring, AskStatus, Webhook, PickStuck, Accept
<1>4. /\ ~ Working(o) /\ worker[w] = Resting /\ row[o] \in Row
      /\ Calm(row[o], recorded[o], money[o], o \in notified)
  BY <1>2, <1>3, TakenUp
<1>5. Settled(o, row[o], uses) /\ (o \in Till => money[o] = "none")
  BY <1>4 DEF HoldInv, LinesKnown, Placings
<1>6. UNCHANGED stockVars
  BY ArrivalOK
<1>7. worker[w].step \notin Calling
  BY <1>3 DEF Calling
<1>8. row = [row EXCEPT ![o] = row[o]] /\ money = [money EXCEPT ![o] = money[o]]
  BY DEF OwnTypeOK
\* How an arrival that leaves the row x2 and sets out as n is settled.
<1>9. ASSUME NEW n, NEW x2, worker' = [worker EXCEPT ![w] = n], n.slot = NoCall,
             row' = [row EXCEPT ![o] = x2], UNCHANGED money,
             n.step # "rest" => n.order = o /\ Steady(n, x2, uses, "none"),
             n.step = "rest" => Settled(o, x2, uses)
      PROVE  HoldInv'
  <2> DEFINE m == money[o]
  <2>1. money' = [money EXCEPT ![o] = m] /\ (o \in Till => m = "none")
    BY <1>5, <1>8, <1>9
  <2>2. worker[w].step = "rest" /\ ~ Working(o)
    BY <1>3, <1>4
  <2> HIDE DEF m
  <2>3. worker' = [worker EXCEPT ![w] = n] /\ row' = [row EXCEPT ![o] = x2]
    BY <1>9
  <2>4. /\ n.slot = NoCall
        /\ n.step # "rest" => n.order = o /\ Steady(n, x2, uses, "none")
        /\ n.step = "rest" => Settled(o, x2, uses)
    BY <1>9
  <2> QED BY <1>6, <1>7, <2>1, <2>2, <2>3, <2>4, RowMoves
<1>10. \A n, reply, i : reply = "none" => ~ Moved(n, reply, i)
  BY DEF Moved
<1> DEFINE placed == [NoRow EXCEPT !.status = "unpaid"]
<1>11. placed # NoRow /\ placed.status = "unpaid" /\ placed.pay = "unpaid"
  BY DEF NoRow
<1>12. Placed(w, o) =>
          /\ row[o] = NoRow /\ row' = [row EXCEPT ![o] = placed] /\ UNCHANGED money
          /\ Stocked(o) => \A i \in LineNumbers(o) :
                              /\ ~ Holds(uses, o, Lines[o][i].item)
                              /\ Fresh(uses, o, Lines[o][i].item)
  <2>1. ASSUME Placed(w, o)
        PROVE  row[o] = NoRow /\ row' = [row EXCEPT ![o] = placed] /\ UNCHANGED money
    BY <2>1 DEF Placed, awayVars
  <2>2. ~ Stands(o, NoRow)
    BY DEF Stands, NoRow
  <2> QED BY <1>5, <2>1, <2>2 DEF Settled
<1> HIDE DEF placed
<1>a. CASE Create(w, o)
  <2> DEFINE r == New("create", o)
             n == IF Stocked(o) THEN Reserving(r) ELSE Resting
  <2>1. /\ worker' = [worker EXCEPT ![w] = n] /\ o \notin Till /\ Placed(w, o)
    BY <1>4, <1>a DEF Create
  <2>2. r \in Request /\ r.kind = "create" /\ r.order = o
    BY NewOK, NewGoes DEF Kind, RequestOK
  <2>2a. r.got = {} /\ r.ok = TRUE
    BY NewLines
  <2> HIDE DEF r
  <2>3. CASE ~ Stocked(o)
    <3>1. n = Resting
      BY <2>3
    <3>2. Settled(o, placed, uses)
      BY <1>11, <2>1, <2>3 DEF Settled
    <3>3. Resting.step = "rest" /\ Resting.slot = NoCall
      BY DEF Resting
    <3> HIDE DEF n
    <3> QED BY <1>9, <1>12, <2>1, <3>1, <3>2, <3>3
  <2>4. CASE Stocked(o) /\ ~ Named(r)
    <3>1. n = GiveUp(r)
      BY <2>2, <2>4 DEF Reserving, AfterUndo
    <3> HIDE DEF n
    <3>2. /\ n.order = o /\ n.kind = "create" /\ n.step = "change" /\ n.slot = NoCall
      BY <2>2, <3>1, GiveUpGoes, GiveUpLines DEF Follows
    <3>3. Path(n, placed)
      BY <1>11, <2>1, <3>2 DEF Path
    <3>4. \A i : ~ Owns(n, placed, i)
      BY <3>2 DEF Owns
    <3>5. Steady(n, placed, uses, "none")
      BY <1>10, <1>12, <2>1, <2>4, <3>2, <3>3, <3>4 DEF Steady
    <3> QED BY <1>9, <1>12, <2>1, <3>2, <3>5
  <2>5. CASE Stocked(o) /\ Named(r)
    <3>1. n = Over(r, "reserve", LineNumbers(o), Resting)
      BY <2>2, <2>5 DEF Reserving
    <3> HIDE DEF n
    <3>2. /\ n.order = o /\ n.kind = "create" /\ n.step = "reserve"
          /\ n.slot = NoCall /\ n.got = {} /\ n.ok = TRUE
          /\ LeastOf(n.line, LineNumbers(o))
      BY <2>2, <2>2a, <3>1, FirstLine, OverLines
    <3>3. \A i \in LineNumbers(o) : ~ (i < n.line)
      <4>1. \A i \in LineNumbers(o) : i \in Int
        BY FirstLine
      <4>2. n.line \in LineNumbers(o) /\ \A i \in LineNumbers(o) : n.line <= i
        BY <3>2 DEF LeastOf
      <4> QED BY <4>1, <4>2
    <3>4. Path(n, placed)
      BY <1>11, <2>1, <3>2, <3>3 DEF Path
    <3>5. \A i : ~ Owns(n, placed, i)
      BY <3>2 DEF Owns
    <3>6. Steady(n, placed, uses, "none")
      BY <1>10, <1>12, <2>1, <2>5, <3>2, <3>4, <3>5 DEF Steady
    <3> QED BY <1>9, <1>12, <2>1, <3>2, <3>6
  <2> QED BY <2>3, <2>4, <2>5
<1>b. CASE Ring(w, o)
  <2> DEFINE r == New("till", o)
             n == At(r, "deduct")
  <2>1. worker' = [worker EXCEPT ![w] = n] /\ o \in Till /\ Placed(w, o)
    BY <1>b DEF Ring
  <2>2. r \in Request /\ r.kind = "till" /\ r.order = o
    BY NewOK, NewGoes DEF Kind, RequestOK
  <2>2a. r.mine.pay = "unpaid"
    BY NewLines
  <2> HIDE DEF r
  <2>3. /\ n.order = o /\ n.kind = "till" /\ n.step = "deduct" /\ n.slot = NoCall
        /\ n.mine.pay = "unpaid"
    BY <2>2, <2>2a, AtLines
  <2> HIDE DEF n
  <2>4. Path(n, placed)
    BY <1>11, <2>3 DEF Path
  <2>5. \A i : ~ Owns(n, placed, i)
    BY <2>3 DEF Owns
  <2>6. Steady(n, placed, uses, "none")
    BY <1>10, <1>12, <2>1, <2>3, <2>4, <2>5 DEF Steady
  <2> QED BY <1>9, <1>12, <2>1, <2>3, <2>6
<1>c. ASSUME NEW target \in Status, AskStatus(w, o, target) PROVE HoldInv'
  <2> DEFINE n == Loaded("status", o, "change", target)
  <2>1. /\ worker' = [worker EXCEPT ![w] = n] /\ row[o] # NoRow
        /\ UNCHANGED <<row, money>>
        /\ ~ (target = "cancelled" /\ row[o].status \in {"delivering", "delivered"})
    BY <1>2, <1>c DEF AskStatus, orderVars, awayVars
  <2>2. /\ n.order = o /\ n.kind = "status" /\ n.step = "change"
        /\ n.target = target
    BY LoadedGoes
  <2>2a. n.slot = NoCall
    BY LoadedLines
  <2> HIDE DEF n
  <2>3. Path(n, row[o])
    BY <1>5, <2>1, <2>2 DEF Path, Settled
  <2>4. \A i : Owns(n, row[o], i) <=> Stands(o, row[o])
    BY <2>2 DEF Owns
  <2>5. Steady(n, row[o], uses, "none")
    BY <1>5, <1>10, <2>2, <2>3, <2>4 DEF Steady, Settled
  <2>6. row' = [row EXCEPT ![o] = row[o]]
    BY <1>8, <2>1
  <2> QED BY <1>9, <2>1, <2>2, <2>2a, <2>5, <2>6
<1>d. CASE Webhook(w, o)
  <2> DEFINE r == Loaded("webhook", o, "markPaid", "paid")
             n == IF row[o].pay = "paid" THEN Resting ELSE r
  <2>1. /\ worker' = [worker EXCEPT ![w] = n] /\ UNCHANGED <<row, money>>
        /\ money[o] # "none" /\ o \notin notified
    BY <1>2, <1>4, <1>d DEF Webhook, orderVars
  <2>2. o \notin Till /\ row[o].status = "unpaid"
    BY <1>2, <1>4, <1>5, <2>1 DEF Calm
  <2>3. row' = [row EXCEPT ![o] = row[o]]
    BY <1>8, <2>1
  <2>4. r.order = o /\ r.kind = "webhook" /\ r.step = "markPaid"
    BY LoadedGoes
  <2>4a. r.slot = NoCall /\ r.ok = TRUE
    BY LoadedLines
  <2>5. Resting.step = "rest" /\ Resting.slot = NoCall
    BY DEF Resting
  <2> HIDE DEF r
  <2>6. CASE row[o].pay = "paid"
    BY <1>5, <1>9, <2>1, <2>3, <2>5, <2>6
  <2>7. CASE row[o].pay # "paid"
    <3>1. worker' = [worker EXCEPT ![w] = r]
      BY <2>1, <2>7
    <3>2. Path(r, row[o])
      BY <2>2, <2>4, <2>4a DEF Path, NoRow
    <3>3. Stands(o, row[o]) /\ \A i : Owns(r, row[o], i)
      BY <2>2, <2>4 DEF Owns, Stands
    <3>4. Steady(r, row[o], uses, "none")
      BY <1>5, <1>10, <2>4, <3>2, <3>3 DEF Steady, Settled
    <3> QED BY <1>9, <2>1, <2>3, <2>4, <2>4a, <3>1, <3>4
  <2> QED BY <2>6, <2>7
<1>e. CASE PickStuck(w, o)
  <2> DEFINE r == Loaded("stuck", o, "refund", "cancelled")
             n == Releasing(r)
  <2>1. /\ worker' = [worker EXCEPT ![w] = n] /\ UNCHANGED <<row, money>>
        /\ row[o].status = "paid"
    BY <1>e DEF PickStuck, orderVars, awayVars
  <2>2. r \in Request /\ r.kind = "stuck" /\ r.order = o
    <3>1. r.kind = "stuck" /\ r.order = o
      BY LoadedGoes
    <3>2. r \in Request
      BY LoadedOK DEF OwnTypeOK, Kind, Step, Calling, Status, RequestOK
    <3> QED BY <3>1, <3>2
  <2> HIDE DEF r
  <2>3. o \notin Till /\ row[o] # NoRow /\ Stands(o, row[o])
    BY <1>5, <2>1 DEF Settled, NoRow, Stands
  <2>4. row' = [row EXCEPT ![o] = row[o]]
    BY <1>8, <2>1
  <2>5. n = At(r, "refund")
    BY <2>2 DEF Releasing, Named, Over, AfterRelease
  <2> HIDE DEF n
  <2>6. n.order = o /\ n.kind = "stuck" /\ n.step = "refund" /\ n.slot = NoCall
    BY <2>2, <2>5, AtLines
  <2>7. Path(n, row[o])
    BY <2>3, <2>6 DEF Path
  <2>8. \A i : Owns(n, row[o], i)
    BY <2>6 DEF Owns
  <2>9. Steady(n, row[o], uses, "none")
    BY <1>5, <1>10, <2>3, <2>6, <2>7, <2>8 DEF Steady, Settled
  <2> QED BY <1>9, <2>1, <2>4, <2>6, <2>9
<1> QED BY <1>1, <1>a, <1>b, <1>c, <1>d, <1>e

\* A transaction on the order row.
LEMMA TransactionHolds ==
    ASSUME HoldInv, InCourse, OwnTypeOK, NEW w \in Worker, Transaction(w)
    PROVE  HoldInv'
<1> DEFINE r == worker[w]
           o == r.order
           x == row[o]
           item(i) == Lines[o][i].item
<1>1. r.step # "rest" /\ r.step \notin Calling
  BY DEF Transaction, Change, Revert, Record, MarkPaid, Refund, Unpay, CancelStuck,
         Complete, Calling
<1>2. /\ r \in Request /\ o \in Order /\ x \in Row /\ r.mine \in Row
      /\ Good(r, x, recorded[o], money[o], o \in notified)
  BY <1>1, Serving
<1>3. Course(r) /\ r.mine.status = x.status /\ (r.kind # "till" => r.mine = x)
  BY <1>2 DEF Good
<1>4. UNCHANGED stockVars
  BY TransactionOK
<1>5. Steady(r, x, uses, "none")
  <2>1. ReplyOf(r, call) = "none"
    BY <1>1 DEF ReplyOf, OwnTypeOK, WorkersOK, RequestOK
  <2> QED BY <1>1, <2>1 DEF HoldInv, LinesKnown
<1>6. \A n, i : ~ Moved(n, "none", i)
  BY DEF Moved
<1>7. Path(r, x) /\ (Stocked(o) => \A i \in LineNumbers(o) :
                        Holds(uses, o, item(i)) <=> Owns(r, x, i))
  BY <1>5, <1>6 DEF Steady
<1>8. o \in Till => money[o] = "none"
  BY DEF HoldInv, Placings
\* How a transaction that writes the row x2 and goes on as n is settled.
<1>9. ASSUME NEW n, NEW x2, NEW m2, worker' = [worker EXCEPT ![w] = n],
             row' = [row EXCEPT ![o] = x2], money' = [money EXCEPT ![o] = m2],
             o \in Till => m2 = "none", n.slot = NoCall,
             n.step # "rest" => n.order = o /\ Steady(n, x2, uses, "none"),
             n.step = "rest" => Settled(o, x2, uses)
      PROVE  HoldInv'
  <2>1. worker[w].step # "rest" /\ worker[w].order = o /\ worker[w].step \notin Calling
    BY <1>1
  <2> HIDE DEF r, o, x
  <2> QED BY <1>2, <1>4, <1>9, <2>1, RowMoves
<1>10. row = [row EXCEPT ![o] = x] /\ money = [money EXCEPT ![o] = money[o]]
  BY DEF OwnTypeOK
<1>11. Resting.slot = NoCall /\ Resting.step = "rest"
  BY DEF Resting
\* Two ways a request goes on: with what it holds, or to rest.
<1>12. ASSUME NEW n, NEW x2, n.order = o, n.kind # "create" \/ n.step # "reserve",
              Path(n, x2),
              Stocked(o) => \A i \in LineNumbers(o) : Owns(n, x2, i) <=> Owns(r, x, i)
       PROVE  Steady(n, x2, uses, "none")
  BY <1>6, <1>7, <1>12 DEF Steady
<1>13. ASSUME NEW x2, x2 # NoRow,
              o \in Till => x2.status \in {"none", "completed", "cancelled"},
              x2.pay = "refunded" => o \notin Till /\ x2.status = "cancelled",
              Stocked(o) => \A i \in LineNumbers(o) : Stands(o, x2) <=> Owns(r, x, i)
       PROVE  Settled(o, x2, uses)
  BY <1>7, <1>13 DEF Settled
<1>14. \A step : LET n == At(r, step) IN
         /\ n.order = o /\ n.kind = r.kind /\ n.step = step /\ n.slot = NoCall
         /\ n.mine = r.mine
  BY <1>2, AtLines
<1>a. CASE Change(w)
  <2> DEFINE new == [r.mine EXCEPT !.status = r.target]
             next == [r EXCEPT !.mine = new, !.old = r.mine.status]
             n == AfterChange(next)
  <2>1. r.step = "change" /\ UNCHANGED money
    BY <1>a DEF Change, awayVars
  <2>2. \/ r.kind \in {"create", "till"} /\ r.target = "cancelled" /\ x.status = "unpaid"
        \/ r.kind = "webhook" /\ r.target = "cancelled" /\ x.status = "paid"
        \/ r.kind = "status"
    BY <1>3, <2>1 DEF Course, UnpaidAgain
  <2>3. CASE ~ Permitted(r)
    <3>1. worker' = [worker EXCEPT ![w] = Resting] /\ UNCHANGED row
      BY <1>a, <2>3 DEF Change
    <3>2. r.kind = "status"
      BY <1>3, <2>2, <2>3 DEF Permitted, CanTransition
    <3>3. Settled(o, x, uses)
      BY <1>7, <1>13, <2>1, <3>2 DEF Path, Owns
    <3> HIDE DEF r, o, x
    <3> QED BY <1>8, <1>9, <1>10, <1>11, <2>1, <3>1, <3>3
  <2>4. CASE Permitted(r)
    <3>1. /\ worker' = [worker EXCEPT ![w] = n]
          /\ row' = [row EXCEPT ![o] = new]
      BY <1>a, <2>4 DEF Change
    <3>2. /\ new \in Row /\ new.status = r.target /\ r.target \in Status
          /\ new.pay = r.mine.pay
      BY <1>2 DEF Row, Request
    <3>2a. new # NoRow
      BY <3>2 DEF NoRow, Status
    <3>3. /\ next \in Request /\ next.order = o /\ next.kind = r.kind
          /\ next.target = r.target /\ next.mine = new
      <4> HIDE DEF new
      <4> QED BY <1>2, <3>2, AllRows DEF Request
    <3> HIDE DEF next, new
    <3>4. money' = [money EXCEPT ![o] = money[o]]
      BY <1>10, <2>1
    <3>5. n.slot = NoCall
      BY <3>3, ChangeUnheard
    <3>6. ASSUME n.order = o, n.step # "rest", Steady(n, new, uses, "none")
          PROVE  HoldInv'
      <4> HIDE DEF r, o, x, n
      <4> QED BY <1>8, <1>9, <3>1, <3>4, <3>5, <3>6
    <3>7. \A step : LET a == At(next, step) IN
             /\ a.order = o /\ a.kind = r.kind /\ a.step = step /\ a.slot = NoCall
             /\ a.mine = new
      BY <3>3, AtLines
    <3>8. CASE r.kind \in {"create", "till"}
      <4>1. r.target = "cancelled" /\ n = At(next, "record")
        BY <2>2, <3>3, <3>8 DEF AfterChange
      <4> HIDE DEF n
      <4>2. n.order = o /\ n.kind = r.kind /\ n.step = "record" /\ n.mine = new
        BY <3>7, <4>1
      <4>2a. /\ r.kind = "create" => new.pay = "unpaid" /\ o \notin Till
             /\ r.kind = "till" => new.pay # "refunded"
        BY <1>3, <1>7, <3>2 DEF Path
      <4>3. Path(n, new)
        BY <3>2, <3>2a, <3>8, <4>1, <4>2, <4>2a DEF Path
      <4>4. \A i : ~ Owns(n, new, i) /\ ~ Owns(r, x, i)
        BY <2>1, <3>8, <4>2 DEF Owns
      <4>5. Steady(n, new, uses, "none")
        BY <1>12, <4>2, <4>3, <4>4
      <4> QED BY <3>6, <4>2, <4>5
    <3>8a. CASE r.kind = "webhook"
      <4>1. n = At(next, "record")
        BY <2>2, <3>3, <3>8a DEF AfterChange
      <4> HIDE DEF n
      <4>2. n.order = o /\ n.kind = "webhook" /\ n.step = "record"
        BY <3>7, <3>8a, <4>1
      <4>3. Path(n, new)
        BY <1>7, <3>2a, <3>8a, <4>2 DEF Path
      <4>4. \A i : Owns(n, new, i) /\ Owns(r, x, i)
        BY <3>8a, <4>2 DEF Owns
      <4>5. Steady(n, new, uses, "none")
        BY <1>12, <4>2, <4>3, <4>4
      <4> QED BY <3>6, <4>2, <4>5
    <3>9. CASE r.kind = "status"
      <4>1. CanTransition(x.status, r.target)
        BY <1>3, <2>4 DEF Permitted
      <4>2. o \notin Till
        BY <1>7, <2>1, <3>9, <4>1 DEF Path, CanTransition
      <4>2a. x.pay # "refunded" /\ new.pay # "refunded" /\ x.status # "cancelled"
        BY <1>3, <1>7, <3>2, <3>9, <4>1 DEF Path, CanTransition
      <4>3. \A i : Owns(r, x, i) <=> x.status \in {"unpaid", "paid"}
        BY <2>1, <3>9, <4>2, <4>2a DEF Owns, Stands
      <4>4. CASE r.target = "cancelled"
        <5>1. x.status \in {"unpaid", "paid"}
          BY <1>7, <2>1, <3>9, <4>1, <4>4 DEF Path, CanTransition
        <5>2. n = Over(next, "release", IF Stocked(o) THEN LineNumbers(o) ELSE {},
                       AfterRelease(next))
          BY <3>3, <3>9, <4>4 DEF AfterChange, Releasing, Named
        <5> HIDE DEF n
        <5>3. CASE ~ Stocked(o)
          <6>1. n = At(next, "record")
            BY <3>3, <3>9, <5>2, <5>3 DEF Over, AfterRelease
          <6>2. n.order = o /\ n.kind = "status" /\ n.step = "record"
            BY <3>7, <3>9, <6>1
          <6>3. Path(n, new)
            BY <3>2a, <4>2, <4>2a, <6>2 DEF Path
          <6>4. Steady(n, new, uses, "none")
            BY <5>3, <6>2, <6>3 DEF Steady
          <6> QED BY <3>6, <6>2, <6>4
        <5>4. CASE Stocked(o)
          <6>1. n = Over(next, "release", LineNumbers(o), AfterRelease(next))
            BY <5>2, <5>4
          <6>2. /\ n.order = o /\ n.kind = "status" /\ n.step = "release"
                /\ LeastOf(n.line, LineNumbers(o))
            BY <1>2, <3>3, <3>9, <6>1, FirstLine, OverLines
          <6>3. \A i \in LineNumbers(o) : i >= n.line
            <7>1. \A i \in LineNumbers(o) : i \in Int
              BY <1>2, FirstLine
            <7>2. n.line \in LineNumbers(o) /\ \A i \in LineNumbers(o) : n.line <= i
              BY <6>2 DEF LeastOf
            <7> QED BY <7>1, <7>2
          <6>4. Path(n, new)
            BY <3>2, <3>2a, <4>2, <4>2a, <4>4, <6>2 DEF Path
          <6>5. \A i \in LineNumbers(o) : Owns(n, new, i) /\ Owns(r, x, i)
            BY <4>3, <5>1, <6>2, <6>3 DEF Owns
          <6>6. Steady(n, new, uses, "none")
            BY <1>12, <6>2, <6>4, <6>5
          <6> QED BY <3>6, <6>2, <6>6
        <5> QED BY <5>3, <5>4
      <4>5. CASE r.target = "delivering" /\ Stocked(o)
        <5>1. x.status = "paid" /\ n = At(next, "deduct")
          BY <3>3, <3>9, <4>1, <4>5 DEF CanTransition, AfterChange
        <5> HIDE DEF n
        <5>2. n.order = o /\ n.kind = "status" /\ n.step = "deduct"
          BY <3>7, <3>9, <5>1
        <5>3. Path(n, new)
          BY <3>2a, <4>2, <4>2a, <5>2 DEF Path
        <5>4. \A i : Owns(n, new, i) /\ Owns(r, x, i)
          BY <4>3, <5>1, <5>2 DEF Owns
        <5>5. Steady(n, new, uses, "none")
          BY <1>12, <5>2, <5>3, <5>4
        <5> QED BY <3>6, <5>2, <5>5
      <4>6. CASE r.target # "cancelled" /\ ~ (r.target = "delivering" /\ Stocked(o))
        <5>1. n = At(next, "record")
          BY <3>3, <3>9, <4>6 DEF AfterChange
        <5> HIDE DEF n
        <5>2. n.order = o /\ n.kind = "status" /\ n.step = "record"
          BY <3>7, <3>9, <5>1
        <5>3. Path(n, new)
          BY <3>2a, <4>2, <4>2a, <5>2 DEF Path
        <5>4. Stocked(o) => (new.status \in {"unpaid", "paid"}
                              <=> x.status \in {"unpaid", "paid"})
          BY <3>2, <4>1, <4>6 DEF CanTransition
        <5>5. \A i : Owns(n, new, i) <=> new.status \in {"unpaid", "paid"}
          BY <4>2, <4>2a, <5>2 DEF Owns, Stands
        <5>6. Stocked(o) => \A i : Owns(n, new, i) <=> Owns(r, x, i)
          BY <4>3, <5>4, <5>5
        <5>7. Steady(n, new, uses, "none")
          BY <1>12, <5>2, <5>3, <5>6
        <5> QED BY <3>6, <5>2, <5>7
      <4> QED BY <4>4, <4>5, <4>6
    <3> QED BY <2>2, <3>8, <3>8a, <3>9
  <2> QED BY <2>3, <2>4
<1>b. CASE Revert(w)
  <2> DEFINE new == [x EXCEPT !.status = r.old]
  <2>1. /\ r.step = "revert" /\ UNCHANGED money
        /\ row' = [row EXCEPT ![o] = new]
        /\ worker' = [worker EXCEPT ![w] = Resting]
    BY <1>b DEF Revert, awayVars
  <2>2. r.kind = "status" /\ r.old = "paid"
    BY <1>3, <2>1 DEF Course
  <2>3. new.status = "paid" /\ new # NoRow /\ new.pay = x.pay
    BY <1>2, <2>2 DEF Row, NoRow
  <2>3a. new.pay # "refunded"
    BY <1>7, <2>1, <2>2, <2>3 DEF Path
  <2> HIDE DEF new
  <2>4. o \notin Till
    BY <1>7, <2>1, <2>2 DEF Path
  <2>5. \A i : Owns(r, x, i) /\ Stands(o, new)
    BY <2>1, <2>2, <2>3, <2>4 DEF Owns, Stands
  <2>6. Settled(o, new, uses)
    BY <1>13, <2>3, <2>3a, <2>4, <2>5
  <2> HIDE DEF r, o, x
  <2> QED BY <1>8, <1>9, <1>10, <1>11, <2>1, <2>6
<1>c. CASE Record(w)
  <2>1. /\ r.step = "record" /\ UNCHANGED <<row, money>>
        /\ worker' = [worker EXCEPT ![w] = Resting]
    BY <1>c DEF Record, awayVars
  <2>2. /\ r.kind \in {"create", "till", "status", "webhook"}
        /\ r.kind = "till" => o \in Till
        /\ r.kind = "webhook" => x.status = "cancelled" /\ x.pay = "refunded"
    BY <1>3, <2>1 DEF Course, GivenUp
  <2>3. /\ x # NoRow /\ (o \in Till => x.status \in {"none", "completed", "cancelled"})
        /\ x.pay = "refunded" => o \notin Till /\ x.status = "cancelled"
    BY <1>7, <2>1, <2>2 DEF Path
  <2>4. \A i : Owns(r, x, i) <=> Stands(o, x)
    BY <1>7, <2>1, <2>2 DEF Path, Owns, Stands
  <2>5. Settled(o, x, uses)
    BY <1>13, <2>3, <2>4
  <2> HIDE DEF r, o, x
  <2> QED BY <1>8, <1>9, <1>10, <1>11, <2>1, <2>5
<1>d. CASE MarkPaid(w)
  <2> DEFINE paid == [r EXCEPT !.mine = PaidRow]
             n == IF Stocked(o) THEN Reserving(paid) ELSE Resting
  <2>1. /\ r.step = "markPaid" /\ UNCHANGED money
        /\ row' = [row EXCEPT ![o] = PaidRow]
        /\ worker' = [worker EXCEPT ![w] = n]
    BY <1>d DEF MarkPaid, awayVars, PaidRow
  <2>2. paid \in Request /\ paid.order = o /\ paid.kind = r.kind
    <3>1. PaidRow \in Row
      BY DEF PaidRow, Row, Status, Payment
    <3> QED BY <1>2, <3>1 DEF Request
  <2> HIDE DEF paid
  <2>3. r.kind = "webhook" /\ o \notin Till
    BY <1>3, <1>7, <2>1 DEF Course, Path
  <2>4. PaidRow # NoRow /\ PaidRow.status = "paid" /\ PaidRow.pay = "paid"
    BY DEF PaidRow, NoRow
  <2>5. CASE ~ Stocked(o)
    <3>1. n = Resting
      BY <2>5
    <3>2. Settled(o, PaidRow, uses)
      BY <2>3, <2>4, <2>5 DEF Settled
    <3> HIDE DEF r, o, x, n
    <3> QED BY <1>8, <1>9, <1>10, <1>11, <2>1, <3>1, <3>2
  <2>6. CASE Stocked(o)
    <3>1. n = At(paid, "refund")
      BY <2>2, <2>3, <2>6 DEF Reserving, Named, AfterUndo
    <3> HIDE DEF n
    <3>2. n.order = o /\ n.kind = "webhook" /\ n.step = "refund" /\ n.slot = NoCall
      BY <2>2, <2>3, <3>1, AtLines
    <3>3. Path(n, PaidRow)
      BY <2>3, <2>4, <3>2 DEF Path
    <3>4. \A i : Owns(n, PaidRow, i) /\ Owns(r, x, i)
      BY <2>3, <3>2 DEF Owns
    <3>5. Steady(n, PaidRow, uses, "none")
      BY <1>12, <3>2, <3>3, <3>4
    <3> HIDE DEF r, o, x
    <3> QED BY <1>8, <1>9, <1>10, <2>1, <3>2, <3>5
  <2> QED BY <2>5, <2>6
<1>e. CASE Refund(w)
  <2> DEFINE step == IF r.kind = "stuck" THEN "cancelStuck" ELSE "unpay"
             n == At(r, step)
  <2>1. r.step = "refund" /\ UNCHANGED row
    BY <1>e DEF Refund, orderVars
  <2>2. r.kind \in {"webhook", "stuck"} /\ o \notin Till
    BY <1>3, <1>7, <2>1 DEF Course, Path
  <2>3. worker' = [worker EXCEPT ![w] = n]
    BY <1>e DEF Refund
  <2>4. PICK m2 : money' = [money EXCEPT ![o] = m2]
    BY <1>10, <1>e DEF Refund
  <2>5. n.order = o /\ n.kind = r.kind /\ n.step = step /\ n.slot = NoCall
    BY <1>14
  <2>5a. step \in {"cancelStuck", "unpay"}
    OBVIOUS
  <2> HIDE DEF n, step
  <2>6. Path(n, x)
    BY <1>7, <2>2, <2>5 DEF Path
  <2>7. \A i : Owns(n, x, i) /\ Owns(r, x, i)
    BY <2>2, <2>5 DEF Owns
  <2>8. Steady(n, x, uses, "none")
    BY <1>12, <2>2, <2>5, <2>6, <2>7
  <2>9. n.step # "rest"
    BY <2>5, <2>5a
  <2> HIDE DEF r, o, x
  <2> QED BY <1>9, <1>10, <2>1, <2>2, <2>3, <2>4, <2>5, <2>8, <2>9
<1>f. CASE Unpay(w)
  <2> DEFINE new == [x EXCEPT !.pay = "refunded"]
             repaid == [r EXCEPT !.mine.pay = "refunded"]
             n == GiveUp(repaid)
  <2>1. /\ r.step = "unpay" /\ UNCHANGED money
        /\ worker' = [worker EXCEPT ![w] = n]
        /\ row' = [row EXCEPT ![o] = new]
    BY <1>f DEF Unpay, awayVars
  <2>2. r.kind = "webhook" /\ o \notin Till
    BY <1>3, <1>7, <2>1 DEF Course, Path
  <2>3. new # NoRow
    BY <1>2 DEF Row, NoRow
  <2>4. repaid \in Request /\ repaid.order = o /\ repaid.kind = "webhook"
    <3>1. [r.mine EXCEPT !.pay = "refunded"] \in Row
      BY <1>2 DEF Row, Payment
    <3>2. \A m \in Row : LET q == [r EXCEPT !.mine = m] IN
             q \in Request /\ q.order = o /\ q.kind = r.kind
      BY <1>2 DEF Request
    <3>3. repaid = [r EXCEPT !.mine = [r.mine EXCEPT !.pay = "refunded"]]
      BY <1>2 DEF Request, Row
    <3> QED BY <2>2, <3>1, <3>2, <3>3
  <2> HIDE DEF new, repaid
  <2>5. n.order = o /\ n.kind = "webhook" /\ n.step = "change" /\ n.slot = NoCall
    BY <2>4, GiveUpGoes, GiveUpLines DEF Follows
  <2> HIDE DEF n
  <2>6. Path(n, new)
    BY <2>2, <2>3, <2>5 DEF Path
  <2>7. \A i : Owns(n, new, i) /\ Owns(r, x, i)
    BY <2>2, <2>5 DEF Owns
  <2>8. Steady(n, new, uses, "none")
    BY <1>12, <2>5, <2>6, <2>7
  <2> HIDE DEF r, o, x
  <2> QED BY <1>8, <1>9, <1>10, <2>1, <2>5, <2>8
<1>g. CASE CancelStuck(w)
  <2> DEFINE new == [x EXCEPT !.status = "cancelled", !.pay = "refunded"]
  <2>1. /\ r.step = "cancelStuck" /\ UNCHANGED money
        /\ worker' = [worker EXCEPT ![w] = Resting]
    BY <1>g DEF CancelStuck, awayVars
  <2>2. row' = [row EXCEPT ![o] = new]
    BY <1>2, <1>g DEF CancelStuck, OwnTypeOK
  <2>3. new.status = "cancelled" /\ new.pay = "refunded" /\ new # NoRow
    BY <1>2 DEF Row, NoRow
  <2> HIDE DEF new
  <2>4. r.kind = "stuck" /\ o \notin Till
    BY <1>3, <1>7, <2>1 DEF Course, Path
  <2>5. \A i : Owns(r, x, i) /\ Stands(o, new)
    BY <2>1, <2>3, <2>4 DEF Owns, Stands
  <2>6. Settled(o, new, uses)
    BY <1>13, <2>3, <2>4, <2>5
  <2> HIDE DEF r, o, x
  <2> QED BY <1>8, <1>9, <1>10, <1>11, <2>1, <2>2, <2>6
<1>h. CASE Complete(w)
  <2> DEFINE new == [x EXCEPT !.status = "completed", !.pay = "paid"]
             a == At(r, "record")
             n == [a EXCEPT !.mine.status = "completed"]
  <2>1. /\ r.step = "complete" /\ UNCHANGED money
        /\ worker' = [worker EXCEPT ![w] = n]
    BY <1>h DEF Complete, awayVars
  <2>2. row' = [row EXCEPT ![o] = new]
    BY <1>2, <1>h DEF Complete, OwnTypeOK
  <2>3. new.status = "completed" /\ new.pay = "paid" /\ new # NoRow
    BY <1>2 DEF Row, NoRow
  <2>4. r.kind = "till"
    BY <1>3, <2>1 DEF Course
  <2>5. n.order = o /\ n.kind = "till" /\ n.step = "record" /\ n.slot = NoCall
    BY <1>2, <2>4 DEF At, Request
  <2>5a. n.mine.pay = r.mine.pay
    BY <1>2 DEF At, Request, Row
  <2> HIDE DEF n, new
  <2>6. Path(n, new)
    BY <1>7, <2>3, <2>4, <2>5, <2>5a DEF Path
  <2>7. \A i : ~ Owns(n, new, i) /\ ~ Owns(r, x, i)
    BY <2>1, <2>4, <2>5 DEF Owns
  <2>8. Steady(n, new, uses, "none")
    BY <1>12, <2>5, <2>6, <2>7
  <2> HIDE DEF r, o, x
  <2> QED BY <1>8, <1>9, <1>10, <2>1, <2>2, <2>5, <2>8
<1> QED BY <1>a, <1>b, <1>c, <1>d, <1>e, <1>f, <1>g, <1>h DEF Transaction

\* Nothing changes but money that customers pay.
LEMMA HoldKept ==
    ASSUME HoldInv, UNCHANGED <<row, worker, call, uses, reserved, rows>>,
           \A q \in Till : money'[q] = money[q]
    PROVE  HoldInv'
<1>1. CallsMade'
  BY DEF HoldInv, CallsMade, SlotsApart
<1>2. LinesKnown'
  BY DEF HoldInv, LinesKnown, ReplyOf, Working
<1>3. Placings'
  BY DEF HoldInv, Placings
<1>4. Accounts'
  BY DEF HoldInv, Accounts, Holding, Holds, LetGo
<1> QED BY <1>1, <1>2, <1>3, <1>4 DEF HoldInv

\* An order that is paid for is an online order.
LEMMA PaymentHolds ==
    ASSUME HoldInv, OwnTypeOK, Smooth, NEW o \in Order, CustomerPays(o)
    PROVE  HoldInv'
<1>1. /\ row[o].status = "unpaid" /\ ~ Busy(o)
      /\ money' = [money EXCEPT ![o] = "captured"]
      /\ UNCHANGED <<row, worker>> /\ UNCHANGED stockVars
  BY DEF CustomerPays, Smooth, orderVars
<1>2. ~ Working(o)
  BY <1>1 DEF Busy, Working
<1>3. o \notin Till
  BY <1>1, <1>2 DEF HoldInv, LinesKnown, Settled
<1>4. \A q \in Till : money'[q] = money[q]
  BY <1>1, <1>3, OrdersAssumption DEF OwnTypeOK
<1>5. UNCHANGED <<row, worker, call, uses, reserved, rows>>
  BY <1>1 DEF stockVars
<1> QED BY <1>4, <1>5, HoldKept

\* An answer reaches its request.
LEMMA AnswerHolds ==
    ASSUME HoldInv, InCourse, OwnTypeOK, Stock!TypeOK, NEW w \in Worker, Answer(w)
    PROVE  HoldInv'
<1> DEFINE r == worker[w]
           o == r.order
           x == row[o]
           c == r.slot
           k == call[c]
           success == Success(k.reply)
           n == Answered(r, success)
<1>1. /\ c # NoCall /\ k.pc = "done" /\ call' = [call EXCEPT ![c] = Stock!Idle]
      /\ worker' = [worker EXCEPT ![w] = n]
      /\ UNCHANGED <<row, money>> /\ UNCHANGED <<uses, reserved, rows>>
  BY DEF Answer, Stock!Collect, Stock!stockVars, orderVars, awayVars
<1>2. RequestOK(r) /\ r.step \in Calling /\ r.step # "rest" /\ c \in Call
  BY <1>1 DEF OwnTypeOK, WorkersOK, RequestOK, Request, Calling
<1>3. /\ r \in Request /\ o \in Order
      /\ Good(r, x, recorded[o], money[o], o \in notified)
  BY <1>2, Serving
<1>4. Course(r) /\ r.mine.status = x.status /\ (r.kind # "till" => r.mine = x)
  BY <1>3 DEF Good
<1>5. Fits(r, k) /\ Steady(r, x, uses, k.reply)
  BY <1>1, <1>2 DEF HoldInv, CallsMade, LinesKnown, ReplyOf
<1>6. success \in BOOLEAN
  BY DEF Success
<1>7. n.slot = NoCall
  BY <1>2, <1>3, <1>6, AnsweredUnheard
<1>8. /\ n.step = "rest" => n = Resting /\ Settled(o, x, uses)
      /\ n.step # "rest" => n.order = o /\ Steady(n, x, uses, "none")
  <2> DEFINE s == success
  <2>1. s \in BOOLEAN /\ s = Success(k.reply) /\ n = Answered(r, s)
    BY <1>6
  <2> HIDE DEF s, n, success, k, r, x
  <2> QED BY <1>1, <1>2, <1>4, <1>5, <2>1, AnswerSteady
<1>9. call \in [Call -> Stock!CallState]
  BY DEF Stock!TypeOK
<1>10. \A v \in Worker \ {w} : worker[v].slot # NoCall =>
          call'[worker[v].slot] = call[worker[v].slot]
  <2>1. \A v \in Worker \ {w} : worker[v].slot # NoCall =>
           worker[v].slot # c /\ worker[v].slot \in Call
    BY DEF HoldInv, CallsMade, SlotsApart, OwnTypeOK, WorkersOK, Request
  <2> QED BY <1>1, <1>9, <2>1
<1>11. \A d \in Call : call'[d].pc = "checked" => call[d].pc = "checked" /\ d # c
  BY <1>1, <1>9 DEF Stock!Idle
<1>12. o \in Till => money'[o] = "none"
  BY <1>1 DEF HoldInv, Placings
<1>13. /\ n.step # "rest" => n.order = o /\ Steady(n, row'[o], uses, "none")
       /\ n.step = "rest" => Settled(o, row'[o], uses)
  BY <1>1, <1>8
<1>14. worker[w].step # "rest" /\ worker[w].order = o
  BY <1>2
<1>15. \A q \in Order \ {o} : row'[q] = row[q] /\ money'[q] = money[q]
  BY <1>1
<1>16. \A d \in Call : call'[d].pc = "checked" =>
          call[d].pc = "checked" /\ worker[w].slot # d
  BY <1>11
<1>17. worker' = [worker EXCEPT ![w] = n] /\ UNCHANGED <<uses, reserved, rows>>
  BY <1>1
<1> HIDE DEF n, o
<1> QED BY <1>3, <1>7, <1>10, <1>12, <1>13, <1>14, <1>15, <1>16, <1>17, LineMoves

-----------------------------------------------------------------------------
(* The calls keep the invariant.                                            *)

\* A request that waits for its call is otherwise the same.
LEMMA SlotTaken ==
    ASSUME NEW r \in Request, NEW c, NEW n, n = [r EXCEPT !.slot = c]
    PROVE  /\ n.slot = c /\ n.step = r.step /\ n.kind = r.kind /\ n.order = r.order
           /\ n.line = r.line /\ n.got = r.got /\ n.ok = r.ok /\ n.target = r.target
           /\ n.mine = r.mine /\ KeyFor(n) = KeyFor(r)
<1>1. /\ n.slot = c /\ n.step = r.step /\ n.kind = r.kind /\ n.order = r.order
      /\ n.line = r.line /\ n.got = r.got /\ n.ok = r.ok /\ n.target = r.target
      /\ n.mine = r.mine
  BY DEF Request
<1>2. KeyFor(n) = KeyFor(r)
  BY <1>1 DEF KeyFor
<1> QED BY <1>1, <1>2

\* What is known of the request stays known of it, until the call says yes.
LEMMA SlotSteady ==
    ASSUME NEW r \in Request, NEW c, NEW n, n = [r EXCEPT !.slot = c], NEW x, NEW log,
           Steady(r, x, log, "none"), NEW reply, reply # "ok"
    PROVE  Steady(n, x, log, reply)
<1>1. /\ n.step = r.step /\ n.kind = r.kind /\ n.order = r.order
      /\ n.line = r.line /\ n.got = r.got /\ n.ok = r.ok /\ n.target = r.target
      /\ n.mine = r.mine
  BY SlotTaken
<1>2. Path(n, x)
  BY <1>1 DEF Steady, Path
<1>3. \A i : Owns(n, x, i) <=> Owns(r, x, i)
  BY <1>1 DEF Owns
<1>4. \A i : ~ Moved(n, reply, i) /\ ~ Moved(r, "none", i)
  BY DEF Moved
<1> QED BY <1>1, <1>2, <1>3, <1>4 DEF Steady

\* The reservation or the release of a line begins: a line not touched yet is
\* not answered as a duplicate, a line held already is.
LEMMA BeginMade ==
    ASSUME HoldInv, InCourse, OwnTypeOK, Stock!TypeOK, NEW w \in Worker,
           NEW r, r = worker[w], NEW o, o = r.order,
           r.step \in Calling \ {"deduct"}, r.slot = NoCall, NEW c \in Call,
           Stock!Begin(c, IF r.step = "reserve" THEN "reserve" ELSE "release",
                       LocOf(o, r.line), Lines[o][r.line].qty, KeyFor(r)),
           NEW n, n = [r EXCEPT !.slot = c]
    PROVE  /\ UNCHANGED <<uses, reserved, rows>>
           /\ \A d \in Call \ {c} : call'[d] = call[d]
           /\ Fits(n, call'[c]) /\ Steady(n, row[o], uses, call'[c].reply)
<1> DEFINE x == row[o]
           op == IF r.step = "reserve" THEN "reserve" ELSE "release"
           key == KeyFor(r)
           p == Lines[o][r.line].item
           req == [op |-> op, loc |-> LocOf(o, r.line),
                   qty |-> Lines[o][r.line].qty, key |-> key]
           k == call'[c]
<1>1. r.step # "rest" /\ r.step # "deduct" /\ worker[w].step # "rest"
  BY DEF Calling
<1>2. /\ RequestOK(r) /\ r \in Request /\ o \in Order /\ Stocked(o)
      /\ r.line \in LineNumbers(o)
      /\ Good(r, x, recorded[o], money[o], o \in notified)
  BY <1>1, Serving DEF OwnTypeOK, WorkersOK, RequestOK
<1>3. Course(r) /\ p \in Product
  BY <1>2, LineOf DEF Good
<1>4. Steady(r, x, uses, "none")
  BY <1>1 DEF HoldInv, LinesKnown, ReplyOf
<1>5. Path(r, x)
  BY <1>4 DEF Steady
<1>6. ~ Moved(r, "none", r.line)
  BY DEF Moved
<1>7. /\ Holds(uses, o, p) <=> Owns(r, x, r.line)
      /\ r.kind = "create" /\ r.step = "reserve" /\ r.line \notin r.got
           => Fresh(uses, o, p)
  BY <1>2, <1>4, <1>6 DEF Steady
<1>8. r.line \in Int /\ (r.kind = "create" /\ r.step = "reserve" => r.line \notin r.got)
  <2>1. r.line \in Int
    <3>1. \A i \in LineNumbers(o) : i \in Int
      BY <1>2, FirstLine
    <3> QED BY <1>2, <3>1
  <2>2. r.kind = "create" /\ r.step = "reserve" => \A i \in r.got : i < r.line
    BY <1>5 DEF Path
  <2> QED BY <2>1, <2>2
<1>9. UNCHANGED <<uses, reserved, rows>>
  BY DEF Stock!Begin, Stock!stockVars
<1> DEFINE new == IF Stock!KeyUsed(op, key)
                  THEN Stock!Committed(req, "conflict", {})
                  ELSE [pc |-> "checked", req |-> req, reply |-> "none", todo |-> {}]
<1>10. call' = [call EXCEPT ![c] = new]
  BY DEF Stock!Begin
<1>11. call'[c] = new /\ \A d \in Call \ {c} : call'[d] = call[d]
  <2> HIDE DEF new
  <2> QED BY <1>10 DEF Stock!TypeOK
<1>12. /\ n.step = r.step /\ n.kind = r.kind /\ n.order = o
       /\ n.line = r.line /\ KeyFor(n) = key
  <2> HIDE DEF x
  <2>1. r \in Request
    BY <1>2
  <2>2. /\ n.step = r.step /\ n.kind = r.kind /\ n.order = r.order
        /\ n.line = r.line /\ KeyFor(n) = KeyFor(r)
    BY <2>1, SlotTaken
  <2> QED BY <2>2
<1>14. Steady(n, x, uses, "none") /\ Steady(n, x, uses, "conflict")
  <2> HIDE DEF x
  <2> QED BY <1>2, <1>4, SlotSteady
<1>15. /\ r.step = "reserve" => op = "reserve" /\ key = <<"reserve", o, p>>
       /\ r.step = "undo" /\ r.kind = "create" =>
             op = "release" /\ key = <<"compensate", o, p>>
       /\ r.step = "release" => op = "release" /\ key = <<"release", o, p>>
       /\ key # NoKey
  <2>1. r.step \in {"reserve", "undo", "release"}
    BY <1>1 DEF Calling
  <2>2. key \in StockKey
    BY <1>2, <1>3, <2>1 DEF KeyFor, StockKey
  <2>3. key # NoKey
    BY <2>2, StockAssumption DEF Stock!InventoryAssumption
  <2> QED BY <2>3 DEF KeyFor
<1> HIDE DEF x, p, key, k
<1>16. Fits(n, k) /\ Steady(n, x, uses, k.reply)
  <2>1. ~ Stock!KeyUsed(op, key)
    <3>1. CASE r.step = "reserve"
      <4>1. r.kind = "create"
        BY <1>3, <3>1 DEF Course
      <4>2. Fresh(uses, o, p)
        BY <1>7, <1>8, <3>1, <4>1
      <4> QED BY <1>15, <3>1, <4>2 DEF Fresh, Stock!KeyUsed
    <3>2. CASE r.step = "undo"
      <4>1. r.kind = "create" /\ r.line \in r.got
        BY <1>3, <1>5, <3>2 DEF Course, Path
      <4>2. Owns(r, x, r.line)
        BY <1>8, <3>2, <4>1 DEF Owns
      <4>3. Holds(uses, o, p)
        BY <1>7, <4>2
      <4> QED BY <1>15, <3>2, <4>1, <4>3 DEF Holds, LetGo, Stock!KeyUsed
    <3>3. CASE r.step = "release"
      <4>1. Owns(r, x, r.line)
        BY <1>8, <3>3 DEF Owns
      <4>2. Holds(uses, o, p)
        BY <1>7, <4>1
      <4> QED BY <1>15, <3>3, <4>2 DEF Holds, LetGo, Stock!KeyUsed
    <3> QED BY <1>1, <3>1, <3>2, <3>3 DEF Calling
  <2>2. k = [pc |-> "checked", req |-> req, reply |-> "none", todo |-> {}]
    BY <1>11, <2>1 DEF k
  <2>3. k.pc = "checked" /\ k.req = req /\ k.reply = "none"
    BY <2>2
  <2>4. Fits(n, k)
    <3>1. k.req = [op |-> IF n.step = "reserve" THEN "reserve" ELSE "release",
                   loc |-> LocOf(n.order, n.line),
                   qty |-> Lines[n.order][n.line].qty, key |-> KeyFor(n)]
      BY <1>12, <2>3
    <3>2. n.step # "deduct"
      BY <1>1, <1>12
    <3> QED BY <2>3, <3>1, <3>2 DEF Fits
  <2>5. Steady(n, x, uses, k.reply)
    BY <1>14, <2>3
  <2> QED BY <2>4, <2>5
<1> QED BY <1>9, <1>11, <1>16 DEF x, k

\* A request that makes its call, or whose call goes on.
LEMMA CallTaken ==
    ASSUME HoldInv, InCourse, OwnTypeOK, NEW w \in Worker, worker[w].step # "rest",
           NEW c \in Call, Free(c), worker[w].slot = NoCall,
           NEW n, n = [worker[w] EXCEPT !.slot = c],
           worker' = [worker EXCEPT ![w] = n],
           \A d \in Call \ {c} : call'[d] = call[d],
           Fits(n, call'[c]),
           Steady(n, row[worker[w].order], uses', call'[c].reply),
           \A q \in Order \ {worker[w].order} : Alike(uses, uses', q),
           UNCHANGED <<row, money>>, Accounts'
    PROVE  HoldInv'
<1>1. n.step # "rest" /\ n.order = worker[w].order /\ n.slot = c
  BY Serving, SlotTaken
<1>2. \A v \in Worker \ {w} : worker[v].slot # c
  BY DEF Free
<1>3. PICK k : k = call'[c]
  OBVIOUS
<1>4. call'[c] = k
  BY <1>3
<1>5. Fits(n, k)
  BY <1>3
<1>6. Steady(n, row[n.order], uses', k.reply)
  BY <1>1, <1>3
<1>7. \A q \in Order \ {n.order} : Alike(uses, uses', q)
  BY <1>1
<1> QED BY <1>1, <1>2, <1>4, <1>5, <1>6, <1>7, CallMoves

\* What a batch deduction of the units of an order o answers, and does.
Taken(o, l) ==
    IF l[2] = WarehouseOf[o] /\ l[1] \in Items(o) THEN Units(o, l[1]) ELSE 0
Logged(k, S) ==
    [x \in Stock!AnyKey |-> IF k # NoKey /\ \E p \in S : x = <<k, p>>
                            THEN uses["deduct"][x] + 1 ELSE uses["deduct"][x]]

LEMMA BatchMade ==
    ASSUME Stock!TypeOK, NEW o \in Order, NEW c \in Call, NEW fr, Deduct(c, o, fr)
    PROVE  /\ UNCHANGED rows
           /\ \A d \in Call \ {c} : call'[d] = call[d]
           /\ call'[c].pc \in {"publishing", "done"}
           /\ call'[c].reply \in {"ok", "conflict", "error"}
           /\ call'[c].reply # "ok" => UNCHANGED <<uses, reserved>>
           /\ call'[c].reply = "conflict" => Stock!BatchSeen(DeductKey(o), Items(o))
           /\ call'[c].reply = "ok" =>
                /\ \A p \in Items(o) : <<p, WarehouseOf[o]>> \in rows
                /\ uses' = [uses EXCEPT !["deduct"] = Logged(DeductKey(o), Items(o))]
                /\ \A l \in Stock!Loc :
                      reserved'[l] = reserved[l] - (IF fr THEN Taken(o, l) ELSE 0)
<1> DEFINE k == DeductKey(o)
           wanted == [p \in Items(o) |-> Units(o, p)]
<1>a. Stock!DeductBatch(c, WarehouseOf[o], wanted, k, fr)
  BY DEF Deduct, DeductKey
<1>1. DOMAIN wanted = Items(o) /\ \A p \in Items(o) : wanted[p] = Units(o, p)
  OBVIOUS
<1> HIDE DEF k, wanted
<1>2. ASSUME NEW x, NEW todo,
             call' = [call EXCEPT ![c] = Stock!Committed(Stock!NoRequest, x, todo)]
      PROVE  /\ \A d \in Call \ {c} : call'[d] = call[d]
             /\ call'[c].pc \in {"publishing", "done"} /\ call'[c].reply = x
  <2> DEFINE s == Stock!Committed(Stock!NoRequest, x, todo)
  <2>1. s.pc \in {"publishing", "done"} /\ s.reply = x
    BY DEF Stock!Committed
  <2>2. call' = [call EXCEPT ![c] = s]
    BY <1>2
  <2> HIDE DEF s
  <2>3. call'[c] = s /\ \A d \in Call \ {c} : call'[d] = call[d]
    BY <2>2 DEF Stock!TypeOK
  <2> QED BY <2>1, <2>3
<1>3. UNCHANGED rows
  BY <1>a DEF Stock!DeductBatch
<1> DEFINE seen == Stock!BatchSeen(k, Items(o))
           enough == \A p \in Items(o) : LET l == <<p, WarehouseOf[o]>> IN
                       /\ l \in rows
                       /\ IF fr THEN reserved[l] >= wanted[p] /\ quantity[l] >= wanted[p]
                          ELSE Stock!Available(l) >= wanted[p]
<1>4. CASE ~ seen /\ enough
  <2>1. /\ uses' = [uses EXCEPT !["deduct"] =
              [x \in Stock!AnyKey |-> IF k # NoKey /\ \E p \in Items(o) : x = <<k, p>>
                                      THEN @[x] + 1 ELSE @[x]]]
        /\ reserved' = [l \in Stock!Loc |-> reserved[l] -
             (IF fr THEN IF l[2] = WarehouseOf[o] /\ l[1] \in Items(o)
                         THEN wanted[l[1]] ELSE 0 ELSE 0)]
        /\ \E todo : call' = [call EXCEPT ![c] =
                                Stock!Committed(Stock!NoRequest, "ok", todo)]
    BY <1>1, <1>4, <1>a DEF Stock!DeductBatch
  <2>2. /\ \A d \in Call \ {c} : call'[d] = call[d]
        /\ call'[c].pc \in {"publishing", "done"} /\ call'[c].reply = "ok"
    BY <1>2, <2>1
  <2>3. uses' = [uses EXCEPT !["deduct"] = Logged(k, Items(o))]
    BY <2>1 DEF Logged
  <2>4. \A l \in Stock!Loc :
           reserved'[l] = reserved[l] - (IF fr THEN Taken(o, l) ELSE 0)
    BY <1>1, <2>1 DEF Taken
  <2>5. \A p \in Items(o) : <<p, WarehouseOf[o]>> \in rows
    BY <1>4
  <2> QED BY <1>3, <2>2, <2>3, <2>4, <2>5 DEF k
<1>5. CASE ~ (~ seen /\ enough)
  <2>1. /\ UNCHANGED <<uses, reserved>>
        /\ call' = [call EXCEPT ![c] = Stock!Committed(Stock!NoRequest,
                      IF seen THEN "conflict" ELSE "error", {})]
    BY <1>1, <1>5, <1>a DEF Stock!DeductBatch
  <2>2. /\ \A d \in Call \ {c} : call'[d] = call[d]
        /\ call'[c].pc \in {"publishing", "done"}
        /\ call'[c].reply = IF seen THEN "conflict" ELSE "error"
    BY <1>2, <2>1
  <2> QED BY <1>3, <2>1, <2>2 DEF k
<1> QED BY <1>4, <1>5 DEF k

\* A deduction is made: that of a shipment takes the units the order holds, that
\* of a sale at the till takes units off the shelf.
LEMMA DeductMade ==
    ASSUME HoldInv, InCourse, OwnTypeOK, Stock!TypeOK, LinesApart, NEW w \in Worker,
           NEW r, r = worker[w], NEW o, o = r.order,
           r.step = "deduct", r.slot = NoCall, NEW c \in Call,
           NEW fr, fr = FromReserved(r), Deduct(c, o, fr),
           NEW n, n = [r EXCEPT !.slot = c]
    PROVE  /\ \A d \in Call \ {c} : call'[d] = call[d]
           /\ Fits(n, call'[c]) /\ Steady(n, row[o], uses', call'[c].reply)
           /\ \A q \in Order \ {o} : Alike(uses, uses', q)
           /\ Accounts'
<1> DEFINE x == row[o]
           reply == call'[c].reply
           key == DeductKey(o)
           item(i) == Lines[o][i].item
<1>0. r.step # "rest" /\ r.step \in Calling
  BY DEF Calling
<1>1. r \in Request /\ o \in Order /\ Good(r, x, recorded[o], money[o], o \in notified)
  BY <1>0, Serving
<1>2. Stocked(o)
  BY <1>0 DEF OwnTypeOK, WorkersOK, RequestOK
<1>3. Steady(r, x, uses, "none")
  BY <1>0 DEF HoldInv, LinesKnown, ReplyOf
<1>4. r.kind = "till" \/ r.kind = "status"
  BY <1>1 DEF Good, Course
<1>5. key # NoKey
  <2>1. key \in StockKey
    BY <1>1 DEF DeductKey, StockKey
  <2> QED BY <2>1, StockAssumption DEF Stock!InventoryAssumption
<1>6. /\ n.slot = c /\ n.step = "deduct" /\ n.kind = r.kind /\ n.order = o
      /\ n.line = r.line /\ n.got = r.got /\ n.ok = r.ok /\ n.target = r.target
      /\ n.mine = r.mine
  <2> HIDE DEF x, reply, key
  <2> QED BY <1>1, SlotTaken
<1>7. o \in Order
  BY <1>1
<1>8. /\ UNCHANGED rows
      /\ \A d \in Call \ {c} : call'[d] = call[d]
      /\ call'[c].pc \in {"publishing", "done"}
      /\ reply \in {"ok", "conflict", "error"}
      /\ reply # "ok" => UNCHANGED <<uses, reserved>>
      /\ reply = "conflict" => Stock!BatchSeen(key, Items(o))
      /\ reply = "ok" =>
           /\ \A p \in Items(o) : <<p, WarehouseOf[o]>> \in rows
           /\ uses' = [uses EXCEPT !["deduct"] = Logged(key, Items(o))]
           /\ \A l \in Stock!Loc :
                 reserved'[l] = reserved[l] - (IF fr THEN Taken(o, l) ELSE 0)
  <2> HIDE DEF x
  <2> QED BY <1>7, BatchMade
<1> HIDE DEF x, key, reply
\* The order holds its lines exactly if it is shipped.
<1>9. \A i \in LineNumbers(o) : Holds(uses, o, item(i)) <=> r.kind = "status"
  <2> TAKE i \in LineNumbers(o)
  <2>1. Holds(uses, o, item(i)) <=> (Owns(r, x, i) <=> ~ Moved(r, "none", i))
    BY <1>2, <1>3 DEF Steady
  <2>2. ~ Moved(r, "none", i)
    BY DEF Moved
  <2>3. Owns(r, x, i) <=> r.kind = "status"
    BY <1>4 DEF Owns
  <2> QED BY <2>1, <2>2, <2>3
<1>10. \A p \in Items(o) : p \in Product /\ (Holds(uses, o, p) <=> r.kind = "status")
  <2> SUFFICES ASSUME NEW i \in LineNumbers(o)
               PROVE  /\ item(i) \in Product
                      /\ Holds(uses, o, item(i)) <=> r.kind = "status"
    BY DEF Items
  <2> QED BY <1>1, <1>9, LineOf
<1>11. reply = "ok" => \A q \in Order, z \in Product :
          IF q = o /\ z \in Items(o) THEN ~ Holds(uses', q, z)
          ELSE /\ Holds(uses', q, z) <=> Holds(uses, q, z)
               /\ Fresh(uses', q, z) <=> Fresh(uses, q, z)
  <2>1. DeductKey(o) # NoKey
    BY <1>5 DEF key
  <2>2. ASSUME reply = "ok"
        PROVE  uses' = [uses EXCEPT !["deduct"] =
                  [y \in Stock!AnyKey |->
                     IF DeductKey(o) # NoKey /\ \E p \in Items(o) : y = <<DeductKey(o), p>>
                     THEN uses["deduct"][y] + 1 ELSE uses["deduct"][y]]]
    BY <1>8, <2>2 DEF Logged, key
  <2> QED BY <1>1, <2>1, <2>2, BatchRecorded
<1>12. \A q \in Order \ {o} : Alike(uses, uses', q)
  <2>1. CASE reply = "ok"
    BY <1>11, <2>1 DEF Alike
  <2>2. CASE reply # "ok"
    <3>1. uses' = uses
      BY <1>8, <2>2
    <3> QED BY <3>1 DEF Alike
  <2> QED BY <2>1, <2>2
<1>13. r.kind = "status" => reply # "conflict"
  <2> SUFFICES ASSUME r.kind = "status", reply = "conflict"
               PROVE  FALSE
    OBVIOUS
  <2>1. PICK p \in Items(o) : uses["deduct"][<<key, p>>] > 0
    BY <1>8 DEF Stock!BatchSeen
  <2>2. LetGo(uses, o, p)
    BY <2>1 DEF LetGo, key
  <2> QED BY <1>10, <2>2 DEF Holds
<1>14. Fits(n, call'[c])
  BY <1>4, <1>6, <1>8, <1>13 DEF Fits, reply
<1>15. Steady(n, x, uses', reply)
  <2>1. Path(n, x)
    BY <1>3, <1>4, <1>6 DEF Steady, Path
  <2>2. ASSUME NEW i \in LineNumbers(o)
        PROVE  Holds(uses', o, item(i)) <=> (Owns(n, x, i) <=> ~ Moved(n, reply, i))
    <3>1. Owns(n, x, i) <=> r.kind = "status"
      BY <1>4, <1>6 DEF Owns
    <3>2. Moved(n, reply, i) <=> r.kind = "status" /\ reply = "ok"
      BY <1>4, <1>6 DEF Moved
    <3>3. Holds(uses', o, item(i)) <=> r.kind = "status" /\ reply # "ok"
      <4>1. CASE reply = "ok"
        <5>1. item(i) \in Items(o) /\ item(i) \in Product
          BY <1>1, LineOf
        <5> QED BY <1>1, <1>11, <4>1, <5>1
      <4>2. CASE reply # "ok"
        <5>1. uses' = uses
          BY <1>8, <4>2
        <5> QED BY <1>9, <4>2, <5>1
      <4> QED BY <4>1, <4>2
    <3> QED BY <3>1, <3>2, <3>3
  <2>3. n.kind # "create"
    BY <1>4, <1>6
  <2> QED BY <1>6, <2>1, <2>2, <2>3 DEF Steady
<1>16. Accounts'
  <2>1. CASE reply # "ok"
    <3>1. uses' = uses /\ reserved' = reserved /\ rows' = rows
      BY <1>8, <2>1
    <3> QED BY <3>1 DEF HoldInv, Accounts, Holding, Holds, LetGo
  <2>2. CASE reply = "ok"
    <3>1. Accounts
      BY DEF HoldInv
    <3>2. \A q \in Order \ {o}, p \in Product :
             Holds(uses', q, p) <=> Holds(uses, q, p)
      BY <1>11, <2>2
    <3>3. reserved \in [Stock!Loc -> Int]
      BY DEF Stock!TypeOK
    <3>4. ASSUME NEW l \in Stock!Loc
          PROVE  /\ reserved'[l] = reserved[l]
                      + (IF Holds(uses', o, l[1]) THEN Wants(o, l) ELSE 0)
                      - (IF Holds(uses, o, l[1]) THEN Wants(o, l) ELSE 0)
                 /\ l \notin rows => reserved'[l] = 0
      <4>1. reserved'[l] = reserved[l] - (IF fr THEN Taken(o, l) ELSE 0)
        BY <1>8, <2>2
      <4>2. Wants(o, l) \in Nat /\ (l[1] \notin Items(o) => Wants(o, l) = 0)
        BY <1>1, WantsLine
      <4>3. reserved[l] \in Int
        BY <3>3
      <4>4. fr <=> r.kind = "status"
        BY <1>4 DEF FromReserved
      <4>5. l[1] \in Product /\ l = <<l[1], l[2]>>
        BY DEF Stock!Loc
      <4>6. l \notin rows => reserved[l] = 0 /\ Taken(o, l) = 0
        <5>1. l \notin rows => reserved[l] = 0
          BY <3>1 DEF Accounts
        <5>2. l \notin rows => Taken(o, l) = 0
          BY <1>8, <2>2, <4>5 DEF Taken
        <5> QED BY <5>1, <5>2
      <4>7. CASE l[1] \in Items(o)
        <5>1. ~ Holds(uses', o, l[1]) /\ (Holds(uses, o, l[1]) <=> r.kind = "status")
          BY <1>1, <1>10, <1>11, <2>2, <4>5, <4>7
        <5>2. Taken(o, l) = Wants(o, l)
          BY <4>7 DEF Taken, Wants
        <5> QED BY <4>1, <4>2, <4>3, <4>4, <4>6, <5>1, <5>2
      <4>8. CASE l[1] \notin Items(o)
        <5>1. Taken(o, l) = 0 /\ Wants(o, l) = 0
          BY <4>2, <4>8 DEF Taken
        <5> QED BY <4>1, <4>3, <4>6, <5>1
      <4> QED BY <4>7, <4>8
    <3>5. \A l \in Stock!Loc : reserved'[l] = reserved[l]
             + (IF Holds(uses', o, l[1]) THEN Wants(o, l) ELSE 0)
             - (IF Holds(uses, o, l[1]) THEN Wants(o, l) ELSE 0)
      BY <3>4
    <3>6. UNCHANGED rows /\ \A l \in Stock!Loc \ rows : reserved'[l] = 0
      BY <1>8, <3>4
    <3> QED BY <1>1, <3>1, <3>2, <3>5, <3>6, AccountsMove
  <2> QED BY <2>1, <2>2
<1> QED BY <1>8, <1>12, <1>14, <1>15, <1>16 DEF x, reply

LEMMA SendHolds ==
    ASSUME HoldInv, InCourse, OwnTypeOK, Stock!TypeOK, LinesApart, NEW w \in Worker,
           Send(w)
    PROVE  HoldInv'
<1> DEFINE r == worker[w]
           o == r.order
<1>1. r.step \in Calling /\ r.slot = NoCall /\ r.step # "rest"
  BY DEF Send, Calling
<1>2. UNCHANGED row /\ UNCHANGED money
  BY DEF Send, orderVars, awayVars
<1>3. PICK c \in Call :
        /\ Free(c)
        /\ IF r.step = "deduct" THEN Deduct(c, o, FromReserved(r)) ELSE AskLine(c, r)
        /\ worker' = [worker EXCEPT ![w].slot = c]
  BY DEF Send
<1> DEFINE n == [r EXCEPT !.slot = c]
<1>4. worker' = [worker EXCEPT ![w] = n]
  BY <1>3
<1>5. n = [r EXCEPT !.slot = c]
  OBVIOUS
<1> HIDE DEF n
<1>6. CASE r.step = "deduct"
  <2>1. PICK fr : fr = FromReserved(r) /\ Deduct(c, o, fr)
    BY <1>3, <1>6
  <2>2. /\ \A d \in Call \ {c} : call'[d] = call[d]
        /\ Fits(n, call'[c]) /\ Steady(n, row[o], uses', call'[c].reply)
        /\ \A q \in Order \ {o} : Alike(uses, uses', q)
        /\ Accounts'
    BY <1>1, <1>5, <1>6, <2>1, DeductMade
  <2> QED BY <1>1, <1>2, <1>3, <1>4, <1>5, <2>2, CallTaken
<1>7. CASE r.step # "deduct"
  <2>1. Stock!Begin(c, IF r.step = "reserve" THEN "reserve" ELSE "release",
                    LocOf(o, r.line), Lines[o][r.line].qty, KeyFor(r))
    BY <1>3, <1>7 DEF AskLine
  <2>2. /\ UNCHANGED <<uses, reserved, rows>>
        /\ \A d \in Call \ {c} : call'[d] = call[d]
        /\ Fits(n, call'[c]) /\ Steady(n, row[o], uses, call'[c].reply)
    BY <1>1, <1>5, <1>7, <2>1, BeginMade
  <2>3. \A q \in Order \ {o} : Alike(uses, uses', q)
    BY <2>2 DEF Alike
  <2>4. Accounts'
    BY <2>2 DEF HoldInv, Accounts, Holding, Holds, LetGo
  <2>5. Steady(n, row[o], uses', call'[c].reply)
    BY <2>2
  <2> QED BY <1>1, <1>2, <1>3, <1>4, <1>5, <2>2, <2>3, <2>4, <2>5, CallTaken
<1> QED BY <1>6, <1>7

\* What the transaction of a reservation or a release does.
LEMMA ApplyMade ==
    ASSUME Stock!TypeOK, NEW c \in Call, Stock!Apply(c),
           NEW op \in {"reserve", "release"}, NEW l, NEW q, NEW key, key # NoKey,
           call[c].req = [op |-> op, loc |-> l, qty |-> q, key |-> key]
    PROVE  /\ UNCHANGED rows
           /\ \A d \in Call \ {c} : call'[d] = call[d]
           /\ call'[c].pc \in {"publishing", "done"}
           /\ call'[c].reply = IF l \in rows /\ Stock!Enough(op, l, q)
                               THEN "ok" ELSE "error"
           /\ IF l \in rows /\ Stock!Enough(op, l, q)
              THEN /\ uses' = [uses EXCEPT ![op][key] = @ + 1]
                   /\ reserved' = [reserved EXCEPT
                                     ![l] = @ + IF op = "reserve" THEN q ELSE -q]
              ELSE UNCHANGED <<uses, reserved>>
<1> DEFINE req == call[c].req
<1>1. req.op = op /\ req.loc = l /\ req.qty = q /\ req.key = key
  OBVIOUS
<1>2. UNCHANGED rows
  BY DEF Stock!Apply
<1>3. ASSUME NEW x, NEW todo,
             call' = [call EXCEPT ![c] = Stock!Committed(req, x, todo)]
      PROVE  /\ \A d \in Call \ {c} : call'[d] = call[d]
             /\ call'[c].pc \in {"publishing", "done"} /\ call'[c].reply = x
  <2> DEFINE s == Stock!Committed(req, x, todo)
  <2>1. s.pc \in {"publishing", "done"} /\ s.reply = x
    BY DEF Stock!Committed
  <2>2. call' = [call EXCEPT ![c] = s]
    BY <1>3
  <2> HIDE DEF s
  <2>3. call'[c] = s /\ \A d \in Call \ {c} : call'[d] = call[d]
    BY <2>2 DEF Stock!TypeOK
  <2> QED BY <2>1, <2>3
<1> HIDE DEF req
<1>4. CASE l \in rows /\ Stock!Enough(op, l, q)
  <2>1. /\ uses' = [uses EXCEPT ![op][key] = @ + 1]
        /\ reserved' = [reserved EXCEPT ![l] = @ + Stock!ReservedChange(op, l, q)]
        /\ \E todo : call' = [call EXCEPT ![c] = Stock!Committed(req, "ok", todo)]
    BY <1>1, <1>4 DEF Stock!Apply, req
  <2>2. Stock!ReservedChange(op, l, q) = IF op = "reserve" THEN q ELSE -q
    BY DEF Stock!ReservedChange
  <2>3. /\ \A d \in Call \ {c} : call'[d] = call[d]
        /\ call'[c].pc \in {"publishing", "done"} /\ call'[c].reply = "ok"
    BY <1>3, <2>1
  <2> QED BY <1>2, <1>4, <2>1, <2>2, <2>3
<1>5. CASE ~ (l \in rows /\ Stock!Enough(op, l, q))
  <2>1. /\ UNCHANGED <<uses, reserved>>
        /\ call' = [call EXCEPT ![c] = Stock!Committed(req, "error", {})]
    BY <1>1, <1>5 DEF Stock!Apply, req
  <2>2. /\ \A d \in Call \ {c} : call'[d] = call[d]
        /\ call'[c].pc \in {"publishing", "done"} /\ call'[c].reply = "error"
    BY <1>3, <2>1
  <2> QED BY <1>2, <1>5, <2>1, <2>2
<1> QED BY <1>4, <1>5

\* The call of a request goes on, and the request stays as it is.
LEMMA CallGoesOn ==
    ASSUME HoldInv, InCourse, OwnTypeOK, NEW w \in Worker, NEW c \in Call,
           worker[w].slot = c, worker' = worker,
           \A d \in Call \ {c} : call'[d] = call[d],
           Fits(worker[w], call'[c]),
           Steady(worker[w], row[worker[w].order], uses', call'[c].reply),
           \A q \in Order \ {worker[w].order} : Alike(uses, uses', q),
           UNCHANGED <<row, money>>, Accounts'
    PROVE  HoldInv'
<1> DEFINE n == worker[w]
<1>1. c # NoCall
  BY OrdersAssumption
<1>2. n.step # "rest" /\ n.slot = c /\ n.order = worker[w].order
  BY <1>1 DEF OwnTypeOK, WorkersOK, RequestOK, Calling
<1>3. worker' = [worker EXCEPT ![w] = n]
  BY DEF OwnTypeOK, WorkersOK
<1>4. \A v \in Worker \ {w} : worker[v].slot # c
  BY <1>1 DEF HoldInv, CallsMade, SlotsApart
<1>5. PICK k : k = call'[c]
  OBVIOUS
<1>6. call'[c] = k
  BY <1>5
<1>7. Fits(n, k)
  BY <1>5
<1>8. Steady(n, row[n.order], uses', k.reply)
  BY <1>5
<1>9. \A q \in Order \ {n.order} : Alike(uses, uses', q)
  OBVIOUS
<1>10. worker[w].step # "rest" /\ worker[w].slot \in {NoCall, c}
  BY <1>2
<1> HIDE DEF n
<1> QED BY <1>2, <1>3, <1>4, <1>6, <1>7, <1>8, <1>9, <1>10, CallMoves

\* The transaction of a reservation or a release: a release is never refused,
\* for the units are there.
LEMMA ApplyHolds ==
    ASSUME HoldInv, InCourse, OwnTypeOK, Stock!TypeOK, LinesApart, NEW c \in Call,
           Stock!Apply(c), UNCHANGED <<row, worker, money>>
    PROVE  HoldInv'
<1>1. call[c].pc = "checked"
  BY DEF Stock!Apply
<1>2. PICK w \in Worker : worker[w].slot = c
  BY <1>1 DEF HoldInv, CallsMade
<1>3. c # NoCall
  BY OrdersAssumption
<1> DEFINE r == worker[w]
           o == r.order
           x == row[o]
           i == r.line
           p == Lines[o][i].item
           l == LocOf(o, i)
           qty == Lines[o][i].qty
           key == KeyFor(r)
           op == IF r.step = "reserve" THEN "reserve" ELSE "release"
           item(j) == Lines[o][j].item
           reply == call'[c].reply
<1>4. Fits(r, call[c])
  BY <1>2, <1>3 DEF HoldInv, CallsMade
<1>5. /\ r.step \in {"reserve", "undo", "release"}
      /\ call[c].reply = "none"
      /\ call[c].req = [op |-> op, loc |-> l, qty |-> qty, key |-> key]
  <2>1. r.step \in Calling
    BY <1>2, <1>3 DEF OwnTypeOK, WorkersOK, RequestOK
  <2> QED BY <1>1, <1>4, <2>1 DEF Fits, Calling
<1>6. r.step # "rest" /\ r.step \in Calling \ {"deduct"}
  BY <1>5 DEF Calling
<1>7. r \in Request /\ o \in Order /\ Good(r, x, recorded[o], money[o], o \in notified)
  BY <1>6, Serving
<1>8. Stocked(o) /\ i \in LineNumbers(o)
  BY <1>6 DEF OwnTypeOK, WorkersOK, RequestOK
<1>9. p \in Product /\ p \in Items(o) /\ qty \in Stock!Qty
  BY <1>7, <1>8, LineOf
<1>10. \/ r.step = "reserve" /\ r.kind = "create"
       \/ r.step = "undo" /\ r.kind = "create"
       \/ r.step = "release" /\ r.kind = "status"
  BY <1>5, <1>7 DEF Good, Course
<1>11. Steady(r, x, uses, "none")
  BY <1>2, <1>3, <1>5, <1>6 DEF HoldInv, LinesKnown, ReplyOf
<1>12. i \in Int
  <2>1. LineNumbers(o) \in SUBSET Nat
    BY <1>7, FirstLine
  <2> QED BY <1>8, <2>1
<1>13. Owns(r, x, i) <=> r.step # "reserve"
  <2>1. r.step = "reserve" => i \notin r.got
    <3>1. r.step = "reserve" => \A j \in r.got : j < i
      BY <1>10, <1>11 DEF Steady, Path
    <3> QED BY <1>12, <3>1
  <2>2. r.step = "undo" => i \in r.got
    BY <1>10, <1>11 DEF Steady, Path
  <2>3. i >= i
    BY <1>12
  <2> QED BY <1>10, <2>1, <2>2, <2>3 DEF Owns
<1>14. \A j : ~ Moved(r, "none", j) /\ ~ Moved(r, "error", j)
              /\ (Moved(r, "ok", j) <=> j = i)
  BY <1>6, <1>10 DEF Moved
<1>15. /\ \A j \in LineNumbers(o) : Holds(uses, o, item(j)) <=> Owns(r, x, j)
       /\ r.step = "reserve" => \A j \in LineNumbers(o) :
             j \notin r.got => Fresh(uses, o, item(j))
  BY <1>8, <1>10, <1>11, <1>14 DEF Steady
<1>16. Holds(uses, o, p) <=> r.step # "reserve"
  BY <1>8, <1>13, <1>15
<1>17. r.step = "reserve" => Fresh(uses, o, p)
  BY <1>8, <1>10, <1>13, <1>15 DEF Owns
<1>18. r.step # "reserve" => l \in rows /\ Stock!Enough(op, l, qty)
  <2> SUFFICES ASSUME r.step # "reserve"
               PROVE  l \in rows /\ Stock!Enough(op, l, qty)
    OBVIOUS
  <2>1. Accounts /\ Holds(uses, o, p)
    BY <1>16 DEF HoldInv
  <2>2. l \in rows /\ reserved[l] >= qty
    BY <1>7, <1>8, <2>1, HeldThere
  <2> QED BY <2>2 DEF Stock!Enough
<1> DEFINE tag == key[1]
<1>19. /\ op \in {"reserve", "release"} /\ key = <<tag, o, p>> /\ key # NoKey
       /\ tag \in {"reserve", "release", "compensate"} /\ (op = "reserve" <=> tag = "reserve")
       /\ op = "reserve" <=> r.step = "reserve"
  <2>1. \/ r.step = "reserve" /\ key = <<"reserve", o, p>>
        \/ r.step = "undo" /\ key = <<"compensate", o, p>>
        \/ r.step = "release" /\ key = <<"release", o, p>>
    BY <1>10 DEF KeyFor
  <2>2. key \in StockKey
    <3> HIDE DEF key, p, o
    <3> QED BY <1>7, <1>9, <2>1 DEF StockKey
  <2>3. key # NoKey
    BY <2>2, StockAssumption DEF Stock!InventoryAssumption
  <2> HIDE DEF key
  <2> QED BY <2>1, <2>3
<1> HIDE DEF x, l, qty, key, op, p, tag
<1> DEFINE done == l \in rows /\ Stock!Enough(op, l, qty)
<1>20. /\ UNCHANGED rows
       /\ \A d \in Call \ {c} : call'[d] = call[d]
       /\ call'[c].pc \in {"publishing", "done"}
       /\ reply = IF done THEN "ok" ELSE "error"
       /\ IF done
          THEN /\ uses' = [uses EXCEPT ![op][key] = @ + 1]
               /\ reserved' = [reserved EXCEPT
                                 ![l] = @ + IF op = "reserve" THEN qty ELSE -qty]
          ELSE UNCHANGED <<uses, reserved>>
  BY <1>5, <1>19, ApplyMade
<1>21. Fits(r, call'[c])
  <2>1. r.step # "reserve" => reply = "ok"
    BY <1>18, <1>20
  <2>2. reply \in {"ok", "error"}
    BY <1>20
  <2> QED BY <1>5, <1>10, <1>20, <2>1, <2>2 DEF Fits
<1> HIDE DEF reply
<1>22. CASE ~ done
  <2>1. uses' = uses /\ reserved' = reserved /\ rows' = rows /\ reply = "error"
    BY <1>20, <1>22
  <2>2. Steady(r, x, uses', reply)
    BY <1>11, <1>14, <2>1 DEF Steady
  <2>3. \A q \in Order \ {o} : Alike(uses, uses', q)
    BY <2>1 DEF Alike
  <2>4. Accounts'
    BY <2>1 DEF HoldInv, Accounts, Holding, Holds, LetGo
  <2> QED BY <1>2, <1>20, <1>21, <2>2, <2>3, <2>4, CallGoesOn DEF x, reply
<1>23. CASE done
  <2>1. uses' = [uses EXCEPT ![op][key] = @ + 1] /\ rows' = rows /\ reply = "ok"
    BY <1>20, <1>23
  <2>2. reserved' = [reserved EXCEPT ![l] = @ + IF op = "reserve" THEN qty ELSE -qty]
    BY <1>20, <1>23
  <2>3. /\ \A q \in Order, z \in Product : q # o \/ z # p =>
             /\ Holds(uses', q, z) <=> Holds(uses, q, z)
             /\ Fresh(uses', q, z) <=> Fresh(uses, q, z)
        /\ op = "reserve" /\ Fresh(uses, o, p) => Holds(uses', o, p)
        /\ op = "release" => ~ Holds(uses', o, p)
    <3>1. uses' = [uses EXCEPT ![op][<<tag, o, p>>] = @ + 1]
      BY <1>19, <2>1
    <3> HIDE DEF o
    <3> QED BY <1>7, <1>9, <1>19, <3>1, KeyRecorded
  <2>4. Holds(uses', o, p) <=> r.step = "reserve"
    BY <1>17, <1>19, <2>3
  <2>5. \A q \in Order \ {o} : Alike(uses, uses', q)
    BY <2>3 DEF Alike
  <2>6. Steady(r, x, uses', reply)
    <3>1. ASSUME NEW j \in LineNumbers(o)
          PROVE  /\ Holds(uses', o, item(j)) <=> (Owns(r, x, j) <=> ~ Moved(r, reply, j))
                 /\ r.kind = "create" /\ r.step = "reserve" /\ j \notin r.got
                      /\ ~ Moved(r, reply, j) => Fresh(uses', o, item(j))
      <4>1. CASE j = i
        BY <1>13, <1>14, <2>1, <2>4, <4>1 DEF p
      <4>2. CASE j # i
        <5>1. item(j) # p /\ item(j) \in Product
          BY <1>7, <1>8, <4>2, LineOf DEF LinesApart, p
        <5>2. /\ Holds(uses', o, item(j)) <=> Holds(uses, o, item(j))
              /\ Fresh(uses', o, item(j)) <=> Fresh(uses, o, item(j))
          BY <1>7, <2>3, <5>1
        <5> QED BY <1>14, <1>15, <2>1, <4>2, <5>2
      <4> QED BY <4>1, <4>2
    <3>2. Path(r, x)
      BY <1>11 DEF Steady
    <3> QED BY <3>1, <3>2 DEF Steady
  <2>7. Accounts'
    <3>1. Accounts
      BY DEF HoldInv
    <3>2. \A q \in Order \ {o}, z \in Product :
             Holds(uses', q, z) <=> Holds(uses, q, z)
      BY <2>3
    <3>3. reserved \in [Stock!Loc -> Int] /\ l \in rows /\ rows \subseteq Stock!Loc
      BY <1>23 DEF Stock!TypeOK
    <3>4. ASSUME NEW m \in Stock!Loc
          PROVE  reserved'[m] = reserved[m]
                   + (IF Holds(uses', o, m[1]) THEN Wants(o, m) ELSE 0)
                   - (IF Holds(uses, o, m[1]) THEN Wants(o, m) ELSE 0)
      <4>1. reserved[m] \in Int /\ m[1] \in Product
        BY <3>3 DEF Stock!Loc
      <4>2. reserved'[m] = IF m = l
               THEN reserved[m] + IF r.step = "reserve" THEN qty ELSE -qty
               ELSE reserved[m]
        BY <1>19, <2>2, <3>3
      <4>3. Wants(o, m) \in Nat
        BY <1>7, WantsLine
      <4>4. CASE m[1] = p
        <5>1. Wants(o, m) = IF m = l THEN qty ELSE 0
          BY <1>7, <1>8, <4>4, WantsLine DEF p, l, qty
        <5>2. /\ Holds(uses', o, m[1]) <=> r.step = "reserve"
              /\ Holds(uses, o, m[1]) <=> r.step # "reserve"
          BY <1>16, <2>4, <4>4
        <5>3. qty \in Int
          BY <1>9 DEF Stock!Qty
        <5> QED BY <4>1, <4>2, <5>1, <5>2, <5>3
      <4>5. CASE m[1] # p
        <5>1. Holds(uses', o, m[1]) <=> Holds(uses, o, m[1])
          BY <1>7, <2>3, <4>1, <4>5
        <5>2. m # l
          BY <4>5 DEF l, p, LocOf
        <5> QED BY <4>1, <4>2, <4>3, <5>1, <5>2
      <4> QED BY <4>4, <4>5
    <3>5. \A m \in Stock!Loc \ rows : reserved'[m] = 0
      <4> SUFFICES ASSUME NEW m \in Stock!Loc \ rows
                   PROVE  reserved'[m] = 0
        OBVIOUS
      <4>1. m # l /\ reserved[m] = 0
        BY <3>1, <3>3 DEF Accounts
      <4> QED BY <2>2, <3>3, <4>1
    <3>6. UNCHANGED rows
      BY <2>1
    <3> HIDE DEF o
    <3> QED BY <1>7, <3>1, <3>2, <3>4, <3>5, <3>6, AccountsMove
  <2> QED BY <1>2, <1>20, <1>21, <2>5, <2>6, <2>7, CallGoesOn DEF x, reply
<1> QED BY <1>22, <1>23

\* Inventory goes on with its calls; none dies.
LEMMA ServeHolds ==
    ASSUME HoldInv, InCourse, OwnTypeOK, Stock!TypeOK, LinesApart, Smooth,
           NEW c \in Call, Serve(c)
    PROVE  HoldInv'
<1>1. UNCHANGED <<row, worker, money>>
  BY DEF Serve, orderVars, awayVars
<1>2. \A w \in Worker : worker[w].slot \in Call \cup {NoCall}
  BY DEF OwnTypeOK, WorkersOK, Request
<1>3. CASE Stock!Apply(c)
  BY <1>1, <1>3, ApplyHolds
<1>4. CASE Stock!Announce(c)
  <2>1. PICK todo : call' = [call EXCEPT ![c] =
                               Stock!Committed(call[c].req, call[c].reply, todo)]
    <3> HIDE DEF Stock!Committed
    <3> QED BY <1>4 DEF Stock!Announce
  <2> DEFINE s == Stock!Committed(call[c].req, call[c].reply, todo)
  <2>2. s.pc \in {"publishing", "done"} /\ s.reply = call[c].reply
    BY DEF Stock!Committed
  <2>3. call' = [call EXCEPT ![c] = s]
    BY <2>1
  <2> HIDE DEF s
  <2>4. call'[c] = s /\ \A d \in Call \ {c} : call'[d] = call[d]
    BY <2>3 DEF Stock!TypeOK
  <2>5. call[c].pc = "publishing" /\ UNCHANGED <<uses, reserved, rows>>
    BY <1>4 DEF Stock!Announce, Stock!stockVars
  <2>6. CASE \E w \in Worker : worker[w].slot = c
    <3>1. PICK w \in Worker : worker[w].slot = c
      BY <2>6
    <3>2. c # NoCall
      BY OrdersAssumption
    <3>3. worker[w].step # "rest"
      BY <3>1, <3>2 DEF OwnTypeOK, WorkersOK, RequestOK, Calling
    <3>4. Fits(worker[w], call[c])
      BY <3>1, <3>2 DEF HoldInv, CallsMade
    <3>5. Fits(worker[w], call'[c])
      BY <2>2, <2>4, <2>5, <3>4 DEF Fits
    <3>6. Steady(worker[w], row[worker[w].order], uses, call[c].reply)
      BY <3>1, <3>2, <3>3 DEF HoldInv, LinesKnown, ReplyOf
    <3>7. Steady(worker[w], row[worker[w].order], uses', call'[c].reply)
      <4>1. call'[c].reply = call[c].reply /\ uses' = uses
        BY <2>2, <2>4, <2>5
      <4> QED BY <3>6, <4>1
    <3>8. \A q \in Order \ {worker[w].order} : Alike(uses, uses', q)
      BY <2>5 DEF Alike
    <3>9. Accounts'
      BY <2>5 DEF HoldInv, Accounts, Holding, Holds, LetGo
    <3> QED BY <1>1, <2>4, <3>1, <3>5, <3>7, <3>8, <3>9, CallGoesOn
  <2>7. CASE \A w \in Worker : worker[w].slot # c
    <3>1. call'[c].pc # "checked"
      BY <2>2, <2>4
    <3> QED BY <1>1, <1>2, <2>4, <2>5, <2>7, <3>1, StrayMoves
  <2> QED BY <2>6, <2>7
<1>5. CASE Stock!Crash(c)
  BY <1>5 DEF Stock!Crash, Smooth
<1>6. CASE (\A w \in Worker : worker[w].slot # c) /\ Stock!Collect(c)
  <2>1. call' = [call EXCEPT ![c] = Stock!Idle] /\ UNCHANGED <<uses, reserved, rows>>
    BY <1>6 DEF Stock!Collect, Stock!stockVars
  <2>2. call'[c] = Stock!Idle /\ \A d \in Call \ {c} : call'[d] = call[d]
    BY <2>1 DEF Stock!TypeOK
  <2>3. call'[c].pc # "checked"
    BY <2>2 DEF Stock!Idle
  <2> QED BY <1>1, <1>2, <1>6, <2>1, <2>2, <2>3, StrayMoves
<1> QED BY <1>3, <1>4, <1>5, <1>6 DEF Serve

LEMMA HoldStep ==
    ASSUME HoldInv, InCourse, OwnTypeOK, Stock!TypeOK, LinesApart, Smooth, NoneAdrift,
           [Next]_vars
    PROVE  HoldInv'
<1>1. UNCHANGED stockVars => UNCHANGED <<call, uses, reserved, rows>>
  BY DEF stockVars
<1>2. CASE UNCHANGED vars
  <2>1. UNCHANGED <<row, worker, call, uses, reserved, rows>> /\ UNCHANGED money
    BY <1>1, <1>2 DEF vars, orderVars, awayVars
  <2>2. \A q \in Till : money'[q] = money[q]
    BY <2>1
  <2> QED BY <2>1, <2>2, HoldKept
<1>3. ASSUME NEW w \in Worker, NoAnswer(w) \/ Die(w) PROVE HoldInv'
  BY <1>3 DEF NoAnswer, Die, Smooth
<1>4. ASSUME NEW o \in Order, Pay(o) PROVE HoldInv'
  <2>1. UNCHANGED <<row, worker, call, uses, reserved, rows>> /\ UNCHANGED money
    BY <1>1, <1>4 DEF Pay, orderVars
  <2>2. \A q \in Till : money'[q] = money[q]
    BY <2>1
  <2> QED BY <2>1, <2>2, HoldKept
<1>5. \A c \in Call, d \in Deduction : ~ Arrive(c, d)
  BY DEF Arrive, NoneAdrift
<1>6. CASE Next
  BY <1>3, <1>4, <1>5, <1>6, ArrivalHolds, TransactionHolds, SendHolds, AnswerHolds,
     PaymentHolds, ServeHolds DEF Next
<1> QED BY <1>2, <1>6

\* Without timeouts and crashes no deduction is abandoned.
LEMMA NoneSetAdrift ==
    ASSUME NoneAdrift, Smooth, [Next]_vars
    PROVE  NoneAdrift'
<1>1. UNCHANGED adrift => NoneAdrift'
  BY DEF NoneAdrift
<1>2. CASE UNCHANGED vars
  BY <1>1, <1>2 DEF vars, awayVars
<1>3. ASSUME NEW w \in Worker,
             Arrival(w) \/ Transaction(w) \/ Send(w) \/ Answer(w)
      PROVE  UNCHANGED adrift
  BY <1>3 DEF Arrival, Create, Ring, Placed, AskStatus, Webhook, PickStuck,
     Transaction, Change, Revert, Record, MarkPaid, Refund, Unpay, CancelStuck, Complete,
     Send, Answer, awayVars
<1>4. ASSUME NEW w \in Worker, NoAnswer(w) \/ Die(w) PROVE FALSE
  BY <1>4 DEF NoAnswer, Die, Smooth
<1>5. ASSUME NEW o \in Order, Pay(o) \/ CustomerPays(o) PROVE UNCHANGED adrift
  BY <1>5 DEF Pay, CustomerPays
<1>6. ASSUME NEW c \in Call, Serve(c) PROVE UNCHANGED adrift
  BY <1>6 DEF Serve, awayVars
<1>7. \A c \in Call, d \in Deduction : ~ Arrive(c, d)
  BY DEF Arrive, NoneAdrift
<1>8. CASE Next
  BY <1>1, <1>3, <1>4, <1>5, <1>6, <1>7, <1>8 DEF Next
<1> QED BY <1>2, <1>8

LEMMA HoldInit == Init => HoldInv
<1> SUFFICES ASSUME Init PROVE HoldInv
  OBVIOUS
<1>1. \A w \in Worker : worker[w].slot = NoCall /\ worker[w].step = "rest"
  BY DEF Init, Resting
<1>2. \A c \in Call : call[c].pc = "idle"
  BY DEF Init, Stock!Init, Stock!Idle
<1>3. \A o \in Order : row[o] = NoRow /\ money[o] = "none"
  BY DEF Init
<1>4. \A o \in Order, p \in Product : Fresh(uses, o, p) /\ ~ Holds(uses, o, p)
  <2>1. \A t \in {"reserve", "release", "deduct"} : \A k \in Stock!AnyKey :
           uses[t][k] = 0
    BY DEF Init, Stock!Init, Stock!MovementType, Stock!SingleOp
  <2>2. ASSUME NEW o \in Order, NEW p \in Product
        PROVE  /\ <<"reserve", o, p>> \in Stock!AnyKey
               /\ <<"release", o, p>> \in Stock!AnyKey
               /\ <<"compensate", o, p>> \in Stock!AnyKey
               /\ <<DeductKey(o), p>> \in Stock!AnyKey
    BY DEF Stock!AnyKey, Stock!ItemKey, DeductKey, StockKey
  <2> SUFFICES ASSUME NEW o \in Order, NEW p \in Product
               PROVE  Fresh(uses, o, p) /\ ~ Holds(uses, o, p)
    OBVIOUS
  <2>3. /\ uses["reserve"][<<"reserve", o, p>>] = 0
        /\ uses["release"][<<"release", o, p>>] = 0
        /\ uses["release"][<<"compensate", o, p>>] = 0
        /\ uses["deduct"][<<DeductKey(o), p>>] = 0
    BY <2>1, <2>2
  <2>4. ~ (0 > 0)
    OBVIOUS
  <2> QED BY <2>3, <2>4, Zenon DEF Fresh, Holds, LetGo
<1>5. CallsMade
  BY <1>1, <1>2 DEF CallsMade, SlotsApart
<1>6. LinesKnown
  <2>1. ASSUME NEW o \in Order
        PROVE  Settled(o, row[o], uses)
    <3>1. row[o].status = "none" /\ row[o].pay = "unpaid"
      BY <1>3 DEF NoRow
    <3>2. ~ Stands(o, row[o])
      BY <3>1 DEF Stands
    <3>3. \A i \in LineNumbers(o) : Lines[o][i].item \in Product
      BY LineOf
    <3> QED BY <1>4, <3>1, <3>2, <3>3 DEF Settled
  <2> QED BY <1>1, <2>1 DEF LinesKnown
<1>7. Placings
  <2>1. {o \in Order : row[o] # NoRow} = {}
    BY <1>3
  <2> QED BY <1>3, <2>1, FS_EmptySet, OrdersAssumption DEF Placings
<1>8. Accounts
  <2>1. \A p \in Product : Holding(p) = {}
    BY <1>4 DEF Holding
  <2>2. \A l \in Stock!Loc : reserved[l] = 0 /\ l[1] \in Product
    BY DEF Init, Stock!Init, Stock!Loc
  <2>3. \A l \in Stock!Loc : AllWant({}, l) = 0
    BY AllWantIsSum, SumEmpty
  <2> QED BY <2>1, <2>2, <2>3, FS_EmptySet DEF Accounts
<1> QED BY <1>5, <1>6, <1>7, <1>8 DEF HoldInv

\* Orders that want nothing do not count.
LEMMA WantsSame ==
    ASSUME LinesApart, NEW S \in SUBSET Order, IsFiniteSet(S),
           NEW T \in SUBSET Order, IsFiniteSet(T), NEW l \in Stock!Loc,
           \A o \in Order : Wants(o, l) # 0 => (o \in S <=> o \in T)
    PROVE  AllWant(S, l) = AllWant(T, l)
<1> DEFINE U == S \cup T
           f == [o \in S |-> Wants(o, l)]
           g == [o \in T |-> Wants(o, l)]
           h == [o \in U |-> Wants(o, l)]
<1>1. IsFiniteSet(U)
  BY FS_Union
<1>2. \A o \in Order : Wants(o, l) \in Int
  BY WantsLine
<1>3. /\ \A o \in S : f[o] \in Int
      /\ \A o \in T : g[o] \in Int
      /\ \A o \in U : h[o] = IF o \in S THEN f[o] ELSE 0
      /\ \A o \in U : h[o] = IF o \in T THEN g[o] ELSE 0
  BY <1>2
<1>4. S \in SUBSET U /\ T \in SUBSET U
  OBVIOUS
<1>5. AllWant(S, l) = SumOver(f, S) /\ AllWant(T, l) = SumOver(g, T)
  BY AllWantIsSum
<1> HIDE DEF U, f, g, h
<1>6. SumOver(f, S) = SumOver(h, U)
  BY <1>1, <1>3, <1>4, SumPart
<1>7. SumOver(g, T) = SumOver(h, U)
  BY <1>1, <1>3, <1>4, SumPart
<1> QED BY <1>5, <1>6, <1>7

\* When nobody works on any order, those that hold units are the open ones and
\* those the webhook gave up.
LEMMA HoldingIsAccounted ==
    ASSUME HoldInv, LinesApart
    PROVE  ReservedAccounted
<1> DEFINE Opens == {o \in Order : Open(o) \/ Forfeited(o)}
<1> SUFFICES ASSUME Quiet, NEW l \in Stock!Loc
             PROVE  reserved[l] = AllWant(Opens, l)
  BY DEF ReservedAccounted
<1> DEFINE S == Holding(l[1])
<1>1. l[1] \in Product
  BY DEF Stock!Loc
<1>2. reserved[l] = AllWant(S, l) /\ IsFiniteSet(S) /\ S \in SUBSET Order
  BY <1>1 DEF HoldInv, Accounts, Holding
<1>3. IsFiniteSet(Opens) /\ Opens \in SUBSET Order
  <2>1. Opens \subseteq {o \in Order : row[o] # NoRow}
    BY DEF Open, Forfeited, NoRow
  <2> QED BY <2>1, FS_Subset DEF HoldInv, Placings
<1>4. ASSUME NEW o \in Order, Wants(o, l) # 0
      PROVE  o \in S <=> o \in Opens
  <2>1. Stocked(o) /\ l[1] \in Items(o)
    BY <1>4, WantsLine
  <2>2. PICK i \in LineNumbers(o) : l[1] = Lines[o][i].item
    BY <2>1 DEF Items
  <2>3. Settled(o, row[o], uses)
    BY DEF HoldInv, LinesKnown, Working, Quiet
  <2>4. Holds(uses, o, l[1]) <=> Stands(o, row[o])
    BY <2>1, <2>2, <2>3 DEF Settled
  <2>5. Forfeited(o) => o \notin Till
    BY <2>3 DEF Settled, Forfeited
  <2>6. Stands(o, row[o]) <=> Open(o) \/ Forfeited(o)
    BY <2>5 DEF Stands, Open, Forfeited
  <2> QED BY <2>4, <2>6 DEF Holding
<1> HIDE DEF S, Opens
<1>5. AllWant(S, l) = AllWant(Opens, l)
  BY <1>2, <1>3, <1>4, WantsSame
<1> QED BY <1>2, <1>5

\* HoldInv is an invariant of the saga.
LEMMA HoldAlways ==
    ASSUME Smooth, LinesApart
    PROVE  Spec => []HoldInv
<1>1. Undisturbed
  BY DEF Smooth, Undisturbed
<1>2. \A o \in Order : \A p \in Items(o) : Units(o, p) \in Stock!Qty
  BY UnitsFit
<1>3. Init => OwnTypeOK /\ InCourse /\ HoldInv /\ NoneAdrift
  <2>1. Init => NoneAdrift
    BY DEF Init, NoneAdrift
  <2> QED BY <2>1, InitOK, CourseInit, HoldInit
<1>4. OwnTypeOK /\ InCourse /\ HoldInv /\ NoneAdrift /\ TypeOK /\ [Next]_vars
        => (OwnTypeOK /\ InCourse /\ HoldInv /\ NoneAdrift)'
  <2> SUFFICES ASSUME OwnTypeOK, InCourse, HoldInv, NoneAdrift, TypeOK, [Next]_vars
               PROVE  OwnTypeOK' /\ InCourse' /\ HoldInv' /\ NoneAdrift'
    OBVIOUS
  <2>1. Stock!TypeOK
    BY DEF TypeOK
  <2>2. HoldInv'
    BY <2>1, HoldStep
  <2>3. OwnTypeOK'
    BY <1>2, SagaStep
  <2>4. InCourse'
    BY <1>1, CourseStep
  <2>5. NoneAdrift'
    BY NoneSetAdrift
  <2> QED BY <2>2, <2>3, <2>4, <2>5
<1>5. Spec => []TypeOK
  BY <1>2, TypeCorrect
<1> QED BY <1>3, <1>4, <1>5, PTL DEF Spec

\* What is reserved at a location when nothing is in progress is what the open
\* orders want there, plus what the orders want that the webhook gave up: their
\* units stay reserved.  Creations that fail half-way and are compensated,
\* cancellations, shipments put back and the clean-up command leave no other
\* unit reserved, and none missing.
THEOREM ReservedIsAccounted ==
    ASSUME Smooth, LinesApart
    PROVE  Spec => []ReservedAccounted
<1>1. HoldInv => ReservedAccounted
  BY HoldingIsAccounted
<1>2. Spec => []HoldInv
  BY HoldAlways
<1> QED BY <1>1, <1>2, PTL
=============================================================================

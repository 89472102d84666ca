---------------------------- MODULE InventoryProofs ----------------------------
(***************************************************************************)
(* What holds of Inventory for every set of products, warehouses, keys and *)
(* concurrent requests, and every bound.                                   *)
(***************************************************************************)
EXTENDS Inventory, Sums, TLAPS

-----------------------------------------------------------------------------
(* Tables of integers, and what an update of one entry leaves. *)

LEMMA EntryAdded ==
    ASSUME NEW S, NEW T, NEW f \in [S -> [T -> Int]], NEW s \in S, NEW t \in T,
           NEW n \in Int
    PROVE  [f EXCEPT ![s][t] = @ + n] \in [S -> [T -> Int]]
OBVIOUS

LEMMA EntryCounted ==
    ASSUME NEW S, NEW T, NEW f \in [S -> [T -> Nat]], NEW s \in S, NEW t \in T
    PROVE  [f EXCEPT ![s][t] = @ + 1] \in [S -> [T -> Nat]]
<1>1. f[s] \in [T -> Nat] /\ f[s][t] \in Nat
  OBVIOUS
<1>2. [f[s] EXCEPT ![t] = @ + 1] \in [T -> Nat]
  BY <1>1
<1> QED BY <1>2

LEMMA EntryCountedAt ==
    ASSUME NEW S, NEW T, NEW f \in [S -> [T -> Nat]], NEW s \in S, NEW t \in T,
           NEW u \in S, NEW v \in T
    PROVE  [f EXCEPT ![s][t] = @ + 1][u][v]
             = IF u = s /\ v = t THEN f[u][v] + 1 ELSE f[u][v]
<1>1. CASE u # s
  BY <1>1
<1>2. CASE u = s
  <2>1. [f EXCEPT ![s][t] = @ + 1][u] = [f[s] EXCEPT ![t] = @ + 1]
    BY <1>2
  <2>2. f[s] \in [T -> Nat]
    OBVIOUS
  <2> QED BY <1>2, <2>1, <2>2
<1> QED BY <1>1, <1>2

-----------------------------------------------------------------------------
(* Typing. *)

LEMMA CommittedType ==
    ASSUME NEW req \in Request \cup {NoRequest}, NEW r \in Reply,
           NEW todo \in SUBSET Announcement
    PROVE  /\ Committed(req, r, todo) \in CallState
           /\ Committed(req, r, todo).pc # "checked"
BY DEF Committed, CallState

LEMMA CommittedFields ==
    ASSUME NEW q, NEW r, NEW todo
    PROVE  Committed(q, r, todo).req = q /\ Committed(q, r, todo).reply = r
BY DEF Committed

\* A step that replaces one call by a well-formed one keeps "call" typed.
LEMMA CallReplaced ==
    ASSUME TypeOK, NEW c \in Call, NEW r \in CallState,
           r.pc = "checked" => r.req \in Request,
           call' = [call EXCEPT ![c] = r]
    PROVE  /\ call' \in [Call -> CallState]
           /\ \A d \in Call : call'[d].pc = "checked" => call'[d].req \in Request
BY DEF TypeOK

LEMMA ChangeType ==
    ASSUME NEW op \in SingleOp, NEW l \in Loc, NEW q \in Qty, TypeOK
    PROVE  /\ QuantityChange(op, q) \in Int
           /\ ReservedChange(op, l, q) \in Int
           /\ Owes(op, l, q) \in SUBSET Announcement
<1> USE InventoryAssumption DEF SingleOp, Qty
<1>1. QuantityChange(op, q) \in Int
  BY DEF QuantityChange
<1>2. ReservedChange(op, l, q) \in Int
  BY DEF ReservedChange, Lesser, TypeOK
<1>3. Owes(op, l, q) \in SUBSET Announcement
  BY DEF Owes, Announcement, Event
<1> QED BY <1>1, <1>2, <1>3

LEMMA LowAfterType == ASSUME NEW f PROVE LowAfter(f) \subseteq Loc
BY DEF LowAfter

LEMMA BeginType ==
    ASSUME TypeOK, NEW c \in Call, NEW op \in SingleOp, NEW l \in Loc,
           NEW q \in Qty, NEW k \in Key \cup {NoKey}, Begin(c, op, l, q, k)
    PROVE  TypeOK'
<1> DEFINE req == [op |-> op, loc |-> l, qty |-> q, key |-> k]
           C1 == Committed(req, "conflict", {})
           C2 == [pc |-> "checked", req |-> req, reply |-> "none", todo |-> {}]
<1>1. req \in Request
  BY DEF Request
<1>2. C1 \in CallState /\ C1.pc # "checked"
  BY <1>1, CommittedType DEF Reply
<1>3. C2 \in CallState /\ C2.req \in Request
  BY <1>1 DEF Reply, CallState
<1>4. \E r \in {C1, C2} : call' = [call EXCEPT ![c] = r]
  BY DEF Begin
<1>5. /\ call' \in [Call -> CallState]
      /\ \A d \in Call : call'[d].pc = "checked" => call'[d].req \in Request
  <2> HIDE DEF C1, C2
  <2> QED BY <1>2, <1>3, <1>4, CallReplaced
<1> QED
  BY <1>5 DEF Begin, TypeOK, stockVars, busVars

LEMMA ApplyType ==
    ASSUME TypeOK, NEW c \in Call, Apply(c)
    PROVE  TypeOK'
<1> DEFINE req == call[c].req
           l == req.loc
           new == Committed(req, "ok", Owes(req.op, l, req.qty))
           bad == Committed(req, "error", {})
<1>1. /\ req \in Request /\ req.op \in SingleOp /\ req.qty \in Qty
      /\ l \in Loc /\ req.key \in Key \cup {NoKey}
  BY DEF TypeOK, Apply, Request
<1>2. /\ QuantityChange(req.op, req.qty) \in Int
      /\ ReservedChange(req.op, l, req.qty) \in Int
      /\ Owes(req.op, l, req.qty) \in SUBSET Announcement
  BY <1>1, ChangeType
<1>3. \A r \in {new, bad} : r \in CallState /\ r.pc # "checked"
  BY <1>1, <1>2, CommittedType DEF Reply
<1>4. \E r \in {new, bad} : call' = [call EXCEPT ![c] = r]
  BY DEF Apply
<1>5. /\ call' \in [Call -> CallState]
      /\ \A d \in Call : call'[d].pc = "checked" => call'[d].req \in Request
  <2> HIDE DEF new, bad
  <2> QED BY <1>3, <1>4, CallReplaced
<1>6. quantity' \in [Loc -> Int] /\ reserved' \in [Loc -> Int]
  BY <1>1, <1>2 DEF Apply, TypeOK
<1>7. uses' \in [MovementType -> [AnyKey -> Nat]]
  <2>1. req.op \in MovementType
    BY <1>1 DEF MovementType
  <2>2. \/ uses' = uses
        \/ req.key # NoKey /\ uses' = [uses EXCEPT ![req.op][req.key] = @ + 1]
    BY DEF Apply
  <2>3. req.key # NoKey => req.key \in AnyKey
    BY <1>1 DEF AnyKey
  <2>4. uses \in [MovementType -> [AnyKey -> Nat]]
    BY DEF TypeOK
  <2>5. req.key \in AnyKey =>
          [uses EXCEPT ![req.op][req.key] = @ + 1]
              \in [MovementType -> [AnyKey -> Nat]]
    <3> HIDE DEF req
    <3> QED BY <2>1, <2>4, EntryCounted
  <2> QED BY <2>2, <2>3, <2>4, <2>5
<1>8. ledger' \in [MovementType -> [Loc -> Int]]
  <2> DEFINE dq == QuantityChange(req.op, req.qty)
  <2>1. req.op \in MovementType
    BY <1>1 DEF MovementType
  <2>2. \/ ledger' = ledger
        \/ ledger' = [ledger EXCEPT ![req.op][l] = @ + dq]
    BY DEF Apply
  <2>3. dq \in Int
    BY <1>2
  <2>4. ledger \in [MovementType -> [Loc -> Int]]
    BY DEF TypeOK
  <2>5. [ledger EXCEPT ![req.op][l] = @ + dq] \in [MovementType -> [Loc -> Int]]
    <3> HIDE DEF dq, req, l
    <3> QED BY <1>1, <2>1, <2>3, <2>4, EntryAdded
  <2> QED BY <2>2, <2>4, <2>5
<1>9. lowSince' \subseteq Loc
  BY LowAfterType DEF Apply, TypeOK
<1> QED
  BY <1>5, <1>6, <1>7, <1>8, <1>9 DEF Apply, TypeOK

LEMMA DeductBatchType ==
    ASSUME TypeOK, NEW c \in Call, NEW w \in Warehouse, NEW wanted \in Batches,
           NEW k \in Key \cup {NoKey}, NEW b \in BOOLEAN,
           DeductBatch(c, w, wanted, k, b)
    PROVE  TypeOK'
<1> DEFINE items == DOMAIN wanted
           todo == {[event |-> "deducted", loc |-> <<p, w>>, n |-> -wanted[p]] :
                       p \in items}
           taken == [l \in Loc |->
                       IF l[2] = w /\ l[1] \in items THEN wanted[l[1]] ELSE 0]
           R == {Committed(NoRequest, "ok", todo),
                 Committed(NoRequest, "conflict", {}),
                 Committed(NoRequest, "error", {})}
<1>1. items \subseteq Product /\ \A p \in items : wanted[p] \in Qty
  BY DEF Batches
<1>2. taken \in [Loc -> Int]
  BY <1>1, InventoryAssumption DEF Qty
<1>3. todo \subseteq Announcement
  BY <1>1, InventoryAssumption DEF Announcement, Qty, Loc
<1>4. \A r \in R : r \in CallState /\ r.pc # "checked"
  <2> HIDE DEF todo
  <2> QED BY <1>3, CommittedType DEF Reply
<1>5. \E r \in R : call' = [call EXCEPT ![c] = r]
  BY DEF DeductBatch
<1>6. /\ call' \in [Call -> CallState]
      /\ \A d \in Call : call'[d].pc = "checked" => call'[d].req \in Request
  <2> HIDE DEF R
  <2> QED BY <1>4, <1>5, CallReplaced
<1>7. quantity' \in [Loc -> Int] /\ reserved' \in [Loc -> Int]
  <2>1. \/ UNCHANGED <<quantity, reserved>>
        \/ /\ quantity' = [l \in Loc |-> quantity[l] - taken[l]]
           /\ reserved' = [l \in Loc |->
                 reserved[l] - (IF b THEN taken[l] ELSE 0)]
    BY DEF DeductBatch
  <2> HIDE DEF taken
  <2> QED BY <1>2, <2>1 DEF TypeOK
<1>8. uses' \in [MovementType -> [AnyKey -> Nat]]
  <2> DEFINE more == [x \in AnyKey |->
                 IF k # NoKey /\ \E p \in items : x = <<k, p>>
                 THEN uses["deduct"][x] + 1 ELSE uses["deduct"][x]]
  <2>1. uses' = uses \/ uses' = [uses EXCEPT !["deduct"] = more]
    BY DEF DeductBatch
  <2>2. "deduct" \in MovementType
    BY DEF MovementType, SingleOp
  <2>3. more \in [AnyKey -> Nat]
    BY <2>2 DEF TypeOK
  <2> HIDE DEF more
  <2> QED BY <2>1, <2>2, <2>3 DEF TypeOK
<1>9. ledger' \in [MovementType -> [Loc -> Int]]
  <2>1. \/ UNCHANGED ledger
        \/ ledger' = [ledger EXCEPT !["deduct"] =
                        [l \in Loc |-> @[l] - taken[l]]]
    BY DEF DeductBatch
  <2> HIDE DEF taken
  <2> QED BY <1>2, <2>1 DEF TypeOK, MovementType, SingleOp
<1>10. lowSince' \subseteq Loc
  BY LowAfterType DEF DeductBatch, TypeOK
<1> QED
  BY <1>6, <1>7, <1>8, <1>9, <1>10 DEF DeductBatch, TypeOK

LEMMA TransferType ==
    ASSUME TypeOK, NEW c \in Call, NEW p \in Product, NEW from \in Warehouse,
           NEW to \in Warehouse, NEW q \in Qty, Transfer(c, p, from, to, q)
    PROVE  TypeOK'
<1> DEFINE R == {Committed(NoRequest, "ok", {}),
                 Committed(NoRequest, "error", {})}
<1>1. \A r \in R : r \in CallState /\ r.pc # "checked"
  BY CommittedType DEF Reply
<1>2. \E r \in R : call' = [call EXCEPT ![c] = r]
  BY DEF Transfer
<1>3. /\ call' \in [Call -> CallState]
      /\ \A d \in Call : call'[d].pc = "checked" => call'[d].req \in Request
  <2> HIDE DEF R
  <2> QED BY <1>1, <1>2, CallReplaced
<1>4. <<p, from>> \in Loc /\ <<p, to>> \in Loc
  BY DEF Loc
<1>5. rows' \subseteq Loc /\ lowSince' \subseteq Loc
  BY <1>4, LowAfterType DEF Transfer, TypeOK
<1>6. q \in Int
  BY InventoryAssumption DEF Qty
<1>7. quantity' \in [Loc -> Int] /\ ledger' \in [MovementType -> [Loc -> Int]]
  <2> DEFINE moved == [l \in Loc |-> IF l = <<p, from>> THEN -q
                                     ELSE IF l = <<p, to>> THEN q ELSE 0]
  <2>1. \/ UNCHANGED <<quantity, ledger>>
        \/ /\ quantity' = [l \in Loc |-> quantity[l] + moved[l]]
           /\ ledger' = [ledger EXCEPT !["transfer"] =
                           [l \in Loc |-> @[l] + moved[l]]]
    BY DEF Transfer
  <2>2. moved \in [Loc -> Int]
    BY <1>6
  <2> HIDE DEF moved
  <2> QED BY <2>1, <2>2 DEF TypeOK, MovementType
<1>8. /\ UNCHANGED <<reserved, uses, announced, lost>>
      /\ started' = started + 1
  BY DEF Transfer
<1> QED
  BY <1>3, <1>5, <1>7, <1>8 DEF TypeOK

LEMMA AdjustType ==
    ASSUME TypeOK, NEW c \in Call, NEW l \in Loc, NEW n \in 0 .. MaxQty,
           Adjust(c, l, n)
    PROVE  TypeOK'
<1> DEFINE todo == {[event |-> "low", loc |-> l, n |-> n]}
           r == Committed(NoRequest, "ok", todo)
<1>1. n \in Int
  BY InventoryAssumption
<1>2. r \in CallState /\ r.pc # "checked"
  BY <1>1, CommittedType DEF Reply, Announcement
<1>3. /\ call' \in [Call -> CallState]
      /\ \A d \in Call : call'[d].pc = "checked" => call'[d].req \in Request
  <2>1. call' = [call EXCEPT ![c] = r]
    BY DEF Adjust
  <2> HIDE DEF r
  <2> QED BY <1>2, <2>1, CallReplaced
<1>4. quantity' \in [Loc -> Int] /\ ledger' \in [MovementType -> [Loc -> Int]]
  <2>1. Difference(l, n) \in Int
    BY <1>1 DEF Difference, TypeOK
  <2> QED BY <1>1, <2>1 DEF Adjust, TypeOK, MovementType
<1>5. lowSince' \subseteq Loc
  BY LowAfterType DEF Adjust
<1>6. /\ UNCHANGED <<rows, reserved, uses, announced, lost>>
      /\ started' = started + 1
  BY DEF Adjust
<1> QED
  BY <1>3, <1>4, <1>5, <1>6 DEF TypeOK

LEMMA ReceiveType ==
    ASSUME TypeOK, NEW c \in Call, NEW w \in Warehouse, NEW items \in Deliveries,
           Receive(c, w, items)
    PROVE  TypeOK'
<1> DEFINE todo == {[event |-> e, loc |-> <<p, w>>, n |-> items[p]] :
                       e \in Event, p \in DOMAIN items}
           came == [l \in Loc |-> IF l[2] = w /\ l[1] \in DOMAIN items
                                  THEN items[l[1]] ELSE 0]
           r == Committed(NoRequest, "ok", todo)
<1>1. DOMAIN items \subseteq Product /\ \A p \in DOMAIN items : items[p] \in Nat
  BY InventoryAssumption DEF Deliveries
<1>2. came \in [Loc -> Int]
  BY <1>1
<1>3. todo \subseteq Announcement
  BY <1>1 DEF Announcement, Event, Loc
<1>4. r \in CallState /\ r.pc # "checked"
  <2> HIDE DEF todo
  <2> QED BY <1>3, CommittedType DEF Reply
<1>5. /\ call' \in [Call -> CallState]
      /\ \A d \in Call : call'[d].pc = "checked" => call'[d].req \in Request
  <2>1. call' = [call EXCEPT ![c] = r]
    BY DEF Receive
  <2> HIDE DEF r
  <2> QED BY <1>4, <2>1, CallReplaced
<1>6. quantity' \in [Loc -> Int] /\ ledger' \in [MovementType -> [Loc -> Int]]
  <2>1. /\ quantity' = [l \in Loc |-> quantity[l] + came[l]]
        /\ ledger' = [ledger EXCEPT !["receipt"] =
                        [l \in Loc |-> @[l] + came[l]]]
    BY DEF Receive
  <2> HIDE DEF came
  <2> QED BY <1>2, <2>1 DEF TypeOK, MovementType
<1>7. rows' \subseteq Loc /\ lowSince' \subseteq Loc
  BY <1>1, LowAfterType DEF Receive, TypeOK, Loc
<1> QED
  BY <1>5, <1>6, <1>7 DEF Receive, TypeOK

LEMMA AnnounceType ==
    ASSUME TypeOK, NEW c \in Call, Announce(c)
    PROVE  TypeOK'
<1> PICK a \in call[c].todo :
      LET next == IF a.event = "deducted"
                  THEN {[event |-> "low", loc |-> a.loc, n |-> quantity[a.loc]]}
                  ELSE {}
          left == (call[c].todo \ {a}) \cup next
      IN
      /\ call' = [call EXCEPT ![c] = Committed(@.req, @.reply, left)]
      /\ announced' = IF a.event = "low" THEN announced
                      ELSE [announced EXCEPT ![Topic(a)][a.loc] = @ + a.n]
      /\ lowSince' = IF a.event = "low" /\ a.n <= LowStock
                     THEN lowSince \ {a.loc} ELSE lowSince
      /\ UNCHANGED <<stockVars, lost, started>>
  BY DEF Announce, IsLow
<1> DEFINE next == IF a.event = "deducted"
                   THEN {[event |-> "low", loc |-> a.loc, n |-> quantity[a.loc]]}
                   ELSE {}
           left == (call[c].todo \ {a}) \cup next
           r == Committed(call[c].req, call[c].reply, left)
<1>1. a \in Announcement /\ call[c].todo \subseteq Announcement
  BY DEF TypeOK, CallState
<1>2. left \subseteq Announcement
  BY <1>1 DEF Announcement, TypeOK
<1>3. r \in CallState /\ r.pc # "checked"
  <2> HIDE DEF left
  <2>1. call[c].req \in Request \cup {NoRequest} /\ call[c].reply \in Reply
    BY DEF TypeOK, CallState
  <2> QED BY <1>2, <2>1, CommittedType
<1>4. /\ call' \in [Call -> CallState]
      /\ \A d \in Call : call'[d].pc = "checked" => call'[d].req \in Request
  <2>1. call' = [call EXCEPT ![c] = r]
    OBVIOUS
  <2> HIDE DEF r
  <2> QED BY <1>3, <2>1, CallReplaced
<1>5. announced' \in [Event -> [Loc -> Int]]
  <2>1. \/ announced' = announced
        \/ \E e \in Event :
              announced' = [announced EXCEPT ![e][a.loc] = @ + a.n]
    BY <1>1 DEF Announcement, Event, Topic
  <2>2. a.loc \in Loc /\ a.n \in Int
    BY <1>1 DEF Announcement
  <2>3. announced \in [Event -> [Loc -> Int]]
    BY DEF TypeOK
  <2>4. \A e \in Event : [announced EXCEPT ![e][a.loc] = @ + a.n]
                            \in [Event -> [Loc -> Int]]
    BY <2>2, <2>3, EntryAdded
  <2> QED BY <2>1, <2>3, <2>4
<1> QED
  BY <1>4, <1>5 DEF TypeOK, stockVars

LEMMA CollectType ==
    ASSUME TypeOK, NEW c \in Call, Collect(c)
    PROVE  TypeOK'
<1>1. Idle \in CallState /\ Idle.pc # "checked"
  BY DEF Idle, CallState, Reply
<1>2. /\ call' \in [Call -> CallState]
      /\ \A d \in Call : call'[d].pc = "checked" => call'[d].req \in Request
  BY <1>1, CallReplaced DEF Collect
<1> QED
  BY <1>2 DEF Collect, TypeOK, stockVars, busVars

LEMMA CrashType ==
    ASSUME TypeOK, NEW c \in Call, Crash(c)
    PROVE  TypeOK'
<1> DEFINE r == Committed(call[c].req, "dropped", {})
<1>1. r \in CallState /\ r.pc # "checked"
  <2>1. call[c].req \in Request \cup {NoRequest}
    BY DEF TypeOK, CallState
  <2> QED BY <2>1, CommittedType DEF Reply
<1>2. /\ call' \in [Call -> CallState]
      /\ \A d \in Call : call'[d].pc = "checked" => call'[d].req \in Request
  <2>1. call' = [call EXCEPT ![c] = r]
    BY DEF Crash
  <2> HIDE DEF r
  <2> QED BY <1>1, <2>1, CallReplaced
<1>3. lost' \subseteq Loc
  BY DEF Crash, TypeOK, CallState, Announcement
<1> QED
  BY <1>2, <1>3 DEF Crash, TypeOK, stockVars

LEMMA InitType == Init => TypeOK
BY InventoryAssumption DEF Init, TypeOK, Idle, CallState, Reply

LEMMA NextType == TypeOK /\ [Next]_vars => TypeOK'
<1> SUFFICES ASSUME TypeOK, [Next]_vars PROVE TypeOK'
  OBVIOUS
<1>1. CASE UNCHANGED vars
  BY <1>1 DEF vars, stockVars, busVars, TypeOK
<1>2. CASE Next
  BY <1>2, BeginType, ApplyType, DeductBatchType, TransferType, AdjustType,
     ReceiveType, AnnounceType, CollectType, CrashType DEF Next
<1> QED BY <1>1, <1>2

\* Every variable keeps its type.
THEOREM TypeCorrect == Spec => []TypeOK
BY InitType, NextType, PTL DEF Spec

-----------------------------------------------------------------------------
(* What one step does to the two columns of one row. *)

LEMMA ApplyRow ==
    ASSUME TypeOK, NoNegativeStock, NEW c \in Call, Apply(c), NEW l \in Loc
    PROVE  /\ quantity'[l] >= 0 /\ reserved'[l] >= 0
           /\ Covered(l) => Covered(l)'
<1> DEFINE req == call[c].req
           m == req.loc
<1>1. /\ req.op \in SingleOp /\ req.qty \in Qty /\ m \in Loc
  BY DEF TypeOK, Apply, Request
<1>2. req.qty \in Nat \ {0}
  BY <1>1, InventoryAssumption DEF Qty
<1>3. \A x \in Loc : /\ quantity[x] \in Int /\ reserved[x] \in Int
                     /\ quantity[x] >= 0 /\ reserved[x] >= 0
  BY DEF TypeOK, NoNegativeStock
<1>4. CASE UNCHANGED <<quantity, reserved>>
  BY <1>3, <1>4 DEF Covered
<1>5. CASE /\ Enough(req.op, m, req.qty)
           /\ quantity' = [quantity EXCEPT
                             ![m] = @ + QuantityChange(req.op, req.qty)]
           /\ reserved' = [reserved EXCEPT
                             ![m] = @ + ReservedChange(req.op, m, req.qty)]
  <2>1. CASE l # m
    BY <1>1, <1>3, <1>5, <2>1 DEF TypeOK, Covered
  <2>2. CASE l = m
    <3>1. /\ quantity'[l] = quantity[l] + QuantityChange(req.op, req.qty)
          /\ reserved'[l] = reserved[l] + ReservedChange(req.op, l, req.qty)
          /\ Enough(req.op, l, req.qty)
      <4> HIDE DEF req, m
      <4> QED BY <1>1, <1>5, <2>2 DEF TypeOK
    <3> HIDE DEF req
    <3>2. CASE req.op = "reserve"
      BY <1>2, <1>3, <3>1, <3>2
      DEF Enough, Available, QuantityChange, ReservedChange, Covered
    <3>3. CASE req.op = "release"
      BY <1>2, <1>3, <3>1, <3>3
      DEF Enough, QuantityChange, ReservedChange, Covered
    <3>4. CASE req.op = "return"
      BY <1>2, <1>3, <3>1, <3>4 DEF QuantityChange, ReservedChange, Covered
    <3>5. CASE req.op = "deduct"
      BY <1>2, <1>3, <3>1, <3>5
      DEF Enough, Available, QuantityChange, ReservedChange, Lesser, Covered
    <3> QED BY <1>1, <3>2, <3>3, <3>4, <3>5 DEF SingleOp
  <2> QED BY <2>1, <2>2
<1> QED BY <1>4, <1>5 DEF Apply

LEMMA DeductBatchRow ==
    ASSUME TypeOK, NoNegativeStock, NEW c \in Call, NEW w \in Warehouse,
           NEW wanted \in Batches, NEW k \in Key \cup {NoKey},
           NEW b \in BOOLEAN, DeductBatch(c, w, wanted, k, b), NEW l \in Loc
    PROVE  /\ quantity'[l] >= 0 /\ reserved'[l] >= 0
           /\ Covered(l) => Covered(l)'
<1>1. \A x \in Loc : /\ quantity[x] \in Int /\ reserved[x] \in Int
                     /\ quantity[x] >= 0 /\ reserved[x] >= 0
  BY DEF TypeOK, NoNegativeStock
<1>2. \A p \in DOMAIN wanted : p \in Product /\ wanted[p] \in Nat \ {0}
  BY InventoryAssumption DEF Batches, Qty
<1>3. CASE UNCHANGED <<quantity, reserved>>
  BY <1>1, <1>3 DEF Covered
<1>4. CASE ~UNCHANGED <<quantity, reserved>>
  <2> DEFINE t == IF l[2] = w /\ l[1] \in DOMAIN wanted
                  THEN wanted[l[1]] ELSE 0
  <2>1. /\ quantity'[l] = quantity[l] - t
        /\ reserved'[l] = reserved[l] - (IF b THEN t ELSE 0)
        /\ \A p \in DOMAIN wanted :
             IF b THEN reserved[<<p, w>>] >= wanted[p]
                       /\ quantity[<<p, w>>] >= wanted[p]
             ELSE Available(<<p, w>>) >= wanted[p]
    BY <1>4 DEF DeductBatch
  <2>2. CASE l[2] = w /\ l[1] \in DOMAIN wanted
    <3>1. l = <<l[1], w>>
      BY <2>2 DEF Loc
    <3>2. IF b THEN reserved[l] >= t /\ quantity[l] >= t ELSE Available(l) >= t
      BY <2>1, <2>2, <3>1
    <3>3. t \in Nat
      BY <1>2, <2>2
    <3> HIDE DEF t
    <3> QED BY <1>1, <2>1, <3>2, <3>3 DEF Available, Covered
  <2>3. CASE ~(l[2] = w /\ l[1] \in DOMAIN wanted)
    BY <1>1, <2>1, <2>3 DEF Covered
  <2> QED BY <2>2, <2>3
<1> QED BY <1>3, <1>4

LEMMA TransferRow ==
    ASSUME TypeOK, NoNegativeStock, NEW c \in Call, NEW p \in Product,
           NEW from \in Warehouse, NEW to \in Warehouse, NEW q \in Qty,
           Transfer(c, p, from, to, q), NEW l \in Loc
    PROVE  /\ quantity'[l] >= 0 /\ reserved'[l] >= 0
           /\ Covered(l) => Covered(l)'
<1>1. /\ quantity[l] \in Int /\ reserved[l] \in Int
      /\ quantity[l] >= 0 /\ reserved[l] >= 0
  BY DEF TypeOK, NoNegativeStock
<1>2. q \in Nat /\ reserved' = reserved
  BY InventoryAssumption DEF Qty, Transfer
<1>3. CASE UNCHANGED quantity
  BY <1>1, <1>2, <1>3 DEF Covered
<1>4. CASE ~UNCHANGED quantity
  <2>1. /\ Available(<<p, from>>) >= q
        /\ quantity'[l] = quantity[l] + (IF l = <<p, from>> THEN -q
                                         ELSE IF l = <<p, to>> THEN q ELSE 0)
    BY <1>4 DEF Transfer
  <2>2. CASE l = <<p, from>>
    BY <1>1, <1>2, <2>1, <2>2 DEF Available, Covered
  <2>3. CASE l # <<p, from>>
    BY <1>1, <1>2, <2>1, <2>3 DEF Covered
  <2> QED BY <2>2, <2>3
<1> QED BY <1>3, <1>4

LEMMA ReceiveRow ==
    ASSUME TypeOK, NoNegativeStock, NEW c \in Call, NEW w \in Warehouse,
           NEW items \in Deliveries, Receive(c, w, items), NEW l \in Loc
    PROVE  /\ quantity'[l] >= 0 /\ reserved'[l] >= 0
           /\ Covered(l) => Covered(l)'
<1> DEFINE n == IF l[2] = w /\ l[1] \in DOMAIN items THEN items[l[1]] ELSE 0
<1>1. /\ quantity[l] \in Int /\ reserved[l] \in Int
      /\ quantity[l] >= 0 /\ reserved[l] >= 0
  BY DEF TypeOK, NoNegativeStock
<1>2. n \in Nat
  BY InventoryAssumption DEF Deliveries
<1>3. quantity'[l] = quantity[l] + n /\ reserved' = reserved
  BY DEF Receive
<1> HIDE DEF n
<1> QED BY <1>1, <1>2, <1>3 DEF Covered

LEMMA OtherRow ==
    ASSUME TypeOK, NoNegativeStock, NEW c \in Call,
           \/ \E op \in SingleOp, x \in Loc, q \in Qty, k \in Key \cup {NoKey} :
                 Begin(c, op, x, q, k)
           \/ Announce(c) \/ Collect(c) \/ Crash(c)
    PROVE  UNCHANGED <<quantity, reserved>>
BY DEF Begin, Announce, Collect, Crash, stockVars

-----------------------------------------------------------------------------
(* No column goes negative, and only a stocktake uncovers a reservation. *)

LEMMA NoNegativeStep ==
    TypeOK /\ NoNegativeStock /\ [Next]_vars => NoNegativeStock'
<1> SUFFICES ASSUME TypeOK, NoNegativeStock, [Next]_vars, NEW l \in Loc
             PROVE  quantity'[l] >= 0 /\ reserved'[l] >= 0
  BY DEF NoNegativeStock
<1>1. CASE UNCHANGED <<quantity, reserved>>
  BY <1>1 DEF NoNegativeStock
<1>2. ASSUME NEW c \in Call, NEW x \in Loc, NEW n \in 0 .. MaxQty,
             Adjust(c, x, n)
      PROVE  quantity'[l] >= 0 /\ reserved'[l] >= 0
  BY <1>2, InventoryAssumption DEF Adjust, NoNegativeStock, TypeOK
<1> QED
  BY <1>1, <1>2, OtherRow, ApplyRow, DeductBatchRow, TransferRow, ReceiveRow
  DEF Next, vars, stockVars

\* Neither column of a stock row goes below zero, for any number of concurrent
\* requests: every subtraction is tested under the lock of its row.
THEOREM NeverNegative == Spec => []NoNegativeStock
<1>1. Init => NoNegativeStock
  BY InventoryAssumption DEF Init, NoNegativeStock
<1> QED BY <1>1, NoNegativeStep, TypeCorrect, PTL DEF Spec

\* Only adjust can leave more units reserved than there are on hand.
THEOREM AdjustOnlyUncovers == Spec => OnlyAdjustUncovers
<1>1. TypeOK /\ NoNegativeStock /\ [Next]_vars =>
        [(\E c \in Call, l \in Loc, n \in 0 .. MaxQty : Adjust(c, l, n))
           \/ \A l \in Loc : Covered(l) => Covered(l)']_vars
  BY OtherRow, ApplyRow, DeductBatchRow, TransferRow, ReceiveRow
  DEF Next, Covered
<1> QED
  BY <1>1, TypeCorrect, NeverNegative, PTL DEF Spec, OnlyAdjustUncovers

-----------------------------------------------------------------------------
(* The movement table: keys and sums. *)

LEMMA ApplyUses ==
    ASSUME TypeOK, NEW c \in Call, Apply(c), NEW t \in MovementType,
           NEW x \in AnyKey
    PROVE  \/ uses'[t][x] = uses[t][x]
           \/ /\ x \in Key /\ t = call[c].req.op /\ x = call[c].req.key
              /\ uses'[t][x] = uses[t][x] + 1
<1> DEFINE op == call[c].req.op
           k  == call[c].req.key
<1>1. op \in SingleOp /\ k \in Key \cup {NoKey}
  BY DEF Apply, TypeOK, Request
<1>2. uses' = uses \/ (k # NoKey /\ uses' = [uses EXCEPT ![op][k] = @ + 1])
  BY DEF Apply
<1>3. uses \in [MovementType -> [AnyKey -> Nat]]
  BY DEF TypeOK
<1>4. op \in MovementType /\ (k # NoKey => k \in Key /\ k \in AnyKey)
  BY <1>1 DEF MovementType, AnyKey
<1> HIDE DEF op, k
<1>5. CASE k # NoKey /\ uses' = [uses EXCEPT ![op][k] = @ + 1]
  <2>1. uses'[t][x] = IF t = op /\ x = k THEN uses[t][x] + 1 ELSE uses[t][x]
    BY <1>3, <1>4, <1>5, EntryCountedAt
  <2> QED BY <1>4, <1>5, <2>1 DEF op, k
<1> QED BY <1>2, <1>5

LEMMA DeductBatchUses ==
    ASSUME TypeOK, NEW c \in Call, NEW w \in Warehouse, NEW wanted \in Batches,
           NEW k \in Key \cup {NoKey}, NEW b \in BOOLEAN,
           DeductBatch(c, w, wanted, k, b),
           NEW t \in MovementType, NEW x \in AnyKey
    PROVE  \/ uses'[t][x] = uses[t][x]
           \/ /\ t = "deduct" /\ uses[t][x] = 0
              /\ uses'[t][x] = uses[t][x] + 1
<1> DEFINE hit == k # NoKey /\ \E p \in DOMAIN wanted : x = <<k, p>>
           more == [y \in AnyKey |->
                      IF k # NoKey /\ \E p \in DOMAIN wanted : y = <<k, p>>
                      THEN uses["deduct"][y] + 1 ELSE uses["deduct"][y]]
<1>1. \/ uses' = uses
      \/ /\ uses' = [uses EXCEPT !["deduct"] = more]
         /\ k # NoKey =>
              \A p \in DOMAIN wanted : ~(uses["deduct"][<<k, p>>] > 0)
  BY DEF DeductBatch, BatchSeen
<1>2. uses[t][x] \in Nat
  BY DEF TypeOK
<1>3. CASE uses' # uses
  <2>1. CASE t = "deduct"
    <3>1. uses'[t] = more
      BY <1>1, <1>3, <2>1 DEF TypeOK
    <3>2. more[x] = IF hit THEN uses[t][x] + 1 ELSE uses[t][x]
      BY <2>1
    <3>3. hit => ~(uses[t][x] > 0)
      BY <1>1, <1>3, <2>1
    <3> HIDE DEF hit, more
    <3> QED BY <1>2, <2>1, <3>1, <3>2, <3>3
  <2>2. CASE t # "deduct"
    BY <1>1, <1>3, <2>2 DEF TypeOK
  <2> QED BY <2>1, <2>2
<1> QED BY <1>3

\* One step adds at most one row per type and key, and a row with a batch's
\* item key only where there was none.
LEMMA StepUses ==
    ASSUME TypeOK, [Next]_vars, NEW t \in MovementType, NEW x \in AnyKey
    PROVE  \/ uses'[t][x] = uses[t][x]
           \/ /\ x \in Key \/ (t = "deduct" /\ uses[t][x] = 0)
              /\ uses'[t][x] = uses[t][x] + 1
<1>1. CASE UNCHANGED vars
  BY <1>1 DEF vars, stockVars
<1>2. CASE Next
  <2>1. ASSUME NEW c \in Call, NEW op \in SingleOp, NEW l \in Loc, NEW q \in Qty,
               NEW k \in Key \cup {NoKey}, Begin(c, op, l, q, k)
        PROVE  uses' = uses
    BY <2>1 DEF Begin, stockVars
  <2>2. ASSUME NEW c \in Call, NEW p \in Product, NEW from \in Warehouse,
               NEW to \in Warehouse, NEW q \in Qty, Transfer(c, p, from, to, q)
        PROVE  uses' = uses
    BY <2>2 DEF Transfer
  <2>3. ASSUME NEW c \in Call, NEW l \in Loc, NEW n \in 0 .. MaxQty,
               Adjust(c, l, n)
        PROVE  uses' = uses
    BY <2>3 DEF Adjust
  <2>4. ASSUME NEW c \in Call, NEW w \in Warehouse, NEW items \in Deliveries,
               Receive(c, w, items)
        PROVE  uses' = uses
    BY <2>4 DEF Receive
  <2>5. ASSUME NEW c \in Call, Announce(c) \/ Collect(c) \/ Crash(c)
        PROVE  uses' = uses
    BY <2>5 DEF Announce, Collect, Crash, stockVars
  <2> QED
    BY <1>2, <2>1, <2>2, <2>3, <2>4, <2>5, ApplyUses, DeductBatchUses DEF Next
<1> QED BY <1>1, <1>2

\* A deduct_batch key takes effect at most once per product, however many
\* retries of the batch are in flight: the key is read under the row locks.
THEOREM BatchExactlyOnce == Spec => []BatchDeductedOnce
<1>1. Init => BatchDeductedOnce
  BY DEF Init, BatchDeductedOnce, AnyKey, MovementType, SingleOp
<1>2. TypeOK /\ BatchDeductedOnce /\ [Next]_vars => BatchDeductedOnce'
  <2> SUFFICES ASSUME TypeOK, BatchDeductedOnce, [Next]_vars, NEW x \in ItemKey
               PROVE  uses'["deduct"][x] <= 1
    BY DEF BatchDeductedOnce
  <2>1. x \in AnyKey /\ x \notin Key /\ "deduct" \in MovementType
    BY InventoryAssumption DEF AnyKey, MovementType, SingleOp
  <2>2. uses["deduct"][x] \in Nat /\ uses["deduct"][x] <= 1
    BY <2>1 DEF TypeOK, BatchDeductedOnce
  <2> QED BY <2>1, <2>2, StepUses
<1> QED BY <1>1, <1>2, TypeCorrect, PTL DEF Spec

\* An answer of success is never given for a keyed operation without movement.
LEMMA AckStep ==
    ASSUME TypeOK, AckMeansRecorded, [Next]_vars, NEW d \in Call,
           call'[d].reply \in {"ok", "conflict"},
           call'[d].req # NoRequest, call'[d].req.key # NoKey
    PROVE  uses'[call'[d].req.op][call'[d].req.key] >= 1
<1> DEFINE Goal == uses'[call'[d].req.op][call'[d].req.key] >= 1
<1>1. CASE call'[d].req = call[d].req /\ call'[d].reply = call[d].reply
  <2> DEFINE r == call[d].req
  <2>1. r.op \in MovementType /\ r.key \in AnyKey
    BY <1>1 DEF TypeOK, CallState, Request, MovementType, AnyKey
  <2>2. uses[r.op][r.key] >= 1 /\ uses[r.op][r.key] \in Nat
    BY <1>1, <2>1 DEF AckMeansRecorded, TypeOK
  <2> HIDE DEF r
  <2>3. \/ uses'[r.op][r.key] = uses[r.op][r.key]
        \/ uses'[r.op][r.key] = uses[r.op][r.key] + 1
    BY <2>1, StepUses
  <2>4. uses'[r.op][r.key] >= 1
    BY <2>2, <2>3
  <2> QED BY <1>1, <2>4 DEF r
<1>2. \A c \in Call : \A r : call' = [call EXCEPT ![c] = r] =>
          call'[d] = IF c = d THEN r ELSE call[d]
  BY DEF TypeOK
<1>3. ASSUME NEW c \in Call, NEW op \in SingleOp, NEW l \in Loc, NEW q \in Qty,
             NEW k \in Key \cup {NoKey}, Begin(c, op, l, q, k)
      PROVE  Goal
  <2> DEFINE req == [op |-> op, loc |-> l, qty |-> q, key |-> k]
  <2>1. CASE c # d
    BY <1>1, <1>3, <2>1 DEF Begin, KeyUsed, TypeOK
  <2>2. CASE c = d
    <3>1. CASE ~(k # NoKey /\ uses[op][k] > 0)
      BY <1>3, <2>2, <3>1 DEF Begin, KeyUsed, TypeOK
    <3>2. CASE k # NoKey /\ uses[op][k] > 0
      <4>1. call'[d] = Committed(req, "conflict", {}) /\ uses' = uses
        BY <1>3, <2>2, <3>2 DEF Begin, KeyUsed, stockVars, TypeOK
      <4>2. call'[d].req.op = op /\ call'[d].req.key = k
        BY <4>1 DEF Committed
      <4>3. uses[op][k] \in Nat
        BY <3>2 DEF TypeOK, MovementType, AnyKey
      <4> QED BY <3>2, <4>1, <4>2, <4>3
    <3> QED BY <3>1, <3>2
  <2> QED BY <2>1, <2>2
<1>4. ASSUME NEW c \in Call, Apply(c)
      PROVE  Goal
  <2> DEFINE r == call[c].req
  <2>1. CASE c # d
    BY <1>1, <1>4, <2>1 DEF Apply, TypeOK
  <2>2. CASE c = d
    <3>1. \/ call'[d] = Committed(r, "error", {})
          \/ /\ call'[d] = Committed(r, "ok", Owes(r.op, r.loc, r.qty))
             /\ r.key # NoKey => uses' = [uses EXCEPT ![r.op][r.key] = @ + 1]
      BY <1>4, <2>2 DEF Apply, TypeOK
    <3>2. call'[d].req = r /\ r.key # NoKey
      BY <3>1 DEF Committed
    <3>3. uses' = [uses EXCEPT ![r.op][r.key] = @ + 1]
      BY <3>1, <3>2 DEF Committed
    <3>4. r.op \in MovementType /\ r.key \in AnyKey
      BY <1>4, <3>2 DEF Apply, TypeOK, Request, MovementType, AnyKey
    <3>5. uses \in [MovementType -> [AnyKey -> Nat]] /\ uses[r.op][r.key] \in Nat
      BY <3>4 DEF TypeOK
    <3>6. uses'[r.op][r.key] = uses[r.op][r.key] + 1
      <4> HIDE DEF r
      <4> QED BY <3>3, <3>4, <3>5, EntryCountedAt
    <3> QED BY <3>2, <3>5, <3>6
  <2> QED BY <2>1, <2>2
<1>5. CASE UNCHANGED vars
  BY <1>1, <1>5 DEF vars
<1>6. CASE Next
  <2>1. ASSUME NEW c \in Call, NEW w \in Warehouse, NEW wanted \in Batches,
               NEW k \in Key \cup {NoKey}, NEW b \in BOOLEAN,
               DeductBatch(c, w, wanted, k, b)
        PROVE  Goal
    <3>1. PICK reply, todo :
             call' = [call EXCEPT ![c] = Committed(NoRequest, reply, todo)]
      BY <2>1 DEF DeductBatch
    <3>2. call'[d] = call[d] \/ call'[d] = Committed(NoRequest, reply, todo)
      BY <3>1, <1>2
    <3> QED BY <3>2, <1>1, CommittedFields
  <2>2. ASSUME NEW c \in Call, NEW p \in Product, NEW from \in Warehouse,
               NEW to \in Warehouse, NEW q \in Qty, Transfer(c, p, from, to, q)
        PROVE  Goal
    <3>1. PICK reply, todo :
             call' = [call EXCEPT ![c] = Committed(NoRequest, reply, todo)]
      BY <2>2 DEF Transfer
    <3>2. call'[d] = call[d] \/ call'[d] = Committed(NoRequest, reply, todo)
      BY <3>1, <1>2
    <3> QED BY <3>2, <1>1, CommittedFields
  <2>3. ASSUME NEW c \in Call, NEW l \in Loc, NEW n \in 0 .. MaxQty,
               Adjust(c, l, n)
        PROVE  Goal
    <3>1. PICK reply, todo :
             call' = [call EXCEPT ![c] = Committed(NoRequest, reply, todo)]
      BY <2>3 DEF Adjust
    <3>2. call'[d] = call[d] \/ call'[d] = Committed(NoRequest, reply, todo)
      BY <3>1, <1>2
    <3> QED BY <3>2, <1>1, CommittedFields
  <2>4. ASSUME NEW c \in Call, NEW w \in Warehouse, NEW items \in Deliveries,
               Receive(c, w, items)
        PROVE  Goal
    <3> DEFINE todo == {[event |-> e, loc |-> <<p, w>>, n |-> items[p]] :
                           e \in Event, p \in DOMAIN items}
    <3>1. call' = [call EXCEPT ![c] = Committed(NoRequest, "ok", todo)]
      BY <2>4 DEF Receive
    <3> HIDE DEF todo
    <3>2. call'[d] = call[d] \/ call'[d] = Committed(NoRequest, "ok", todo)
      BY <3>1, <1>2
    <3> QED BY <3>2, <1>1, CommittedFields
  <2>5. ASSUME NEW c \in Call, Announce(c) PROVE Goal
    <3>1. PICK todo : call' = [call EXCEPT ![c] =
                        Committed(call[c].req, call[c].reply, todo)]
      BY <2>5 DEF Announce
    <3>2. \/ call'[d] = call[d]
          \/ call'[d] = Committed(call[d].req, call[d].reply, todo)
      BY <3>1, <1>2
    <3> QED BY <3>2, <1>1, CommittedFields
  <2>6. ASSUME NEW c \in Call, Collect(c) PROVE Goal
    <3>1. call'[d] = call[d] \/ call'[d] = Idle
      BY <2>6, <1>2 DEF Collect
    <3> QED BY <3>1, <1>1 DEF Idle
  <2>7. ASSUME NEW c \in Call, Crash(c) PROVE Goal
    <3>1. call' = [call EXCEPT ![c] = Committed(call[c].req, "dropped", {})]
      BY <2>7 DEF Crash
    <3>2. \/ call'[d] = call[d]
          \/ call'[d] = Committed(call[d].req, "dropped", {})
      BY <3>1, <1>2
    <3> QED BY <3>2, <1>1, CommittedFields
  <2> QED
    BY <1>3, <1>4, <1>6, <2>1, <2>2, <2>3, <2>4, <2>5, <2>6, <2>7 DEF Next
<1> QED BY <1>5, <1>6

\* A client that reads 200 or 409 for a keyed operation can rely on a movement
\* with its key: nothing acknowledged is rolled back.
THEOREM AckRecorded == Spec => []AckMeansRecorded
<1>1. Init => AckMeansRecorded
  BY DEF Init, Idle, AckMeansRecorded
<1>2. TypeOK /\ AckMeansRecorded /\ [Next]_vars => AckMeansRecorded'
  BY AckStep DEF AckMeansRecorded
<1> QED BY <1>1, <1>2, TypeCorrect, PTL DEF Spec

-----------------------------------------------------------------------------
(* The movement history: a step that moves units books them. *)

LEMMA EntryAddedAt ==
    ASSUME NEW S, NEW T, NEW f \in [S -> [T -> Int]], NEW s \in S, NEW t \in T,
           NEW n \in Int, NEW u \in S, NEW v \in T
    PROVE  [f EXCEPT ![s][t] = @ + n][u][v]
             = f[u][v] + (IF u = s /\ v = t THEN n ELSE 0)
<1>1. CASE u # s
  BY <1>1
<1>2. CASE u = s
  <2>1. [f EXCEPT ![s][t] = @ + n][u] = [f[s] EXCEPT ![t] = @ + n]
    BY <1>2
  <2>2. f[s] \in [T -> Int]
    OBVIOUS
  <2> QED BY <1>2, <2>1, <2>2
<1> QED BY <1>1, <1>2

LEMMA RowAddedAt ==
    ASSUME NEW S, NEW T, NEW f \in [S -> [T -> Int]], NEW s \in S,
           NEW g \in [T -> Int], NEW u \in S, NEW v \in T
    PROVE  [f EXCEPT ![s] = [x \in T |-> @[x] + g[x]]][u][v]
             = f[u][v] + (IF u = s THEN g[v] ELSE 0)
<1>1. f[u] \in [T -> Int] /\ f[u][v] \in Int
  OBVIOUS
<1>2. CASE u # s
  <2>1. [f EXCEPT ![s] = [x \in T |-> @[x] + g[x]]][u] = f[u]
    BY <1>2
  <2> QED BY <1>1, <1>2, <2>1
<1>3. CASE u = s
  BY <1>3
<1> QED BY <1>2, <1>3

\* The units a list of items at warehouse w holds for l.
UnitsAt(items, w, l) ==
    IF l[2] = w /\ l[1] \in DOMAIN items THEN items[l[1]] ELSE 0

\* What a batch and a receipt have to announce.
Deductions(wanted, w) ==
    {[event |-> "deducted", loc |-> <<p, w>>, n |-> -wanted[p]] :
       p \in DOMAIN wanted}
Arrivals(items, w) ==
    {[event |-> e, loc |-> <<p, w>>, n |-> items[p]] :
       e \in Event, p \in DOMAIN items}

\* The step changes the level of l by d, and the movements of type t with it.
Booked(t, l, d) ==
    /\ quantity'[l] = quantity[l] + d
    /\ \A u \in MovementType :
          ledger'[u][l] = ledger[u][l] + (IF u = t THEN d ELSE 0)

\* The step is a stocktake that moves the level of l by d, and books how far.
Recounted(l, d) ==
    /\ quantity'[l] = quantity[l] + d
    /\ \A u \in MovementType :
          ledger'[u][l] = ledger[u][l] + (IF u = "adjustment"
                                          THEN IF d < 0 THEN -d ELSE d ELSE 0)

LEMMA NothingBooked ==
    ASSUME TypeOK, UNCHANGED <<quantity, ledger>>, NEW t, NEW l \in Loc
    PROVE  Booked(t, l, 0)
<1>1. quantity[l] \in Int /\ \A u \in MovementType : ledger[u][l] \in Int
  BY DEF TypeOK
<1> QED BY <1>1 DEF Booked

LEMMA ApplyBooked ==
    ASSUME TypeOK, NEW c \in Call, Apply(c)
    PROVE  LET req == call[c].req IN
           /\ req \in Request
           /\ \/ /\ call' = [call EXCEPT ![c] = Committed(req, "error", {})]
                 /\ UNCHANGED <<quantity, ledger, lowSince>>
              \/ /\ call' = [call EXCEPT ![c] =
                               Committed(req, "ok", Owes(req.op, req.loc, req.qty))]
                 /\ lowSince' = LowAfter(quantity')
                 /\ \A l \in Loc : Booked(req.op, l,
                       IF l = req.loc THEN QuantityChange(req.op, req.qty)
                       ELSE 0)
<1> DEFINE req == call[c].req
           dq == QuantityChange(req.op, req.qty)
<1>1. /\ req \in Request /\ req.op \in SingleOp /\ req.loc \in Loc
      /\ req.qty \in Qty
  BY DEF TypeOK, Apply, Request
<1>2. req.op \in MovementType /\ dq \in Int
  BY <1>1, ChangeType DEF MovementType
<1>3. \/ /\ call' = [call EXCEPT ![c] = Committed(req, "error", {})]
         /\ UNCHANGED <<quantity, ledger, lowSince>>
      \/ /\ call' = [call EXCEPT ![c] =
                       Committed(req, "ok", Owes(req.op, req.loc, req.qty))]
         /\ lowSince' = LowAfter(quantity')
         /\ quantity' = [quantity EXCEPT ![req.loc] = @ + dq]
         /\ ledger' = [ledger EXCEPT ![req.op][req.loc] = @ + dq]
  BY DEF Apply
<1>4. quantity \in [Loc -> Int] /\ ledger \in [MovementType -> [Loc -> Int]]
  BY DEF TypeOK
<1> HIDE DEF dq
<1>5. ASSUME quantity' = [quantity EXCEPT ![req.loc] = @ + dq],
             ledger' = [ledger EXCEPT ![req.op][req.loc] = @ + dq],
             NEW l \in Loc
      PROVE  Booked(req.op, l, IF l = req.loc THEN dq ELSE 0)
  <2> HIDE DEF req
  <2>1. quantity'[l] = quantity[l] + (IF l = req.loc THEN dq ELSE 0)
    BY <1>1, <1>2, <1>4, <1>5
  <2>2. ASSUME NEW u \in MovementType
        PROVE  ledger'[u][l] = ledger[u][l]
                 + (IF u = req.op THEN IF l = req.loc THEN dq ELSE 0 ELSE 0)
    <3>1. ledger'[u][l] = ledger[u][l]
                 + (IF u = req.op /\ l = req.loc THEN dq ELSE 0)
      BY <1>1, <1>2, <1>4, <1>5, EntryAddedAt
    <3> QED BY <3>1
  <2> QED BY <2>1, <2>2 DEF Booked
<1> QED BY <1>1, <1>3, <1>5 DEF dq

LEMMA DeductBatchBooked ==
    ASSUME TypeOK, NEW c \in Call, NEW w \in Warehouse, NEW wanted \in Batches,
           NEW k \in Key \cup {NoKey}, NEW b \in BOOLEAN,
           DeductBatch(c, w, wanted, k, b)
    PROVE  \/ /\ \E r \in {"conflict", "error"} :
                    call' = [call EXCEPT ![c] = Committed(NoRequest, r, {})]
              /\ UNCHANGED <<quantity, ledger, lowSince>>
           \/ /\ call' = [call EXCEPT ![c] =
                             Committed(NoRequest, "ok", Deductions(wanted, w))]
              /\ lowSince' = LowAfter(quantity')
              /\ \A l \in Loc : Booked("deduct", l, - UnitsAt(wanted, w, l))
<1> DEFINE items == DOMAIN wanted
           todo == Deductions(wanted, w)
           taken == [x \in Loc |->
                       IF x[2] = w /\ x[1] \in items THEN wanted[x[1]] ELSE 0]
           minus == [x \in Loc |-> - taken[x]]
<1>1. \A p \in items : wanted[p] \in Int
  BY InventoryAssumption DEF Batches, Qty
<1>2. taken \in [Loc -> Int]
  BY <1>1
<1>3. \/ /\ \E r \in {"conflict", "error"} :
               call' = [call EXCEPT ![c] = Committed(NoRequest, r, {})]
         /\ UNCHANGED <<quantity, ledger, lowSince>>
      \/ /\ call' = [call EXCEPT ![c] = Committed(NoRequest, "ok", todo)]
         /\ lowSince' = LowAfter(quantity')
         /\ quantity' = [x \in Loc |-> quantity[x] - taken[x]]
         /\ ledger' = [ledger EXCEPT !["deduct"] = [x \in Loc |-> @[x] - taken[x]]]
  BY DEF DeductBatch, Deductions
<1>4. /\ quantity \in [Loc -> Int] /\ ledger \in [MovementType -> [Loc -> Int]]
      /\ "deduct" \in MovementType
  BY DEF TypeOK, MovementType, SingleOp
<1>5. \A l \in Loc : taken[l] = UnitsAt(wanted, w, l)
  BY DEF UnitsAt
<1> HIDE DEF taken, todo
<1>6. ASSUME quantity' = [x \in Loc |-> quantity[x] - taken[x]],
             ledger' = [ledger EXCEPT !["deduct"] = [x \in Loc |-> @[x] - taken[x]]],
             NEW l \in Loc
      PROVE  Booked("deduct", l, - taken[l])
  <2>1. quantity'[l] = quantity[l] + (- taken[l])
    BY <1>2, <1>4, <1>6
  <2>2. minus \in [Loc -> Int] /\ minus[l] = - taken[l]
    BY <1>2
  <2>3. [x \in Loc |-> ledger["deduct"][x] - taken[x]]
          = [x \in Loc |-> ledger["deduct"][x] + minus[x]]
    BY <1>2, <1>4
  <2>4. ledger' = [ledger EXCEPT !["deduct"] = [x \in Loc |-> @[x] + minus[x]]]
    BY <1>6, <2>3
  <2> HIDE DEF minus
  <2>5. ASSUME NEW u \in MovementType
        PROVE  ledger'[u][l] = ledger[u][l]
                                 + (IF u = "deduct" THEN - taken[l] ELSE 0)
    <3>1. ledger'[u][l] = ledger[u][l] + (IF u = "deduct" THEN minus[l] ELSE 0)
      BY <1>4, <2>2, <2>4, RowAddedAt
    <3> QED BY <2>2, <3>1
  <2> QED BY <2>1, <2>5 DEF Booked
<1> QED BY <1>3, <1>5, <1>6 DEF todo

LEMMA TransferBooked ==
    ASSUME TypeOK, NEW c \in Call, NEW p \in Product, NEW from \in Warehouse,
           NEW to \in Warehouse, NEW q \in Qty, Transfer(c, p, from, to, q)
    PROVE  /\ \E r \in Reply :
                 call' = [call EXCEPT ![c] = Committed(NoRequest, r, {})]
           /\ \/ UNCHANGED <<quantity, ledger, lowSince>>
              \/ /\ lowSince' = LowAfter(quantity') \ {<<p, from>>}
                 /\ \A l \in Loc : \E d \in Int :
                       /\ Booked("transfer", l, d)
                       /\ d < 0 => l = <<p, from>>
<1> DEFINE moved == [x \in Loc |-> IF x = <<p, from>> THEN -q
                                   ELSE IF x = <<p, to>> THEN q ELSE 0]
<1>1. q \in Int /\ q > 0
  BY InventoryAssumption DEF Qty
<1>2. /\ moved \in [Loc -> Int]
      /\ \A l \in Loc : moved[l] < 0 => l = <<p, from>>
  BY <1>1
<1>3. \/ UNCHANGED <<quantity, ledger, lowSince>>
      \/ /\ lowSince' = LowAfter(quantity') \ {<<p, from>>}
         /\ quantity' = [x \in Loc |-> quantity[x] + moved[x]]
         /\ ledger' = [ledger EXCEPT !["transfer"] =
                         [x \in Loc |-> @[x] + moved[x]]]
  BY DEF Transfer
<1>4. \E r \in Reply : call' = [call EXCEPT ![c] = Committed(NoRequest, r, {})]
  BY DEF Transfer, Reply
<1>5. /\ quantity \in [Loc -> Int] /\ ledger \in [MovementType -> [Loc -> Int]]
      /\ "transfer" \in MovementType
  BY DEF TypeOK, MovementType
<1> HIDE DEF moved
<1>6. ASSUME quantity' = [x \in Loc |-> quantity[x] + moved[x]],
             ledger' = [ledger EXCEPT !["transfer"] =
                          [x \in Loc |-> @[x] + moved[x]]],
             NEW l \in Loc
      PROVE  Booked("transfer", l, moved[l]) /\ moved[l] \in Int
  <2>1. quantity'[l] = quantity[l] + moved[l]
    BY <1>2, <1>5, <1>6
  <2>2. \A u \in MovementType : ledger'[u][l] =
          ledger[u][l] + (IF u = "transfer" THEN moved[l] ELSE 0)
    BY <1>2, <1>5, <1>6, RowAddedAt
  <2> QED BY <1>2, <2>1, <2>2 DEF Booked
<1> QED BY <1>2, <1>3, <1>4, <1>6

LEMMA AdjustBooked ==
    ASSUME TypeOK, NEW c \in Call, NEW x \in Loc, NEW n \in 0 .. MaxQty,
           Adjust(c, x, n)
    PROVE  /\ call' = [call EXCEPT ![c] = Committed(NoRequest, "ok",
                         {[event |-> "low", loc |-> x, n |-> n]})]
           /\ lowSince' = LowAfter(quantity')
           /\ quantity'[x] = n
           /\ \A l \in Loc : Recounted(l, IF l = x THEN n - quantity[x] ELSE 0)
<1>1. n \in Int
  BY InventoryAssumption
<1>2. /\ quantity \in [Loc -> Int] /\ ledger \in [MovementType -> [Loc -> Int]]
      /\ "adjustment" \in MovementType
  BY DEF TypeOK, MovementType
<1>3. PICK m : /\ m = Difference(x, n)
               /\ quantity' = [quantity EXCEPT ![x] = n]
               /\ ledger' = [ledger EXCEPT !["adjustment"][x] = @ + m]
  BY DEF Adjust
<1>4. quantity'[x] = n /\ quantity[x] \in Int
  BY <1>2, <1>3
<1>5. PICK d : d = n - quantity[x]
  OBVIOUS
<1>6. d \in Int /\ m = (IF d < 0 THEN -d ELSE d) /\ m \in Int
  BY <1>1, <1>3, <1>4, <1>5 DEF Difference
<1>7. ASSUME NEW l \in Loc
      PROVE  Recounted(l, IF l = x THEN d ELSE 0)
  <2>1. quantity'[l] = quantity[l] + (IF l = x THEN d ELSE 0)
    BY <1>1, <1>2, <1>3, <1>4, <1>5
  <2>2. ASSUME NEW u \in MovementType
        PROVE  ledger'[u][l] = ledger[u][l]
                 + (IF u = "adjustment" /\ l = x THEN m ELSE 0)
    BY <1>2, <1>3, <1>6, EntryAddedAt
  <2> QED BY <1>6, <2>1, <2>2 DEF Recounted
<1> QED BY <1>4, <1>5, <1>7 DEF Adjust

LEMMA ReceiveBooked ==
    ASSUME TypeOK, NEW c \in Call, NEW w \in Warehouse, NEW items \in Deliveries,
           Receive(c, w, items)
    PROVE  /\ call' = [call EXCEPT ![c] =
                          Committed(NoRequest, "ok", Arrivals(items, w))]
           /\ lowSince' = LowAfter(quantity')
           /\ \A l \in Loc : Booked("receipt", l, UnitsAt(items, w, l))
<1> DEFINE came == [x \in Loc |-> IF x[2] = w /\ x[1] \in DOMAIN items
                                  THEN items[x[1]] ELSE 0]
<1>1. \A p \in DOMAIN items : items[p] \in Int
  BY InventoryAssumption DEF Deliveries
<1>2. came \in [Loc -> Int]
  BY <1>1
<1>3. \A l \in Loc : came[l] = UnitsAt(items, w, l)
  BY DEF UnitsAt
<1>4. /\ quantity' = [x \in Loc |-> quantity[x] + came[x]]
      /\ ledger' = [ledger EXCEPT !["receipt"] = [x \in Loc |-> @[x] + came[x]]]
  BY DEF Receive
<1>5. /\ quantity \in [Loc -> Int] /\ ledger \in [MovementType -> [Loc -> Int]]
      /\ "receipt" \in MovementType
  BY DEF TypeOK, MovementType
<1>6. ASSUME NEW l \in Loc PROVE Booked("receipt", l, came[l])
  <2> HIDE DEF came
  <2>1. quantity'[l] = quantity[l] + came[l]
    BY <1>2, <1>4, <1>5
  <2>2. \A u \in MovementType : ledger'[u][l] =
          ledger[u][l] + (IF u = "receipt" THEN came[l] ELSE 0)
    BY <1>2, <1>4, <1>5, RowAddedAt
  <2> QED BY <2>1, <2>2 DEF Booked
<1> HIDE DEF came
<1>7. /\ call' = [call EXCEPT ![c] =
                     Committed(NoRequest, "ok", Arrivals(items, w))]
      /\ lowSince' = LowAfter(quantity')
  BY DEF Receive, Arrivals
<1> QED BY <1>3, <1>6, <1>7

\* Every step books what it does to the level of a location.
LEMMA StepBooked ==
    ASSUME TypeOK, [Next]_vars, NEW l \in Loc
    PROVE  \/ \E t \in MovementType \ {"adjustment"}, d \in Int : Booked(t, l, d)
           \/ \E d \in Int : Recounted(l, d)
<1> DEFINE Done ==
        \/ \E t \in MovementType \ {"adjustment"}, d \in Int : Booked(t, l, d)
        \/ \E d \in Int : Recounted(l, d)
<1>0. ASSUME UNCHANGED <<quantity, ledger>> PROVE Done
  <2>1. "receipt" \in MovementType \ {"adjustment"} /\ 0 \in Int
    BY DEF MovementType
  <2> QED BY <1>0, <2>1, NothingBooked
<1>1. ASSUME NEW c \in Call, Apply(c) PROVE Done
  <2> DEFINE req == call[c].req
  <2>1. req \in Request
    BY <1>1, ApplyBooked
  <2>2. /\ req.op \in MovementType \ {"adjustment"}
        /\ QuantityChange(req.op, req.qty) \in Int
    BY <2>1, ChangeType DEF Request, MovementType, SingleOp
  <2> QED BY <1>0, <1>1, <2>2, ApplyBooked
<1>2. ASSUME NEW c \in Call, NEW w \in Warehouse, NEW wanted \in Batches,
             NEW k \in Key \cup {NoKey}, NEW b \in BOOLEAN,
             DeductBatch(c, w, wanted, k, b)
      PROVE  Done
  <2>1. - UnitsAt(wanted, w, l) \in Int /\ "deduct" \in MovementType \ {"adjustment"}
    BY InventoryAssumption DEF UnitsAt, Batches, Qty, MovementType, SingleOp
  <2>2. UNCHANGED <<quantity, ledger>> \/ Booked("deduct", l, - UnitsAt(wanted, w, l))
    BY <1>2, DeductBatchBooked
  <2> QED BY <1>0, <2>1, <2>2
<1>3. ASSUME NEW c \in Call, NEW p \in Product, NEW from \in Warehouse,
             NEW to \in Warehouse, NEW q \in Qty, Transfer(c, p, from, to, q)
      PROVE  Done
  <2>1. "transfer" \in MovementType \ {"adjustment"}
    BY DEF MovementType
  <2> QED BY <1>0, <1>3, <2>1, TransferBooked
<1>4. ASSUME NEW c \in Call, NEW x \in Loc, NEW n \in 0 .. MaxQty, Adjust(c, x, n)
      PROVE  Done
  <2> DEFINE d == IF l = x THEN n - quantity[x] ELSE 0
  <2>1. d \in Int
    BY InventoryAssumption DEF TypeOK
  <2>2. Recounted(l, d)
    BY <1>4, AdjustBooked
  <2> HIDE DEF d
  <2> QED BY <2>1, <2>2
<1>5. ASSUME NEW c \in Call, NEW w \in Warehouse, NEW items \in Deliveries,
             Receive(c, w, items)
      PROVE  Done
  <2>1. UnitsAt(items, w, l) \in Int /\ "receipt" \in MovementType \ {"adjustment"}
    BY InventoryAssumption DEF UnitsAt, Deliveries, MovementType
  <2>2. Booked("receipt", l, UnitsAt(items, w, l))
    BY <1>5, ReceiveBooked
  <2> QED BY <2>1, <2>2
<1>6. ASSUME NEW c \in Call,
             \/ \E op \in SingleOp, x \in Loc, q \in Qty, k \in Key \cup {NoKey} :
                   Begin(c, op, x, q, k)
             \/ Announce(c) \/ Collect(c) \/ Crash(c)
      PROVE  Done
  <2>1. UNCHANGED <<quantity, ledger>>
    BY <1>6 DEF Begin, Announce, Collect, Crash, stockVars
  <2> QED BY <1>0, <2>1
<1>7. CASE UNCHANGED vars
  BY <1>0, <1>7 DEF vars, stockVars
<1>8. CASE Next
  <2> SUFFICES ASSUME NEW c \in Call,
         \/ \E op \in SingleOp, x \in Loc, q \in Qty, k \in Key \cup {NoKey} :
               Begin(c, op, x, q, k)
         \/ Apply(c)
         \/ \E w \in Warehouse, wanted \in Batches, k \in Key \cup {NoKey},
               b \in BOOLEAN : DeductBatch(c, w, wanted, k, b)
         \/ \E p \in Product, from, to \in Warehouse, q \in Qty :
               Transfer(c, p, from, to, q)
         \/ \E x \in Loc, n \in 0 .. MaxQty : Adjust(c, x, n)
         \/ \E w \in Warehouse, items \in Deliveries : Receive(c, w, items)
         \/ Announce(c) \/ Collect(c) \/ Crash(c)
               PROVE  Done
    BY <1>8 DEF Next
  <2> QED BY <1>1, <1>2, <1>3, <1>4, <1>5, <1>6
<1> QED
  <2> HIDE DEF Done
  <2> QED BY <1>7, <1>8

\* LedgerBalances as it is kept: the corrections cover the difference.
Explained(q, traced, a) == q <= traced + a /\ q >= traced - a

\* The movement table explains every unit on hand up to the corrections that
\* stocktakes recorded, whatever the number of requests at work on one row.
THEOREM HistoryExplainsStock == Spec => []LedgerBalances
<1>1. Init => LedgerBalances
  <2> SUFFICES ASSUME Init, NEW l \in Loc
               PROVE  /\ quantity[l] = Seed[l] /\ Seed[l] \in Int
                      /\ \A t \in MovementType : ledger[t][l] = 0
    BY DEF LedgerBalances, Traced, MovementType, SingleOp
  <2> QED BY InventoryAssumption DEF Init
<1>2. TypeOK /\ LedgerBalances /\ [Next]_vars => LedgerBalances'
  <2> SUFFICES ASSUME TypeOK, LedgerBalances, [Next]_vars, NEW l \in Loc
               PROVE  Explained(quantity[l], Traced(l), ledger["adjustment"][l])'
    BY DEF LedgerBalances, Explained
  <2>1. Explained(quantity[l], Traced(l), ledger["adjustment"][l])
    BY DEF LedgerBalances, Explained
  <2>2. /\ \A u \in MovementType : ledger[u][l] \in Int
        /\ quantity[l] \in Int /\ Seed[l] \in Int
    BY InventoryAssumption DEF TypeOK
  <2>3. Traced(l) \in Int
    BY <2>2 DEF Traced, MovementType, SingleOp
  <2>4. ASSUME NEW t \in MovementType \ {"adjustment"}, NEW d \in Int,
               Booked(t, l, d)
        PROVE  Explained(quantity[l], Traced(l), ledger["adjustment"][l])'
    <3>1. /\ quantity'[l] = quantity[l] + d
          /\ \A u \in MovementType :
                ledger'[u][l] = ledger[u][l] + (IF u = t THEN d ELSE 0)
      BY <2>4 DEF Booked
    <3>2. Traced(l)' = Traced(l) + d
      BY <2>2, <3>1 DEF Traced, MovementType, SingleOp
    <3>3. ledger'["adjustment"][l] = ledger["adjustment"][l]
      BY <2>2, <3>1 DEF MovementType
    <3> QED BY <2>1, <2>2, <2>3, <3>1, <3>2, <3>3 DEF Explained, MovementType
  <2>5. ASSUME NEW d \in Int, Recounted(l, d)
        PROVE  Explained(quantity[l], Traced(l), ledger["adjustment"][l])'
    <3>1. /\ quantity'[l] = quantity[l] + d
          /\ ledger'["adjustment"][l] = ledger["adjustment"][l]
                                          + (IF d < 0 THEN -d ELSE d)
          /\ \A u \in MovementType \ {"adjustment"} :
                ledger'[u][l] = ledger[u][l] + 0
      BY <2>5 DEF Recounted, MovementType
    <3>2. Traced(l)' = Traced(l)
      BY <2>2, <3>1 DEF Traced, MovementType, SingleOp
    <3> QED BY <2>1, <2>2, <2>3, <3>1, <3>2 DEF Explained, MovementType
  <2> QED BY <2>4, <2>5, StepBooked
<1> QED BY <1>1, <1>2, TypeCorrect, PTL DEF Spec

-----------------------------------------------------------------------------
(* Low stock.  NoSilentLow is not inductive alone: that a call which starts  *)
(* or ends owes nothing, and that a level counted as low is still low when a *)
(* deduction is announced, belong to it.                                     *)

OwnsTodo == \A c \in Call : call[c].todo # {} => call[c].pc = "publishing"
LowIsLow == \A l \in lowSince : quantity[l] <= LowStock
LowInv   == OwnsTodo /\ LowIsLow /\ NoSilentLow

\* An announcement that will lead to an alert for l, if its level stays.
Warns(a, l) ==
    /\ a.loc = l
    /\ \/ a.event = "deducted"
       \/ a.event = "low" /\ a.n <= LowStock

LEMMA ReplacedAt ==
    ASSUME TypeOK, NEW c \in Call, NEW r, call' = [call EXCEPT ![c] = r]
    PROVE  call'[c] = r /\ \A d \in Call \ {c} : call'[d] = call[d]
BY DEF TypeOK

LEMMA OwnsTodoKept ==
    ASSUME TypeOK, OwnsTodo, NEW c \in Call, NEW r,
           call' = [call EXCEPT ![c] = r], r.todo # {} => r.pc = "publishing"
    PROVE  OwnsTodo'
BY ReplacedAt DEF OwnsTodo

LEMMA CommittedOwns ==
    ASSUME NEW q, NEW r, NEW todo
    PROVE  /\ Committed(q, r, todo).todo = todo
           /\ todo # {} => Committed(q, r, todo).pc = "publishing"
BY DEF Committed

LEMMA NewWarning ==
    ASSUME TypeOK, NEW c \in Call, NEW r, call' = [call EXCEPT ![c] = r],
           NEW l, NEW b \in r.todo, Warns(b, l)
    PROVE  LowStockOwed(l)'
<1>1. b \in call'[c].todo
  BY ReplacedAt
<1> QED BY <1>1 DEF LowStockOwed, Warns

\* A step that replaces one call keeps a warning another call owes, and its
\* own if the new state of the call has one.
LEMMA KeepsWarning ==
    ASSUME TypeOK, NoSilentLow, NEW c \in Call, NEW r,
           call' = [call EXCEPT ![c] = r], lost \subseteq lost',
           NEW l \in lowSince,
           \A a \in call[c].todo :
              Warns(a, l) => l \in lost' \/ \E b \in r.todo : Warns(b, l)
    PROVE  l \in lost' \/ LowStockOwed(l)'
<1>1. CASE l \in lost
  BY <1>1
<1>2. CASE LowStockOwed(l)
  <2>1. PICK d \in Call : \E a \in call[d].todo : Warns(a, l)
    BY <1>2 DEF LowStockOwed, Warns
  <2>2. CASE d = c
    <3>1. l \in lost' \/ \E b \in r.todo : Warns(b, l)
      BY <2>1, <2>2
    <3> QED BY <3>1, NewWarning
  <2>3. CASE d # c
    <3>1. call'[d] = call[d]
      BY <2>3, ReplacedAt
    <3> QED BY <2>1, <3>1 DEF LowStockOwed, Warns
  <2> QED BY <2>2, <2>3
<1> QED BY <1>1, <1>2 DEF NoSilentLow

LEMMA FreeOwesNothing ==
    ASSUME OwnsTodo, NEW c \in Call, call[c].pc # "publishing"
    PROVE  call[c].todo = {}
BY DEF OwnsTodo

\* An operation of a call that owed nothing: the low levels are those the step
\* leaves low, and each level the step lowers is owed a warning.
LEMMA LowAfterOperation ==
    ASSUME TypeOK, LowInv, NEW c \in Call, call[c].todo = {},
           NEW q, NEW s, NEW todo,
           call' = [call EXCEPT ![c] = Committed(q, s, todo)],
           lost' = lost, lowSince' \subseteq LowAfter(quantity'),
           \A l \in lowSince' :
              quantity'[l] < quantity[l] => \E b \in todo : Warns(b, l)
    PROVE  LowInv'
<1> DEFINE r == Committed(q, s, todo)
<1>0. r.todo = todo /\ (r.todo # {} => r.pc = "publishing")
  BY CommittedOwns
<1> HIDE DEF r
<1>a. call' = [call EXCEPT ![c] = r]
  BY DEF r
<1>1. OwnsTodo'
  BY <1>0, <1>a, OwnsTodoKept DEF LowInv
<1>2. LowIsLow'
  BY DEF LowIsLow, LowAfter
<1>3. ASSUME NEW l \in lowSince'
      PROVE  l \in lost' \/ LowStockOwed(l)'
  <2>1. CASE quantity'[l] < quantity[l]
    <3>1. PICK b \in todo : Warns(b, l)
      BY <2>1
    <3> QED BY <1>0, <1>a, <3>1, NewWarning
  <2>2. CASE l \in lowSince
    BY <1>a, <2>2, KeepsWarning DEF LowInv
  <2> QED BY <2>1, <2>2 DEF LowAfter
<1> QED BY <1>1, <1>2, <1>3 DEF LowInv, NoSilentLow

\* A step that leaves the stock alone and lowers nothing.
LEMMA LowUntouched ==
    ASSUME TypeOK, LowInv, NEW c \in Call, NEW r,
           call' = [call EXCEPT ![c] = r], r.todo # {} => r.pc = "publishing",
           quantity' = quantity, lowSince' \subseteq lowSince,
           lost \subseteq lost',
           \A l \in lowSince' : \A a \in call[c].todo :
              Warns(a, l) => l \in lost' \/ \E b \in r.todo : Warns(b, l)
    PROVE  LowInv'
<1>1. OwnsTodo'
  BY OwnsTodoKept DEF LowInv
<1>2. LowIsLow'
  BY DEF LowInv, LowIsLow
<1>3. NoSilentLow'
  BY KeepsWarning DEF LowInv, NoSilentLow
<1> QED BY <1>1, <1>2, <1>3 DEF LowInv

LEMMA BeginLow ==
    ASSUME TypeOK, LowInv, NEW c \in Call, NEW op \in SingleOp, NEW l \in Loc,
           NEW q \in Qty, NEW k \in Key \cup {NoKey}, Begin(c, op, l, q, k)
    PROVE  LowInv'
<1> DEFINE req == [op |-> op, loc |-> l, qty |-> q, key |-> k]
           R == {Committed(req, "conflict", {}),
                 [pc |-> "checked", req |-> req, reply |-> "none", todo |-> {}]}
<1>1. \A r \in R : r.todo = {}
  BY DEF Committed
<1>2. PICK r \in R : call' = [call EXCEPT ![c] = r]
  BY DEF Begin
<1>3. call[c].todo = {}
  BY FreeOwesNothing DEF Begin, LowInv
<1>4. UNCHANGED <<quantity, lowSince, lost>>
  BY DEF Begin, stockVars, busVars
<1> HIDE DEF R
<1> QED BY <1>1, <1>2, <1>3, <1>4, LowUntouched

LEMMA ApplyLow ==
    ASSUME TypeOK, LowInv, NEW c \in Call, Apply(c)
    PROVE  LowInv'
<1> DEFINE req == call[c].req
<1>1. call[c].todo = {} /\ lost' = lost
  BY FreeOwesNothing DEF Apply, LowInv
<1>2. req \in Request
  BY DEF Apply, TypeOK
<1>3. CASE UNCHANGED <<quantity, ledger, lowSince>>
  <2>1. LowAfter(quantity') = lowSince
    BY <1>3 DEF LowAfter, LowInv, LowIsLow, TypeOK
  <2>2. \A l \in lowSince' : ~ (quantity'[l] < quantity[l])
    BY <1>3 DEF TypeOK
  <2>3. PICK s, todo : call' = [call EXCEPT ![c] = Committed(req, s, todo)]
    BY DEF Apply
  <2> HIDE DEF req
  <2> QED BY <1>1, <1>3, <2>1, <2>2, <2>3, LowAfterOperation
<1>4. CASE ~ UNCHANGED <<quantity, ledger, lowSince>>
  <2>1. /\ call' = [call EXCEPT ![c] =
                      Committed(req, "ok", Owes(req.op, req.loc, req.qty))]
        /\ lowSince' = LowAfter(quantity')
        /\ \A l \in Loc : Booked(req.op, l,
                IF l = req.loc THEN QuantityChange(req.op, req.qty) ELSE 0)
    BY <1>4, ApplyBooked
  <2>2. ASSUME NEW l \in lowSince', quantity'[l] < quantity[l]
        PROVE  \E b \in Owes(req.op, req.loc, req.qty) : Warns(b, l)
    <3>1. l \in Loc
      BY <2>1, LowAfterType
    <3>2. quantity'[l] = quantity[l]
             + (IF l = req.loc THEN QuantityChange(req.op, req.qty) ELSE 0)
      BY <2>1, <3>1 DEF Booked
    <3>3. quantity[l] \in Int /\ req.qty \in Nat /\ req.op \in SingleOp
      BY <1>2, <3>1, InventoryAssumption DEF TypeOK, Request, Qty
    <3>4. l = req.loc /\ QuantityChange(req.op, req.qty) < 0
      BY <2>2, <3>2, <3>3 DEF QuantityChange, SingleOp
    <3>5. req.op = "deduct"
      BY <3>3, <3>4 DEF QuantityChange, SingleOp
    <3> DEFINE b == [event |-> "deducted", loc |-> req.loc, n |-> - req.qty]
    <3>6. b \in Owes(req.op, req.loc, req.qty)
      BY <3>5 DEF Owes
    <3>7. Warns(b, l)
      BY <3>4 DEF Warns
    <3> QED BY <3>6, <3>7
  <2> QED BY <1>1, <2>1, <2>2, LowAfterOperation
<1> QED BY <1>3, <1>4

LEMMA DeductBatchLow ==
    ASSUME TypeOK, LowInv, NEW c \in Call, NEW w \in Warehouse,
           NEW wanted \in Batches, NEW k \in Key \cup {NoKey}, NEW b \in BOOLEAN,
           DeductBatch(c, w, wanted, k, b)
    PROVE  LowInv'
<1>1. call[c].todo = {} /\ lost' = lost
  BY FreeOwesNothing DEF DeductBatch, LowInv
<1>2. CASE UNCHANGED <<quantity, ledger, lowSince>>
  <2>1. LowAfter(quantity') = lowSince
    BY <1>2 DEF LowAfter, LowInv, LowIsLow, TypeOK
  <2>2. \A l \in lowSince' : ~ (quantity'[l] < quantity[l])
    BY <1>2 DEF TypeOK
  <2>3. \E s, todo : call' = [call EXCEPT ![c] = Committed(NoRequest, s, todo)]
    BY DEF DeductBatch
  <2> QED BY <1>1, <1>2, <2>1, <2>2, <2>3, LowAfterOperation
<1>3. CASE ~ UNCHANGED <<quantity, ledger, lowSince>>
  <2>1. /\ call' = [call EXCEPT ![c] =
                      Committed(NoRequest, "ok", Deductions(wanted, w))]
        /\ lowSince' = LowAfter(quantity')
        /\ \A l \in Loc : Booked("deduct", l, - UnitsAt(wanted, w, l))
    BY <1>3, DeductBatchBooked
  <2>2. ASSUME NEW l \in lowSince', quantity'[l] < quantity[l]
        PROVE  \E a \in Deductions(wanted, w) : Warns(a, l)
    <3>1. l \in Loc
      BY <2>1, LowAfterType
    <3>2. quantity'[l] = quantity[l] + (- UnitsAt(wanted, w, l))
      BY <2>1, <3>1 DEF Booked
    <3>3. quantity[l] \in Int
      BY <3>1 DEF TypeOK
    <3>4. l[2] = w /\ l[1] \in DOMAIN wanted
      BY <2>2, <3>2, <3>3 DEF UnitsAt
    <3>5. l = <<l[1], w>>
      BY <3>1, <3>4 DEF Loc
    <3> DEFINE a == [event |-> "deducted", loc |-> <<l[1], w>>, n |-> -wanted[l[1]]]
    <3>6. a \in Deductions(wanted, w)
      BY <3>4 DEF Deductions
    <3>7. Warns(a, l)
      BY <3>5 DEF Warns
    <3> QED BY <3>6, <3>7
  <2> QED BY <1>1, <2>1, <2>2, LowAfterOperation
<1> QED BY <1>2, <1>3

LEMMA TransferLow ==
    ASSUME TypeOK, LowInv, NEW c \in Call, NEW p \in Product,
           NEW from \in Warehouse, NEW to \in Warehouse, NEW q \in Qty,
           Transfer(c, p, from, to, q)
    PROVE  LowInv'
<1>1. call[c].todo = {} /\ lost' = lost
  BY FreeOwesNothing DEF Transfer, LowInv
<1>2. PICK s : call' = [call EXCEPT ![c] = Committed(NoRequest, s, {})]
  BY DEF Transfer
<1>3. CASE UNCHANGED <<quantity, ledger, lowSince>>
  <2>1. LowAfter(quantity') = lowSince
    BY <1>3 DEF LowAfter, LowInv, LowIsLow, TypeOK
  <2>2. \A l \in lowSince' : ~ (quantity'[l] < quantity[l])
    BY <1>3 DEF TypeOK
  <2> QED BY <1>1, <1>2, <1>3, <2>1, <2>2, LowAfterOperation
<1>4. CASE ~ UNCHANGED <<quantity, ledger, lowSince>>
  <2>1. /\ lowSince' = LowAfter(quantity') \ {<<p, from>>}
        /\ \A l \in Loc : \E d \in Int : /\ Booked("transfer", l, d)
                                         /\ d < 0 => l = <<p, from>>
    BY <1>4, TransferBooked
  <2>2. ASSUME NEW l \in lowSince'
        PROVE  ~ (quantity'[l] < quantity[l])
    <3>1. l \in Loc /\ l # <<p, from>>
      BY <2>1, LowAfterType
    <3>2. PICK d \in Int : Booked("transfer", l, d) /\ ~ (d < 0)
      BY <2>1, <3>1
    <3>3. quantity'[l] = quantity[l] + d /\ quantity[l] \in Int
      BY <3>1, <3>2 DEF Booked, TypeOK
    <3> QED BY <3>2, <3>3
  <2> QED BY <1>1, <1>2, <2>1, <2>2, LowAfterOperation
<1> QED BY <1>3, <1>4

LEMMA AdjustLow ==
    ASSUME TypeOK, LowInv, NEW c \in Call, NEW x \in Loc, NEW n \in 0 .. MaxQty,
           Adjust(c, x, n)
    PROVE  LowInv'
<1> DEFINE a == [event |-> "low", loc |-> x, n |-> n]
<1>1. call[c].todo = {} /\ lost' = lost
  BY FreeOwesNothing DEF Adjust, LowInv
<1>2. /\ call' = [call EXCEPT ![c] = Committed(NoRequest, "ok", {a})]
      /\ lowSince' = LowAfter(quantity') /\ quantity'[x] = n
      /\ \A l \in Loc : Recounted(l, IF l = x THEN n - quantity[x] ELSE 0)
  BY AdjustBooked
<1>3. ASSUME NEW l \in lowSince', quantity'[l] < quantity[l]
      PROVE  \E b \in {a} : Warns(b, l)
  <2>1. l \in Loc /\ quantity'[l] <= LowStock
    BY <1>2 DEF LowAfter
  <2>2. quantity'[l] = quantity[l] + (IF l = x THEN n - quantity[x] ELSE 0)
    BY <1>2, <2>1 DEF Recounted
  <2>3. quantity[l] \in Int
    BY <2>1 DEF TypeOK
  <2>4. l = x /\ n <= LowStock
    BY <1>2, <1>3, <2>1, <2>2, <2>3
  <2> QED BY <2>4 DEF Warns
<1> QED BY <1>1, <1>2, <1>3, LowAfterOperation

LEMMA ReceiveLow ==
    ASSUME TypeOK, LowInv, NEW c \in Call, NEW w \in Warehouse,
           NEW items \in Deliveries, Receive(c, w, items)
    PROVE  LowInv'
<1>1. call[c].todo = {} /\ lost' = lost
  BY FreeOwesNothing DEF Receive, LowInv
<1>2. /\ call' = [call EXCEPT ![c] =
                    Committed(NoRequest, "ok", Arrivals(items, w))]
      /\ lowSince' = LowAfter(quantity')
      /\ \A l \in Loc : Booked("receipt", l, UnitsAt(items, w, l))
  BY ReceiveBooked
<1>3. ASSUME NEW l \in lowSince'
      PROVE  ~ (quantity'[l] < quantity[l])
  <2>1. l \in Loc
    BY <1>2, LowAfterType
  <2>2. quantity'[l] = quantity[l] + UnitsAt(items, w, l) /\ quantity[l] \in Int
    BY <1>2, <2>1 DEF Booked, TypeOK
  <2>3. UnitsAt(items, w, l) \in Nat
    BY InventoryAssumption DEF UnitsAt, Deliveries
  <2> QED BY <2>2, <2>3
<1> QED BY <1>1, <1>2, <1>3, LowAfterOperation

\* The announcement of a deduction reads the level again: if it is counted as
\* low the check that follows will find it so.
LEMMA AnnounceLow ==
    ASSUME TypeOK, LowInv, NEW c \in Call, Announce(c)
    PROVE  LowInv'
<1> PICK a \in call[c].todo :
      LET next == IF a.event = "deducted"
                  THEN {[event |-> "low", loc |-> a.loc, n |-> quantity[a.loc]]}
                  ELSE {}
          left == (call[c].todo \ {a}) \cup next
      IN
      /\ call' = [call EXCEPT ![c] = Committed(@.req, @.reply, left)]
      /\ lowSince' = IF a.event = "low" /\ a.n <= LowStock
                     THEN lowSince \ {a.loc} ELSE lowSince
      /\ UNCHANGED <<quantity, lost>>
  BY DEF Announce, IsLow, stockVars
<1> DEFINE check == [event |-> "low", loc |-> a.loc, n |-> quantity[a.loc]]
           left == (call[c].todo \ {a})
                     \cup (IF a.event = "deducted" THEN {check} ELSE {})
           r == Committed(call[c].req, call[c].reply, left)
<1>1. call' = [call EXCEPT ![c] = r]
  OBVIOUS
<1>2. r.todo = left /\ (r.todo # {} => r.pc = "publishing")
  <2> HIDE DEF left
  <2> QED BY CommittedOwns
<1> HIDE DEF r
<1>3. lowSince' \subseteq lowSince /\ UNCHANGED <<quantity, lost>>
  OBVIOUS
<1>4. ASSUME NEW l \in lowSince', NEW b \in call[c].todo, Warns(b, l)
      PROVE  \E d \in left : Warns(d, l)
  <2>1. CASE b # a
    BY <1>4, <2>1
  <2>2. CASE b = a
    <3>1. a.event = "deducted" /\ a.loc = l
      BY <1>4, <2>2 DEF Warns
    <3>2. check \in left /\ quantity[l] <= LowStock
      BY <1>3, <1>4, <3>1 DEF LowInv, LowIsLow
    <3>3. Warns(check, l)
      BY <3>1, <3>2 DEF Warns
    <3> QED BY <3>2, <3>3
  <2> QED BY <2>1, <2>2
<1> HIDE DEF left
<1> QED BY <1>1, <1>2, <1>3, <1>4, LowUntouched

LEMMA CollectLow ==
    ASSUME TypeOK, LowInv, NEW c \in Call, Collect(c)
    PROVE  LowInv'
<1>1. call[c].todo = {} /\ UNCHANGED <<quantity, lowSince, lost>>
  BY FreeOwesNothing DEF Collect, LowInv, stockVars, busVars
<1>2. call' = [call EXCEPT ![c] = Idle] /\ Idle.todo = {}
  BY DEF Collect, Idle
<1> QED BY <1>1, <1>2, LowUntouched

LEMMA CrashLow ==
    ASSUME TypeOK, LowInv, NEW c \in Call, Crash(c)
    PROVE  LowInv'
<1> DEFINE r == Committed(call[c].req, "dropped", {})
<1>1. /\ call' = [call EXCEPT ![c] = r]
      /\ lost' = lost \cup {a.loc : a \in call[c].todo}
      /\ UNCHANGED <<quantity, lowSince>>
  BY DEF Crash, stockVars
<1>2. r.todo = {}
  BY CommittedOwns
<1>3. \A l \in lowSince' : \A a \in call[c].todo : Warns(a, l) => l \in lost'
  BY <1>1 DEF Warns
<1> HIDE DEF r
<1> QED BY <1>1, <1>2, <1>3, LowUntouched

LEMMA LowStep == TypeOK /\ LowInv /\ [Next]_vars => LowInv'
<1> SUFFICES ASSUME TypeOK, LowInv, [Next]_vars PROVE LowInv'
  OBVIOUS
<1>1. CASE UNCHANGED vars
  BY <1>1 DEF vars, stockVars, busVars, LowInv, OwnsTodo, LowIsLow, NoSilentLow,
              LowStockOwed
<1>2. CASE Next
  BY <1>2, BeginLow, ApplyLow, DeductBatchLow, TransferLow, AdjustLow,
     ReceiveLow, AnnounceLow, CollectLow, CrashLow DEF Next
<1> QED BY <1>1, <1>2

\* A drop to the threshold is never forgotten: as long as no alert went out,
\* some call still owes a check that finds the level low, or the worker that
\* owed it was killed.
THEOREM NoLowForgotten == Spec => []NoSilentLow
<1>1. Init => LowInv
  BY DEF Init, Idle, LowInv, OwnsTodo, LowIsLow, NoSilentLow
<1>2. LowInv => NoSilentLow
  BY DEF LowInv
<1> QED BY <1>1, <1>2, LowStep, TypeCorrect, PTL DEF Spec

-----------------------------------------------------------------------------
(* What is announced.  The sums of ChangesAnnounced are taken apart with the *)
(* lemmas of module Sums.                                                    *)

\* The announcements about the level of l in a list, and their units.
OwedSet(todo, l) ==
    {a \in todo : a.loc = l /\ a.event \in {"stock.changed", "deducted"}}
UnitsOwed(todo, l) ==
    SumOver([a \in OwedSet(todo, l) |-> a.n], OwedSet(todo, l))

\* The units the ledger says were delivered, returned or deducted.
Sold(l) == ledger["receipt"][l] + ledger["deduct"][l] + ledger["return"][l]

FinitelyOwed == \A c \in Call, l \in Loc : IsFiniteSet(OwedSet(call[c].todo, l))
AnnouncedInv == OwnsTodo /\ FinitelyOwed /\ ChangesAnnounced

\* MapThenSumSet, as the model uses it, is SumOver.
LEMMA UnitsAreSums ==
    ASSUME NEW T
    PROVE  MapThenSumSet(LAMBDA a : a.n, T) = SumOver([a \in T |-> a.n], T)
<1> DEFINE f == [a \in T |-> a.n]
<1>1. \A it : IsTable(it, f, T) <=>
        it = [s \in SUBSET T |->
                IF s = {} THEN 0 ELSE Picked(s).n + it[s \ {Picked(s)}]]
  <2>1. \A s \in SUBSET T : s # {} => f[Picked(s)] = Picked(s).n
    BY PickedIn
  <2> HIDE DEF f
  <2> QED BY <2>1 DEF IsTable
<1> HIDE DEF f
<1>2. (CHOOSE it : IsTable(it, f, T))
        = CHOOSE it : it = [s \in SUBSET T |->
            IF s = {} THEN 0 ELSE Picked(s).n + it[s \ {Picked(s)}]]
  BY <1>1
<1>3. MapThenSumSet(LAMBDA a : a.n, T)
        = (CHOOSE it : it = [s \in SUBSET T |->
            IF s = {} THEN 0 ELSE Picked(s).n + it[s \ {Picked(s)}]])[T]
  BY DEF MapThenSumSet, MapThenFoldSet, Picked
<1> QED BY <1>2, <1>3 DEF SumOver, f

LEMMA OwedByIsSum ==
    ASSUME NEW c, NEW l
    PROVE  OwedBy(c, l) = UnitsOwed(call[c].todo, l)
<1>1. OwedBy(c, l) = MapThenSumSet(LAMBDA a : a.n, OwedSet(call[c].todo, l))
  BY Zenon DEF OwedBy, OwedSet
<1> QED BY <1>1, UnitsAreSums, Zenon DEF UnitsOwed

LEMMA OwedIsSum ==
    ASSUME NEW l
    PROVE  Owed(l) = SumOver([c \in Call |-> OwedBy(c, l)], Call)
<1> DEFINE f == [c \in Call |-> OwedBy(c, l)]
<1>1. \A it : IsTable(it, f, Call) <=>
        it = [s \in SUBSET Call |->
                IF s = {} THEN 0 ELSE OwedBy(Picked(s), l) + it[s \ {Picked(s)}]]
  <2>1. \A s \in SUBSET Call : s # {} => f[Picked(s)] = OwedBy(Picked(s), l)
    BY PickedIn
  <2> HIDE DEF f
  <2> QED BY <2>1 DEF IsTable
<1> HIDE DEF f
<1>2. (CHOOSE it : IsTable(it, f, Call))
        = CHOOSE it : it = [s \in SUBSET Call |->
            IF s = {} THEN 0 ELSE OwedBy(Picked(s), l) + it[s \ {Picked(s)}]]
  BY <1>1
<1>3. Owed(l) = (CHOOSE it : it = [s \in SUBSET Call |->
            IF s = {} THEN 0 ELSE OwedBy(Picked(s), l) + it[s \ {Picked(s)}]])[Call]
  BY DEF Owed, MapThenSumSet, MapThenFoldSet, Picked
<1> QED BY <1>2, <1>3 DEF SumOver, f

LEMMA OwedSums ==
    ASSUME NEW l
    PROVE  /\ Owed(l) = SumOver([c \in Call |-> UnitsOwed(call[c].todo, l)], Call)
           /\ Owed(l)' = SumOver([c \in Call |-> UnitsOwed(call'[c].todo, l)], Call)
<1>1. Owed(l) = SumOver([c \in Call |-> UnitsOwed(call[c].todo, l)], Call)
  <2>1. [c \in Call |-> OwedBy(c, l)] = [c \in Call |-> UnitsOwed(call[c].todo, l)]
    BY OwedByIsSum
  <2> QED BY <2>1, OwedIsSum, Zenon
<1>2. (Owed(l) = SumOver([c \in Call |-> UnitsOwed(call[c].todo, l)], Call))'
  BY <1>1, PTL
<1>3. Owed(l)' = SumOver([c \in Call |-> UnitsOwed(call'[c].todo, l)], Call)
  BY <1>2, Zenon DEF UnitsOwed, OwedSet
<1> QED BY <1>1, <1>3

LEMMA OwedTypes ==
    ASSUME NEW todo \in SUBSET Announcement, NEW l,
           IsFiniteSet(OwedSet(todo, l))
    PROVE  UnitsOwed(todo, l) \in Int
<1> DEFINE f == [a \in OwedSet(todo, l) |-> a.n]
<1>1. \A a \in OwedSet(todo, l) : f[a] \in Int
  BY DEF OwedSet, Announcement
<1> HIDE DEF f
<1>2. SumOver(f, OwedSet(todo, l)) \in Int
  BY <1>1, SumType
<1> QED BY <1>2 DEF f, UnitsOwed

LEMMA OwesNone ==
    ASSUME NEW todo, NEW l, OwedSet(todo, l) = {}
    PROVE  UnitsOwed(todo, l) = 0 /\ IsFiniteSet(OwedSet(todo, l))
BY SumEmpty, FS_EmptySet DEF UnitsOwed

LEMMA OwesOne ==
    ASSUME NEW todo, NEW l, NEW a, OwedSet(todo, l) = {a}, a.n \in Int
    PROVE  UnitsOwed(todo, l) = a.n /\ IsFiniteSet(OwedSet(todo, l))
<1> DEFINE f == [x \in {a} |-> x.n]
<1>1. f[a] = a.n
  OBVIOUS
<1> HIDE DEF f
<1>2. SumOver(f, {a}) = a.n
  BY <1>1, SumSingle
<1> QED BY <1>2, FS_Singleton DEF f, UnitsOwed

LEMMA OwesLess ==
    ASSUME NEW todo \in SUBSET Announcement, NEW l,
           IsFiniteSet(OwedSet(todo, l)), NEW a \in OwedSet(todo, l),
           NEW left, OwedSet(left, l) = OwedSet(todo, l) \ {a}
    PROVE  /\ UnitsOwed(todo, l) = a.n + UnitsOwed(left, l)
           /\ UnitsOwed(left, l) \in Int /\ a.n \in Int
           /\ IsFiniteSet(OwedSet(left, l))
<1> DEFINE T == OwedSet(todo, l)
           f == [x \in T |-> x.n]
           g == [x \in T \ {a} |-> x.n]
<1>1. \A x \in T : f[x] \in Int
  BY DEF OwedSet, Announcement
<1>2. f[a] = a.n /\ \A x \in T \ {a} : f[x] = g[x]
  OBVIOUS
<1>3. IsFiniteSet(T) /\ IsFiniteSet(T \ {a}) /\ a \in T
  BY FS_RemoveElement
<1> HIDE DEF T, f, g
<1>4. SumOver(f, T) = f[a] + SumOver(f, T \ {a}) /\ SumOver(f, T \ {a}) \in Int
  BY <1>1, <1>3, SumWithout
<1>5. SumOver(f, T \ {a}) = SumOver(g, T \ {a})
  BY <1>2, <1>3, SumSame
<1>6. UnitsOwed(todo, l) = SumOver(f, T) /\ UnitsOwed(left, l) = SumOver(g, T \ {a})
  BY DEF UnitsOwed, T, f, g
<1>7. IsFiniteSet(OwedSet(left, l))
  BY <1>3 DEF T
<1> QED BY <1>1, <1>2, <1>3, <1>4, <1>5, <1>6, <1>7

\* One call changes: what is owed about l changes by what that call owes.
LEMMA OwedChanges ==
    ASSUME TypeOK, TypeOK', FinitelyOwed, NEW c \in Call, NEW r,
           call' = [call EXCEPT ![c] = r], NEW l \in Loc,
           IsFiniteSet(OwedSet(r.todo, l))
    PROVE  /\ Owed(l)' = Owed(l) - UnitsOwed(call[c].todo, l)
                                 + UnitsOwed(r.todo, l)
           /\ Owed(l) \in Int /\ UnitsOwed(call[c].todo, l) \in Int
           /\ UnitsOwed(r.todo, l) \in Int
           /\ FinitelyOwed' <=> \A k \in Loc : IsFiniteSet(OwedSet(r.todo, k))
<1> DEFINE f == [d \in Call |-> UnitsOwed(call[d].todo, l)]
           g == [d \in Call |-> UnitsOwed(call'[d].todo, l)]
<1>1. call'[c] = r /\ \A d \in Call \ {c} : call'[d] = call[d]
  BY ReplacedAt
<1>2. /\ \A d \in Call : call[d].todo \in SUBSET Announcement
      /\ \A d \in Call : call'[d].todo \in SUBSET Announcement
  BY DEF TypeOK, CallState
<1>3. \A d \in Call : /\ IsFiniteSet(OwedSet(call[d].todo, l))
                      /\ IsFiniteSet(OwedSet(call'[d].todo, l))
  BY <1>1 DEF FinitelyOwed
<1>4. \A d \in Call : /\ UnitsOwed(call[d].todo, l) \in Int
                      /\ UnitsOwed(call'[d].todo, l) \in Int
  BY <1>2, <1>3, OwedTypes
<1>5. f[c] = UnitsOwed(call[c].todo, l) /\ g[c] = UnitsOwed(r.todo, l)
  BY <1>1
<1>6. \A d \in Call : f[d] \in Int /\ g[d] \in Int
  BY <1>4
<1>7. \A d \in Call \ {c} : f[d] = g[d]
  BY <1>1
<1>8. Owed(l) = SumOver(f, Call) /\ Owed(l)' = SumOver(g, Call)
  BY OwedSums
<1>9. IsFiniteSet(Call)
  BY InventoryAssumption
<1> HIDE DEF f, g
<1>10. /\ SumOver(g, Call) = SumOver(f, Call) - f[c] + g[c]
       /\ SumOver(f, Call) \in Int
  BY <1>6, <1>7, <1>9, SumChanged
<1>11. FinitelyOwed' <=> \A k \in Loc : IsFiniteSet(OwedSet(r.todo, k))
  <2>1. FinitelyOwed' <=>
          \A d \in Call, k \in Loc : IsFiniteSet(OwedSet(call'[d].todo, k))
    BY DEF FinitelyOwed, OwedSet
  <2> QED BY <1>1, <2>1 DEF FinitelyOwed
<1> QED BY <1>5, <1>6, <1>8, <1>10, <1>11

\* The invariant is kept by a step that replaces one call and announces, at
\* every location of no killed worker, what it no longer owes and has not
\* booked.
LEMMA AnnouncedKept ==
    ASSUME TypeOK, TypeOK', AnnouncedInv, NEW c \in Call, NEW r,
           call' = [call EXCEPT ![c] = r], r.todo # {} => r.pc = "publishing",
           lost \subseteq lost',
           \A l \in Loc : IsFiniteSet(OwedSet(r.todo, l)),
           \A l \in Loc \ lost' :
              announced'["stock.changed"][l] + UnitsOwed(r.todo, l) + Sold(l)
                = announced["stock.changed"][l] + UnitsOwed(call[c].todo, l)
                    + Sold(l)'
    PROVE  AnnouncedInv'
<1>1. OwnsTodo'
  BY OwnsTodoKept DEF AnnouncedInv
<1>2. ASSUME NEW l \in Loc
      PROVE  /\ Owed(l)' = Owed(l) - UnitsOwed(call[c].todo, l)
                                   + UnitsOwed(r.todo, l)
             /\ Owed(l) \in Int /\ UnitsOwed(call[c].todo, l) \in Int
             /\ UnitsOwed(r.todo, l) \in Int
             /\ FinitelyOwed'
  BY OwedChanges DEF AnnouncedInv
<1>3. FinitelyOwed'
  <2>1. CASE Loc = {}
    BY <2>1 DEF FinitelyOwed
  <2>2. CASE Loc # {}
    BY <1>2, <2>2
  <2> QED BY <2>1, <2>2
<1>4. ASSUME NEW l \in Loc \ lost'
      PROVE  announced'["stock.changed"][l] + Owed(l)' = Sold(l)'
  <2>1. announced["stock.changed"][l] + Owed(l) = Sold(l)
    BY DEF AnnouncedInv, ChangesAnnounced, Sold
  <2>2. /\ announced["stock.changed"][l] \in Int
        /\ announced'["stock.changed"][l] \in Int
    BY DEF TypeOK, Event
  <2>3. Sold(l) \in Int /\ Sold(l)' \in Int
    BY DEF TypeOK, Sold, MovementType, SingleOp
  <2>4. announced'["stock.changed"][l] + UnitsOwed(r.todo, l) + Sold(l)
          = announced["stock.changed"][l] + UnitsOwed(call[c].todo, l) + Sold(l)'
    OBVIOUS
  <2>5. /\ Owed(l)' = Owed(l) - UnitsOwed(call[c].todo, l) + UnitsOwed(r.todo, l)
        /\ Owed(l) \in Int /\ UnitsOwed(call[c].todo, l) \in Int
        /\ UnitsOwed(r.todo, l) \in Int
    BY <1>2
  <2> QED BY <2>1, <2>2, <2>3, <2>4, <2>5
<1>5. ChangesAnnounced'
  BY <1>4 DEF ChangesAnnounced, Sold
<1> QED BY <1>1, <1>3, <1>5 DEF AnnouncedInv

LEMMA SoldBooked ==
    ASSUME TypeOK, NEW t \in MovementType, NEW l \in Loc, NEW d \in Int,
           Booked(t, l, d)
    PROVE  /\ Sold(l)' = Sold(l) + (IF t \in {"receipt", "deduct", "return"}
                                    THEN d ELSE 0)
           /\ Sold(l) \in Int
<1>1. \A u \in MovementType : /\ ledger[u][l] \in Int
                              /\ ledger'[u][l] = ledger[u][l]
                                                   + (IF u = t THEN d ELSE 0)
  BY DEF TypeOK, Booked
<1> QED BY <1>1 DEF Sold, MovementType, SingleOp

\* An operation of a call that owed nothing: it owes what it books as sold.
LEMMA AnnouncedAfterOperation ==
    ASSUME TypeOK, TypeOK', AnnouncedInv, NEW c \in Call, call[c].todo = {},
           NEW r, call' = [call EXCEPT ![c] = r],
           r.todo # {} => r.pc = "publishing", UNCHANGED <<announced, lost>>,
           \A l \in Loc : /\ IsFiniteSet(OwedSet(r.todo, l))
                          /\ Sold(l)' = Sold(l) + UnitsOwed(r.todo, l)
    PROVE  AnnouncedInv'
<1>1. ASSUME NEW l \in Loc \ lost'
      PROVE  announced'["stock.changed"][l] + UnitsOwed(r.todo, l) + Sold(l)
                = announced["stock.changed"][l] + UnitsOwed(call[c].todo, l)
                    + Sold(l)'
  <2>1. UnitsOwed(call[c].todo, l) = 0
    BY OwesNone DEF OwedSet
  <2>2. r.todo \in SUBSET Announcement
    <3>1. call'[c] = r
      BY ReplacedAt
    <3> QED BY <3>1 DEF TypeOK, CallState
  <2>3. UnitsOwed(r.todo, l) \in Int
    BY <2>2, OwedTypes
  <2>4. Sold(l) \in Int /\ announced["stock.changed"][l] \in Int
    BY DEF TypeOK, Sold, MovementType, SingleOp, Event
  <2> QED BY <2>1, <2>3, <2>4
<1>2. lost \subseteq lost'
  OBVIOUS
<1> QED BY <1>1, <1>2, AnnouncedKept

LEMMA BeginAnnounced ==
    ASSUME TypeOK, TypeOK', AnnouncedInv, NEW c \in Call, NEW op \in SingleOp,
           NEW l \in Loc, NEW q \in Qty, NEW k \in Key \cup {NoKey},
           Begin(c, op, l, q, k)
    PROVE  AnnouncedInv'
<1> DEFINE req == [op |-> op, loc |-> l, qty |-> q, key |-> k]
           R == {Committed(req, "conflict", {}),
                 [pc |-> "checked", req |-> req, reply |-> "none", todo |-> {}]}
<1>1. \A r \in R : r.todo = {}
  BY DEF Committed
<1>2. PICK r \in R : call' = [call EXCEPT ![c] = r]
  BY DEF Begin
<1>3. call[c].todo = {} /\ UNCHANGED <<announced, lost, ledger>>
  BY FreeOwesNothing DEF Begin, AnnouncedInv, stockVars, busVars
<1> HIDE DEF R
<1>4. ASSUME NEW x \in Loc
      PROVE  /\ IsFiniteSet(OwedSet(r.todo, x))
             /\ Sold(x)' = Sold(x) + UnitsOwed(r.todo, x)
  <2>1. UnitsOwed(r.todo, x) = 0 /\ IsFiniteSet(OwedSet(r.todo, x))
    BY <1>1, OwesNone DEF OwedSet
  <2>2. Sold(x)' = Sold(x) /\ Sold(x) \in Int
    BY <1>3 DEF Sold, TypeOK, MovementType, SingleOp
  <2> QED BY <2>1, <2>2
<1>5. r.todo = {}
  BY <1>1
<1> QED BY <1>2, <1>3, <1>4, <1>5, AnnouncedAfterOperation

LEMMA ApplyAnnounced ==
    ASSUME TypeOK, TypeOK', AnnouncedInv, NEW c \in Call, Apply(c)
    PROVE  AnnouncedInv'
<1> DEFINE req == call[c].req
           todo == Owes(req.op, req.loc, req.qty)
           bad == Committed(req, "error", {})
           new == Committed(req, "ok", todo)
<1>1. call[c].todo = {} /\ UNCHANGED <<announced, lost>>
  BY FreeOwesNothing DEF Apply, AnnouncedInv
<1>2. req \in Request /\ req.op \in SingleOp /\ req.qty \in Nat /\ req.loc \in Loc
  BY InventoryAssumption DEF Apply, TypeOK, Request, Qty
<1>3. CASE call' = [call EXCEPT ![c] = bad] /\ ledger' = ledger
  <2>1. bad.todo = {}
    BY DEF Committed
  <2>2. ASSUME NEW x \in Loc
        PROVE  /\ IsFiniteSet(OwedSet(bad.todo, x))
               /\ Sold(x)' = Sold(x) + UnitsOwed(bad.todo, x)
    <3>1. UnitsOwed(bad.todo, x) = 0 /\ IsFiniteSet(OwedSet(bad.todo, x))
      BY <2>1, OwesNone DEF OwedSet
    <3>2. Sold(x)' = Sold(x) /\ Sold(x) \in Int
      BY <1>3 DEF Sold, TypeOK, MovementType, SingleOp
    <3> QED BY <3>1, <3>2
  <2> HIDE DEF bad
  <2> QED BY <1>1, <1>3, <2>1, <2>2, AnnouncedAfterOperation
<1>4. CASE /\ call' = [call EXCEPT ![c] = new]
           /\ \A l \in Loc : Booked(req.op, l,
                IF l = req.loc THEN QuantityChange(req.op, req.qty) ELSE 0)
  <2>1. new.todo = todo /\ (new.todo # {} => new.pc = "publishing")
    <3> HIDE DEF todo, req
    <3> QED BY CommittedOwns
  <2>2. ASSUME NEW x \in Loc
        PROVE  /\ IsFiniteSet(OwedSet(todo, x))
               /\ Sold(x)' = Sold(x) + UnitsOwed(todo, x)
    <3> DEFINE d == IF x = req.loc THEN QuantityChange(req.op, req.qty) ELSE 0
    <3>1. d \in Int /\ req.op \in MovementType /\ Booked(req.op, x, d)
      BY <1>2, <1>4 DEF QuantityChange, SingleOp, MovementType
    <3>2. /\ Sold(x) \in Int
          /\ Sold(x)' = Sold(x)
               + (IF req.op \in {"receipt", "deduct", "return"} THEN d ELSE 0)
      <4> HIDE DEF d, req
      <4> QED BY <3>1, SoldBooked
    <3>3. CASE x = req.loc /\ req.op \in {"deduct", "return"}
      <4> DEFINE a == [event |-> IF req.op = "deduct" THEN "deducted"
                                 ELSE "stock.changed",
                       loc |-> x, n |-> d]
      <4>1. todo = {a}
        BY <3>3 DEF Owes, QuantityChange
      <4>2. OwedSet(todo, x) = {a} /\ a.n = d
        BY <3>3, <4>1 DEF OwedSet
      <4> HIDE DEF a, d, todo
      <4>3. UnitsOwed(todo, x) = d /\ IsFiniteSet(OwedSet(todo, x))
        BY <3>1, <4>2, OwesOne
      <4> QED BY <3>2, <3>3, <4>3
    <3>4. CASE ~ (x = req.loc /\ req.op \in {"deduct", "return"})
      <4>1. OwedSet(todo, x) = {}
        BY <1>2, <3>4 DEF OwedSet, Owes, SingleOp
      <4>2. UnitsOwed(todo, x) = 0 /\ IsFiniteSet(OwedSet(todo, x))
        BY <4>1, OwesNone
      <4>3. req.op \in {"receipt", "deduct", "return"} => d = 0
        BY <1>2, <3>4 DEF SingleOp
      <4> QED BY <3>2, <4>2, <4>3
    <3> QED BY <3>3, <3>4
  <2> HIDE DEF new, todo
  <2> QED BY <1>1, <1>4, <2>1, <2>2, AnnouncedAfterOperation
<1> QED BY <1>3, <1>4, ApplyBooked

LEMMA DeductBatchAnnounced ==
    ASSUME TypeOK, TypeOK', AnnouncedInv, NEW c \in Call, NEW w \in Warehouse,
           NEW wanted \in Batches, NEW k \in Key \cup {NoKey}, NEW b \in BOOLEAN,
           DeductBatch(c, w, wanted, k, b)
    PROVE  AnnouncedInv'
<1> DEFINE todo == Deductions(wanted, w)
           new == Committed(NoRequest, "ok", todo)
<1>1. call[c].todo = {} /\ UNCHANGED <<announced, lost>>
  BY FreeOwesNothing DEF DeductBatch, AnnouncedInv
<1>2. CASE /\ \E s \in {"conflict", "error"} :
                 call' = [call EXCEPT ![c] = Committed(NoRequest, s, {})]
           /\ ledger' = ledger
  <2>1. PICK s \in {"conflict", "error"} :
          call' = [call EXCEPT ![c] = Committed(NoRequest, s, {})]
    BY <1>2
  <2> DEFINE bad == Committed(NoRequest, s, {})
  <2>2. bad.todo = {}
    BY DEF Committed
  <2>3. ASSUME NEW x \in Loc
        PROVE  /\ IsFiniteSet(OwedSet(bad.todo, x))
               /\ Sold(x)' = Sold(x) + UnitsOwed(bad.todo, x)
    <3>1. UnitsOwed(bad.todo, x) = 0 /\ IsFiniteSet(OwedSet(bad.todo, x))
      BY <2>2, OwesNone DEF OwedSet
    <3>2. Sold(x)' = Sold(x) /\ Sold(x) \in Int
      BY <1>2 DEF Sold, TypeOK, MovementType, SingleOp
    <3> QED BY <3>1, <3>2
  <2>4. call' = [call EXCEPT ![c] = bad]
    BY <2>1
  <2> HIDE DEF bad
  <2> QED BY <1>1, <2>2, <2>3, <2>4, AnnouncedAfterOperation
<1>3. CASE /\ call' = [call EXCEPT ![c] = new]
           /\ \A l \in Loc : Booked("deduct", l, - UnitsAt(wanted, w, l))
  <2>1. new.todo = todo /\ (new.todo # {} => new.pc = "publishing")
    <3> HIDE DEF todo
    <3> QED BY CommittedOwns
  <2>2. ASSUME NEW x \in Loc
        PROVE  /\ IsFiniteSet(OwedSet(todo, x))
               /\ Sold(x)' = Sold(x) + UnitsOwed(todo, x)
    <3> DEFINE d == - UnitsAt(wanted, w, x)
    <3>1. d \in Int /\ "deduct" \in MovementType /\ Booked("deduct", x, d)
      BY <1>3, InventoryAssumption
         DEF UnitsAt, Batches, Qty, MovementType, SingleOp
    <3>2. Sold(x) \in Int /\ Sold(x)' = Sold(x) + d
      <4> HIDE DEF d
      <4> QED BY <3>1, SoldBooked
    <3>3. CASE x[2] = w /\ x[1] \in DOMAIN wanted
      <4> DEFINE a == [event |-> "deducted", loc |-> x, n |-> d]
      <4>1. x = <<x[1], w>> /\ d = - wanted[x[1]]
        BY <3>3 DEF Loc, UnitsAt
      <4>2. OwedSet(todo, x) = {a}
        <5>1. a \in OwedSet(todo, x)
          BY <3>3, <4>1 DEF OwedSet, Deductions
        <5>2. ASSUME NEW e \in OwedSet(todo, x) PROVE e = a
          <6>1. PICK p \in DOMAIN wanted :
                  e = [event |-> "deducted", loc |-> <<p, w>>, n |-> -wanted[p]]
            BY DEF OwedSet, Deductions
          <6>2. e.loc = x
            BY DEF OwedSet
          <6>3. p = x[1]
            BY <4>1, <6>1, <6>2
          <6> HIDE DEF d
          <6> QED BY <4>1, <6>1, <6>3
        <5> HIDE DEF a
        <5> QED BY <5>1, <5>2
      <4>3. a.n = d
        OBVIOUS
      <4> HIDE DEF a, d, todo
      <4>4. UnitsOwed(todo, x) = d /\ IsFiniteSet(OwedSet(todo, x))
        BY <3>1, <4>2, <4>3, OwesOne
      <4> QED BY <3>2, <4>4
    <3>4. CASE ~ (x[2] = w /\ x[1] \in DOMAIN wanted)
      <4>1. OwedSet(todo, x) = {}
        BY <3>4 DEF OwedSet, Deductions
      <4>2. UnitsOwed(todo, x) = 0 /\ IsFiniteSet(OwedSet(todo, x))
        BY <4>1, OwesNone
      <4>3. d = 0
        <5>1. UnitsAt(wanted, w, x) = 0
          BY <3>4 DEF UnitsAt
        <5>2. \A u \in Int : u + (- u) = 0
          OBVIOUS
        <5>3. UnitsAt(wanted, w, x) + d = 0
          BY <5>1, <5>2
        <5> HIDE DEF d
        <5> QED BY <3>1, <5>1, <5>3
      <4> QED BY <3>2, <4>2, <4>3
    <3> QED BY <3>3, <3>4
  <2> HIDE DEF new, todo
  <2> QED BY <1>1, <1>3, <2>1, <2>2, AnnouncedAfterOperation
<1> QED BY <1>2, <1>3, DeductBatchBooked

LEMMA TransferAnnounced ==
    ASSUME TypeOK, TypeOK', AnnouncedInv, NEW c \in Call, NEW p \in Product,
           NEW from \in Warehouse, NEW to \in Warehouse, NEW q \in Qty,
           Transfer(c, p, from, to, q)
    PROVE  AnnouncedInv'
<1>1. call[c].todo = {} /\ UNCHANGED <<announced, lost>>
  BY FreeOwesNothing DEF Transfer, AnnouncedInv
<1>2. PICK s : call' = [call EXCEPT ![c] = Committed(NoRequest, s, {})]
  BY DEF Transfer
<1> DEFINE r == Committed(NoRequest, s, {})
<1>3. r.todo = {}
  BY DEF Committed
<1>4. ASSUME NEW x \in Loc
      PROVE  /\ IsFiniteSet(OwedSet(r.todo, x))
             /\ Sold(x)' = Sold(x) + UnitsOwed(r.todo, x)
  <2>1. UnitsOwed(r.todo, x) = 0 /\ IsFiniteSet(OwedSet(r.todo, x))
    BY <1>3, OwesNone DEF OwedSet
  <2>2. Sold(x)' = Sold(x) /\ Sold(x) \in Int
    BY DEF Transfer, Sold, TypeOK, MovementType, SingleOp
  <2> QED BY <2>1, <2>2
<1>5. call' = [call EXCEPT ![c] = r]
  BY <1>2
<1> HIDE DEF r
<1> QED BY <1>1, <1>3, <1>4, <1>5, AnnouncedAfterOperation

LEMMA AdjustAnnounced ==
    ASSUME TypeOK, TypeOK', AnnouncedInv, NEW c \in Call, NEW l \in Loc,
           NEW n \in 0 .. MaxQty, Adjust(c, l, n)
    PROVE  AnnouncedInv'
<1> DEFINE todo == {[event |-> "low", loc |-> l, n |-> n]}
           r == Committed(NoRequest, "ok", todo)
<1>1. call[c].todo = {} /\ UNCHANGED <<announced, lost>>
  BY FreeOwesNothing DEF Adjust, AnnouncedInv
<1>2. call' = [call EXCEPT ![c] = r]
  BY DEF Adjust
<1>3. r.todo = todo /\ (r.todo # {} => r.pc = "publishing")
  BY DEF Committed
<1>4. ASSUME NEW x \in Loc
      PROVE  /\ IsFiniteSet(OwedSet(r.todo, x))
             /\ Sold(x)' = Sold(x) + UnitsOwed(r.todo, x)
  <2>1. OwedSet(r.todo, x) = {}
    BY <1>3 DEF OwedSet
  <2>2. UnitsOwed(r.todo, x) = 0 /\ IsFiniteSet(OwedSet(r.todo, x))
    BY <2>1, OwesNone
  <2>3. Sold(x)' = Sold(x) /\ Sold(x) \in Int
    BY DEF Adjust, Sold, TypeOK, MovementType, SingleOp
  <2> QED BY <2>2, <2>3
<1> HIDE DEF r
<1> QED BY <1>1, <1>2, <1>3, <1>4, AnnouncedAfterOperation

\* A receipt announces every item twice, and only one of the two counts as a
\* change of the level.
LEMMA ReceiveAnnounced ==
    ASSUME TypeOK, TypeOK', AnnouncedInv, NEW c \in Call, NEW w \in Warehouse,
           NEW items \in Deliveries, Receive(c, w, items)
    PROVE  AnnouncedInv'
<1> DEFINE todo == Arrivals(items, w)
           new == Committed(NoRequest, "ok", todo)
<1>1. call[c].todo = {} /\ UNCHANGED <<announced, lost>>
  BY FreeOwesNothing DEF Receive, AnnouncedInv
<1>2. /\ call' = [call EXCEPT ![c] = new]
      /\ \A l \in Loc : Booked("receipt", l, UnitsAt(items, w, l))
  BY ReceiveBooked
<1>3. new.todo = todo /\ (new.todo # {} => new.pc = "publishing")
  <2> HIDE DEF todo
  <2> QED BY CommittedOwns
<1>4. ASSUME NEW x \in Loc
      PROVE  /\ IsFiniteSet(OwedSet(todo, x))
             /\ Sold(x)' = Sold(x) + UnitsOwed(todo, x)
  <2> DEFINE d == UnitsAt(items, w, x)
  <2>1. d \in Int /\ "receipt" \in MovementType /\ Booked("receipt", x, d)
    BY <1>2, InventoryAssumption DEF UnitsAt, Deliveries, MovementType
  <2>2. Sold(x) \in Int /\ Sold(x)' = Sold(x) + d
    <3> HIDE DEF d
    <3> QED BY <2>1, SoldBooked
  <2>3. CASE x[2] = w /\ x[1] \in DOMAIN items
    <3> DEFINE a == [event |-> "stock.changed", loc |-> x, n |-> d]
    <3>1. x = <<x[1], w>> /\ d = items[x[1]]
      BY <2>3 DEF Loc, UnitsAt
    <3>2. OwedSet(todo, x) = {a}
      <4>1. a \in OwedSet(todo, x)
        BY <2>3, <3>1 DEF OwedSet, Arrivals, Event
      <4>2. ASSUME NEW e \in OwedSet(todo, x) PROVE e = a
        <5>1. PICK v \in Event, p \in DOMAIN items :
                e = [event |-> v, loc |-> <<p, w>>, n |-> items[p]]
          BY DEF OwedSet, Arrivals
        <5>2. e.loc = x /\ e.event \in {"stock.changed", "deducted"}
          BY DEF OwedSet
        <5>3. p = x[1] /\ v = "stock.changed"
          BY <3>1, <5>1, <5>2 DEF Event
        <5> HIDE DEF d
        <5> QED BY <3>1, <5>1, <5>3
      <4> HIDE DEF a
      <4> QED BY <4>1, <4>2
    <3>3. a.n = d
      OBVIOUS
    <3> HIDE DEF a, d, todo
    <3>4. UnitsOwed(todo, x) = d /\ IsFiniteSet(OwedSet(todo, x))
      BY <2>1, <3>2, <3>3, OwesOne
    <3> QED BY <2>2, <3>4
  <2>4. CASE ~ (x[2] = w /\ x[1] \in DOMAIN items)
    <3>1. OwedSet(todo, x) = {}
      BY <2>4 DEF OwedSet, Arrivals
    <3>2. UnitsOwed(todo, x) = 0 /\ IsFiniteSet(OwedSet(todo, x))
      BY <3>1, OwesNone
    <3>3. d = 0
      BY <2>4 DEF UnitsAt
    <3> QED BY <2>2, <3>2, <3>3
  <2> QED BY <2>3, <2>4
<1> HIDE DEF new, todo
<1> QED BY <1>1, <1>2, <1>3, <1>4, AnnouncedAfterOperation

LEMMA AnnounceAnnounced ==
    ASSUME TypeOK, TypeOK', AnnouncedInv, NEW c \in Call, Announce(c)
    PROVE  AnnouncedInv'
<1> PICK a \in call[c].todo :
      LET next == IF a.event = "deducted"
                  THEN {[event |-> "low", loc |-> a.loc, n |-> quantity[a.loc]]}
                  ELSE {}
          left == (call[c].todo \ {a}) \cup next
      IN
      /\ call' = [call EXCEPT ![c] = Committed(@.req, @.reply, left)]
      /\ announced' = IF a.event = "low" THEN announced
                      ELSE [announced EXCEPT ![Topic(a)][a.loc] = @ + a.n]
      /\ UNCHANGED <<ledger, lost>>
  BY DEF Announce, stockVars
<1> DEFINE old  == call[c].todo
           next == IF a.event = "deducted"
                   THEN {[event |-> "low", loc |-> a.loc, n |-> quantity[a.loc]]}
                   ELSE {}
           left == (old \ {a}) \cup next
           r == Committed(call[c].req, call[c].reply, left)
<1>1. call' = [call EXCEPT ![c] = r] /\ r.todo = left
  BY DEF Committed
<1>2. r.todo # {} => r.pc = "publishing"
  BY DEF Committed
<1>3. old \in SUBSET Announcement /\ a \in Announcement
  BY DEF TypeOK, CallState
<1>4. \A l \in Loc : IsFiniteSet(OwedSet(old, l))
  BY DEF AnnouncedInv, FinitelyOwed
<1>5. \A l \in Loc : OwedSet(left, l) = OwedSet(old, l) \ {a}
  BY DEF OwedSet
<1>6. a.loc \in Loc /\ a.n \in Int
  BY <1>3 DEF Announcement
<1>7. announced \in [Event -> [Loc -> Int]]
  BY DEF TypeOK
<1>8. \/ announced' = announced /\ a.event = "low"
      \/ /\ a.event # "low"
         /\ announced' = [announced EXCEPT ![Topic(a)][a.loc] = @ + a.n]
  OBVIOUS
<1>9. ASSUME NEW l \in Loc
      PROVE  announced'["stock.changed"][l] = announced["stock.changed"][l]
               + (IF a \in OwedSet(old, l) THEN a.n ELSE 0)
  <2>1. "stock.changed" \in Event /\ announced["stock.changed"][l] \in Int
    BY <1>7 DEF Event
  <2>2. a \in OwedSet(old, l) <=>
          a.loc = l /\ a.event \in {"stock.changed", "deducted"}
    BY DEF OwedSet
  <2>3. CASE announced' = announced /\ a.event = "low"
    BY <2>1, <2>2, <2>3
  <2>4. CASE /\ a.event # "low"
             /\ announced' = [announced EXCEPT ![Topic(a)][a.loc] = @ + a.n]
    <3>1. Topic(a) \in Event
      BY <1>3, <2>4 DEF Topic, Announcement, Event
    <3>2. announced'["stock.changed"][l] = announced["stock.changed"][l]
            + (IF "stock.changed" = Topic(a) /\ l = a.loc THEN a.n ELSE 0)
      BY <1>6, <1>7, <2>1, <2>4, <3>1, EntryAddedAt
    <3>3. "stock.changed" = Topic(a) <=> a.event \in {"stock.changed", "deducted"}
      BY DEF Topic
    <3> QED BY <2>2, <3>2, <3>3
  <2> QED BY <1>8, <2>3, <2>4
<1>10. ASSUME NEW l \in Loc
       PROVE  /\ IsFiniteSet(OwedSet(left, l))
              /\ announced'["stock.changed"][l] + UnitsOwed(left, l) + Sold(l)
                   = announced["stock.changed"][l] + UnitsOwed(old, l) + Sold(l)'
  <2>1. Sold(l)' = Sold(l) /\ Sold(l) \in Int
    BY DEF Sold, TypeOK, MovementType, SingleOp
  <2>2. announced["stock.changed"][l] \in Int
    BY <1>7 DEF Event
  <2> HIDE DEF left, old
  <2>3. UnitsOwed(old, l) \in Int
    BY <1>3, <1>4, OwedTypes
  <2>4. CASE a \in OwedSet(old, l)
    <3>1. /\ UnitsOwed(old, l) = a.n + UnitsOwed(left, l)
          /\ UnitsOwed(left, l) \in Int
          /\ IsFiniteSet(OwedSet(left, l))
      BY <1>3, <1>4, <1>5, <2>4, OwesLess
    <3> QED BY <1>6, <1>9, <2>1, <2>2, <2>4, <3>1
  <2>5. CASE a \notin OwedSet(old, l)
    <3>1. OwedSet(left, l) = OwedSet(old, l)
      BY <1>5, <2>5
    <3>2. UnitsOwed(left, l) = UnitsOwed(old, l)
      BY <3>1 DEF UnitsOwed
    <3> QED BY <1>4, <1>9, <2>1, <2>2, <2>3, <2>5, <3>1, <3>2
  <2> QED BY <2>4, <2>5
<1>11. lost \subseteq lost'
  OBVIOUS
<1> HIDE DEF r, left
<1> QED BY <1>1, <1>2, <1>10, <1>11, AnnouncedKept

LEMMA CollectAnnounced ==
    ASSUME TypeOK, TypeOK', AnnouncedInv, NEW c \in Call, Collect(c)
    PROVE  AnnouncedInv'
<1>1. call[c].todo = {} /\ UNCHANGED <<announced, lost, ledger>>
  BY FreeOwesNothing DEF Collect, AnnouncedInv, stockVars, busVars
<1>2. call' = [call EXCEPT ![c] = Idle] /\ Idle.todo = {}
  BY DEF Collect, Idle
<1>3. ASSUME NEW x \in Loc
      PROVE  /\ IsFiniteSet(OwedSet(Idle.todo, x))
             /\ Sold(x)' = Sold(x) + UnitsOwed(Idle.todo, x)
  <2>1. UnitsOwed(Idle.todo, x) = 0 /\ IsFiniteSet(OwedSet(Idle.todo, x))
    BY <1>2, OwesNone DEF OwedSet
  <2>2. Sold(x)' = Sold(x) /\ Sold(x) \in Int
    BY <1>1 DEF Sold, TypeOK, MovementType, SingleOp
  <2> QED BY <2>1, <2>2
<1> QED BY <1>1, <1>2, <1>3, AnnouncedAfterOperation

\* What a killed worker owed is lost, and its location with it.
LEMMA CrashAnnounced ==
    ASSUME TypeOK, TypeOK', AnnouncedInv, NEW c \in Call, Crash(c)
    PROVE  AnnouncedInv'
<1> DEFINE r == Committed(call[c].req, "dropped", {})
<1>1. /\ call' = [call EXCEPT ![c] = r]
      /\ lost' = lost \cup {a.loc : a \in call[c].todo}
      /\ UNCHANGED <<announced, ledger>>
  BY DEF Crash, stockVars
<1>2. r.todo = {}
  BY DEF Committed
<1>3. \A l \in Loc : IsFiniteSet(OwedSet(r.todo, l)) /\ UnitsOwed(r.todo, l) = 0
  BY <1>2, OwesNone DEF OwedSet
<1>4. ASSUME NEW l \in Loc \ lost'
      PROVE  announced'["stock.changed"][l] + UnitsOwed(r.todo, l) + Sold(l)
               = announced["stock.changed"][l] + UnitsOwed(call[c].todo, l)
                   + Sold(l)'
  <2>1. OwedSet(call[c].todo, l) = {}
    BY <1>1 DEF OwedSet
  <2>2. UnitsOwed(call[c].todo, l) = 0
    BY <2>1, OwesNone
  <2>3. Sold(l)' = Sold(l) /\ announced' = announced
    BY <1>1 DEF Sold
  <2> QED BY <1>3, <2>2, <2>3
<1> HIDE DEF r
<1>5. lost \subseteq lost'
  BY <1>1
<1> QED BY <1>1, <1>2, <1>3, <1>4, <1>5, AnnouncedKept

LEMMA InitAnnounced == Init => AnnouncedInv
<1> SUFFICES ASSUME Init PROVE AnnouncedInv
  OBVIOUS
<1>1. \A c \in Call : call[c].todo = {}
  BY DEF Init, Idle
<1>2. OwnsTodo
  BY <1>1 DEF OwnsTodo
<1>3. \A c \in Call, l \in Loc : /\ UnitsOwed(call[c].todo, l) = 0
                                 /\ IsFiniteSet(OwedSet(call[c].todo, l))
  BY <1>1, OwesNone DEF OwedSet
<1>4. ASSUME NEW l \in Loc PROVE Owed(l) = 0
  <2> DEFINE f == [c \in Call |-> UnitsOwed(call[c].todo, l)]
  <2>1. Owed(l) = SumOver(f, Call)
    BY OwedSums
  <2>2. \A c \in Call : f[c] = 0
    BY <1>3
  <2>3. IsFiniteSet(Call)
    BY InventoryAssumption
  <2> HIDE DEF f
  <2> QED BY <2>1, <2>2, <2>3, SumOfZeros
<1>5. ChangesAnnounced
  BY <1>4 DEF Init, ChangesAnnounced, Event, MovementType, SingleOp
<1> QED BY <1>2, <1>3, <1>5 DEF AnnouncedInv, FinitelyOwed

LEMMA AnnouncedStep == TypeOK /\ TypeOK' /\ AnnouncedInv /\ [Next]_vars => AnnouncedInv'
<1> SUFFICES ASSUME TypeOK, TypeOK', AnnouncedInv, [Next]_vars PROVE AnnouncedInv'
  OBVIOUS
<1>1. CASE UNCHANGED vars
  <2>1. /\ UNCHANGED <<call, announced, lost, ledger>>
    BY <1>1 DEF vars, stockVars, busVars
  <2>2. \A l : Owed(l)' = Owed(l)
    BY <2>1, OwedSums, Zenon DEF UnitsOwed, OwedSet
  <2> QED
    BY <2>1, <2>2
       DEF AnnouncedInv, OwnsTodo, FinitelyOwed, OwedSet, ChangesAnnounced
<1>2. CASE Next
  BY <1>2, BeginAnnounced, ApplyAnnounced, DeductBatchAnnounced,
     TransferAnnounced, AdjustAnnounced, ReceiveAnnounced, AnnounceAnnounced,
     CollectAnnounced, CrashAnnounced DEF Next
<1> QED BY <1>1, <1>2

\* The published level changes, with what the requests in flight still owe, add
\* up to the deliveries, deductions and returns of the ledger, wherever no
\* worker was killed with something to publish: no interleaving of commits and
\* publications drops a change or publishes it twice.
THEOREM ChangesAddUp == Spec => []ChangesAnnounced
<1>1. AnnouncedInv => ChangesAnnounced
  BY DEF AnnouncedInv
<1> QED BY <1>1, InitAnnounced, AnnouncedStep, TypeCorrect, PTL DEF Spec

=============================================================================

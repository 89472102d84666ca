----------------------------- MODULE CartProofs -----------------------------
(***************************************************************************)
(* Proofs about the shopping cart, for every set of products, every number *)
(* of calls side by side, of acts and of failures.                         *)
(***************************************************************************)
EXTENDS Cart, TLAPS

Stage == {"sent", "read", "done", "failed"}
LineOp == {"add", "update", "remove"}
CartOp == Reads \union {"clear", "merge"}

\* TypeOK by part.
PageTyped == cookie \in Owner /\ known \in Owner /\ shown \in Lines /\ timer \in Lines
CallsTyped == calls \in [Slot -> CallType \union {Idle}]
CartsTyped == carts \in [Owner -> Lines]
RestTyped == /\ stale \in BOOLEAN /\ gone \in SUBSET Product
             /\ acts \in 0 .. MaxActs /\ failures \in 0 .. MaxFailures
Typed == PageTyped /\ CallsTyped /\ CartsTyped /\ RestTyped

\* A call of this identity that will take the product out.
Removing(p) == \E s \in Slot :
    Unserved(s) /\ calls[s].op \in {"remove", "clear"} /\ calls[s].as = cookie
    /\ Touches(calls[s], p)

\* Nothing on its way brings back what was taken out, and it is out or about
\* to be.
Kept == \A p \in gone : ~PutBack(p) /\ (carts[cookie][p] = 0 \/ Removing(p))

CInv == Typed /\ Kept

-----------------------------------------------------------------------------
(* Calls.                                                                  *)

\* A call is not an idle slot, and its fields have their types.
LEMMA CallFacts ==
    ASSUME NEW c \in CallType
    PROVE  /\ c # Idle /\ c.op \in Reads \union Writes /\ c.as \in Owner
           /\ c.op \in LineOp => c.product \in Product /\ c.qty \in Nat
           /\ c.op \in CartOp => c.product = Nobody
           /\ c.stage \in Stage /\ c.seen \in [Owner -> Lines] /\ c.behind \in SUBSET Slot
<1>1. CASE c.op \in LineOp
  <2>1. c \in [op: {"add", "update", "remove"}, product: Product, as: Owner, qty: Nat,
               stage: {"sent", "read", "done", "failed"}, behind: SUBSET Slot,
               seen: [Owner -> Lines], cancelled: BOOLEAN]
    BY <1>1 DEF CallType, LineOp, Reads
  <2> QED BY <1>1, <2>1 DEF Idle, Reads, Writes, LineOp, CartOp, Stage
<1>2. CASE c.op \notin LineOp
  <2>1. c \in [op: Reads \union {"clear", "merge"}, product: {Nobody}, as: Owner, qty: {0},
               stage: {"sent", "read", "done", "failed"}, behind: SUBSET Slot,
               seen: [Owner -> Lines], cancelled: BOOLEAN]
    BY <1>2 DEF CallType, LineOp
  <2> QED BY <1>2, <2>1 DEF Idle, Reads, Writes, LineOp, CartOp, Stage
<1> QED BY <1>1, <1>2

\* A cart nobody has read is a cart of no lines.
LEMMA UnreadTyped == NoLines \in Lines /\ Unread \in [Owner -> Lines]
BY DEF NoLines, Lines, Unread

\* What a new call is.
LEMMA NewCall ==
    ASSUME Typed, NEW op, NEW p, NEW q,
           \/ op \in LineOp /\ p \in Product /\ q \in Nat
           \/ op \in CartOp /\ p = Nobody /\ q = 0
    PROVE  /\ Call(op, p, q) \in CallType
           /\ Call(op, p, q).op = op /\ Call(op, p, q).product = p
           /\ Call(op, p, q).as = cookie /\ Call(op, p, q).stage = "sent"
<1> DEFINE B == {s \in Slot : Unserved(s) /\ (p = Nobody \/ Touches(calls[s], p))}
<1>1. B \in SUBSET Slot /\ cookie \in Owner
  BY DEF Typed, PageTyped
<1>2. Call(op, p, q) = [op |-> op, as |-> cookie, product |-> p, qty |-> q, stage |-> "sent",
                        behind |-> B, seen |-> Unread, cancelled |-> FALSE]
  BY DEF Call
<1> HIDE DEF B
<1> QED BY <1>1, <1>2, UnreadTyped DEF CallType, LineOp, CartOp

\* A call that no longer waits for another stays the same call.
LEMMA Unblocked ==
    ASSUME NEW c \in CallType, NEW b \in SUBSET Slot
    PROVE  LET d == [c EXCEPT !.behind = b]
           IN  /\ d \in CallType /\ d.op = c.op /\ d.as = c.as /\ d.product = c.product
               /\ d.stage = c.stage
BY DEF CallType

\* As does one whose answer is not wanted any more.
LEMMA Cancelled ==
    ASSUME NEW c \in CallType
    PROVE  LET d == [c EXCEPT !.cancelled = TRUE]
           IN  /\ d \in CallType /\ d.op = c.op /\ d.as = c.as /\ d.product = c.product
               /\ d.stage = c.stage
BY DEF CallType

\* What a busy slot holds.
LEMMA BusyCall ==
    ASSUME Typed, NEW s \in Slot, Busy(s)
    PROVE  calls[s] \in CallType
BY DEF Typed, CallsTyped, Busy

-----------------------------------------------------------------------------
(* What happens to the calls as a whole.                                   *)

\* A new call brings back what it adds and takes out what it removes.
LEMMA Sent ==
    ASSUME Typed, NEW op, NEW p, NEW q, Send(op, p, q),
           \/ op \in LineOp /\ p \in Product /\ q \in Nat
           \/ op \in CartOp /\ p = Nobody /\ q = 0
    PROVE  /\ CallsTyped'
           /\ \A r : PutBack(r)' => \/ PutBack(r)
                                    \/ op \in {"add", "merge"} /\ (p = r \/ op = "merge")
           /\ \A r : cookie' = cookie /\ Removing(r) => Removing(r)'
           /\ \A r : cookie' = cookie /\ op \in {"remove", "clear"} /\ (p = r \/ op = "clear")
                    => Removing(r)'
<1> PICK s \in Slot : ~Busy(s) /\ calls' = [calls EXCEPT ![s] = Call(op, p, q)]
  BY DEF Send
<1> PICK c : c = Call(op, p, q)
  OBVIOUS
<1>1. /\ c \in CallType /\ c.op = op /\ c.product = p /\ c.as = cookie /\ c.stage = "sent"
  BY NewCall
<1>2. calls' = [calls EXCEPT ![s] = c] /\ DOMAIN calls = Slot
  BY DEF Typed, CallsTyped
<1>3. calls'[s] = c /\ \A x \in Slot : x # s => calls'[x] = calls[x]
  BY <1>2
<1>4. CallsTyped'
  BY <1>1, <1>2 DEF Typed, CallsTyped
<1>5. ASSUME NEW r, PutBack(r)'
      PROVE  PutBack(r) \/ (op \in {"add", "merge"} /\ (p = r \/ op = "merge"))
  <2> PICK x \in Slot : Unserved(x)' /\ calls'[x].op \in {"add", "merge"} /\ Touches(calls'[x], r)
    BY <1>5 DEF PutBack
  <2>1. CASE x = s
    BY <1>1, <1>3, <2>1 DEF Touches
  <2>2. CASE x # s
    BY <1>3, <2>2 DEF PutBack, Unserved, Busy
  <2> QED BY <2>1, <2>2
<1>6. ASSUME NEW r, cookie' = cookie, Removing(r)
      PROVE  Removing(r)'
  <2> PICK x \in Slot : /\ Unserved(x) /\ calls[x].op \in {"remove", "clear"}
                        /\ calls[x].as = cookie /\ Touches(calls[x], r)
    BY <1>6 DEF Removing
  <2>1. x # s
    BY DEF Unserved
  <2> QED BY <1>3, <1>6, <2>1 DEF Removing, Unserved, Busy
<1>7. ASSUME NEW r, cookie' = cookie, op \in {"remove", "clear"}, p = r \/ op = "clear"
      PROVE  Removing(r)'
  <2>1. Unserved(s)'
    BY <1>1, <1>3, <1>7, CallFacts DEF Unserved, Busy, Writes
  <2> QED BY <1>1, <1>3, <1>7, <2>1 DEF Removing, Touches
<1> QED BY <1>4, <1>5, <1>6, <1>7

\* A call that is dealt with brings nothing back and takes nothing out any
\* more; the others go on.
LEMMA Passed ==
    ASSUME Typed, NEW s \in Slot, Busy(s), NEW st \in {"done", "failed"},
           NEW seen \in [Owner -> Lines], calls' = Served(s, st, seen)
    PROVE  /\ CallsTyped'
           /\ \A r : PutBack(r)' => PutBack(r)
           /\ \A r : cookie' = cookie /\ Removing(r)
                    => \/ Removing(r)'
                       \/ /\ calls[s].op \in {"remove", "clear"} /\ calls[s].as = cookie
                          /\ Unserved(s) /\ Touches(calls[s], r)
<1>1. \A x \in Slot : Busy(x) => calls[x] \in CallType
  BY BusyCall
<1>2. calls' = [x \in Slot |->
                  IF x = s THEN [calls[s] EXCEPT !.stage = st, !.seen = seen, !.behind = {}]
                  ELSE IF Busy(x) THEN [calls[x] EXCEPT !.behind = calls[x].behind \ {s}]
                  ELSE Idle]
  BY <1>1 DEF Served, CallType
<1>3. /\ calls'[s] \in CallType /\ calls'[s].op = calls[s].op /\ calls'[s].stage = st
  <2>1. calls'[s] = [calls[s] EXCEPT !.stage = st, !.seen = seen, !.behind = {}]
    BY <1>2
  <2>2. calls[s] \in CallType /\ st \in Stage /\ {} \in SUBSET Slot
    BY <1>1 DEF Stage
  <2> PICK c : c = calls[s]
    OBVIOUS
  <2>3. LET d == [c EXCEPT !.stage = st, !.seen = seen, !.behind = {}]
        IN  d \in CallType /\ d.op = c.op /\ d.stage = st
    BY <2>2 DEF CallType, Stage
  <2> QED BY <2>1, <2>3
<1>4. ASSUME NEW x \in Slot, x # s, Busy(x)
      PROVE  /\ calls'[x] \in CallType /\ calls'[x].op = calls[x].op
             /\ calls'[x].as = calls[x].as /\ calls'[x].product = calls[x].product
             /\ calls'[x].stage = calls[x].stage
  <2>1. calls'[x] = [calls[x] EXCEPT !.behind = calls[x].behind \ {s}]
    BY <1>2, <1>4
  <2>2. calls[x].behind \ {s} \in SUBSET Slot
    BY <1>1, <1>4, CallFacts
  <2> QED BY <1>1, <1>4, <2>1, <2>2, Unblocked
<1>5. \A x \in Slot : x # s /\ ~Busy(x) => calls'[x] = Idle
  BY <1>2
<1>6. CallsTyped'
  BY <1>2, <1>3, <1>4, <1>5 DEF CallsTyped
<1>7. ASSUME NEW x \in Slot, Unserved(x)'
      PROVE  x # s /\ Busy(x) /\ Unserved(x)
  <2>1. x # s
    BY <1>3, <1>7 DEF Unserved
  <2>2. Busy(x)
    BY <1>5, <1>7, <2>1 DEF Unserved, Busy
  <2> QED BY <1>4, <1>7, <2>1, <2>2 DEF Unserved
<1>8. ASSUME NEW x \in Slot, Unserved(x), x # s
      PROVE  Unserved(x)'
  BY <1>4, <1>8, CallFacts DEF Unserved, Busy
<1>9. ASSUME NEW r, PutBack(r)' PROVE PutBack(r)
  <2> PICK x \in Slot : Unserved(x)' /\ calls'[x].op \in {"add", "merge"} /\ Touches(calls'[x], r)
    BY <1>9 DEF PutBack
  <2> QED BY <1>4, <1>7 DEF PutBack, Touches
<1>10. ASSUME NEW r, cookie' = cookie, Removing(r), ~Removing(r)'
       PROVE  /\ calls[s].op \in {"remove", "clear"} /\ calls[s].as = cookie
              /\ Unserved(s) /\ Touches(calls[s], r)
  <2> PICK x \in Slot : /\ Unserved(x) /\ calls[x].op \in {"remove", "clear"}
                        /\ calls[x].as = cookie /\ Touches(calls[x], r)
    BY <1>10 DEF Removing
  <2>1. CASE x # s
    <3>1. Unserved(x)' /\ Busy(x)
      BY <1>8, <2>1 DEF Unserved
    <3> QED BY <1>4, <1>10, <2>1, <3>1 DEF Removing, Touches
  <2> QED BY <2>1
<1> QED BY <1>6, <1>9, <1>10

\* A call that was answered is forgotten or followed by a read.
LEMMA Answered ==
    ASSUME Typed, NEW s \in Slot, Busy(s), calls[s].stage \in {"done", "failed"},
           Forget(s) \/ (\E op \in Reads : Follow(s, op))
    PROVE  /\ CallsTyped'
           /\ \A r : PutBack(r)' => PutBack(r)
           /\ \A r : cookie' = cookie /\ Removing(r) => Removing(r)'
<1>1. PICK c : /\ calls' = [calls EXCEPT ![s] = c]
               /\ c = Idle \/ (c \in CallType /\ c.op \in Reads)
  <2>1. CASE Forget(s)
    BY <2>1 DEF Forget
  <2>2. ASSUME NEW op \in Reads, Follow(s, op)
        PROVE  \E c : calls' = [calls EXCEPT ![s] = c] /\ c \in CallType /\ c.op \in Reads
    <3>1. Call(op, Nobody, 0) \in CallType /\ Call(op, Nobody, 0).op = op
      BY NewCall DEF CartOp
    <3> PICK c : c = Call(op, Nobody, 0)
      OBVIOUS
    <3>2. PICK d : d = [c EXCEPT !.behind = {}]
      OBVIOUS
    <3>3. {} \in SUBSET Slot /\ c \in CallType
      BY <3>1
    <3>4. d \in CallType /\ d.op = c.op
      BY <3>2, <3>3, Unblocked
    <3>5. calls' = [calls EXCEPT ![s] = d]
      BY <2>2, <3>2 DEF Follow
    <3> QED BY <3>1, <3>4, <3>5
  <2> QED BY <2>1, <2>2
<1>2. calls'[s] = c /\ \A x \in Slot : x # s => calls'[x] = calls[x]
  BY <1>1 DEF Typed, CallsTyped
<1>3. CallsTyped'
  BY <1>1 DEF Typed, CallsTyped
<1>4. ~Unserved(s) /\ ~Unserved(s)'
  BY <1>1, <1>2 DEF Unserved, Busy, Reads, Writes
<1>5. \A x \in Slot : x # s => (Unserved(x)' <=> Unserved(x))
  BY <1>2 DEF Unserved, Busy
<1>6. ASSUME NEW r, PutBack(r)' PROVE PutBack(r)
  BY <1>2, <1>4, <1>5, <1>6 DEF PutBack
<1>7. ASSUME NEW r, cookie' = cookie, Removing(r) PROVE Removing(r)'
  BY <1>2, <1>4, <1>5, <1>7 DEF Removing
<1> QED BY <1>3, <1>6, <1>7

\* The same call, of which something else may be known.
SameCall(d, c) == d.op = c.op /\ d.product = c.product /\ d.as = c.as /\ d.qty = c.qty

\* A call that waits for others.
LEMMA Freed ==
    ASSUME NEW c \in CallType, NEW b \in SUBSET Slot, NEW d, d = [c EXCEPT !.behind = b]
    PROVE  /\ d \in CallType /\ SameCall(d, c) /\ d.stage = c.stage /\ d.behind = b
           /\ d.cancelled = c.cancelled
BY DEF CallType, SameCall

\* What a call waits for when the one in slot s is in slot t now.
Renamed(x, s, t) == IF s \in calls[x].behind THEN (calls[x].behind \ {s}) \union {t}
                    ELSE calls[x].behind

\* A call goes on where it is left, with its place among those it waits for and
\* that wait for it; its own slot holds the failure.
LEMMA LateCalls ==
    ASSUME Typed, NEW s \in Slot, NEW t \in Slot, Busy(s), ~Busy(t), calls' = Late(s, t)
    PROVE  /\ s # t /\ DOMAIN calls' = Slot
           /\ calls'[s] \in CallType /\ SameCall(calls'[s], calls[s])
           /\ calls'[s].cancelled = calls[s].cancelled
           /\ calls'[s].stage = "failed" /\ calls'[s].behind = {}
           /\ calls'[t] \in CallType /\ SameCall(calls'[t], calls[s])
           /\ calls'[t].cancelled = TRUE
           /\ calls'[t].stage = calls[s].stage /\ calls'[t].behind = calls[s].behind
           /\ \A x \in Slot \ {s, t} : ~Busy(x) => calls'[x] = Idle
           /\ Busy(s)' /\ Busy(t)'
<1>1. \A x \in Slot : Busy(x) => calls[x] \in CallType
  BY BusyCall
<1>2. s # t
  OBVIOUS
<1>3. calls' = [x \in Slot |->
        CASE x = s -> [calls[s] EXCEPT !.stage = "failed", !.seen = Unread, !.behind = {}]
          [] x = t -> [calls[s] EXCEPT !.cancelled = TRUE]
          [] x \notin {s, t} /\ Busy(x) -> [calls[x] EXCEPT !.behind = Renamed(x, s, t)]
          [] OTHER -> Idle]
  BY <1>1 DEF Late, CallType, Renamed
<1>4. /\ calls'[s] = [calls[s] EXCEPT !.stage = "failed", !.seen = Unread, !.behind = {}]
      /\ calls'[t] = [calls[s] EXCEPT !.cancelled = TRUE]
      /\ \A x \in Slot \ {s, t} :
            /\ Busy(x) => calls'[x] = [calls[x] EXCEPT !.behind = Renamed(x, s, t)]
            /\ ~Busy(x) => calls'[x] = Idle
      /\ DOMAIN calls' = Slot
  BY <1>2, <1>3
<1>5. /\ calls'[s] \in CallType /\ SameCall(calls'[s], calls[s])
      /\ calls'[s].cancelled = calls[s].cancelled
      /\ calls'[s].stage = "failed" /\ calls'[s].behind = {}
  <2> PICK c : c = calls[s]
    OBVIOUS
  <2> PICK b : b = {}
    OBVIOUS
  <2>1. c \in CallType /\ b \in SUBSET Slot
    BY <1>1
  <2> PICK d : d = [c EXCEPT !.stage = "failed", !.seen = Unread, !.behind = b]
    OBVIOUS
  <2>2. calls'[s] = d
    BY <1>4
  <2>3. /\ d \in CallType /\ SameCall(d, c) /\ d.stage = "failed" /\ d.behind = b
        /\ d.cancelled = c.cancelled
    BY <2>1, UnreadTyped DEF CallType, SameCall
  <2> QED BY <2>2, <2>3
<1>6. /\ calls'[t] \in CallType /\ SameCall(calls'[t], calls[s])
      /\ calls'[t].cancelled = TRUE
      /\ calls'[t].stage = calls[s].stage /\ calls'[t].behind = calls[s].behind
  <2> PICK c : c = calls[s]
    OBVIOUS
  <2>1. c \in CallType
    BY <1>1
  <2> PICK d : d = [c EXCEPT !.cancelled = TRUE]
    OBVIOUS
  <2>2. calls'[t] = d
    BY <1>4
  <2>3. /\ d \in CallType /\ SameCall(d, c) /\ d.stage = c.stage /\ d.behind = c.behind
        /\ d.cancelled = TRUE
    BY <2>1 DEF CallType, SameCall
  <2> QED BY <2>2, <2>3
<1>7. Busy(s)' /\ Busy(t)'
  BY <1>5, <1>6, CallFacts DEF Busy
<1> QED BY <1>2, <1>4, <1>5, <1>6, <1>7

LEMMA LateOther ==
    ASSUME Typed, NEW s \in Slot, NEW t \in Slot, Busy(s), ~Busy(t), calls' = Late(s, t),
           NEW x \in Slot \ {s, t}, Busy(x)
    PROVE  /\ Busy(x)' /\ calls'[x] \in CallType /\ SameCall(calls'[x], calls[x])
           /\ calls'[x].cancelled = calls[x].cancelled
           /\ calls'[x].stage = calls[x].stage /\ calls'[x].behind = Renamed(x, s, t)
<1> PICK c : c = calls[x]
  OBVIOUS
<1> PICK b : b = Renamed(x, s, t)
  OBVIOUS
<1>1. c \in CallType
  BY BusyCall
<1>2. b \in SUBSET Slot
  BY <1>1, CallFacts DEF Renamed
<1> PICK d : d = [c EXCEPT !.behind = b]
  OBVIOUS
<1>3. calls'[x] = [calls[x] EXCEPT !.behind = Renamed(x, s, t)]
  BY <1>1 DEF Late, CallType, Renamed
<1>4. calls'[x] = d
  BY <1>3
<1>5. /\ d \in CallType /\ SameCall(d, c) /\ d.stage = c.stage /\ d.behind = b
      /\ d.cancelled = c.cancelled
  BY <1>1, <1>2, Freed
<1>6. Busy(x)'
  BY <1>4, <1>5, CallFacts DEF Busy
<1> QED BY <1>4, <1>5, <1>6

\* A call that is left to the server brings back and takes out what it did.
LEMMA Left ==
    ASSUME Typed, NEW s \in Slot, NEW t \in Slot, Busy(s), ~Busy(t), calls' = Late(s, t)
    PROVE  /\ CallsTyped'
           /\ \A r : PutBack(r)' => PutBack(r)
           /\ \A r : cookie' = cookie /\ Unserved(s) /\ Removing(r) => Removing(r)'
<1>1. /\ s # t /\ DOMAIN calls' = Slot
      /\ calls'[s] \in CallType /\ calls'[s].stage = "failed"
      /\ calls'[t] \in CallType /\ SameCall(calls'[t], calls[s]) /\ calls'[t].stage = calls[s].stage
      /\ \A x \in Slot \ {s, t} : ~Busy(x) => calls'[x] = Idle
  BY LateCalls
<1>2. ASSUME NEW x \in Slot \ {s, t}, Busy(x)
      PROVE  /\ calls'[x] \in CallType /\ SameCall(calls'[x], calls[x])
             /\ calls'[x].stage = calls[x].stage /\ Busy(x)'
  BY <1>2, LateOther
<1>3. CallsTyped'
  <2>1. \A x \in Slot : calls'[x] \in CallType \union {Idle}
    BY <1>1, <1>2
  <2>2. calls' = [x \in Slot |-> calls'[x]]
    BY DEF Late
  <2> QED BY <2>1, <2>2 DEF CallsTyped
<1>4. ~Unserved(s)' /\ ~Unserved(t) /\ (Unserved(t)' <=> Unserved(s))
  <2>1. Busy(t)'
    BY LateCalls
  <2> QED BY <1>1, <2>1 DEF Unserved, SameCall
<1>5. ASSUME NEW x \in Slot \ {s, t} PROVE Unserved(x)' <=> Unserved(x)
  <2>1. CASE Busy(x)
    BY <1>2, <2>1 DEF Unserved, SameCall
  <2>2. CASE ~Busy(x)
    BY <1>1, <2>2 DEF Unserved, Busy
  <2> QED BY <2>1, <2>2
<1>6. ASSUME NEW r, PutBack(r)' PROVE PutBack(r)
  <2> PICK x \in Slot : Unserved(x)' /\ calls'[x].op \in {"add", "merge"} /\ Touches(calls'[x], r)
    BY <1>6 DEF PutBack
  <2>1. CASE x = t
    BY <1>1, <1>4, <2>1 DEF PutBack, Touches, SameCall
  <2>2. CASE x \notin {s, t}
    <3>1. Unserved(x) /\ Busy(x)
      BY <1>5, <2>2 DEF Unserved
    <3> QED BY <1>2, <2>2, <3>1 DEF PutBack, Touches, SameCall
  <2> QED BY <1>4, <2>1, <2>2
<1>7. ASSUME NEW r, cookie' = cookie, Unserved(s), Removing(r) PROVE Removing(r)'
  <2> PICK x \in Slot : /\ Unserved(x) /\ calls[x].op \in {"remove", "clear"}
                        /\ calls[x].as = cookie /\ Touches(calls[x], r)
    BY <1>7 DEF Removing
  <2>1. CASE x = s
    BY <1>1, <1>4, <1>7, <2>1 DEF Removing, Touches, SameCall
  <2>2. CASE x \notin {s, t}
    <3>1. Unserved(x)' /\ Busy(x)
      BY <1>5, <2>2 DEF Unserved
    <3> QED BY <1>2, <1>7, <2>2, <3>1 DEF Removing, Touches, SameCall
  <2> QED BY <1>4, <2>1, <2>2
<1> QED BY <1>3, <1>6, <1>7

\* What was taken out stays out if nothing puts it back and the server only
\* drops its lines.
LEMMA StaysOut ==
    ASSUME Kept, cookie' = cookie, gone' \subseteq gone,
           \A r : PutBack(r)' => PutBack(r),
           \A r \in gone' : Removing(r) => Removing(r)' \/ carts'[cookie][r] = 0,
           \A r \in gone' : carts[cookie][r] = 0 => carts'[cookie][r] = 0
    PROVE  Kept'
BY DEF Kept

-----------------------------------------------------------------------------
\* A page that is opened satisfies the invariant.
LEMMA Base == Init => CInv
<1> SUFFICES ASSUME Init PROVE CInv
  OBVIOUS
<1>1. PageTyped /\ CartsTyped
  BY UnreadTyped DEF Init, PageTyped, CartsTyped, Owner, Lines
<1>2. CallsTyped
  <2> PICK s \in Slot : calls = [x \in Slot |->
          IF x # s THEN Idle
          ELSE [op |-> "load", as |-> cookie, product |-> Nobody, qty |-> 0,
                stage |-> "sent", behind |-> {}, seen |-> Unread,
                cancelled |-> FALSE]]
    BY DEF Init
  <2>1. [op |-> "load", as |-> cookie, product |-> Nobody, qty |-> 0,
         stage |-> "sent", behind |-> {}, seen |-> Unread, cancelled |-> FALSE] \in CallType
    BY <1>1, UnreadTyped DEF CallType, Reads, PageTyped
  <2> QED BY <2>1 DEF CallsTyped
<1>3. RestTyped
  <2>1. 0 \in 0 .. MaxActs /\ 0 \in 0 .. MaxFailures
    BY CartAssumption
  <2> QED BY <2>1 DEF Init, RestTyped
<1>4. Kept
  BY DEF Init, Kept
<1> QED BY <1>1, <1>2, <1>3, <1>4 DEF CInv, Typed

\* The product that is put in again is no longer gone.
LEMMA AddStep ==
    ASSUME CInv, NEW p \in Product, Add(p)
    PROVE  CInv'
<1>0. Typed /\ Kept
  BY DEF CInv
<1>1. PageTyped'
  BY <1>0 DEF Add, Typed, PageTyped, page
<1>2. CallsTyped'
  BY <1>0, Sent DEF Add, LineOp
<1>3. CartsTyped'
  BY <1>0 DEF Add, Typed, CartsTyped
<1>4. RestTyped'
  BY <1>0, CartAssumption DEF Add, Acts, Typed, RestTyped, history
<1>5. Kept'
  <2>1. Send("add", p, 1) /\ gone' = gone \ {p} /\ UNCHANGED <<carts, cookie>>
    BY DEF Add
  <2>2. /\ \A r : PutBack(r)' => PutBack(r) \/ p = r
        /\ \A r : Removing(r) => Removing(r)'
    BY <1>0, <2>1, Sent DEF LineOp
  <2> QED BY <1>0, <2>1, <2>2 DEF Kept
<1> QED BY <1>1, <1>2, <1>3, <1>4, <1>5 DEF CInv, Typed

\* Plus and minus offer a quantity of at least one.
LEMMA OfferedMore ==
    ASSUME Typed, NEW p \in Product, shown[p] > 0, NEW q \in Offered(p)
    PROVE  q \in Nat /\ q > 0
<1>1. shown[p] \in Nat
  BY DEF Typed, PageTyped, Lines
<1> QED BY <1>1 DEF Offered

\* The page alone changes.
LEMMA UpdateQuantityStep ==
    ASSUME CInv, NEW p \in Product, NEW q \in Offered(p), UpdateQuantity(p, q)
    PROVE  CInv'
<1>0. Typed /\ Kept
  BY DEF CInv
<1>1. PageTyped'
  <2>1. q \in Nat
    BY <1>0, OfferedMore DEF UpdateQuantity
  <2> QED BY <1>0, <2>1 DEF UpdateQuantity, Typed, PageTyped, Lines
<1>2. CallsTyped'
  BY <1>0 DEF UpdateQuantity, Typed, CallsTyped
<1>3. CartsTyped'
  BY <1>0 DEF UpdateQuantity, Typed, CartsTyped
<1>4. RestTyped'
  BY <1>0, CartAssumption DEF UpdateQuantity, Acts, Typed, RestTyped, history
<1>5. Kept'
  BY <1>0 DEF UpdateQuantity, history, Kept, PutBack, Removing, Unserved, Busy
<1> QED BY <1>1, <1>2, <1>3, <1>4, <1>5 DEF CInv, Typed

\* The product is gone, unless something on its way puts it back.
LEMMA RemoveItemStep ==
    ASSUME CInv, NEW p \in Product, RemoveItem(p)
    PROVE  CInv'
<1>0. Typed /\ Kept
  BY DEF CInv
<1>1. PageTyped'
  BY <1>0 DEF RemoveItem, TakeOff, Typed, PageTyped, Lines
<1>2. CallsTyped'
  BY <1>0, Sent DEF RemoveItem, LineOp
<1>3. CartsTyped'
  BY <1>0 DEF RemoveItem, Typed, CartsTyped
<1>4. RestTyped'
  BY <1>0, CartAssumption DEF RemoveItem, Acts, Typed, RestTyped, history
<1>5. Kept'
  <2>1. /\ Send("remove", p, 0) /\ UNCHANGED <<carts, cookie>>
        /\ gone' = IF PutBack(p) THEN gone ELSE gone \union {p}
    BY DEF RemoveItem
  <2>2. /\ \A r : PutBack(r)' => PutBack(r)
        /\ \A r : Removing(r) => Removing(r)'
        /\ Removing(p)'
    BY <1>0, <2>1, Sent DEF LineOp
  <2> QED BY <1>0, <2>1, <2>2 DEF Kept
<1> QED BY <1>1, <1>2, <1>3, <1>4, <1>5 DEF CInv, Typed

\* Everything is gone that nothing on its way puts back.
LEMMA ClearCartStep ==
    ASSUME CInv, ClearCart
    PROVE  CInv'
<1>0. Typed /\ Kept
  BY DEF CInv
<1>1. PageTyped'
  BY <1>0 DEF ClearCart, TakeOff, Typed, PageTyped, Lines
<1>2. CallsTyped'
  BY <1>0, Sent DEF ClearCart, CartOp
<1>3. CartsTyped'
  BY <1>0 DEF ClearCart, Typed, CartsTyped
<1>4. RestTyped'
  BY <1>0, CartAssumption DEF ClearCart, Acts, Typed, RestTyped, history
<1>5. Kept'
  <2>1. /\ Send("clear", Nobody, 0) /\ UNCHANGED <<carts, cookie>>
        /\ gone' = gone \union {p \in Product : ~PutBack(p)}
    BY DEF ClearCart
  <2>2. /\ \A r : PutBack(r)' => PutBack(r)
        /\ \A r : Removing(r)'
    BY <1>0, <2>1, Sent DEF CartOp
  <2> QED BY <1>0, <2>1, <2>2 DEF Kept
<1> QED BY <1>1, <1>2, <1>3, <1>4, <1>5 DEF CInv, Typed

\* A quantity brings no line back.
LEMMA FireStep ==
    ASSUME CInv, NEW p \in Product, Fire(p)
    PROVE  CInv'
<1>0. Typed /\ Kept
  BY DEF CInv
<1>1. PageTyped'
  BY <1>0 DEF Fire, Typed, PageTyped, Lines
<1>2. CallsTyped'
  <2>1. timer[p] \in Nat
    BY <1>0 DEF Typed, PageTyped, Lines
  <2> QED BY <1>0, <2>1, Sent DEF Fire, LineOp
<1>3. CartsTyped'
  BY <1>0 DEF Fire, Typed, CartsTyped
<1>4. RestTyped'
  BY <1>0, CartAssumption DEF Fire, Acts, Typed, RestTyped, history
<1>5. Kept'
  <2>1. Send("update", p, timer[p]) /\ UNCHANGED <<carts, cookie, gone>> /\ timer[p] \in Nat
    BY <1>0 DEF Fire, history, Typed, PageTyped, Lines
  <2>2. /\ \A r : PutBack(r)' => PutBack(r)
        /\ \A r : Removing(r) => Removing(r)'
    BY <1>0, <2>1, Sent DEF LineOp
  <2> QED BY <1>0, <2>1, <2>2, StaysOut
<1> QED BY <1>1, <1>2, <1>3, <1>4, <1>5 DEF CInv, Typed

\* Another identity has lost nothing yet.
LEMMA SignStep ==
    ASSUME CInv, Sign
    PROVE  CInv'
<1>0. Typed /\ Kept
  BY DEF CInv
<1>1. PageTyped'
  <2>1. (CHOOSE o \in Owner : o # cookie) \in Owner
    <3>1. \E o \in Owner : o # cookie
      BY DEF Owner
    <3> QED BY <3>1
  <2> QED BY <1>0, <2>1 DEF Sign, Typed, PageTyped, page
<1>2. CallsTyped'
  BY <1>0 DEF Sign, Typed, CallsTyped
<1>3. CartsTyped'
  BY <1>0 DEF Sign, Typed, CartsTyped
<1>4. RestTyped'
  BY <1>0, CartAssumption DEF Sign, Acts, Typed, RestTyped, history
<1>5. Kept'
  BY DEF Sign, Kept
<1> QED BY <1>1, <1>2, <1>3, <1>4, <1>5 DEF CInv, Typed

\* Nor has the page that loads its cart.
LEMMA NoticeStep ==
    ASSUME CInv, Notice
    PROVE  CInv'
<1>0. Typed /\ Kept
  BY DEF CInv
<1>1. PageTyped'
  BY <1>0 DEF Notice, Typed, PageTyped, page
<1>2. CallsTyped'
  <2> PICK f \in Slot, t \in Slot :
          calls' = [x \in Slot |->
                CASE x = f -> Call("load", Nobody, 0)
                  [] x = t /\ cookie = "user" -> Call("merge", Nobody, 0)
                  [] Busy(x) /\ calls[x].op \in {"load", "again", "merge"} ->
                        [calls[x] EXCEPT !.cancelled = TRUE]
                  [] OTHER -> calls[x]]
    BY DEF Notice
  <2>1. Call("load", Nobody, 0) \in CallType /\ Call("merge", Nobody, 0) \in CallType
    BY <1>0, NewCall DEF CartOp, Reads
  <2>2. ASSUME NEW x \in Slot, Busy(x), calls[x].op \in {"load", "again", "merge"}
        PROVE  [calls[x] EXCEPT !.cancelled = TRUE] \in CallType
    BY <1>0, <2>2, BusyCall, Cancelled
  <2>3. \A x \in Slot : calls[x] \in CallType \union {Idle}
    BY <1>0 DEF Typed, CallsTyped
  <2> QED BY <2>1, <2>2, <2>3 DEF CallsTyped
<1>3. CartsTyped'
  BY <1>0 DEF Notice, Typed, CartsTyped
<1>4. RestTyped'
  BY <1>0, CartAssumption DEF Notice, Acts, Typed, RestTyped, history
<1>5. Kept'
  BY DEF Notice, Kept
<1> QED BY <1>1, <1>2, <1>3, <1>4, <1>5 DEF CInv, Typed

\* A quantity leaves an absent line absent, a removal makes it so.
LEMMA WriteStep ==
    ASSUME CInv, NEW s \in Slot, Write(s)
    PROVE  CInv'
<1>0. Typed /\ Kept
  BY DEF CInv
<1>1. PageTyped'
  BY <1>0 DEF Write, Typed, PageTyped, page
<1>2. CallsTyped'
  BY <1>0, UnreadTyped, Passed DEF Write
<1>3. CartsTyped'
  <2> DEFINE c == calls[s]
  <2>1. c \in CallType /\ c.op \in {"update", "remove", "clear"}
    BY <1>0, BusyCall DEF Write
  <2>2. c.as \in Owner /\ (c.op = "update" => c.qty \in Nat)
    BY <2>1, CallFacts DEF LineOp
  <2>3. Written(c) \in Lines
    BY <1>0, <2>2 DEF Written, Lines, Typed, CartsTyped
  <2> QED BY <1>0, <2>2, <2>3 DEF Write, Typed, CartsTyped
<1>4. RestTyped'
  BY <1>0, CartAssumption DEF Write, Acts, Typed, RestTyped, history
<1>5. Kept'
  <2> DEFINE c == calls[s]
  <2>1. c \in CallType /\ c.op \in {"update", "remove", "clear"} /\ c.as \in Owner /\ Busy(s)
    BY <1>0, BusyCall, CallFacts DEF Write
  <2>2. /\ calls' = Served(s, "done", Unread) /\ UNCHANGED <<cookie, gone>>
        /\ carts' = [carts EXCEPT ![c.as] = Written(c)]
    BY DEF Write
  <2>3. /\ \A r : PutBack(r)' => PutBack(r)
        /\ \A r : Removing(r)
                => \/ Removing(r)'
                   \/ c.op \in {"remove", "clear"} /\ c.as = cookie /\ Touches(c, r)
    BY <1>0, <2>1, <2>2, UnreadTyped, Passed
  <2>4. cookie \in Owner /\ gone \subseteq Product /\ carts \in [Owner -> Lines]
    BY <1>0 DEF Typed, PageTyped, RestTyped, CartsTyped
  <2>5. carts'[cookie] = IF c.as = cookie THEN Written(c) ELSE carts[cookie]
    BY <2>1, <2>2, <2>4
  <2>6. ASSUME NEW r \in gone, carts[cookie][r] = 0
        PROVE  carts'[cookie][r] = 0
    BY <2>4, <2>5, <2>6 DEF Written
  <2>7. ASSUME NEW r \in gone, c.op \in {"remove", "clear"}, c.as = cookie, Touches(c, r)
        PROVE  carts'[cookie][r] = 0
    BY <2>4, <2>5, <2>7 DEF Written
  <2> QED BY <1>0, <2>2, <2>3, <2>6, <2>7, StaysOut
<1> QED BY <1>1, <1>2, <1>3, <1>4, <1>5 DEF CInv, Typed

\* A read leaves the lines alone.
LEMMA ReadStep ==
    ASSUME CInv, NEW s \in Slot, Read(s)
    PROVE  CInv'
<1>0. Typed /\ Kept
  BY DEF CInv
<1>1. PageTyped'
  BY <1>0 DEF Read, Typed, PageTyped, page
<1>2. CallsTyped'
  <2>1. Busy(s) /\ calls[s].as \in Owner
    BY <1>0, BusyCall, CallFacts DEF Read
  <2>2. [Unread EXCEPT ![calls[s].as] = carts[calls[s].as]] \in [Owner -> Lines]
    BY <1>0, <2>1, UnreadTyped DEF Typed, CartsTyped
  <2> QED BY <1>0, <2>1, <2>2, Passed DEF Read
<1>3. CartsTyped'
  BY <1>0 DEF Read, Typed, CartsTyped
<1>4. RestTyped'
  BY <1>0, CartAssumption DEF Read, Acts, Typed, RestTyped, history
<1>5. Kept'
  <2>1. Busy(s) /\ calls[s].as \in Owner
    BY <1>0, BusyCall, CallFacts DEF Read
  <2>2. [Unread EXCEPT ![calls[s].as] = carts[calls[s].as]] \in [Owner -> Lines]
    BY <1>0, <2>1, UnreadTyped DEF Typed, CartsTyped
  <2>3. calls[s].op \notin {"remove", "clear"} /\ UNCHANGED <<cookie, gone, carts>>
    BY DEF Read, Reads, history
  <2>4. calls' = Served(s, "done", [Unread EXCEPT ![calls[s].as] = carts[calls[s].as]])
    BY DEF Read
  <2>5. /\ \A r : PutBack(r)' => PutBack(r)
        /\ \A r : Removing(r) => Removing(r)'
    BY <1>0, <2>1, <2>2, <2>3, <2>4, Passed
  <2> QED BY <1>0, <2>3, <2>5, StaysOut
<1> QED BY <1>1, <1>2, <1>3, <1>4, <1>5 DEF CInv, Typed

\* The line that is made belongs to a product that is not gone.
LEMMA BeginStep ==
    ASSUME CInv, NEW s \in Slot, Begin(s)
    PROVE  CInv'
<1>0. Typed /\ Kept
  BY DEF CInv
<1>6. CallsTyped' /\ (\A r : PutBack(r)' => PutBack(r)) /\ (\A r : Removing(r) => Removing(r)')
  <2> PICK c : c = calls[s]
    OBVIOUS
  <2> PICK seen : seen = IF c.op = "add" THEN [Unread EXCEPT ![c.as] = carts[c.as]] ELSE carts
    OBVIOUS
  <2>1. c \in CallType /\ Busy(s) /\ c.op \in {"add", "merge"} /\ c.stage = "sent" /\ cookie' = cookie
    BY <1>0, BusyCall DEF Begin
  <2>2. seen \in [Owner -> Lines]
    <3>1. c.as \in Owner /\ carts \in [Owner -> Lines]
      BY <1>0, <2>1, CallFacts DEF Typed, CartsTyped
    <3>2. [Unread EXCEPT ![c.as] = carts[c.as]] \in [Owner -> Lines]
      BY <3>1, UnreadTyped
    <3> QED BY <3>1, <3>2
  <2> PICK d : d = [c EXCEPT !.stage = "read", !.seen = seen]
    OBVIOUS
  <2>3. calls' = [calls EXCEPT ![s] = d] /\ DOMAIN calls = Slot
    <3>1. calls' = [calls EXCEPT ![s].stage = "read", ![s].seen = seen]
      BY DEF Begin
    <3> QED BY <1>0, <3>1 DEF Typed, CallsTyped
  <2>4. d \in CallType /\ d.op = c.op /\ d.as = c.as /\ d.product = c.product /\ d.stage = "read"
    BY <2>1, <2>2 DEF CallType
  <2>5. calls'[s] = d /\ \A x \in Slot : x # s => calls'[x] = calls[x]
    BY <2>3
  <2>6. CallsTyped'
    BY <1>0, <2>3, <2>4 DEF Typed, CallsTyped
  <2>7. Unserved(s) /\ Unserved(s)'
    BY <2>1, <2>4, <2>5, CallFacts DEF Unserved, Busy, Writes
  <2>8. \A x \in Slot : x # s => (Unserved(x)' <=> Unserved(x))
    BY <2>5 DEF Unserved, Busy
  <2>9. \A x \in Slot : /\ Unserved(x)' <=> Unserved(x)
                        /\ calls'[x].op = calls[x].op /\ calls'[x].as = calls[x].as
                        /\ calls'[x].product = calls[x].product
    BY <2>4, <2>5, <2>7, <2>8
  <2> QED BY <2>1, <2>6, <2>9 DEF PutBack, Removing, Touches
<1>1. PageTyped'
  BY <1>0 DEF Begin, Typed, PageTyped, page
<1>2. CallsTyped'
  BY <1>6
<1>3. CartsTyped'
  <2> DEFINE c == calls[s]
  <2>1. /\ c.as \in Owner
        /\ \/ c.op = "merge" /\ UNCHANGED carts
           \/ /\ c.product \in Product
              /\ carts' = [carts EXCEPT ![c.as][c.product] =
                             IF carts[c.as][c.product] = 0 THEN 1 ELSE carts[c.as][c.product]]
    BY <1>0, BusyCall, CallFacts DEF Begin, LineOp
  <2> PICK o, p : o = c.as /\ p = c.product
    OBVIOUS
  <2>2. CASE UNCHANGED carts
    BY <1>0, <2>2 DEF Typed, CartsTyped
  <2>3. CASE p \in Product /\ carts' = [carts EXCEPT ![o][p] = IF carts[o][p] = 0 THEN 1 ELSE carts[o][p]]
    <3>1. carts[o] \in Lines
      BY <1>0, <2>1 DEF Typed, CartsTyped
    <3>2. [carts[o] EXCEPT ![p] = IF carts[o][p] = 0 THEN 1 ELSE carts[o][p]] \in Lines
      BY <3>1 DEF Lines
    <3> QED BY <1>0, <2>1, <2>3, <3>2 DEF Typed, CartsTyped
  <2> QED BY <2>1, <2>2, <2>3
<1>4. RestTyped'
  BY <1>0, CartAssumption DEF Begin, Acts, Typed, RestTyped, history
<1>5. Kept'
  <2> DEFINE c == calls[s]
  <2>1. c \in CallType /\ c.as \in Owner /\ Busy(s) /\ c.stage = "sent" /\ UNCHANGED <<cookie, gone>>
    BY <1>0, BusyCall, CallFacts DEF Begin, history
  <2>2. ASSUME NEW r \in gone, carts[cookie][r] = 0
        PROVE  carts'[cookie][r] = 0
    <3>1. CASE UNCHANGED carts
      BY <2>2, <3>1
    <3>2. CASE c.op = "add"
      <4>1. Unserved(s)
        BY <2>1, <3>2 DEF Unserved, Writes
      <4>2. c.product # r
        BY <1>0, <3>2, <4>1 DEF Kept, PutBack, Touches
      <4>3. carts' = [carts EXCEPT ![c.as][c.product] =
                        IF carts[c.as][c.product] = 0 THEN 1 ELSE carts[c.as][c.product]]
        BY <3>2 DEF Begin
      <4>4. r \in Product /\ cookie \in Owner /\ carts \in [Owner -> [Product -> Nat]]
        BY <1>0 DEF Typed, RestTyped, PageTyped, CartsTyped, Lines
      <4> PICK o, p, v : o = c.as /\ p = c.product
                         /\ v = IF carts[c.as][c.product] = 0 THEN 1 ELSE carts[c.as][c.product]
        OBVIOUS
      <4>5. carts' = [carts EXCEPT ![o][p] = v] /\ p # r
        BY <4>2, <4>3
      <4> QED BY <2>2, <4>4, <4>5
    <3> QED BY <3>1, <3>2 DEF Begin
  <2> QED BY <1>0, <1>6, <2>1, <2>2, StaysOut
<1> QED BY <1>1, <1>2, <1>3, <1>4, <1>5 DEF CInv, Typed

\* The quantity that is saved belongs to a product that is not gone.
LEMMA SaveAddStep ==
    ASSUME CInv, NEW s \in Slot, SaveAdd(s)
    PROVE  CInv'
<1>0. Typed /\ Kept
  BY DEF CInv
<1>1. PageTyped'
  BY <1>0 DEF SaveAdd, Typed, PageTyped, page
<1>2. CallsTyped'
  BY <1>0, UnreadTyped, Passed DEF SaveAdd
<1>3. CartsTyped'
  <2> PICK c : c = calls[s]
    OBVIOUS
  <2>1. /\ c.as \in Owner /\ c.product \in Product /\ c.qty \in Nat
        /\ c.seen \in [Owner -> [Product -> Nat]]
        /\ carts' = [carts EXCEPT ![c.as][c.product] = c.seen[c.as][c.product] + c.qty]
    BY <1>0, BusyCall, CallFacts DEF SaveAdd, LineOp, Lines
  <2> PICK o, p, v : o = c.as /\ p = c.product /\ v = c.seen[c.as][c.product] + c.qty
    OBVIOUS
  <2>2. v \in Nat /\ carts' = [carts EXCEPT ![o][p] = v] /\ o \in Owner /\ p \in Product
    BY <2>1
  <2> QED BY <1>0, <2>2 DEF Typed, CartsTyped, Lines
<1>4. RestTyped'
  BY <1>0, CartAssumption DEF SaveAdd, Acts, Typed, RestTyped, history
<1>5. Kept'
  <2> PICK c : c = calls[s]
    OBVIOUS
  <2>1. /\ Busy(s) /\ c.op = "add" /\ c.stage = "read" /\ UNCHANGED <<cookie, gone>>
        /\ calls' = Served(s, "done", Unread)
        /\ carts' = [carts EXCEPT ![c.as][c.product] = c.seen[c.as][c.product] + c.qty]
    BY DEF SaveAdd
  <2>2. /\ \A r : PutBack(r)' => PutBack(r)
        /\ \A r : Removing(r) => Removing(r)'
    BY <1>0, <2>1, UnreadTyped, Passed
  <2>3. ASSUME NEW r \in gone, carts[cookie][r] = 0
        PROVE  carts'[cookie][r] = 0
    <3>1. Unserved(s)
      BY <2>1 DEF Unserved, Writes
    <3>2. c.product # r
      BY <1>0, <2>1, <3>1 DEF Kept, PutBack, Touches
    <3>3. r \in Product /\ cookie \in Owner /\ carts \in [Owner -> [Product -> Nat]]
      BY <1>0 DEF Typed, RestTyped, PageTyped, CartsTyped, Lines
    <3> PICK o, p, v : o = c.as /\ p = c.product /\ v = c.seen[c.as][c.product] + c.qty
      OBVIOUS
    <3>4. carts' = [carts EXCEPT ![o][p] = v] /\ p # r
      BY <2>1, <3>2
    <3> QED BY <2>3, <3>3, <3>4
  <2> QED BY <1>0, <2>1, <2>2, <2>3, StaysOut
<1> QED BY <1>1, <1>2, <1>3, <1>4, <1>5 DEF CInv, Typed

\* While a merge is on its way nothing is gone.
LEMMA SaveMergeStep ==
    ASSUME CInv, NEW s \in Slot, SaveMerge(s)
    PROVE  CInv'
<1>0. Typed /\ Kept
  BY DEF CInv
<1>6. CartsTyped'
  <2>1. PICK seen, base :
          /\ seen \in [Owner -> Lines] /\ base \in Lines
          /\ carts' = [o \in Owner |-> [p \in Product |->
                        IF o = "session" THEN 0
                        ELSE IF seen["session"][p] = 0 THEN carts["user"][p]
                        ELSE base[p] + seen["session"][p]]]
    <3>1. PICK base \in {calls[s].seen["user"], carts["user"]} :
            carts' = [o \in Owner |-> [p \in Product |->
                        IF o = "session" THEN 0
                        ELSE IF calls[s].seen["session"][p] = 0 THEN carts["user"][p]
                        ELSE base[p] + calls[s].seen["session"][p]]]
      BY DEF SaveMerge
    <3>2. calls[s].seen \in [Owner -> Lines] /\ carts \in [Owner -> Lines] /\ "user" \in Owner
      BY <1>0, BusyCall, CallFacts DEF SaveMerge, Typed, CartsTyped, Owner
    <3>3. base \in Lines
      BY <3>2
    <3> QED BY <3>1, <3>2, <3>3
  <2>2. "session" \in Owner /\ "user" \in Owner
    BY DEF Owner
  <2> QED BY <1>0, <2>1, <2>2 DEF Typed, CartsTyped, Lines
<1>1. PageTyped'
  BY <1>0 DEF SaveMerge, Typed, PageTyped, page
<1>2. CallsTyped'
  BY <1>0, <1>6, Passed DEF SaveMerge, CartsTyped
<1>3. CartsTyped'
  BY <1>6
<1>4. RestTyped'
  BY <1>0, CartAssumption DEF SaveMerge, Acts, Typed, RestTyped, history
<1>5. Kept'
  <2>1. /\ Unserved(s) /\ calls[s].op = "merge" /\ UNCHANGED gone
    BY DEF SaveMerge, Unserved, Writes
  <2>2. gone = {}
    BY <1>0, <2>1 DEF Kept, PutBack, Touches
  <2> QED BY <2>1, <2>2 DEF Kept
<1> QED BY <1>1, <1>2, <1>3, <1>4, <1>5 DEF CInv, Typed

\* What a failed removal should have taken out does not count.
LEMMA FailStep ==
    ASSUME CInv, NEW s \in Slot, Fail(s)
    PROVE  CInv'
<1>0. Typed /\ Kept
  BY DEF CInv
<1>1. PageTyped'
  BY <1>0 DEF Fail, Typed, PageTyped, page
<1>2. CallsTyped'
  <2>1. CASE calls' = Served(s, "failed", Unread)
    BY <1>0, <2>1, UnreadTyped, Passed DEF Fail
  <2>2. ASSUME NEW t \in Slot, ~Busy(t), calls' = Late(s, t) PROVE CallsTyped'
    BY <1>0, <2>2, Left DEF Fail
  <2> QED BY <2>1, <2>2 DEF Fail
<1>3. CartsTyped'
  BY <1>0 DEF Fail, Typed, CartsTyped
<1>4. RestTyped'
  BY <1>0, CartAssumption DEF Fail, Acts, Typed, RestTyped, history
<1>5. Kept'
  <2> DEFINE c == calls[s]
  <2>0. Busy(s) /\ UNCHANGED <<cookie, carts>>
    BY DEF Fail
  <2>1. CASE /\ calls' = Served(s, "failed", Unread)
             /\ gone' = IF Unserved(s) /\ c.op \in {"remove", "clear"}
                          THEN {p \in gone : ~Touches(c, p)} ELSE gone
    <3>1. /\ \A r : PutBack(r)' => PutBack(r)
          /\ \A r : Removing(r)
                  => \/ Removing(r)'
                     \/ c.op \in {"remove", "clear"} /\ Unserved(s) /\ Touches(c, r)
      BY <1>0, <2>0, <2>1, UnreadTyped, Passed
    <3>3. gone' \subseteq gone /\ \A r \in gone' : Removing(r) => Removing(r)'
      BY <2>1, <3>1
    <3> QED BY <1>0, <2>0, <3>1, <3>3, StaysOut
  <2>2. ASSUME NEW t \in Slot, ~Busy(t), calls' = Late(s, t), UNCHANGED gone, Unserved(s)
        PROVE  Kept'
    <3>1. /\ \A r : PutBack(r)' => PutBack(r)
          /\ \A r : Removing(r) => Removing(r)'
      BY <1>0, <2>0, <2>2, Left
    <3> QED BY <1>0, <2>0, <2>2, <3>1, StaysOut
  <2> QED BY <2>1, <2>2 DEF Fail
<1> QED BY <1>1, <1>2, <1>3, <1>4, <1>5 DEF CInv, Typed

\* The list becomes what was read.
LEMMA AnswerReadStep ==
    ASSUME CInv, NEW s \in Slot, AnswerRead(s)
    PROVE  CInv'
<1>0. Typed /\ Kept
  BY DEF CInv
<1>6. CallsTyped' /\ (\A r : PutBack(r)' => PutBack(r)) /\ (\A r : Removing(r) => Removing(r)')
  <2>1. /\ Busy(s) /\ calls[s].stage \in {"done", "failed"} /\ cookie' = cookie
        /\ Forget(s) \/ (\E op \in Reads : Follow(s, op))
    BY DEF AnswerRead, Reads
  <2> QED BY <1>0, <2>1, Answered
<1>1. PageTyped'
  <2>1. calls[s].seen[calls[s].as] \in Lines
    BY <1>0, BusyCall, CallFacts DEF AnswerRead
  <2> QED BY <1>0, <2>1 DEF AnswerRead, Show, Typed, PageTyped, page
<1>2. CallsTyped'
  BY <1>6
<1>3. CartsTyped'
  BY <1>0 DEF AnswerRead, Typed, CartsTyped
<1>4. RestTyped'
  BY <1>0, CartAssumption DEF AnswerRead, Show, Typed, RestTyped
<1>5. Kept'
  <2>1. UNCHANGED <<cookie, carts, gone>>
    BY DEF AnswerRead, history
  <2> QED BY <1>0, <1>6, <2>1, StaysOut
<1> QED BY <1>1, <1>2, <1>3, <1>4, <1>5 DEF CInv, Typed

\* The list becomes what was merged, or is read again.
LEMMA AnswerMergeStep ==
    ASSUME CInv, NEW s \in Slot, AnswerMerge(s)
    PROVE  CInv'
<1>0. Typed /\ Kept
  BY DEF CInv
<1>6. CallsTyped' /\ (\A r : PutBack(r)' => PutBack(r)) /\ (\A r : Removing(r) => Removing(r)')
  <2>1. /\ Busy(s) /\ calls[s].stage \in {"done", "failed"} /\ cookie' = cookie
        /\ Forget(s) \/ (\E op \in Reads : Follow(s, op))
    BY DEF AnswerMerge, Reads
  <2> QED BY <1>0, <2>1, Answered
<1>1. PageTyped'
  <2>1. calls[s].seen[calls[s].as] \in Lines
    BY <1>0, BusyCall, CallFacts DEF AnswerMerge
  <2> QED BY <1>0, <2>1 DEF AnswerMerge, Show, Typed, PageTyped, page
<1>2. CallsTyped'
  BY <1>6
<1>3. CartsTyped'
  BY <1>0 DEF AnswerMerge, Typed, CartsTyped
<1>4. RestTyped'
  BY <1>0, CartAssumption DEF AnswerMerge, Show, Typed, RestTyped
<1>5. Kept'
  <2>1. UNCHANGED <<cookie, carts, gone>>
    BY DEF AnswerMerge, history
  <2> QED BY <1>0, <1>6, <2>1, StaysOut
<1> QED BY <1>1, <1>2, <1>3, <1>4, <1>5 DEF CInv, Typed

\* An answer to a write changes no list.
LEMMA AnswerWriteStep ==
    ASSUME CInv, NEW s \in Slot, AnswerWrite(s)
    PROVE  CInv'
<1>0. Typed /\ Kept
  BY DEF CInv
<1>6. CallsTyped' /\ (\A r : PutBack(r)' => PutBack(r)) /\ (\A r : Removing(r) => Removing(r)')
  <2>1. /\ Busy(s) /\ calls[s].stage \in {"done", "failed"} /\ cookie' = cookie
        /\ Forget(s) \/ (\E op \in Reads : Follow(s, op))
    BY DEF AnswerWrite, Reads
  <2> QED BY <1>0, <2>1, Answered
<1>1. PageTyped'
  BY <1>0 DEF AnswerWrite, Typed, PageTyped, page
<1>2. CallsTyped'
  BY <1>6
<1>3. CartsTyped'
  BY <1>0 DEF AnswerWrite, Typed, CartsTyped
<1>4. RestTyped'
  BY <1>0, CartAssumption DEF AnswerWrite, Acts, Typed, RestTyped, history
<1>5. Kept'
  <2>1. UNCHANGED <<cookie, carts, gone>>
    BY DEF AnswerWrite, history
  <2> QED BY <1>0, <1>6, <2>1, StaysOut
<1> QED BY <1>1, <1>2, <1>3, <1>4, <1>5 DEF CInv, Typed

\* Every step of the buyer, the page and the server keeps the invariant.
LEMMA Inductive == CInv /\ [Next]_vars => CInv'
<1> SUFFICES ASSUME CInv, [Next]_vars PROVE CInv'
  OBVIOUS
<1>1. CASE Buyer
  BY <1>1, AddStep, UpdateQuantityStep, RemoveItemStep, ClearCartStep, SignStep DEF Buyer
<1>2. CASE Notice \/ \E p \in Product : Fire(p)
  BY <1>2, NoticeStep, FireStep
<1>3. ASSUME NEW s \in Slot, Server(s) PROVE CInv'
  BY <1>3, WriteStep, ReadStep, BeginStep, SaveAddStep, SaveMergeStep DEF Server
<1>4. ASSUME NEW s \in Slot, Fail(s) \/ Answer(s) PROVE CInv'
  BY <1>4, FailStep, AnswerReadStep, AnswerMergeStep, AnswerWriteStep DEF Answer
<1>5. CASE UNCHANGED vars
  BY <1>5 DEF CInv, Typed, PageTyped, CallsTyped, CartsTyped, RestTyped, Kept, PutBack,
     Removing, Unserved, Busy, Touches, vars, page, history
<1> QED BY <1>1, <1>2, <1>3, <1>4, <1>5 DEF Next

-----------------------------------------------------------------------------
\* The invariant holds throughout.
THEOREM Always == Spec => []CInv
<1>1. Init => CInv
  BY Base
<1>2. CInv /\ [Next]_vars => CInv'
  BY Inductive
<1> QED BY <1>1, <1>2, PTL DEF Spec

\* The page, the calls and the carts keep their types: no quantity is negative
\* and no answer is shown that is not a list of quantities.
THEOREM TypeCorrect == Spec => []TypeOK
<1>1. CInv => TypeOK
  BY DEF CInv, Typed, PageTyped, CallsTyped, CartsTyped, RestTyped, TypeOK
<1> QED BY <1>1, Always, PTL

\* What was taken out of the cart stays out (use-cart.tsx:102-110, 126-132,
\* cart_views.py:174).
THEOREM TakenOutForGood == Spec => []RemovedStaysOut
<1>1. CInv => RemovedStaysOut
  BY DEF CInv, Kept, Removing, RemovedStaysOut
<1> QED BY <1>1, Always, PTL

-----------------------------------------------------------------------------
(* The list follows the server: unless it was made from something outdated, *)
(* what is on its way makes the rows what the page shows, or the page loads *)
(* them again.                                                              *)

\* A quantity of p that the server has not dealt with, a removal of it, and a
\* quantity that was lost.
Setting(s, p) == Unserved(s) /\ calls[s].op = "update" /\ calls[s].product = p
Deletes(s, p) == Unserved(s) /\ calls[s].op \in {"remove", "clear"} /\ Touches(calls[s], p)
Lost(s, p) == /\ Busy(s) /\ calls[s].op = "update" /\ calls[s].product = p
              /\ calls[s].stage = "failed" /\ ~calls[s].cancelled

\* The answer to this call makes the list anew, or calls it outdated.
Rereads(s) ==
    /\ Busy(s) /\ ~calls[s].cancelled
    /\ \/ calls[s].op \in Reads \union {"merge", "add"}
       \/ calls[s].op \in {"remove", "clear"} /\ calls[s].stage = "failed"
Reloading == known # cookie \/ \E s \in Slot : Rereads(s)

\* Calls wait for other writes under way only, and of two quantities of a product
\* one waits for the other.
Waits(s) == Busy(s) => /\ calls[s].behind \subseteq {x \in Slot : Unserved(x)} \ {s}
                       /\ calls[s].op = "update" => calls[s].qty > 0
Apart(x, y) == \A p \in Product :
    Setting(x, p) /\ Setting(y, p) => x \in calls[y].behind \/ y \in calls[x].behind
Ordered == /\ \A s \in Slot : Waits(s)
           /\ \A x, y \in Slot : x # y => Apart(x, y)

\* The quantity shown is that of the row, or of the last quantity on its way that
\* the page still waits for, or a quantity was lost and the line will be looked up.
Deleting(p) == \E s \in Slot : Deletes(s, p)
Last(s, p) == Setting(s, p) /\ ~calls[s].cancelled /\ \A x \in Slot : Setting(x, p) => s \notin calls[x].behind
Saving(p) == \/ shown[p] = carts[cookie][p] /\ \A s \in Slot : ~Setting(s, p)
             \/ \E s \in Slot : Last(s, p) /\ calls[s].qty = shown[p]
             \/ \E s \in Slot : Lost(s, p)
Matches(p) ==
    /\ timer[p] > 0 => shown[p] = timer[p]
    /\ shown[p] = 0 => carts[cookie][p] = 0 \/ Deleting(p)
    /\ shown[p] > 0 => carts[cookie][p] > 0 /\ ~Deleting(p)
    /\ shown[p] > 0 /\ timer[p] = 0 => Saving(p)
Own(s) == Unserved(s) => /\ calls[s].op \in {"update", "remove", "clear"} /\ calls[s].as = cookie
                         /\ calls[s].op # "update" => ~calls[s].cancelled
Following == (\A s \in Slot : Own(s)) /\ \A p \in Product : Matches(p)

\* The inductive invariant of OnlyStaleReads.
FInv == Ordered /\ (~stale /\ ~Reloading => Following)

-----------------------------------------------------------------------------
(* What a step does to the slots.                                          *)

\* The call in a slot stays what it is, though another may be dealt with.
Like(x) == /\ Busy(x)' <=> Busy(x)
           /\ Busy(x) => SameCall(calls'[x], calls[x]) /\ calls'[x].stage = calls[x].stage
Same(x) == Like(x) /\ (Busy(x) => calls'[x].cancelled = calls[x].cancelled)

\* What is known of a call is still known of it.
LEMMA LikeFacts ==
    ASSUME NEW x, Like(x)
    PROVE  /\ Unserved(x)' <=> Unserved(x)
           /\ \A p : Setting(x, p)' <=> Setting(x, p)
           /\ \A p : Deletes(x, p)' <=> Deletes(x, p)
           /\ Same(x) => /\ \A p : Lost(x, p)' <=> Lost(x, p)
                         /\ Rereads(x)' <=> Rereads(x)
                         /\ cookie' = cookie => (Own(x)' <=> Own(x))
<1>1. Unserved(x)' <=> Unserved(x)
  BY DEF Like, SameCall, Unserved
<1>2. \A p : Setting(x, p)' <=> Setting(x, p)
  BY <1>1 DEF Like, SameCall, Unserved, Setting
<1>3. \A p : Deletes(x, p)' <=> Deletes(x, p)
  BY <1>1 DEF Like, SameCall, Unserved, Deletes, Touches
<1>4. Same(x) => \A p : Lost(x, p)' <=> Lost(x, p)
  BY DEF Like, Same, SameCall, Lost
<1>5. Same(x) => (Rereads(x)' <=> Rereads(x))
  BY DEF Like, Same, SameCall, Rereads
<1>6. Same(x) => (cookie' = cookie => (Own(x)' <=> Own(x)))
  BY <1>1 DEF Like, Same, SameCall, Unserved, Own
<1> QED BY <1>1, <1>2, <1>3, <1>4, <1>5, <1>6

\* A slot is taken by a new call.
Taken(s, op, p, q) ==
    /\ ~Busy(s) /\ Busy(s)'
    /\ calls'[s].op = op /\ calls'[s].product = p /\ calls'[s].as = cookie
    /\ calls'[s].qty = q /\ calls'[s].stage = "sent" /\ ~calls'[s].cancelled
    /\ calls'[s].behind = {x \in Slot : Unserved(x) /\ (p = Nobody \/ Touches(calls[x], p))}
    /\ \A x \in Slot \ {s} : Same(x) /\ (Busy(x) => calls'[x].behind = calls[x].behind)

\* A call is dealt with, and nothing waits for it any more.
Dealt(s, st) ==
    /\ Busy(s) /\ Busy(s)'
    /\ SameCall(calls'[s], calls[s]) /\ calls'[s].cancelled = calls[s].cancelled
    /\ calls'[s].stage = st /\ calls'[s].behind = {}
    /\ \A x \in Slot \ {s} : Same(x) /\ (Busy(x) => calls'[x].behind = calls[x].behind \ {s})

\* A call is forgotten, or followed by one that reads.
Over(s) ==
    /\ Busy(s)' => calls'[s].op \in Reads /\ ~calls'[s].cancelled /\ calls'[s].behind = {}
    /\ \A x \in Slot \ {s} : Same(x) /\ (Busy(x) => calls'[x].behind = calls[x].behind)

LEMMA Alike ==
    ASSUME NEW x, calls'[x] = calls[x]
    PROVE  Same(x)
BY DEF Same, Like, SameCall, Busy

LEMMA SentSlot ==
    ASSUME Typed, NEW op, NEW p, NEW q, Send(op, p, q),
           \/ op \in LineOp /\ p \in Product /\ q \in Nat
           \/ op \in CartOp /\ p = Nobody /\ q = 0
    PROVE  \E s \in Slot : Taken(s, op, p, q)
<1>1. PICK s \in Slot : ~Busy(s) /\ calls' = [calls EXCEPT ![s] = Call(op, p, q)]
  BY DEF Send
<1>2. Call(op, p, q) \in CallType
  BY NewCall
<1>3. /\ Call(op, p, q).op = op /\ Call(op, p, q).product = p
      /\ Call(op, p, q).as = cookie /\ Call(op, p, q).qty = q
      /\ Call(op, p, q).stage = "sent" /\ ~Call(op, p, q).cancelled
      /\ Call(op, p, q).behind
           = {x \in Slot : Unserved(x) /\ (p = Nobody \/ Touches(calls[x], p))}
  BY DEF Call
<1> PICK c : c = Call(op, p, q)
  OBVIOUS
<1>4. calls'[s] = c /\ \A x \in Slot \ {s} : calls'[x] = calls[x]
  BY <1>1 DEF Typed, CallsTyped
<1>5. Busy(s)'
  BY <1>2, <1>4, CallFacts DEF Busy
<1>6. \A x \in Slot \ {s} : Same(x) /\ (Busy(x) => calls'[x].behind = calls[x].behind)
  BY <1>4, Alike
<1> QED BY <1>1, <1>3, <1>4, <1>5, <1>6 DEF Taken

LEMMA PassedSlot ==
    ASSUME Typed, NEW s \in Slot, Busy(s), NEW st \in {"done", "failed"},
           NEW seen \in [Owner -> Lines], calls' = Served(s, st, seen)
    PROVE  Dealt(s, st)
<1>1. \A x \in Slot : Busy(x) => calls[x] \in CallType /\ calls[x].behind \in SUBSET Slot
  BY BusyCall, CallFacts
<1>2. calls' = [x \in Slot |->
                  IF x = s THEN [calls[s] EXCEPT !.stage = st, !.seen = seen, !.behind = {}]
                  ELSE IF Busy(x) THEN [calls[x] EXCEPT !.behind = calls[x].behind \ {s}]
                  ELSE Idle]
  BY <1>1 DEF Served, CallType
<1>3. /\ SameCall(calls'[s], calls[s]) /\ calls'[s].cancelled = calls[s].cancelled
      /\ calls'[s].stage = st /\ calls'[s].behind = {} /\ Busy(s)'
  <2> PICK c : c = calls[s]
    OBVIOUS
  <2> PICK b : b = {}
    OBVIOUS
  <2>1. c \in CallType /\ b \in SUBSET Slot /\ st \in Stage
    BY <1>1 DEF Stage
  <2> PICK d : d = [c EXCEPT !.stage = st, !.seen = seen, !.behind = b]
    OBVIOUS
  <2>2. calls'[s] = d
    BY <1>2
  <2>3. /\ d \in CallType /\ SameCall(d, c) /\ d.stage = st /\ d.behind = b
        /\ d.cancelled = c.cancelled
    BY <2>1 DEF CallType, SameCall, Stage
  <2> QED BY <2>2, <2>3, CallFacts DEF Busy
<1>4. ASSUME NEW x \in Slot \ {s}, Busy(x)
      PROVE  Same(x) /\ calls'[x].behind = calls[x].behind \ {s}
  <2> PICK c : c = calls[x]
    OBVIOUS
  <2> PICK b : b = c.behind \ {s}
    OBVIOUS
  <2>1. c \in CallType /\ b \in SUBSET Slot /\ st \in Stage
    BY <1>1, <1>4 DEF Stage
  <2> PICK d : d = [c EXCEPT !.behind = b]
    OBVIOUS
  <2>2. calls'[x] = d
    BY <1>2, <1>4
  <2>3. /\ d \in CallType /\ SameCall(d, c) /\ d.stage = c.stage /\ d.behind = b
        /\ d.cancelled = c.cancelled
    BY <2>1, Freed
  <2>4. Busy(x)'
    BY <2>2, <2>3, CallFacts DEF Busy
  <2> QED BY <1>4, <2>2, <2>3, <2>4 DEF Same, Like
<1>5. ASSUME NEW x \in Slot \ {s}, ~Busy(x)
      PROVE  Same(x)
  BY <1>2, <1>5 DEF Same, Like, Busy
<1> QED BY <1>3, <1>4, <1>5 DEF Dealt

LEMMA AnsweredSlot ==
    ASSUME Typed, NEW s \in Slot
    PROVE  /\ Forget(s) => Over(s) /\ ~Busy(s)'
           /\ \A op \in Reads : Follow(s, op) => Over(s) /\ Rereads(s)'
<1>1. ASSUME NEW c, calls' = [calls EXCEPT ![s] = c]
      PROVE  /\ calls'[s] = c
             /\ \A x \in Slot \ {s} : Same(x) /\ (Busy(x) => calls'[x].behind = calls[x].behind)
  <2>1. calls'[s] = c /\ \A x \in Slot \ {s} : calls'[x] = calls[x]
    BY <1>1 DEF Typed, CallsTyped
  <2> QED BY <2>1, Alike
<1>2. ASSUME Forget(s) PROVE Over(s) /\ ~Busy(s)'
  BY <1>1, <1>2 DEF Forget, Over, Busy
<1>3. ASSUME NEW op \in Reads, Follow(s, op) PROVE Over(s) /\ Rereads(s)'
  <2>1. Call(op, Nobody, 0) \in CallType /\ Call(op, Nobody, 0).op = op
        /\ ~Call(op, Nobody, 0).cancelled
    BY NewCall DEF CartOp, Call
  <2> PICK c : c = Call(op, Nobody, 0)
    OBVIOUS
  <2> PICK b : b = {}
    OBVIOUS
  <2>2. calls' = [calls EXCEPT ![s] = [c EXCEPT !.behind = b]]
    BY <1>3 DEF Follow
  <2> PICK d : d = [c EXCEPT !.behind = b]
    OBVIOUS
  <2>3. b \in SUBSET Slot /\ c \in CallType
    BY <2>1
  <2>4. d \in CallType /\ d.op = c.op /\ d.behind = b /\ d.cancelled = c.cancelled
    BY <2>3 DEF CallType
  <2>5. calls'[s] = d
    BY <1>1, <2>2
  <2>6. Busy(s)'
    BY <2>4, <2>5, CallFacts DEF Busy
  <2> QED BY <1>1, <2>1, <2>2, <2>4, <2>5, <2>6 DEF Over, Rereads
<1> QED BY <1>2, <1>3

\* The calls stay in order when one is sent, is dealt with or is over.
LEMMA TakenInOrder ==
    ASSUME Ordered, NEW s \in Slot, NEW op, NEW p, NEW q, Taken(s, op, p, q),
           op = "update" => q > 0
    PROVE  Ordered'
<1>1. \A x \in Slot \ {s} : /\ Unserved(x)' <=> Unserved(x)
                            /\ \A r : Setting(x, r)' <=> Setting(x, r)
                            /\ Like(x) /\ (Busy(x) => calls'[x].behind = calls[x].behind)
  BY LikeFacts DEF Taken, Same
<1>2. ~Unserved(s)
  BY DEF Taken, Unserved
<1>3. ASSUME NEW x \in Slot PROVE Waits(x)'
  <2>1. CASE x = s
    <3>1. calls'[s].behind \subseteq {y \in Slot : Unserved(y)} /\ calls'[s].op = op /\ calls'[s].qty = q
      BY DEF Taken
    <3>2. calls'[s].behind \subseteq {y \in Slot : Unserved(y)'} \ {s}
      BY <1>1, <1>2, <3>1
    <3> QED BY <2>1, <3>1, <3>2 DEF Waits
  <2>2. CASE x # s
    <3> SUFFICES ASSUME Busy(x) PROVE Waits(x)'
      BY <1>1, <2>2 DEF Waits, Like
    <3>1. /\ calls[x].behind \subseteq {y \in Slot : Unserved(y)} \ {x}
          /\ calls[x].op = "update" => calls[x].qty > 0
      BY DEF Ordered, Waits
    <3>2. /\ calls'[x].behind = calls[x].behind /\ calls'[x].op = calls[x].op
          /\ calls'[x].qty = calls[x].qty
      BY <1>1, <2>2 DEF Like, SameCall
    <3>3. calls'[x].behind \subseteq {y \in Slot : Unserved(y)'} \ {x}
      BY <1>1, <1>2, <3>1, <3>2
    <3> QED BY <3>1, <3>2, <3>3 DEF Waits
  <2> QED BY <2>1, <2>2
<1>4. ASSUME NEW y \in Slot \ {s}, NEW r \in Product, Setting(s, r)', Setting(y, r)'
      PROVE  y \in calls'[s].behind
  <2>1. Unserved(y) /\ calls[y].product = r
    BY <1>1, <1>4 DEF Setting
  <2>2. p = r
    BY <1>4 DEF Taken, Setting
  <2> QED BY <2>1, <2>2 DEF Taken, Touches
<1>5. ASSUME NEW x \in Slot, NEW y \in Slot, x # y PROVE Apart(x, y)'
  <2>1. CASE x = s
    BY <1>4, <1>5, <2>1 DEF Apart
  <2>2. CASE y = s
    BY <1>4, <1>5, <2>2 DEF Apart
  <2>3. CASE x # s /\ y # s
    <3>1. Apart(x, y)
      BY <1>5 DEF Ordered
    <3>2. \A r : (Setting(x, r) => Busy(x)) /\ (Setting(y, r) => Busy(y))
      BY DEF Setting, Unserved
    <3> QED BY <1>1, <2>3, <3>1, <3>2 DEF Apart
  <2> QED BY <2>1, <2>2, <2>3
<1> QED BY <1>3, <1>5 DEF Ordered

\* The slot where a call is dealt with or over waits for nothing and sets no
\* quantity, and nothing waits for it.
LEMMA LeftInOrder ==
    ASSUME Ordered, NEW s \in Slot,
           ~Unserved(s)', Busy(s)' => calls'[s].behind = {},
           Busy(s)' /\ calls'[s].op = "update" => calls'[s].qty > 0,
           \A x \in Slot \ {s} :
              Like(x) /\ (Busy(x) => calls'[x].behind = calls[x].behind \ {s})
    PROVE  Ordered'
<1>1. \A x \in Slot \ {s} : /\ Unserved(x)' <=> Unserved(x)
                            /\ \A r : Setting(x, r)' <=> Setting(x, r)
  BY LikeFacts
<1>2. ASSUME NEW x \in Slot PROVE Waits(x)'
  <2>1. CASE x = s
    <3> SUFFICES ASSUME Busy(s)' PROVE Waits(x)'
      BY <2>1 DEF Waits
    <3>1. calls'[s].behind \subseteq {y \in Slot : Unserved(y)'} \ {s}
      OBVIOUS
    <3> QED BY <2>1, <3>1 DEF Waits
  <2>2. CASE x # s
    <3> SUFFICES ASSUME Busy(x) PROVE Waits(x)'
      BY <2>2 DEF Waits, Like
    <3>1. /\ calls[x].behind \subseteq {y \in Slot : Unserved(y)} \ {x}
          /\ calls[x].op = "update" => calls[x].qty > 0
      BY DEF Ordered, Waits
    <3>2. /\ calls'[x].behind = calls[x].behind \ {s} /\ calls'[x].op = calls[x].op
          /\ calls'[x].qty = calls[x].qty
      BY <2>2 DEF Like, SameCall
    <3>3. calls'[x].behind \subseteq {y \in Slot : Unserved(y)'} \ {x}
      BY <1>1, <3>1, <3>2
    <3> QED BY <3>1, <3>2, <3>3 DEF Waits
  <2> QED BY <2>1, <2>2
<1>3. \A r : ~Setting(s, r)'
  BY DEF Setting
<1>4. ASSUME NEW x \in Slot, NEW y \in Slot, x # y PROVE Apart(x, y)'
  <2>1. CASE x = s \/ y = s
    BY <1>3, <2>1 DEF Apart
  <2>2. CASE x # s /\ y # s
    <3>1. Apart(x, y)
      BY <1>4 DEF Ordered
    <3>2. \A r : (Setting(x, r) => Busy(x)) /\ (Setting(y, r) => Busy(y))
      BY DEF Setting, Unserved
    <3>3. /\ Busy(x) => calls'[x].behind = calls[x].behind \ {s}
          /\ Busy(y) => calls'[y].behind = calls[y].behind \ {s}
      BY <2>2
    <3> QED BY <1>1, <2>2, <3>1, <3>2, <3>3 DEF Apart
  <2> QED BY <2>1, <2>2
<1> QED BY <1>2, <1>4 DEF Ordered

LEMMA DealtInOrder ==
    ASSUME Ordered, NEW s \in Slot, NEW st \in {"done", "failed"}, Dealt(s, st)
    PROVE  Ordered'
<1>1. Waits(s)
  BY DEF Ordered
<1>2. ~Unserved(s)'
  BY DEF Dealt, Unserved
<1>3. calls'[s].behind = {} /\ (calls'[s].op = "update" => calls'[s].qty > 0)
  BY <1>1 DEF Dealt, Waits, SameCall
<1>4. \A x \in Slot \ {s} : Like(x) /\ (Busy(x) => calls'[x].behind = calls[x].behind \ {s})
  BY DEF Dealt, Same
<1> QED BY <1>2, <1>3, <1>4, LeftInOrder

LEMMA OverInOrder ==
    ASSUME Ordered, NEW s \in Slot, ~Unserved(s), Over(s)
    PROVE  Ordered'
<1>1. ~Unserved(s)' /\ (Busy(s)' => calls'[s].behind = {} /\ calls'[s].op # "update")
  BY DEF Over, Unserved, Reads, Writes
<1>2. ASSUME NEW x \in Slot \ {s}, Busy(x) PROVE calls'[x].behind = calls[x].behind \ {s}
  <2>1. s \notin calls[x].behind
    BY <1>2 DEF Ordered, Waits
  <2>2. calls'[x].behind = calls[x].behind
    BY <1>2 DEF Over
  <2> QED BY <2>1, <2>2
<1>3. \A x \in Slot \ {s} : Like(x)
  BY DEF Over, Same
<1> QED BY <1>1, <1>2, <1>3, LeftInOrder

\* The list is still to be made anew, unless this slot was to do so.
LEMMA StillReloading ==
    ASSUME NEW s \in Slot, UNCHANGED <<cookie, known>>, \A x \in Slot \ {s} : Same(x),
           Rereads(s) => Rereads(s)', ~Reloading'
    PROVE  ~Reloading
<1>1. \A x \in Slot \ {s} : Rereads(x)' <=> Rereads(x)
  BY LikeFacts DEF Same
<1> QED BY <1>1 DEF Reloading

\* The last quantity on its way stays it when another one is settled.
LEMMA LastKept ==
    ASSUME NEW s \in Slot, NEW p, NEW w \in Slot, Last(w, p), calls[w].qty = shown[p], w # s,
           ~Setting(s, p)', shown'[p] = shown[p],
           \A x \in Slot \ {s} : Same(x) /\ (Busy(x) => calls'[x].behind \subseteq calls[x].behind)
    PROVE  Saving(p)'
<1>1. \A x \in Slot \ {s} : Setting(x, p)' <=> Setting(x, p)
  BY LikeFacts DEF Same
<1>2. Setting(w, p) /\ Busy(w) /\ ~calls[w].cancelled
  BY DEF Last, Setting, Unserved
<1>3. calls'[w].qty = shown'[p] /\ Setting(w, p)' /\ ~calls'[w].cancelled
  BY <1>1, <1>2 DEF Same, Like, SameCall
<1>4. ASSUME NEW x \in Slot, Setting(x, p)' PROVE w \notin calls'[x].behind
  <2>1. x # s
    BY <1>4
  <2>2. Setting(x, p) /\ Busy(x)
    BY <1>1, <1>4, <2>1 DEF Setting, Unserved
  <2>3. w \notin calls[x].behind
    BY <2>2 DEF Last
  <2> QED BY <2>1, <2>2, <2>3
<1> QED BY <1>3, <1>4 DEF Saving, Last

\* A line that a slot does not set is saved as before.
LEMMA LineKept ==
    ASSUME NEW s \in Slot, NEW p, Saving(p),
           ~Setting(s, p), ~Setting(s, p)', Lost(s, p) => Lost(s, p)',
           shown'[p] = shown[p], carts'[cookie'][p] = carts[cookie][p],
           \A x \in Slot \ {s} : Same(x) /\ (Busy(x) => calls'[x].behind \subseteq calls[x].behind)
    PROVE  Saving(p)'
<1>1. \A x \in Slot \ {s} : (Setting(x, p)' <=> Setting(x, p)) /\ (Lost(x, p)' <=> Lost(x, p))
  BY LikeFacts DEF Same
<1>2. CASE shown[p] = carts[cookie][p] /\ \A x \in Slot : ~Setting(x, p)
  BY <1>1, <1>2 DEF Saving
<1>3. ASSUME NEW w \in Slot, Last(w, p), calls[w].qty = shown[p] PROVE Saving(p)'
  <2>1. w # s
    BY <1>3 DEF Last
  <2> QED BY <1>3, <2>1, LastKept
<1>4. CASE \E x \in Slot : Lost(x, p)
  BY <1>1, <1>4 DEF Saving
<1> QED BY <1>2, <1>3, <1>4 DEF Saving

\* Nothing changes when a call is settled that no line depends on.
LEMMA Quiet ==
    ASSUME Following, NEW s \in Slot, ~Unserved(s), ~Unserved(s)', timer \in Lines,
           UNCHANGED <<cookie, carts, shown, timer>>,
           \A x \in Slot \ {s} : Same(x) /\ (Busy(x) => calls'[x].behind \subseteq calls[x].behind),
           \A p : Lost(s, p) => Lost(s, p)' \/ timer[p] > 0
    PROVE  Following'
<1>1. \A x \in Slot \ {s} : /\ Unserved(x)' <=> Unserved(x)
                            /\ \A p : Setting(x, p)' <=> Setting(x, p)
                            /\ \A p : Deletes(x, p)' <=> Deletes(x, p)
                            /\ \A p : Lost(x, p)' <=> Lost(x, p)
                            /\ Own(x)' <=> Own(x)
  BY LikeFacts DEF Same
<1>2. \A p : ~Setting(s, p) /\ ~Setting(s, p)' /\ ~Deletes(s, p) /\ ~Deletes(s, p)'
  BY DEF Setting, Deletes
<1>3. ASSUME NEW x \in Slot PROVE Own(x)'
  <2>1. CASE x = s
    BY <2>1 DEF Own
  <2>2. CASE x # s
    BY <1>1, <2>2 DEF Following
  <2> QED BY <2>1, <2>2
<1>4. ASSUME NEW p \in Product PROVE Matches(p)'
  <2>1. Matches(p)
    BY DEF Following
  <2>2. Deleting(p)' <=> Deleting(p)
    BY <1>1, <1>2 DEF Deleting
  <2>3. ASSUME timer[p] = 0, Saving(p) PROVE Saving(p)'
    BY <1>2, <2>3, LineKept
  <2> QED BY <2>1, <2>2, <2>3 DEF Matches
<1> QED BY <1>3, <1>4 DEF Following

-----------------------------------------------------------------------------
(* Every step keeps it.                                                    *)

\* The list of a page that is opened is loaded.
LEMMA FollowBase == Init => FInv
<1> SUFFICES ASSUME Init PROVE FInv
  OBVIOUS
<1> PICK s \in Slot : calls = [x \in Slot |->
          IF x # s THEN Idle
          ELSE [op |-> "load", as |-> cookie, product |-> Nobody, qty |-> 0,
                stage |-> "sent", behind |-> {}, seen |-> Unread,
                cancelled |-> FALSE]]
  BY DEF Init
<1> PICK c : c = [op |-> "load", as |-> cookie, product |-> Nobody, qty |-> 0,
                  stage |-> "sent", behind |-> {}, seen |-> Unread, cancelled |-> FALSE]
  OBVIOUS
<1>1. c \in CallType
  <2>1. cookie \in Owner
    BY DEF Init
  <2> QED BY <2>1, UnreadTyped DEF CallType, Reads
<1>2. calls[s] = c /\ Busy(s) /\ \A x \in Slot \ {s} : ~Busy(x)
  BY <1>1, CallFacts DEF Busy
<1>3. Rereads(s) /\ ~Unserved(s) /\ c.behind = {} /\ c.op # "update"
  BY <1>2 DEF Rereads, Unserved, Reads, Writes
<1>4. \A x \in Slot : Waits(x) /\ ~Unserved(x)
  BY <1>2, <1>3 DEF Waits, Unserved
<1>5. Ordered
  BY <1>4 DEF Ordered, Apart, Setting
<1>7. Reloading
  BY <1>3 DEF Reloading
<1> QED BY <1>5, <1>7 DEF FInv

\* An addition makes the list be read again.
LEMMA AddFollows ==
    ASSUME Typed, FInv, NEW p \in Product, Add(p)
    PROVE  FInv'
<1>1. PICK s \in Slot : Taken(s, "add", p, 1)
  BY SentSlot DEF Add, LineOp
<1>2. Ordered'
  BY <1>1, TakenInOrder DEF FInv
<1>4. Reloading'
  BY <1>1 DEF Reloading, Rereads, Taken
<1> QED BY <1>2, <1>4 DEF FInv

\* A click changes a line that is there, and its timer with it.
LEMMA UpdateQuantityFollows ==
    ASSUME Typed, FInv, NEW p \in Product, NEW q \in Offered(p), UpdateQuantity(p, q)
    PROVE  FInv'
<1>0. /\ UNCHANGED <<cookie, known, calls, carts, stale, gone>>
      /\ shown[p] > 0 /\ shown' = [shown EXCEPT ![p] = q] /\ timer' = [timer EXCEPT ![p] = q]
      /\ shown \in [Product -> Nat] /\ timer \in [Product -> Nat] /\ q \in Nat /\ q > 0
  BY OfferedMore DEF UpdateQuantity, history, Typed, PageTyped, Lines
<1>1. \A x : Same(x)
  BY <1>0, Alike
<1>2. \A x : /\ Unserved(x)' <=> Unserved(x)
             /\ \A r : Setting(x, r)' <=> Setting(x, r)
             /\ \A r : Deletes(x, r)' <=> Deletes(x, r)
             /\ \A r : Lost(x, r)' <=> Lost(x, r)
             /\ Rereads(x)' <=> Rereads(x)
             /\ Own(x)' <=> Own(x)
  BY <1>0, <1>1, LikeFacts DEF Same
<1>3. Ordered'
  BY <1>0 DEF FInv, Ordered, Waits, Apart, Setting, Unserved, Busy
<1>5. Reloading' <=> Reloading
  BY <1>0, <1>2 DEF Reloading
<1>6. ASSUME Following PROVE Following'
  <2>1. ASSUME NEW r \in Product PROVE Matches(r)'
    <3>1. Matches(r) /\ (Deleting(r)' <=> Deleting(r))
      BY <1>2, <1>6 DEF Following, Deleting
    <3>2. CASE r = p
      BY <1>0, <3>1, <3>2 DEF Matches
    <3>3. CASE r # p
      <4>1. shown'[r] = shown[r] /\ timer'[r] = timer[r]
        BY <1>0, <3>3
      <4>2. Saving(r)' <=> Saving(r)
        BY <1>0, <1>2, <4>1 DEF Saving, Last
      <4> QED BY <1>0, <3>1, <4>1, <4>2 DEF Matches
    <3> QED BY <3>2, <3>3
  <2> QED BY <1>2, <1>6, <2>1 DEF Following
<1> QED BY <1>0, <1>3, <1>5, <1>6 DEF FInv

\* Lines that are taken off have a removal on its way; the others stay.
LEMMA TakeOffFollows ==
    ASSUME Typed, FInv, NEW s \in Slot, NEW op \in {"remove", "clear"}, NEW n,
           Taken(s, op, n, 0), UNCHANGED <<cookie, known, carts, stale>>,
           NEW P, P = {r \in Product : n = r \/ op = "clear"}, TakeOff(P)
    PROVE  FInv'
<1>0. /\ shown \in [Product -> Nat] /\ timer \in [Product -> Nat]
      /\ shown' = [r \in Product |-> IF r \in P THEN 0 ELSE shown[r]]
      /\ timer' = [r \in Product |-> IF r \in P THEN 0 ELSE timer[r]]
  BY DEF TakeOff, Typed, PageTyped, Lines
<1>1. Ordered'
  BY TakenInOrder DEF FInv
<1>3. \A x \in Slot \ {s} : Same(x) /\ (Busy(x) => calls'[x].behind = calls[x].behind)
  BY DEF Taken
<1>4. \A x \in Slot \ {s} : /\ \A r : Setting(x, r)' <=> Setting(x, r)
                            /\ \A r : Deletes(x, r)' <=> Deletes(x, r)
                            /\ \A r : Lost(x, r)' <=> Lost(x, r)
                            /\ Own(x)' <=> Own(x)
  BY <1>3, LikeFacts DEF Same
<1>5. /\ Busy(s)' /\ ~Busy(s) /\ calls'[s].op = op /\ calls'[s].stage = "sent"
      /\ calls'[s].as = cookie /\ calls'[s].product = n /\ ~calls'[s].cancelled
  BY DEF Taken
<1>6. /\ \A r \in Product : Deletes(s, r)' <=> r \in P
      /\ \A r : ~Setting(s, r)' /\ ~Lost(s, r)'
      /\ Own(s)'
      /\ \A r : ~Setting(s, r) /\ ~Lost(s, r) /\ ~Deletes(s, r)
  BY <1>5 DEF Deletes, Setting, Lost, Own, Unserved, Touches, Writes
<1>7. ASSUME ~stale', ~Reloading' PROVE Following'
  <2>1. Following
    <3>1. ~Rereads(s)
      BY <1>5 DEF Rereads
    <3>2. ~Reloading
      BY <1>3, <1>7, <3>1, StillReloading
    <3> QED BY <1>7, <3>2 DEF FInv
  <2>2. ASSUME NEW x \in Slot PROVE Own(x)'
    BY <1>4, <1>6, <2>1 DEF Following
  <2>3. ASSUME NEW r \in Product PROVE Matches(r)'
    <3>1. CASE r \in P
      <4>1. Deleting(r)' /\ shown'[r] = 0 /\ timer'[r] = 0
        BY <1>0, <1>6, <3>1 DEF Deleting
      <4> QED BY <4>1 DEF Matches
    <3>2. CASE r \notin P
      <4>1. shown'[r] = shown[r] /\ timer'[r] = timer[r] /\ carts'[cookie'][r] = carts[cookie][r]
        BY <1>0, <3>2
      <4>2. Deleting(r)' <=> Deleting(r)
        BY <1>4, <1>6, <3>2 DEF Deleting
      <4>3. ASSUME Saving(r) PROVE Saving(r)'
        BY <1>3, <1>6, <4>1, <4>3, LineKept
      <4>4. Matches(r)
        BY <2>1 DEF Following
      <4> QED BY <4>1, <4>2, <4>3, <4>4 DEF Matches
    <3> QED BY <3>1, <3>2
  <2> QED BY <2>2, <2>3 DEF Following
<1> QED BY <1>1, <1>7 DEF FInv

LEMMA RemovalFollows ==
    ASSUME Typed, FInv, (\E p \in Product : RemoveItem(p)) \/ ClearCart
    PROVE  FInv'
<1>1. ASSUME NEW p \in Product, RemoveItem(p) PROVE FInv'
  <2>1. PICK s \in Slot : Taken(s, "remove", p, 0)
    BY <1>1, SentSlot DEF RemoveItem, LineOp
  <2>2. TakeOff({p}) /\ UNCHANGED <<cookie, known, carts, stale>>
    BY <1>1 DEF RemoveItem
  <2>3. {p} = {r \in Product : p = r \/ "remove" = "clear"}
    OBVIOUS
  <2> QED BY <2>1, <2>2, <2>3, TakeOffFollows
<1>2. CASE ClearCart
  <2>1. PICK s \in Slot : Taken(s, "clear", Nobody, 0)
    BY <1>2, SentSlot DEF ClearCart, CartOp
  <2>2. TakeOff(Product) /\ UNCHANGED <<cookie, known, carts, stale>>
    BY <1>2 DEF ClearCart
  <2>3. Product = {r \in Product : Nobody = r \/ "clear" = "clear"}
    OBVIOUS
  <2> QED BY <2>1, <2>2, <2>3, TakeOffFollows
<1> QED BY <1>1, <1>2

\* The quantity that is sent is the last one.
LEMMA FireFollows ==
    ASSUME Typed, FInv, NEW p \in Product, Fire(p)
    PROVE  FInv'
<1>0. /\ shown \in [Product -> Nat] /\ timer \in [Product -> Nat] /\ timer[p] > 0
      /\ timer' = [timer EXCEPT ![p] = 0] /\ UNCHANGED <<cookie, known, shown, carts, stale>>
  BY DEF Fire, history, Typed, PageTyped, Lines
<1>1. PICK s \in Slot : Taken(s, "update", p, timer[p])
  BY <1>0, SentSlot DEF Fire, LineOp
<1>2. Ordered'
  BY <1>0, <1>1, TakenInOrder DEF FInv
<1>4. \A x \in Slot \ {s} : Same(x) /\ (Busy(x) => calls'[x].behind = calls[x].behind)
  BY <1>1 DEF Taken
<1>5. \A x \in Slot \ {s} : /\ \A r : Setting(x, r)' <=> Setting(x, r)
                            /\ \A r : Deletes(x, r)' <=> Deletes(x, r)
                            /\ \A r : Lost(x, r)' <=> Lost(x, r)
                            /\ Own(x)' <=> Own(x)
  BY <1>0, <1>4, LikeFacts DEF Same
<1>6. /\ Busy(s)' /\ ~Busy(s) /\ calls'[s].op = "update" /\ calls'[s].stage = "sent"
      /\ calls'[s].as = cookie /\ calls'[s].product = p /\ calls'[s].qty = timer[p]
      /\ ~calls'[s].cancelled
      /\ calls'[s].behind \subseteq {x \in Slot : Unserved(x)}
  BY <1>1 DEF Taken
<1>7. /\ \A r : ~Deletes(s, r)' /\ ~Lost(s, r)' /\ (Setting(s, r)' <=> r = p)
      /\ Own(s)'
      /\ \A r : ~Setting(s, r) /\ ~Lost(s, r) /\ ~Deletes(s, r)
  BY <1>0, <1>6 DEF Deletes, Setting, Lost, Own, Unserved, Touches, Writes
<1>8. ASSUME ~stale', ~Reloading' PROVE Following'
  <2>1. Following
    <3>1. ~Rereads(s)
      BY <1>6 DEF Rereads
    <3>2. ~Reloading
      BY <1>0, <1>4, <1>8, <3>1, StillReloading
    <3> QED BY <1>0, <1>8, <3>2 DEF FInv
  <2>2. ASSUME NEW x \in Slot PROVE Own(x)'
    BY <1>5, <1>7, <2>1 DEF Following
  <2>3. \A r : Deleting(r)' <=> Deleting(r)
    BY <1>5, <1>7 DEF Deleting
  <2>4. Matches(p)'
    <3>1. Matches(p) /\ timer'[p] = 0 /\ shown'[p] = timer[p]
      BY <1>0, <2>1 DEF Following, Matches
    <3>2. \A x \in Slot : Busy(x)' => s \notin calls'[x].behind
      <4>1. ~Unserved(s)
        BY <1>6 DEF Unserved
      <4>2. ASSUME NEW x \in Slot \ {s}, Busy(x)' PROVE s \notin calls'[x].behind
        BY <1>4, <4>1, <4>2 DEF FInv, Ordered, Waits, Same, Like
      <4> QED BY <1>6, <4>1, <4>2
    <3>3. \A x \in Slot : Setting(x, p)' => s \notin calls'[x].behind
      BY <3>2 DEF Setting, Unserved
    <3>4. Last(s, p)' /\ calls'[s].qty = shown'[p]
      BY <1>6, <1>7, <3>1, <3>3 DEF Last
    <3>5. Saving(p)'
      BY <3>4 DEF Saving
    <3> QED BY <1>0, <2>3, <3>1, <3>5 DEF Matches
  <2>5. ASSUME NEW r \in Product, r # p PROVE Matches(r)'
    <3>1. shown'[r] = shown[r] /\ timer'[r] = timer[r] /\ carts'[cookie'][r] = carts[cookie][r]
      BY <1>0, <2>5
    <3>2. ASSUME Saving(r) PROVE Saving(r)'
      BY <1>4, <1>7, <2>5, <3>1, <3>2, LineKept
    <3>3. Matches(r)
      BY <2>1 DEF Following
    <3> QED BY <2>3, <3>1, <3>2, <3>3 DEF Matches
  <2> QED BY <2>2, <2>4, <2>5 DEF Following
<1> QED BY <1>2, <1>8 DEF FInv

\* The page does not know yet who is signed in.
LEMMA SignFollows ==
    ASSUME Typed, FInv, Sign
    PROVE  FInv'
<1>1. known' # cookie'
  <2>1. \E o \in Owner : o # cookie
    BY DEF Owner
  <2>2. cookie' # cookie
    BY <2>1 DEF Sign
  <2> QED BY <2>2 DEF Sign, page
<1>2. UNCHANGED <<calls, timer>>
  BY DEF Sign, page
<1>3. Ordered'
  BY <1>2 DEF FInv, Ordered, Waits, Apart, Setting, Unserved, Busy
<1> QED BY <1>1, <1>3 DEF FInv, Reloading

\* The page loads the cart of whoever is signed in now.
LEMMA NoticeFollows ==
    ASSUME Typed, FInv, Notice
    PROVE  FInv'
<1>1. PICK f \in Slot, t \in Slot :
          /\ ~Busy(f) /\ ~Busy(t) /\ f # t
          /\ calls' = [x \in Slot |->
                CASE x = f -> Call("load", Nobody, 0)
                  [] x = t /\ cookie = "user" -> Call("merge", Nobody, 0)
                  [] Busy(x) /\ calls[x].op \in {"load", "again", "merge"} ->
                        [calls[x] EXCEPT !.cancelled = TRUE]
                  [] OTHER -> calls[x]]
  BY DEF Notice
<1> PICK a, b : a = Call("load", Nobody, 0) /\ b = Call("merge", Nobody, 0)
  OBVIOUS
<1>2. /\ a \in CallType /\ a.op = "load" /\ ~a.cancelled
      /\ b \in CallType /\ b.op = "merge"
      /\ a.behind \subseteq {x \in Slot : Unserved(x)} /\ b.behind \subseteq {x \in Slot : Unserved(x)}
  BY NewCall DEF CartOp, Reads, Call
<1>3. calls'[f] = a /\ (cookie = "user" => calls'[t] = b) /\ (cookie # "user" => calls'[t] = calls[t])
  BY <1>1
<1>4. ASSUME NEW x \in Slot, x # f, x # t
      PROVE  Like(x) /\ (Busy(x) => calls'[x].behind = calls[x].behind)
  <2>1. CASE Busy(x) /\ calls[x].op \in {"load", "again", "merge"}
    <3>1. calls'[x] = [calls[x] EXCEPT !.cancelled = TRUE] /\ calls[x] \in CallType
      BY <1>1, <1>4, <2>1, BusyCall
    <3> PICK c : c = calls[x]
      OBVIOUS
    <3> PICK d : d = [c EXCEPT !.cancelled = TRUE]
      OBVIOUS
    <3>2. c.op \in CartOp /\ c \in CallType
      BY <2>1, <3>1 DEF CartOp, Reads
    <3>3. d \in CallType /\ SameCall(d, c) /\ d.stage = c.stage /\ d.behind = c.behind
      BY <3>2 DEF CallType, SameCall, CartOp, Reads
    <3>4. Busy(x)'
      BY <3>1, <3>3, CallFacts DEF Busy
    <3> QED BY <2>1, <3>1, <3>3, <3>4 DEF Like
  <2>2. CASE ~(Busy(x) /\ calls[x].op \in {"load", "again", "merge"})
    <3>1. calls'[x] = calls[x]
      BY <1>1, <1>4, <2>2
    <3> QED BY <3>1, Alike DEF Same
  <2> QED BY <2>1, <2>2
<1>5. \A x \in Slot : x # f /\ x # t => /\ Unserved(x)' <=> Unserved(x)
                                        /\ \A r : Setting(x, r)' <=> Setting(x, r)
  BY <1>4, LikeFacts
<1>6. ~Unserved(f) /\ ~Unserved(t) /\ \A r : ~Setting(f, r)' /\ ~Setting(t, r)'
  BY <1>1, <1>2, <1>3 DEF Unserved, Setting, Busy
<1>7. ASSUME NEW x \in Slot, Busy(x)'
      PROVE  /\ calls'[x].behind \subseteq {y \in Slot : Unserved(y)} \ {x}
             /\ calls'[x].op = "update" => calls'[x].qty > 0
  <2>1. CASE x = f \/ x = t
    BY <1>1, <1>2, <1>3, <1>6, <1>7, <2>1 DEF Busy
  <2>2. CASE x # f /\ x # t
    <3>1. Busy(x)
      BY <1>4, <1>7, <2>2 DEF Like
    <3>2. Waits(x)
      BY DEF FInv, Ordered
    <3> QED BY <1>4, <2>2, <3>1, <3>2 DEF Waits, Like, SameCall
  <2> QED BY <2>1, <2>2
<1>8. \A x \in Slot : Waits(x)'
  BY <1>5, <1>6, <1>7 DEF Waits
<1>9. ASSUME NEW x \in Slot, NEW y \in Slot, x # y PROVE Apart(x, y)'
  <2>1. CASE x \in {f, t} \/ y \in {f, t}
    BY <1>6, <2>1 DEF Apart
  <2>2. CASE x \notin {f, t} /\ y \notin {f, t}
    <3>1. Apart(x, y)
      BY <1>9 DEF FInv, Ordered
    <3>2. \A r : (Setting(x, r) => Busy(x)) /\ (Setting(y, r) => Busy(y))
      BY DEF Setting, Unserved
    <3> QED BY <1>4, <1>5, <2>2, <3>1, <3>2 DEF Apart
  <2> QED BY <2>1, <2>2
<1>10. Ordered'
  BY <1>8, <1>9 DEF Ordered
<1>12. Reloading'
  <2>1. Busy(f)'
    BY <1>2, <1>3, CallFacts DEF Busy
  <2> QED BY <1>2, <1>3, <2>1 DEF Reloading, Rereads, Reads
<1> QED BY <1>10, <1>12 DEF FInv

\* A write served in its turn makes the row what the page shows, if no later
\* one is on its way.
LEMMA WriteFollows ==
    ASSUME Typed, FInv, NEW s \in Slot, Write(s)
    PROVE  FInv'
<1> PICK c : c = calls[s]
  OBVIOUS
<1>0. /\ Busy(s) /\ c.op \in {"update", "remove", "clear"} /\ c.stage = "sent"
      /\ c \in CallType /\ c.as \in Owner /\ Unserved(s)
      /\ UNCHANGED <<cookie, known, shown, timer>>
      /\ carts' = [carts EXCEPT ![c.as] = Written(c)]
      /\ stale' = (stale \/ c.behind # {} \/ OutOfRange(c))
  BY BusyCall, CallFacts DEF Write, page, Unserved, Writes
<1>1. Dealt(s, "done")
  BY <1>0, UnreadTyped, PassedSlot DEF Write
<1>2. Ordered'
  BY <1>1, DealtInOrder DEF FInv
<1>4. \A x \in Slot \ {s} : Same(x) /\ (Busy(x) => calls'[x].behind = calls[x].behind \ {s})
  BY <1>1 DEF Dealt
<1>5. \A x \in Slot \ {s} : /\ \A r : Setting(x, r)' <=> Setting(x, r)
                            /\ \A r : Deletes(x, r)' <=> Deletes(x, r)
                            /\ \A r : Lost(x, r)' <=> Lost(x, r)
                            /\ Own(x)' <=> Own(x)
  BY <1>0, <1>4, LikeFacts DEF Same
<1>6. Own(s)' /\ \A r : ~Setting(s, r)' /\ ~Deletes(s, r)' /\ ~Lost(s, r)
  BY <1>0, <1>1 DEF Dealt, Own, Setting, Deletes, Unserved, Lost
<1>7. ASSUME ~stale', ~Reloading' PROVE Following'
  <2>1. Following
    <3>1. ~Rereads(s)
      BY <1>0 DEF Rereads, Reads
    <3>2. ~Reloading
      BY <1>0, <1>4, <1>7, <3>1, StillReloading
    <3> QED BY <1>0, <1>7, <3>2 DEF FInv
  <2>2. c.as = cookie /\ c.behind = {} /\ ~OutOfRange(c)
    BY <1>0, <1>7, <2>1 DEF Following, Own
  <2>3. ASSUME NEW x \in Slot PROVE Own(x)'
    BY <1>5, <1>6, <2>1 DEF Following
  <2>4. ASSUME NEW r \in Product
        PROVE  carts'[cookie][r] = IF ~Touches(c, r) THEN carts[cookie][r]
                                   ELSE IF c.op = "update" /\ carts[cookie][r] > 0
                                        THEN c.qty ELSE 0
    <3>1. carts'[cookie] = Written(c)
      BY <1>0, <2>2 DEF Typed, CartsTyped
    <3> QED BY <2>2, <3>1 DEF Written
  <2>5. ASSUME NEW r \in Product, ~Touches(c, r) PROVE Matches(r)'
    <3>1. ~Setting(s, r) /\ ~Deletes(s, r)
      BY <2>5 DEF Setting, Deletes, Touches
    <3>2. Deleting(r)' <=> Deleting(r)
      BY <1>5, <1>6, <3>1 DEF Deleting
    <3>3. carts'[cookie'][r] = carts[cookie][r]
      BY <1>0, <2>4, <2>5
    <3>4. ASSUME Saving(r) PROVE Saving(r)'
      <4>1. \A x \in Slot \ {s} : Busy(x) => calls'[x].behind \subseteq calls[x].behind
        BY <1>4
      <4> QED BY <1>0, <1>4, <1>6, <3>1, <3>3, <3>4, <4>1, LineKept
    <3>5. Matches(r)
      BY <2>1 DEF Following
    <3> QED BY <1>0, <3>2, <3>3, <3>4, <3>5 DEF Matches
  <2>6. ASSUME NEW r \in Product, Touches(c, r), c.op # "update" PROVE Matches(r)'
    <3>1. Deleting(r)
      BY <1>0, <2>6 DEF Deleting, Deletes
    <3>2. shown[r] = 0 /\ timer[r] = 0
      BY <2>1, <3>1 DEF Following, Matches, Typed, PageTyped, Lines
    <3>3. carts'[cookie'][r] = 0
      BY <1>0, <2>4, <2>6
    <3> QED BY <1>0, <3>2, <3>3 DEF Matches
  <2>7. ASSUME NEW r \in Product, Touches(c, r), c.op = "update" PROVE Matches(r)'
    <3>1. Setting(s, r) /\ c.qty \in Nat /\ c.qty > 0
      <4>1. Waits(s)
        BY DEF FInv, Ordered
      <4>2. c.qty \in Nat
        BY <1>0 DEF CallType
      <4> QED BY <1>0, <2>7, <4>1, <4>2 DEF Setting, Touches, Waits
    <3>2. Matches(r) /\ carts[cookie][r] \in Nat /\ shown[r] \in Nat /\ timer[r] \in Nat
          /\ cookie' = cookie /\ shown'[r] = shown[r] /\ timer'[r] = timer[r]
      BY <1>0, <2>1 DEF Following, Typed, PageTyped, CartsTyped, Lines
    <3>3. ~Deletes(s, r)
      BY <2>7 DEF Deletes
    <3>4. Deleting(r)' <=> Deleting(r)
      BY <1>5, <1>6, <3>3 DEF Deleting
    <3>5. carts'[cookie][r] = IF carts[cookie][r] > 0 THEN c.qty ELSE 0
      BY <2>4, <2>7
    <3>6. CASE shown[r] = 0
      BY <3>2, <3>4, <3>5, <3>6 DEF Matches
    <3>7. CASE shown[r] > 0
      <4>1. carts[cookie][r] > 0 /\ ~Deleting(r) /\ carts'[cookie][r] = c.qty /\ c.qty > 0
        BY <3>1, <3>2, <3>5, <3>7 DEF Matches
      <4>2. ASSUME timer[r] = 0 PROVE Saving(r)'
        <5>1. Saving(r)
          BY <3>2, <3>7, <4>2 DEF Matches
        <5>2. CASE \E x \in Slot : Lost(x, r)
          BY <1>5, <1>6, <5>2 DEF Saving
        <5>3. ASSUME NEW w \in Slot \ {s}, Last(w, r), calls[w].qty = shown[r]
              PROVE  Saving(r)'
          <6>1. Setting(w, r) /\ Busy(w)
            BY <5>3 DEF Last, Setting, Unserved
          <6>2. calls'[w].qty = shown'[r] /\ Setting(w, r)' /\ ~calls'[w].cancelled
            BY <1>4, <1>5, <3>2, <5>3, <6>1 DEF Last, Same, Like, SameCall
          <6>3. ASSUME NEW x \in Slot, Setting(x, r)' PROVE w \notin calls'[x].behind
            <7>1. x # s
              BY <1>6, <6>3
            <7>2. Setting(x, r) /\ Busy(x)
              BY <1>5, <6>3, <7>1 DEF Setting, Unserved
            <7> QED BY <1>4, <5>3, <7>1, <7>2 DEF Last
          <6> QED BY <6>2, <6>3 DEF Saving, Last
        <5>4. ASSUME Last(s, r), c.qty = shown[r] PROVE Saving(r)'
          <6>1. ASSUME NEW x \in Slot \ {s}, Setting(x, r) PROVE FALSE
            <7>1. Apart(s, x)
              BY <6>1 DEF FInv, Ordered
            <7>2. s \in calls[x].behind \/ x \in c.behind
              BY <3>1, <6>1, <7>1 DEF Apart
            <7> QED BY <2>2, <5>4, <6>1, <7>2 DEF Last
          <6>2. \A x \in Slot : ~Setting(x, r)'
            BY <1>5, <1>6, <6>1
          <6>3. shown'[r] = carts'[cookie'][r]
            BY <3>2, <4>1, <5>4
          <6> QED BY <6>2, <6>3 DEF Saving
        <5>5. ~(shown[r] = carts[cookie][r] /\ \A x \in Slot : ~Setting(x, r))
          BY <3>1
        <5> QED BY <5>1, <5>2, <5>3, <5>4, <5>5 DEF Saving
      <4> QED BY <3>2, <3>4, <3>7, <4>1, <4>2 DEF Matches
    <3> QED BY <3>2, <3>6, <3>7
  <2> QED BY <2>3, <2>5, <2>6, <2>7 DEF Following
<1> QED BY <1>2, <1>7 DEF FInv

\* A read that is served is still to be shown, or is not wanted.
LEMMA ReadFollows ==
    ASSUME Typed, FInv, NEW s \in Slot, Read(s)
    PROVE  FInv'
<1>0. /\ Busy(s) /\ calls[s].op \in Reads /\ calls[s].as \in Owner /\ calls[s].stage = "sent"
      /\ UNCHANGED <<cookie, known, shown, timer, carts, stale>>
  BY BusyCall, CallFacts DEF Read, page, history
<1>1. Dealt(s, "done")
  <2>1. [Unread EXCEPT ![calls[s].as] = carts[calls[s].as]] \in [Owner -> Lines]
    BY <1>0, UnreadTyped DEF Typed, CartsTyped
  <2> QED BY <1>0, <2>1, PassedSlot DEF Read
<1>2. Ordered'
  BY <1>1, DealtInOrder DEF FInv
<1>4. /\ \A x \in Slot \ {s} : Same(x) /\ (Busy(x) => calls'[x].behind \subseteq calls[x].behind)
      /\ Rereads(s) => Rereads(s)'
  BY <1>0, <1>1 DEF Dealt, SameCall, Rereads
<1>5. ~Unserved(s) /\ ~Unserved(s)' /\ \A p : ~Lost(s, p)
  BY <1>0, <1>1 DEF Dealt, Unserved, Lost, Reads, Writes
<1>6. ASSUME ~stale', ~Reloading' PROVE Following'
  <2>1. Following
    BY <1>0, <1>4, <1>6, StillReloading DEF FInv
  <2> QED BY <1>0, <1>4, <1>5, <2>1, Quiet DEF Typed, PageTyped
<1> QED BY <1>2, <1>6 DEF FInv

\* An addition or a merge that the server works on is still to be followed by
\* a read, unless nobody wants its answer: then the list was not in order
\* before either.
LEMMA SavingFollows ==
    ASSUME FInv, NEW s \in Slot, Unserved(s), calls[s].op \in {"add", "merge"},
           Ordered', UNCHANGED <<cookie, known, timer>>, stale => stale',
           \A x \in Slot \ {s} : Same(x),
           Busy(s)', SameCall(calls'[s], calls[s]), calls'[s].cancelled = calls[s].cancelled
    PROVE  FInv'
<1>2. ASSUME ~stale', ~Reloading' PROVE FALSE
  <2>1. Rereads(s) => Rereads(s)'
    BY DEF Rereads, SameCall
  <2>2. Following
    BY <1>2, <2>1, StillReloading DEF FInv
  <2> QED BY <2>2 DEF Following, Own
<1> QED BY <1>2 DEF FInv

LEMMA BeginFollows ==
    ASSUME Typed, FInv, NEW s \in Slot, Begin(s)
    PROVE  FInv'
<1> PICK c : c = calls[s]
  OBVIOUS
<1> PICK seen : seen = IF c.op = "add" THEN [Unread EXCEPT ![c.as] = carts[c.as]] ELSE carts
  OBVIOUS
<1>1. /\ Busy(s) /\ c \in CallType /\ c.op \in {"add", "merge"} /\ c.stage = "sent"
      /\ c.as \in Owner /\ UNCHANGED <<cookie, known, timer, stale>>
  BY BusyCall, CallFacts DEF Begin, page, history
<1>2. seen \in [Owner -> Lines]
  <2>1. carts \in [Owner -> Lines]
    BY DEF Typed, CartsTyped
  <2>2. [Unread EXCEPT ![c.as] = carts[c.as]] \in [Owner -> Lines]
    BY <1>1, <2>1, UnreadTyped
  <2> QED BY <2>1, <2>2
<1> PICK st : st = "read"
  OBVIOUS
<1> PICK d : d = [c EXCEPT !.stage = st, !.seen = seen]
  OBVIOUS
<1>3. d \in CallType /\ SameCall(d, c) /\ d.stage = st /\ d.behind = c.behind
      /\ d.cancelled = c.cancelled
  <2>1. st \in Stage
    BY DEF Stage
  <2> QED BY <1>1, <1>2, <2>1 DEF CallType, SameCall, Stage
<1>4. calls'[s] = d /\ \A x \in Slot \ {s} : calls'[x] = calls[x]
  <2>1. calls' = [calls EXCEPT ![s].stage = "read", ![s].seen = seen]
    BY DEF Begin
  <2> QED BY <2>1 DEF Typed, CallsTyped
<1>5. \A x \in Slot \ {s} : Same(x)
  BY <1>4, Alike
<1>6. Busy(s)' /\ Unserved(s) /\ Unserved(s)'
  BY <1>1, <1>3, <1>4, CallFacts DEF Busy, Unserved, Writes, SameCall
<1>7. Ordered'
  <2>1. \A x \in Slot : /\ Unserved(x)' <=> Unserved(x)
                        /\ \A r : Setting(x, r)' <=> Setting(x, r)
                        /\ Busy(x)' <=> Busy(x)
                        /\ calls'[x].behind = calls[x].behind
                        /\ calls'[x].op = calls[x].op /\ calls'[x].qty = calls[x].qty
    <3>1. ASSUME NEW x \in Slot \ {s}
          PROVE  /\ Unserved(x)' <=> Unserved(x)
                 /\ \A r : Setting(x, r)' <=> Setting(x, r)
                 /\ Busy(x)' <=> Busy(x)
                 /\ calls'[x].behind = calls[x].behind
                 /\ calls'[x].op = calls[x].op /\ calls'[x].qty = calls[x].qty
      BY <1>4, <1>5, LikeFacts DEF Same, Like
    <3>2. \A r : ~Setting(s, r) /\ ~Setting(s, r)'
      BY <1>1, <1>3, <1>4 DEF Setting, SameCall
    <3>3. /\ calls'[s].behind = calls[s].behind /\ calls'[s].op = calls[s].op
          /\ calls'[s].qty = calls[s].qty /\ Busy(s)
      BY <1>1, <1>3, <1>4 DEF SameCall
    <3>4. (Unserved(s)' <=> Unserved(s)) /\ (Busy(s)' <=> Busy(s))
      BY <1>6, <3>3
    <3> QED BY <3>1, <3>2, <3>3, <3>4
  <2>2. \A x \in Slot : Waits(x)'
    BY <2>1 DEF FInv, Ordered, Waits
  <2>3. \A x, y \in Slot : x # y => Apart(x, y)'
    BY <2>1 DEF FInv, Ordered, Apart
  <2> QED BY <2>2, <2>3 DEF Ordered
<1> QED BY <1>1, <1>3, <1>4, <1>5, <1>6, <1>7, SavingFollows

LEMMA SaveFollows ==
    ASSUME Typed, CartsTyped', FInv, NEW s \in Slot, SaveAdd(s) \/ SaveMerge(s)
    PROVE  FInv'
<1>1. /\ Busy(s) /\ calls[s].op \in {"add", "merge"} /\ Unserved(s)
      /\ UNCHANGED <<cookie, known, timer>> /\ (stale => stale')
  BY DEF SaveAdd, SaveMerge, page, Unserved, Writes
<1>2. Dealt(s, "done")
  BY <1>1, UnreadTyped, PassedSlot DEF SaveAdd, SaveMerge, CartsTyped
<1>3. Ordered'
  BY <1>2, DealtInOrder DEF FInv
<1>4. /\ \A x \in Slot \ {s} : Same(x)
      /\ Busy(s)' /\ SameCall(calls'[s], calls[s]) /\ calls'[s].cancelled = calls[s].cancelled
  BY <1>2 DEF Dealt
<1> QED BY <1>1, <1>3, <1>4, SavingFollows

\* A quantity that is lost makes the line be looked up, if the page waits for it;
\* a removal that fails makes the list be read again.
LEMMA LostFollows ==
    ASSUME Typed, FInv, NEW s \in Slot, Busy(s), calls[s].stage # "failed",
           calls' = Served(s, "failed", Unread),
           UNCHANGED <<cookie, known, shown, timer, carts, stale>>
    PROVE  FInv'
<1> PICK c : c = calls[s]
  OBVIOUS
<1>0. Busy(s) /\ c.stage # "failed" /\ c.op \in Reads \union Writes
  BY BusyCall, CallFacts
<1>1. Dealt(s, "failed")
  BY UnreadTyped, PassedSlot
<1>2. Ordered'
  BY <1>1, DealtInOrder DEF FInv
<1>3. \A x \in Slot \ {s} : Same(x) /\ (Busy(x) => calls'[x].behind \subseteq calls[x].behind)
  BY <1>1 DEF Dealt
<1>4. Rereads(s) => Rereads(s)'
  BY <1>0, <1>1 DEF Dealt, SameCall, Rereads
<1>5. ~Unserved(s)' /\ \A p : ~Lost(s, p)
  BY <1>0, <1>1 DEF Dealt, Unserved, Lost
<1>6. ASSUME ~stale', ~Reloading' PROVE Following'
  <2>1. Following
    BY <1>3, <1>4, <1>6, StillReloading DEF FInv
  <2>2. CASE ~Unserved(s)
    BY <1>3, <1>5, <2>1, <2>2, Quiet DEF Typed, PageTyped
  <2>3. CASE Unserved(s)
    <3>1. c.op \in {"update", "remove", "clear"} /\ (c.op # "update" => ~c.cancelled)
      BY <2>1, <2>3 DEF Following, Own
    <3>2. ~Rereads(s)' /\ Busy(s)'
      BY <1>1, <1>6 DEF Reloading, Dealt
    <3>3. c.op = "update"
      BY <1>1, <3>1, <3>2 DEF Rereads, Dealt, SameCall
    <3>4. \A x \in Slot \ {s} : /\ \A r : Setting(x, r)' <=> Setting(x, r)
                                /\ \A r : Deletes(x, r)' <=> Deletes(x, r)
                                /\ \A r : Lost(x, r)' <=> Lost(x, r)
                                /\ Own(x)' <=> Own(x)
      BY <1>3, LikeFacts DEF Same
    <3>5. \A r : ~Deletes(s, r) /\ ~Deletes(s, r)' /\ ~Setting(s, r)'
      BY <1>5, <3>3 DEF Deletes, Setting
    <3>6. ASSUME NEW x \in Slot PROVE Own(x)'
      BY <1>5, <2>1, <3>4 DEF Following, Own
    <3>7. ASSUME NEW r \in Product, Saving(r) PROVE Saving(r)'
      <4>1. CASE c.product = r /\ ~c.cancelled
        <5>1. Lost(s, r)'
          BY <1>1, <3>2, <3>3, <4>1 DEF Lost, Dealt, SameCall
        <5> QED BY <5>1 DEF Saving
      <4>2. CASE c.product # r
        <5>1. ~Setting(s, r)
          BY <4>2 DEF Setting
        <5> QED BY <1>3, <1>5, <3>5, <3>7, <5>1, LineKept
      <4>3. CASE c.product = r /\ c.cancelled
        <5>1. Setting(s, r) /\ ~Last(s, r)
          BY <2>3, <3>3, <4>3 DEF Setting, Last
        <5>2. CASE \E x \in Slot : Lost(x, r)
          BY <1>5, <3>4, <5>2 DEF Saving
        <5>3. ASSUME NEW w \in Slot, Last(w, r), calls[w].qty = shown[r]
              PROVE  Saving(r)'
          BY <1>3, <3>4, <3>5, <5>1, <5>3, LastKept
        <5> QED BY <3>7, <5>1, <5>2, <5>3 DEF Saving
      <4> QED BY <4>1, <4>2, <4>3
    <3>8. ASSUME NEW r \in Product PROVE Matches(r)'
      <4>1. Deleting(r)' <=> Deleting(r)
        BY <3>4, <3>5 DEF Deleting
      <4>2. Matches(r)
        BY <2>1 DEF Following
      <4> QED BY <3>7, <4>1, <4>2 DEF Matches
    <3> QED BY <3>6, <3>8 DEF Following
  <2> QED BY <2>2, <2>3
<1> QED BY <1>2, <1>6 DEF FInv

\* A call that goes on without the page keeps its place among the others.
LEMMA LateInOrder ==
    ASSUME Typed, Ordered, NEW s \in Slot, NEW t \in Slot, Unserved(s), ~Busy(t),
           calls' = Late(s, t)
    PROVE  Ordered'
<1>0. Busy(s)
  BY DEF Unserved
<1>1. /\ s # t /\ SameCall(calls'[t], calls[s]) /\ calls'[t].stage = calls[s].stage
      /\ calls'[t].behind = calls[s].behind /\ Busy(t)' /\ Busy(s)'
      /\ SameCall(calls'[s], calls[s])
      /\ calls'[s].stage = "failed" /\ calls'[s].behind = {}
      /\ \A x \in Slot \ {s, t} : ~Busy(x) => ~Busy(x)'
  <2>1. \A x \in Slot \ {s, t} : ~Busy(x) => calls'[x] = Idle
    BY <1>0, LateCalls
  <2>2. \A x \in Slot \ {s, t} : ~Busy(x) => ~Busy(x)'
    BY <2>1 DEF Busy
  <2> QED BY <1>0, <2>2, LateCalls
<1>2. ASSUME NEW x \in Slot \ {s, t}, Busy(x)
      PROVE  Same(x) /\ calls'[x].behind = Renamed(x, s, t)
  BY <1>0, <1>2, LateOther DEF Same, Like
<1>3. ASSUME NEW x \in Slot \ {s, t}
      PROVE  (Unserved(x)' <=> Unserved(x)) /\ \A r : Setting(x, r)' <=> Setting(x, r)
  <2>1. CASE Busy(x)
    BY <1>2, <2>1, LikeFacts DEF Same
  <2>2. CASE ~Busy(x)
    BY <1>1, <2>2 DEF Unserved, Setting
  <2> QED BY <2>1, <2>2
<1>4. /\ ~Unserved(t) /\ ~Unserved(s)' /\ Unserved(t)'
      /\ \A r : (Setting(t, r)' <=> Setting(s, r)) /\ ~Setting(s, r)'
  BY <1>1 DEF Unserved, Setting, SameCall
<1>5. ASSUME NEW x \in Slot, Busy(x)
      PROVE  calls[x].behind \subseteq {y \in Slot : Unserved(y)} \ {x}
  BY <1>5 DEF Ordered, Waits
<1>6. ASSUME NEW x \in Slot PROVE Waits(x)'
  <2> SUFFICES ASSUME Busy(x)' PROVE Waits(x)'
    BY DEF Waits
  <2>1. CASE x = s
    <3>1. Waits(s) /\ calls'[s].op = calls[s].op /\ calls'[s].qty = calls[s].qty
      BY <1>1 DEF Ordered, SameCall
    <3> QED BY <1>0, <1>1, <2>1, <3>1 DEF Waits
  <2>2. CASE x = t
    <3>1. Waits(s) /\ calls'[t].op = calls[s].op /\ calls'[t].qty = calls[s].qty
      BY <1>1 DEF Ordered, SameCall
    <3>2. calls'[t].behind \subseteq {y \in Slot : Unserved(y)'} \ {t}
      BY <1>0, <1>1, <1>3, <1>4, <1>5
    <3> QED BY <1>0, <2>2, <3>1, <3>2 DEF Waits
  <2>3. CASE x \notin {s, t}
    <3>1. Busy(x)
      BY <1>1, <2>3
    <3>2. Waits(x) /\ calls'[x].op = calls[x].op /\ calls'[x].qty = calls[x].qty
      BY <1>2, <2>3, <3>1 DEF Ordered, Same, Like, SameCall
    <3>3. calls'[x].behind \subseteq {y \in Slot : Unserved(y)'} \ {x}
      BY <1>2, <1>3, <1>4, <1>5, <2>3, <3>1 DEF Renamed
    <3> QED BY <3>1, <3>2, <3>3 DEF Waits
  <2> QED BY <2>1, <2>2, <2>3
<1>7. ASSUME NEW y \in Slot \ {s, t}, NEW r \in Product, Setting(t, r)', Setting(y, r)'
      PROVE  t \in calls'[y].behind \/ y \in calls'[t].behind
  <2>1. Setting(s, r) /\ Setting(y, r) /\ Busy(y)
    BY <1>3, <1>4, <1>7 DEF Setting, Unserved
  <2>2. Apart(s, y)
    BY DEF Ordered
  <2>3. s \in calls[y].behind \/ y \in calls[s].behind
    BY <2>1, <2>2 DEF Apart
  <2> QED BY <1>1, <1>2, <2>1, <2>3 DEF Renamed
<1>8. ASSUME NEW x \in Slot, NEW y \in Slot, x # y PROVE Apart(x, y)'
  <2>1. CASE x = s \/ y = s
    BY <1>4, <2>1 DEF Apart
  <2>2. CASE x = t /\ y # s
    BY <1>7, <1>8, <2>2 DEF Apart
  <2>3. CASE y = t /\ x # s
    BY <1>7, <1>8, <2>3 DEF Apart
  <2>4. CASE x \notin {s, t} /\ y \notin {s, t}
    <3>1. Apart(x, y)
      BY <1>8 DEF Ordered
    <3>2. \A r : (Setting(x, r) => Busy(x)) /\ (Setting(y, r) => Busy(y))
      BY DEF Setting, Unserved
    <3> QED BY <1>2, <1>3, <2>4, <3>1, <3>2 DEF Apart, Renamed
  <2> QED BY <2>1, <2>2, <2>3, <2>4
<1> QED BY <1>6, <1>8 DEF Ordered

\* What the page was told is lost makes it look up the line or read the list
\* again, whatever the server still does.
LEMMA LateFollows ==
    ASSUME Typed, FInv, NEW s \in Slot, NEW t \in Slot, Unserved(s), ~calls[s].cancelled,
           ~Busy(t), calls' = Late(s, t),
           UNCHANGED <<cookie, known, shown, timer, carts, stale>>
    PROVE  FInv'
<1> PICK c : c = calls[s]
  OBVIOUS
<1>0. Busy(s) /\ ~c.cancelled /\ c.op \in Writes
  BY DEF Unserved
<1>1. /\ s # t /\ SameCall(calls'[t], c) /\ calls'[t].stage = c.stage
      /\ calls'[t].behind = c.behind /\ calls'[t].cancelled = TRUE
      /\ SameCall(calls'[s], c) /\ calls'[s].stage = "failed" /\ ~calls'[s].cancelled
      /\ \A x \in Slot \ {s, t} : ~Busy(x) => calls'[x] = Idle
  BY <1>0, LateCalls
<1>2. Busy(t)' /\ Busy(s)'
  BY <1>0, LateCalls
<1>3. ASSUME NEW x \in Slot \ {s, t}, Busy(x)
      PROVE  Same(x) /\ calls'[x].behind = Renamed(x, s, t)
  BY <1>0, <1>3, LateOther DEF Same, Like
<1>4. ASSUME NEW x \in Slot \ {s, t} PROVE Same(x)
  <2>1. CASE ~Busy(x)
    BY <1>1, <2>1 DEF Same, Like, Busy
  <2> QED BY <1>3, <2>1
<1>5. Ordered'
  BY LateInOrder DEF FInv
<1>6. CASE c.op # "update"
  <2>1. Rereads(s)'
    BY <1>0, <1>1, <1>2, <1>6 DEF Rereads, SameCall, Writes
  <2> QED BY <1>5, <2>1 DEF FInv, Reloading
<1>7. CASE c.op = "update"
  <2>1. ~Rereads(s) /\ ~Rereads(t)
    BY <1>7 DEF Rereads, Reads
  <2>2. \A x \in Slot \ {s, t} : /\ \A r : Setting(x, r)' <=> Setting(x, r)
                                 /\ \A r : Deletes(x, r)' <=> Deletes(x, r)
                                 /\ \A r : Lost(x, r)' <=> Lost(x, r)
                                 /\ Own(x)' <=> Own(x)
                                 /\ Rereads(x)' <=> Rereads(x)
    BY <1>4, LikeFacts DEF Same
  <2>3. /\ \A r : ~Setting(s, r)' /\ (Setting(t, r)' <=> Setting(s, r)) /\ ~Setting(t, r)
        /\ \A r : ~Deletes(s, r) /\ ~Deletes(s, r)' /\ ~Deletes(t, r) /\ ~Deletes(t, r)'
        /\ \A r : ~Lost(s, r) /\ ~Lost(t, r) /\ (c.product = r => Lost(s, r)')
        /\ Own(s) => Own(s)' /\ Own(t)'
    BY <1>0, <1>1, <1>2, <1>7
    DEF Setting, Deletes, Lost, Own, Unserved, SameCall
  <2>4. ASSUME ~stale', ~Reloading' PROVE Following'
    <3>1. ~Reloading
      BY <2>1, <2>2, <2>4 DEF Reloading
    <3>2. Following
      BY <2>4, <3>1 DEF FInv
    <3>3. ASSUME NEW x \in Slot PROVE Own(x)'
      BY <2>2, <2>3, <3>2 DEF Following
    <3>4. ASSUME NEW r \in Product, Saving(r) PROVE Saving(r)'
      <4>1. CASE c.product = r
        BY <2>3, <4>1 DEF Saving
      <4>2. CASE c.product # r
        <5>1. ~Setting(s, r) /\ ~Setting(t, r)'
          BY <2>3, <4>2 DEF Setting
        <5>2. CASE shown[r] = carts[cookie][r] /\ \A x \in Slot : ~Setting(x, r)
          BY <2>2, <2>3, <5>1, <5>2 DEF Saving
        <5>3. CASE \E x \in Slot : Lost(x, r)
          BY <2>2, <2>3, <5>3 DEF Saving
        <5>4. ASSUME NEW w \in Slot, Last(w, r), calls[w].qty = shown[r] PROVE Saving(r)'
          <6>1. w \notin {s, t} /\ Setting(w, r) /\ Busy(w) /\ ~calls[w].cancelled
            BY <2>3, <5>1, <5>4 DEF Last, Setting, Unserved
          <6>2. calls'[w].qty = shown'[r] /\ Setting(w, r)' /\ ~calls'[w].cancelled
            BY <1>4, <2>2, <5>4, <6>1 DEF Same, Like, SameCall
          <6>3. ASSUME NEW x \in Slot, Setting(x, r)' PROVE w \notin calls'[x].behind
            <7>1. x \notin {s, t}
              BY <2>3, <5>1, <6>3
            <7>2. Setting(x, r) /\ Busy(x)
              BY <2>2, <6>3, <7>1 DEF Setting, Unserved
            <7>3. w \notin calls[x].behind
              BY <5>4, <7>2 DEF Last
            <7> QED BY <1>3, <6>1, <7>1, <7>2, <7>3 DEF Renamed
          <6> QED BY <6>2, <6>3 DEF Saving, Last
        <5> QED BY <3>4, <5>2, <5>3, <5>4 DEF Saving
      <4> QED BY <4>1, <4>2
    <3>5. ASSUME NEW r \in Product PROVE Matches(r)'
      <4>1. Deleting(r)' <=> Deleting(r)
        BY <2>2, <2>3 DEF Deleting
      <4>2. Matches(r)
        BY <3>2 DEF Following
      <4> QED BY <3>4, <4>1, <4>2 DEF Matches
    <3> QED BY <3>3, <3>5 DEF Following
  <2> QED BY <1>5, <2>4 DEF FInv
<1> QED BY <1>6, <1>7

LEMMA FailFollows ==
    ASSUME Typed, FInv, NEW s \in Slot, Fail(s)
    PROVE  FInv'
<1>0. /\ Busy(s) /\ calls[s].stage # "failed"
      /\ UNCHANGED <<cookie, known, shown, timer, carts, stale>>
  BY DEF Fail, page
<1>1. CASE calls' = Served(s, "failed", Unread)
  BY <1>0, <1>1, LostFollows
<1>2. CASE /\ Unserved(s) /\ ~calls[s].cancelled
           /\ \E t \in Slot : ~Busy(t) /\ calls' = Late(s, t)
  BY <1>0, <1>2, LateFollows
<1> QED BY <1>1, <1>2 DEF Fail

\* A list is in order when nothing was on its way and it is that of the rows.
LEMMA ShownFollows ==
    ASSUME Typed, FInv, NEW s \in Slot, ~Unserved(s), Over(s), ~Busy(s)', Show(s),
           UNCHANGED <<cookie, carts>>
    PROVE  FInv'
<1>1. Ordered'
  BY OverInOrder DEF FInv
<1>3. ASSUME ~stale' PROVE Following'
  <2>1. /\ shown' = carts[cookie] /\ Armed = {} /\ timer' = timer /\ \A x \in Slot : ~Unserved(x)
    BY <1>3 DEF Show
  <2>2. ASSUME NEW x \in Slot PROVE ~Unserved(x)'
    <3>1. CASE x = s
      BY <3>1 DEF Unserved
    <3>2. CASE x # s
      BY <2>1, <3>2, LikeFacts DEF Over, Same
    <3> QED BY <3>1, <3>2
  <2>3. \A p \in Product : timer'[p] = 0
    BY <2>1 DEF Armed, Typed, PageTyped, Lines
  <2>4. \A p \in Product : shown'[p] = carts'[cookie'][p]
    BY <2>1
  <2>5. \A p : ~Deleting(p)' /\ \A x \in Slot : ~Setting(x, p)'
    BY <2>2 DEF Deleting, Deletes, Setting
  <2>6. \A p \in Product : Saving(p)'
    BY <2>4, <2>5 DEF Saving
  <2>7. \A p \in Product : Matches(p)'
    BY <2>3, <2>4, <2>5, <2>6 DEF Matches
  <2> QED BY <2>2, <2>7 DEF Following, Own
<1> QED BY <1>1, <1>3 DEF FInv

\* An answer that is not wanted, or that asks for nothing, changes nothing.
LEMMA ForgottenFollows ==
    ASSUME Typed, FInv, NEW s \in Slot, ~Unserved(s), Over(s), ~Busy(s)', ~Rereads(s),
           \A p : Lost(s, p) => timer[p] > 0,
           UNCHANGED <<cookie, known, shown, timer, carts, stale>>
    PROVE  FInv'
<1>1. Ordered'
  BY OverInOrder DEF FInv
<1>3. \A x \in Slot \ {s} : Same(x) /\ (Busy(x) => calls'[x].behind \subseteq calls[x].behind)
  BY DEF Over
<1>4. ASSUME ~stale', ~Reloading' PROVE Following'
  <2>1. Following
    BY <1>3, <1>4, StillReloading DEF FInv
  <2>2. ~Unserved(s)'
    BY DEF Unserved
  <2> QED BY <1>3, <2>1, <2>2, Quiet DEF Typed, PageTyped
<1> QED BY <1>1, <1>4 DEF FInv

\* A call that is followed by a read.
LEMMA AskedAgainFollows ==
    ASSUME FInv, NEW s \in Slot, ~Unserved(s), Over(s), Rereads(s)', UNCHANGED timer
    PROVE  FInv'
<1>1. Ordered'
  BY OverInOrder DEF FInv
<1> QED BY <1>1 DEF FInv, Reloading

LEMMA AnswerFollows ==
    ASSUME Typed, FInv, NEW s \in Slot, Answer(s)
    PROVE  FInv'
<1> PICK c : c = calls[s]
  OBVIOUS
<1>1. CASE AnswerRead(s)
  <2>1. /\ Busy(s) /\ c.op \in Reads /\ c.stage \in {"done", "failed"}
        /\ UNCHANGED <<cookie, carts>> /\ Forget(s)
    BY <1>1 DEF AnswerRead
  <2>2. Over(s) /\ ~Busy(s)' /\ ~Unserved(s) /\ \A p : ~Lost(s, p)
    BY <2>1, AnsweredSlot DEF Unserved, Lost, Reads, Writes
  <2>3. CASE c.cancelled /\ UNCHANGED <<page, stale>>
    <3>1. ~Rereads(s)
      BY <2>1, <2>3 DEF Rereads, Reads
    <3> QED BY <2>1, <2>2, <2>3, <3>1, ForgottenFollows DEF page
  <2>4. CASE Show(s)
    BY <2>1, <2>2, <2>4, ShownFollows
  <2>5. CASE stale' = TRUE /\ UNCHANGED page
    <3>1. Ordered'
      BY <2>2, OverInOrder DEF FInv
    <3> QED BY <2>5, <3>1 DEF FInv, page
  <2> QED BY <1>1, <2>3, <2>4, <2>5 DEF AnswerRead
<1>2. CASE AnswerMerge(s)
  <2>1. /\ Busy(s) /\ c.op = "merge" /\ c.stage \in {"done", "failed"} /\ UNCHANGED <<cookie, carts>>
    BY <1>2 DEF AnswerMerge
  <2>2. ~Unserved(s) /\ \A p : ~Lost(s, p)
    BY <2>1 DEF Unserved, Lost
  <2>3. CASE c.cancelled /\ Forget(s) /\ UNCHANGED <<page, stale>>
    <3>1. ~Rereads(s)
      BY <2>1, <2>3 DEF Rereads, Reads
    <3> QED BY <2>1, <2>2, <2>3, <3>1, AnsweredSlot, ForgottenFollows DEF page
  <2>4. CASE Forget(s) /\ Show(s)
    BY <2>1, <2>2, <2>4, AnsweredSlot, ShownFollows
  <2>5. CASE Follow(s, "again") /\ UNCHANGED <<page, stale>>
    <3>1. Over(s) /\ Rereads(s)'
      BY <2>5, AnsweredSlot DEF Reads
    <3> QED BY <2>2, <2>5, <3>1, AskedAgainFollows DEF page
  <2> QED BY <1>2, <2>3, <2>4, <2>5 DEF AnswerMerge
<1>3. CASE AnswerWrite(s)
  <2>1. /\ Busy(s) /\ c.op \in Writes \ {"merge"} /\ c.stage \in {"done", "failed"}
        /\ UNCHANGED <<cookie, known, shown, timer, carts, stale>>
        /\ IF ~c.cancelled /\ ReadsAgain(c) THEN Follow(s, "refresh") ELSE Forget(s)
    BY <1>3 DEF AnswerWrite, page, history
  <2>2. ~Unserved(s)
    BY <2>1 DEF Unserved
  <2>3. CASE ~c.cancelled /\ ReadsAgain(c)
    <3>1. Over(s) /\ Rereads(s)'
      BY <2>1, <2>3, AnsweredSlot DEF Reads
    <3> QED BY <2>1, <2>2, <3>1, AskedAgainFollows
  <2>4. CASE c.cancelled \/ ~ReadsAgain(c)
    <3>1. Over(s) /\ ~Busy(s)'
      BY <2>1, <2>4, AnsweredSlot
    <3>2. ~Rereads(s)
      BY <2>1, <2>4 DEF Rereads, ReadsAgain, Reads, Writes
    <3>3. ASSUME NEW p, Lost(s, p) PROVE timer[p] > 0
      <4>1. c \in CallType
        BY <2>1, BusyCall
      <4>2. c.op = "update" /\ c.product = p /\ p \in Product /\ timer[p] # 0
        BY <2>4, <3>3, <4>1, CallFacts DEF Lost, ReadsAgain, LineOp
      <4> QED BY <4>2 DEF Typed, PageTyped, Lines
    <3> QED BY <2>1, <2>2, <3>1, <3>2, <3>3, ForgottenFollows
  <2> QED BY <2>3, <2>4
<1> QED BY <1>1, <1>2, <1>3 DEF Answer

LEMMA FollowInductive == CInv /\ CInv' /\ FInv /\ [Next]_vars => FInv'
<1> SUFFICES ASSUME CInv, CInv', FInv, [Next]_vars PROVE FInv'
  OBVIOUS
<1>0. Typed /\ CartsTyped'
  BY DEF CInv, Typed
<1>1. CASE Buyer
  BY <1>0, <1>1, AddFollows, UpdateQuantityFollows, RemovalFollows, SignFollows DEF Buyer
<1>2. CASE Notice \/ \E p \in Product : Fire(p)
  BY <1>0, <1>2, NoticeFollows, FireFollows
<1>3. ASSUME NEW s \in Slot, Server(s) PROVE FInv'
  BY <1>0, <1>3, WriteFollows, ReadFollows, BeginFollows, SaveFollows DEF Server
<1>4. ASSUME NEW s \in Slot, Fail(s) \/ Answer(s) PROVE FInv'
  BY <1>0, <1>4, FailFollows, AnswerFollows
<1>5. CASE UNCHANGED vars
  <2>1. UNCHANGED <<calls, timer, shown, carts, cookie, known, stale>>
    BY <1>5 DEF vars, page, history
  <2>2. Ordered' <=> Ordered
    BY <2>1 DEF Ordered, Waits, Apart, Setting, Unserved, Busy
  <2>3. Reloading' <=> Reloading
    BY <2>1 DEF Reloading, Rereads, Busy
  <2>4. Following' <=> Following
    BY <2>1 DEF Following, Own, Matches, Saving, Deleting, Last, Lost, Setting, Deletes,
       Unserved, Busy, Touches
  <2> QED BY <2>1, <2>2, <2>3, <2>4 DEF FInv
<1> QED BY <1>1, <1>2, <1>3, <1>4, <1>5 DEF Next

\* When nothing is on its way any more the list is what the server keeps for
\* whoever is signed in, unless it was made from something outdated
\* (use-cart.tsx:49-132).
THEOREM ListFollowsServer == Spec => []OnlyStaleReads
<1>1. Init => FInv
  BY FollowBase
<1>2. CInv /\ CInv' /\ FInv /\ [Next]_vars => FInv'
  BY FollowInductive
<1>3. CInv /\ FInv => OnlyStaleReads
  <2> SUFFICES ASSUME Typed, FInv, AtRest, ~stale PROVE shown = carts[cookie]
    BY DEF CInv, OnlyStaleReads
  <2>1. known = cookie /\ Armed = {} /\ \A s \in Slot : ~Busy(s)
    BY DEF AtRest
  <2>2. Following
    BY <2>1 DEF FInv, Reloading, Rereads
  <2>3. shown \in [Product -> Nat] /\ timer \in [Product -> Nat] /\ carts[cookie] \in [Product -> Nat]
    BY DEF Typed, PageTyped, CartsTyped, Lines
  <2>4. ASSUME NEW p \in Product PROVE shown[p] = carts[cookie][p]
    <3>1. timer[p] = 0 /\ Matches(p) /\ shown[p] \in Nat
      BY <2>1, <2>2, <2>3 DEF Armed, Following
    <3>2. \A s \in Slot : ~Deletes(s, p) /\ ~Setting(s, p) /\ ~Lost(s, p)
      BY <2>1 DEF Deletes, Setting, Lost, Unserved
    <3>3. CASE shown[p] = 0
      BY <3>1, <3>2, <3>3 DEF Matches, Deleting
    <3>4. CASE shown[p] > 0
      BY <3>1, <3>2, <3>4 DEF Matches, Saving, Last
    <3> QED BY <3>1, <3>3, <3>4
  <2> QED BY <2>3, <2>4
<1> QED BY <1>1, <1>2, <1>3, Always, PTL DEF Spec
=============================================================================

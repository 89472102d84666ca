---------------------------- MODULE ReturnsProofs ----------------------------
(***************************************************************************)
(* Proofs about the claims on an order line, for every number of claims,   *)
(* transitions under way and units.                                        *)
(***************************************************************************)
EXTENDS Returns, Sums, TLAPS

\* A claim only moves on; a transition with an effect starts at one stage.
Rank(status) ==
    CASE status = "none" -> 0
      [] status = "submitted" -> 1
      [] status = "approved" -> 2
      [] status = "received" -> 3
      [] OTHER -> 4
Before(e) == IF e = "restock" THEN 2 ELSE 3

\* What Ask has established about a transition under way.
Planned(w, paid) ==
    /\ Coherent(w.row) /\ w.to \in Transitions(w.row.status)
    /\ w.effect = "restock" => w.to = "received"
    /\ w.effect \in {"refund", "replace"} => w.to = "resolved" /\ w.resolution = w.effect
    /\ w.effect = "refund" => paid
    /\ w.resolution # "none" => w.to = "resolved"
    /\ w.resolution = "refund" /\ paid => w.effect = "refund"
    /\ w.resolution = "replace" => w.effect = "replace"
    /\ w.resolution = "repair" => w.row.kind = "warranty"
    /\ w.to = "rejected" => ~w.row.restocked
    /\ w.effect = "none" => w.stage = "read"
    /\ w.stage \in {"new", "known"} => w.effect = "restock"

\* s has had e done for the claim and not saved it yet.
Acts(s, c, e) ==
    Busy(s) /\ work[s].claim = c /\ work[s].stage = "acted" /\ work[s].effect = e
NoneActs(c, e) == \A s \in Slot : ~Acts(s, c, e)
OneActs(c, e) ==
    \E s \in Slot : Acts(s, c, e) /\ \A t \in Slot : Acts(t, c, e) => t = s
Stands(c, e, stage) ==
    \E s \in Slot : Busy(s) /\ work[s].claim = c /\ work[s].stage = stage
                    /\ work[s].effect = e

\* How often e was done for a claim that no two transitions got in each other's
\* way about: not before its time; then as often as a transition that acted, or
\* one that gave up having acted, accounts for; and afterwards as the row says.
Early(c, e) == done[c][e] = 0 /\ <<c, e>> \notin lost
InTime(c, e) ==
    /\ NoneActs(c, e) /\ <<c, e>> \notin lost =>
           done[c][e] = 0 /\ ~Stands(c, e, "known")
    /\ NoneActs(c, e) /\ <<c, e>> \in lost =>
           done[c][e] = 1 /\ ~Stands(c, e, "new")
    /\ OneActs(c, e) => done[c][e] = 1
    /\ ~NoneActs(c, e) => done[c][e] > 0
Late(c, e) ==
    NoneActs(c, e) /\ <<c, e>> \notin lost =>
        done[c][e] = (IF Recorded(claims[c], e) THEN 1 ELSE 0)

Accounted(c, e) ==
    /\ Rank(claims[c].status) < Before(e) => Early(c, e)
    /\ Rank(claims[c].status) = Before(e) => InTime(c, e)
    /\ Rank(claims[c].status) > Before(e) => Late(c, e)

\* A transition has the row as it is, or as it was at an earlier stage.
Current(s) ==
    LET w == work[s] IN
    Busy(s) /\ w.claim \notin raced =>
        w.row = claims[w.claim] \/ Rank(w.row.status) < Rank(claims[w.claim].status)

Plans == \A s \in Slot : Busy(s) => Planned(work[s], stripe)
Fresh == \A s \in Slot : Current(s)
Accounts == \A c \in Claim \ raced, e \in Effect : Accounted(c, e)

RInv == TypeOK /\ Plans /\ Fresh /\ Accounts

-----------------------------------------------------------------------------
(* The row of a claim and what a transition makes of it.                   *)

\* A transition raises the rank.
LEMMA Ranks ==
    /\ \A st \in Status : Rank(st) \in 0 .. 4
    /\ \A st, to \in Status : to \in Transitions(st) => Rank(to) > Rank(st)
    /\ \A e \in Effect : Before(e) \in {2, 3}
BY DEF Status, Rank, Transitions, Before, Effect

\* A row records an effect only after the stage it starts at.
LEMMA NotYet ==
    ASSUME NEW row \in Rows, Coherent(row), NEW e \in Effect,
           Rank(row.status) <= Before(e)
    PROVE  ~Recorded(row, e)
<1>0. row.status \in Status /\ row.resolution \in Resolution
  BY DEF Rows
<1>1. CASE e = "restock"
  <2>1. row.status \notin {"received", "resolved"}
    BY <1>0, <1>1 DEF Rank, Before, Status
  <2> QED BY <1>1, <2>1 DEF Coherent, Recorded
<1>2. CASE e = "refund"
  <2>1. row.status # "resolved"
    BY <1>0, <1>2 DEF Rank, Before, Status
  <2> QED BY <1>2, <2>1 DEF Coherent, Recorded
<1>3. CASE e = "replace"
  <2>1. row.status # "resolved"
    BY <1>0, <1>3 DEF Rank, Before, Status
  <2> QED BY <1>3, <2>1 DEF Coherent, Recorded
<1> QED BY <1>1, <1>2, <1>3 DEF Effect

\* Saving the row records what was done, and nothing else.
LEMMA Recording ==
    ASSUME NEW w \in WorkType, Planned(w, stripe)
    PROVE  /\ Saved(w) \in Rows /\ Coherent(Saved(w))
           /\ Saved(w).status = w.to /\ Saved(w).quantity = w.row.quantity
           /\ Rank(Saved(w).status) > Rank(w.row.status)
           /\ w.effect \in Effect => Rank(w.row.status) = Before(w.effect)
           /\ \A e \in Effect : Recorded(Saved(w), e) <=> Recorded(w.row, e) \/ w.effect = e
<1>0. /\ w.row \in Rows /\ w.to \in Status /\ w.effect \in Effect \union {"none"}
      /\ w.resolution \in Resolution /\ w.row.status \in Status /\ w.row.restocked \in BOOLEAN
      /\ w.row.resolution \in Resolution
  BY DEF WorkType, Rows
<1> DEFINE b == w.row.restocked \/ w.effect = "restock"
<1>1. Saved(w) = [status |-> w.to, kind |-> w.row.kind, quantity |-> w.row.quantity,
                  restocked |-> b, resolution |-> w.resolution]
  <2> DEFINE r1 == [w.row EXCEPT !.status = w.to]
             r2 == [r1 EXCEPT !.restocked = b]
             r3 == [r2 EXCEPT !.resolution = w.resolution]
  <2>1. r1 = [status |-> w.to, kind |-> w.row.kind, quantity |-> w.row.quantity,
              restocked |-> w.row.restocked, resolution |-> w.row.resolution]
    BY <1>0 DEF Rows
  <2>2. r1.restocked = w.row.restocked
    BY <2>1
  <2>3. r3 = Saved(w)
    BY <2>2, Zenon DEF Saved
  <2> HIDE DEF r1, b
  <2>4. r2 = [status |-> w.to, kind |-> w.row.kind, quantity |-> w.row.quantity,
              restocked |-> b, resolution |-> w.row.resolution]
    BY <2>1
  <2> HIDE DEF r2
  <2>5. r3 = [status |-> w.to, kind |-> w.row.kind, quantity |-> w.row.quantity,
              restocked |-> b, resolution |-> w.resolution]
    BY <2>4
  <2> QED BY <2>3, <2>5
<1>b. b \in BOOLEAN
  OBVIOUS
<1> HIDE DEF b
<1>2. /\ Saved(w) \in Rows /\ Saved(w).restocked = b /\ Saved(w).status = w.to
      /\ Saved(w).resolution = w.resolution /\ Saved(w).kind = w.row.kind
  BY <1>0, <1>1, <1>b DEF Rows
<1>3. w.row.status # "resolved" /\ w.row.resolution = "none"
  BY <1>0 DEF Planned, Transitions, Coherent
<1>4. Coherent(Saved(w))
  <2>1. w.to = "rejected" => ~w.row.restocked /\ w.effect # "restock"
    BY DEF Planned
  <2>2. w.row.restocked => w.row.status = "received"
    BY <1>3 DEF Planned, Coherent
  <2>3. w.row.restocked \/ w.effect = "restock" => w.to \in {"received", "resolved"}
    BY <2>1, <2>2 DEF Planned, Transitions
  <2>4. Saved(w).restocked => Saved(w).status \in {"received", "resolved"}
    BY <1>2, <2>3, Zenon DEF b
  <2> QED BY <1>2, <2>4 DEF Coherent, Planned
<1>5. Rank(w.to) > Rank(w.row.status)
  BY <1>0, Ranks DEF Planned
<1>6. w.effect \in Effect => Rank(w.row.status) = Before(w.effect)
  <2>1. w.effect = "restock" => w.row.status = "approved"
    BY <1>0 DEF Planned, Transitions, Status
  <2>2. w.effect \in {"refund", "replace"} => w.row.status = "received"
    BY <1>0 DEF Planned, Transitions, Status
  <2> QED BY <2>1, <2>2 DEF Effect, Rank, Before
<1>7. ASSUME NEW e \in Effect
      PROVE  Recorded(Saved(w), e) <=> Recorded(w.row, e) \/ w.effect = e
  <2>1. CASE e = "restock"
    <3>1. Recorded(Saved(w), e) <=> Saved(w).restocked
      BY <2>1, Zenon DEF Recorded
    <3>2. Recorded(w.row, e) <=> w.row.restocked
      BY <2>1, Zenon DEF Recorded
    <3> QED BY <1>2, <2>1, <3>1, <3>2, Zenon DEF b
  <2>2. CASE e = "refund"
    BY <1>1, <1>3, <2>2 DEF Recorded, Planned
  <2>3. CASE e = "replace"
    BY <1>1, <1>3, <2>3 DEF Recorded, Planned
  <2> QED BY <2>1, <2>2, <2>3 DEF Effect
<1> QED BY <1>1, <1>2, <1>4, <1>5, <1>6, <1>7

-----------------------------------------------------------------------------
(* Types, plans and rows under way.                                        *)

\* A transition under way is a record; a free slot is not.
LEMMA Under ==
    ASSUME TypeOK, NEW s \in Slot, Busy(s)
    PROVE  work[s] \in WorkType /\ work[s].stage # "idle"
<1>1. work[s] \in WorkType
  BY DEF TypeOK, Busy
<1> QED BY <1>1 DEF WorkType

LEMMA Base == Init => RInv
<1> SUFFICES ASSUME Init PROVE RInv
  OBVIOUS
<1> USE DEF Init
<1>1. NoRow \in Rows /\ Coherent(NoRow) /\ NoRow.status = "none"
  BY ReturnsAssumption DEF NoRow, Rows, Coherent, Status, Kind, Resolution
<1>2. \A s \in Slot : ~Busy(s)
  BY DEF Busy
<1>3. TypeOK
  BY <1>1, ReturnsAssumption DEF TypeOK, Status
<1>4. Plans /\ Fresh
  BY <1>2 DEF Plans, Fresh, Current
<1>5. Accounts
  <2> SUFFICES ASSUME NEW c \in Claim, NEW e \in Effect
               PROVE  Accounted(c, e)
    BY DEF Accounts
  <2>1. Rank(claims[c].status) = 0 /\ Before(e) \in {2, 3}
    BY <1>1, Ranks DEF Rank
  <2>2. Early(c, e)
    BY DEF Early
  <2> QED BY <2>1, <2>2 DEF Accounted
<1> QED BY <1>3, <1>4, <1>5 DEF RInv

\* A step that leaves e and the claim alone keeps the account of it.
LEMMA AccountKept ==
    ASSUME NEW c \in Claim, NEW e \in Effect, Accounted(c, e),
           claims'[c] = claims[c], done'[c][e] = done[c][e], stripe' = stripe,
           <<c, e>> \in lost' <=> <<c, e>> \in lost,
           \A s \in Slot : Acts(s, c, e)' <=> Acts(s, c, e),
           Stands(c, e, "new")' => Stands(c, e, "new"),
           Stands(c, e, "known")' => Stands(c, e, "known")
    PROVE  Accounted(c, e)'
<1>1. NoneActs(c, e)' <=> NoneActs(c, e)
  BY Zenon DEF NoneActs
<1>2. OneActs(c, e)' <=> OneActs(c, e)
  BY Zenon DEF OneActs
<1>3. Recorded(claims[c], e)' <=> Recorded(claims[c], e)
  BY DEF Recorded
<1>4. Early(c, e) => Early(c, e)'
  BY DEF Early
<1>5. InTime(c, e) => InTime(c, e)'
  BY <1>1, <1>2 DEF InTime
<1>6. Late(c, e) => Late(c, e)'
  BY <1>1, <1>3 DEF Late
<1>7. Rank(claims[c].status)' = Rank(claims[c].status) /\ Before(e)' = Before(e)
  BY DEF Rank, Before
<1> QED BY <1>4, <1>5, <1>6, <1>7 DEF Accounted

-----------------------------------------------------------------------------
(* One lemma for each action.                                              *)

\* Pages and time concern no transition.
LEMMA ReadingStep ==
    ASSUME RInv, Pass \/ ViewOrder \/ ListClaims
    PROVE  RInv'
<1> USE DEF order, pages, history
<1>1. TypeOK'
  <2>1. phase \in {"sold", "returnable", "guaranteed", "expired"}
        /\ phase' \in {"sold", "returnable", "guaranteed", "expired"}
    BY DEF RInv, TypeOK, Pass, ViewOrder, ListClaims, Phases
  <2>2. page'.phase \in {"sold", "returnable", "guaranteed", "expired"}
    BY <2>1 DEF RInv, TypeOK, Pass, ViewOrder, ListClaims
  <2>3. list' \in [Claim -> Status]
    BY DEF RInv, TypeOK, Pass, ViewOrder, ListClaims, Rows
  <2>4. UNCHANGED <<warehouse, stripe, claims, done, work, lost, raced, requests>>
    BY DEF Pass, ViewOrder, ListClaims
  <2> QED BY <2>1, <2>2, <2>3, <2>4 DEF RInv, TypeOK
<1>2. UNCHANGED <<warehouse, stripe, claims, done, work, lost, raced>>
  BY DEF Pass, ViewOrder, ListClaims
<1>3. Plans' /\ Fresh'
  BY <1>2 DEF RInv, Plans, Fresh, Busy, Current
<1>4. Accounts'
  <2> SUFFICES ASSUME NEW c \in Claim \ raced, NEW e \in Effect
               PROVE  Accounted(c, e)'
    BY <1>2 DEF Accounts
  <2>1. Accounted(c, e)
    BY DEF RInv, Accounts
  <2>2. \A s \in Slot : Acts(s, c, e)' <=> Acts(s, c, e)
    BY <1>2 DEF Acts, Busy
  <2>3. /\ Stands(c, e, "new")' <=> Stands(c, e, "new")
        /\ Stands(c, e, "known")' <=> Stands(c, e, "known")
    BY <1>2 DEF Stands, Busy
  <2> QED BY <1>2, <2>1, <2>2, <2>3, AccountKept, Zenon
<1> QED BY <1>1, <1>3, <1>4 DEF RInv

LEMMA Submitted ==
    ASSUME NEW kind, NEW n
    PROVE  [NoRow EXCEPT !.status = "submitted", !.kind = kind, !.quantity = n]
             = [status |-> "submitted", kind |-> kind, quantity |-> n,
                restocked |-> FALSE, resolution |-> "none"]
<1>1. PICK b : b = FALSE
  OBVIOUS
<1> DEFINE r1 == [NoRow EXCEPT !.status = "submitted"]
           r2 == [r1 EXCEPT !.kind = kind]
           r3 == [r2 EXCEPT !.quantity = n]
<1>2. r3 = [NoRow EXCEPT !.status = "submitted", !.kind = kind, !.quantity = n]
  BY Zenon
<1>3. NoRow = [status |-> "none", kind |-> "return", quantity |-> 0,
               restocked |-> b, resolution |-> "none"]
  BY <1>1, Zenon DEF NoRow
<1>4. r1 = [status |-> "submitted", kind |-> "return", quantity |-> 0,
            restocked |-> b, resolution |-> "none"]
  BY <1>3
<1> HIDE DEF r1
<1>5. r2 = [status |-> "submitted", kind |-> kind, quantity |-> 0,
            restocked |-> b, resolution |-> "none"]
  BY <1>4
<1> HIDE DEF r2
<1>6. r3 = [status |-> "submitted", kind |-> kind, quantity |-> n,
            restocked |-> b, resolution |-> "none"]
  BY <1>5
<1> HIDE DEF r3
<1> QED BY <1>1, <1>2, <1>6, Zenon

LEMMA FileStep ==
    ASSUME RInv, NEW c \in Claim, NEW kind \in Kind, NEW n \in 1 .. Units, File(c, kind, n)
    PROVE  RInv'
<1> USE DEF order, history
<1> DEFINE row == [status |-> "submitted", kind |-> kind, quantity |-> n,
                   restocked |-> FALSE, resolution |-> "none"]
<1>0. /\ UNCHANGED <<phase, warehouse, stripe, done, work, list, lost, raced, requests>>
      /\ TypeOK /\ Plans /\ Fresh /\ Accounts /\ claims[c].status = "none"
  BY DEF RInv, File
<1>1. claims' = [claims EXCEPT ![c] = row]
  <2>1. [NoRow EXCEPT !.status = "submitted", !.kind = kind, !.quantity = n] = row
    BY Submitted, Zenon
  <2> QED BY <2>1 DEF File
<1>2. row \in Rows /\ Coherent(row) /\ row.status = "submitted"
  BY DEF Rows, Coherent, Status, Resolution
<1> HIDE DEF row
<1>3. claims'[c] = row /\ \A d \in Claim : d # c => claims'[d] = claims[d]
  BY <1>0, <1>1 DEF TypeOK
<1>4. TypeOK'
  <2>1. claims' \in [Claim -> Rows] /\ \A d \in Claim : Coherent(claims'[d])
    BY <1>0, <1>1, <1>2, <1>3 DEF TypeOK
  <2>2. page'.phase \in {"sold", "returnable", "guaranteed", "expired"}
    BY <1>0 DEF TypeOK, File
  <2> QED BY <1>0, <2>1, <2>2 DEF TypeOK
<1>5. Plans'
  BY <1>0 DEF Plans, Busy
<1>6. Rank(claims[c].status) = 0 /\ Rank(row.status) = 1
  BY <1>0, <1>2 DEF Rank
<1>7. Fresh'
  <2> SUFFICES ASSUME NEW s \in Slot, Busy(s), work[s].claim \notin raced
               PROVE  \/ work[s].row = claims'[work[s].claim]
                      \/ Rank(work[s].row.status) < Rank(claims'[work[s].claim].status)
    BY <1>0 DEF Fresh, Current, Busy, Rank
  <2>1. work[s] \in WorkType /\ Current(s)
    BY <1>0, Under DEF Fresh
  <2>2. CASE work[s].claim # c
    BY <1>3, <2>1, <2>2 DEF Current, WorkType
  <2>3. CASE work[s].claim = c
    <3>1. Rank(work[s].row.status) \in Nat
      BY <2>1, Ranks DEF WorkType, Rows
    <3>2. Rank(work[s].row.status) = 0
      BY <1>6, <2>1, <2>3, <3>1 DEF Current
    <3> QED BY <1>3, <1>6, <2>3, <3>2
  <2> QED BY <2>2, <2>3
<1>8. Accounts'
  <2> SUFFICES ASSUME NEW d \in Claim \ raced, NEW e \in Effect
               PROVE  Accounted(d, e)'
    BY <1>0 DEF Accounts
  <2>1. Accounted(d, e)
    BY <1>0 DEF Accounts
  <2>2. CASE d # c
    <3>1. \A s \in Slot : Acts(s, d, e)' <=> Acts(s, d, e)
      BY <1>0 DEF Acts, Busy
    <3>2. /\ Stands(d, e, "new")' <=> Stands(d, e, "new")
          /\ Stands(d, e, "known")' <=> Stands(d, e, "known")
      BY <1>0 DEF Stands, Busy
    <3> QED BY <1>0, <1>3, <2>1, <2>2, <3>1, <3>2, AccountKept, Zenon
  <2>3. CASE d = c
    <3>1. Early(c, e)
      BY <1>6, <2>1, <2>3, Ranks DEF Accounted
    <3>2. Rank(claims'[c].status) = 1
      BY <1>3, <1>6
    <3>3. Rank(claims[c].status)' = 1 /\ Before(e)' = Before(e) /\ Early(c, e)'
      BY <1>0, <3>1, <3>2 DEF Early, Rank, Before
    <3> QED BY <2>3, <3>3, Ranks DEF Accounted
  <2> QED BY <2>2, <2>3
<1> QED BY <1>4, <1>5, <1>7, <1>8 DEF RInv

\* A step of one transition leaves the other ones alone.
LEMMA OneSlot ==
    ASSUME TypeOK, NEW s \in Slot, NEW x, work' = [work EXCEPT ![s] = x]
    PROVE  /\ work'[s] = x
           /\ \A t \in Slot : t # s =>
                 /\ work'[t] = work[t] /\ (Busy(t)' <=> Busy(t))
                 /\ \A c \in Claim, e \in Effect : Acts(t, c, e)' <=> Acts(t, c, e)
           /\ \A c \in Claim, e \in Effect :
                 /\ Stands(c, e, "new")' =>
                        \/ Stands(c, e, "new")
                        \/ x.claim = c /\ x.effect = e /\ x.stage = "new"
                 /\ Stands(c, e, "known")' =>
                        \/ Stands(c, e, "known")
                        \/ x.claim = c /\ x.effect = e /\ x.stage = "known"
<1>1. work'[s] = x /\ \A t \in Slot : t # s => work'[t] = work[t]
  BY DEF TypeOK
<1>2. \A t \in Slot : t # s => (Busy(t)' <=> Busy(t))
  BY <1>1 DEF Busy
<1>3. \A t \in Slot : t # s =>
         \A c \in Claim, e \in Effect : Acts(t, c, e)' <=> Acts(t, c, e)
  BY <1>1, <1>2 DEF Acts
<1>4. ASSUME NEW c \in Claim, NEW e \in Effect, NEW st \in {"new", "known"},
             Stands(c, e, st)'
      PROVE  Stands(c, e, st) \/ (x.claim = c /\ x.effect = e /\ x.stage = st)
  <2>1. PICK t \in Slot : Busy(t)' /\ work'[t].claim = c /\ work'[t].stage = st
                          /\ work'[t].effect = e
    BY <1>4 DEF Stands
  <2>2. CASE t = s
    BY <1>1, <2>1, <2>2
  <2>3. CASE t # s
    <3>1. Busy(t) /\ work[t].claim = c /\ work[t].stage = st /\ work[t].effect = e
      BY <1>1, <1>2, <2>1, <2>3
    <3> QED BY <3>1, Zenon DEF Stands
  <2> QED BY <2>2, <2>3
<1> QED BY <1>1, <1>2, <1>3, <1>4

LEMMA AskStep ==
    ASSUME RInv, NEW s \in Slot, NEW c \in Claim, Ask(s, c)
    PROVE  RInv'
<1> USE DEF order, pages, history
<1>0. /\ UNCHANGED <<phase, warehouse, stripe, claims, done, list, page, lost, raced>>
      /\ TypeOK /\ Plans /\ Fresh /\ Accounts /\ ~Busy(s)
      /\ requests < MaxRequests /\ requests' = requests + 1
  BY DEF RInv, Ask
<1>p. PICK to \in Transitions(claims[c].status), restock \in BOOLEAN :
        /\ restock => to = "received"
        /\ \E resolution \in Resolutions(to, claims[c].kind) :
           LET effect == EffectOf(to, restock, resolution) IN
           /\ ~Refused(claims[c], to, effect)
           /\ work' = [work EXCEPT ![s] = [stage |-> "read", claim |-> c,
                         row |-> claims[c], to |-> to, effect |-> effect,
                         resolution |-> resolution]]
  BY DEF Ask
<1>1. PICK resolution \in Resolutions(to, claims[c].kind) :
        LET effect == EffectOf(to, restock, resolution) IN
        /\ ~Refused(claims[c], to, effect)
        /\ work' = [work EXCEPT ![s] = [stage |-> "read", claim |-> c, row |-> claims[c],
                       to |-> to, effect |-> effect, resolution |-> resolution]]
  BY <1>p
<1> DEFINE effect == EffectOf(to, restock, resolution)
           x == [stage |-> "read", claim |-> c, row |-> claims[c],
                 to |-> to, effect |-> effect, resolution |-> resolution]
<1>2. work' = [work EXCEPT ![s] = x]
  BY <1>1
<1>3. /\ to \in Status /\ resolution \in Resolution
      /\ resolution # "none" => to = "resolved"
      /\ resolution = "repair" => claims[c].kind = "warranty"
  <2>1. claims[c].status \in Status /\ claims[c].kind \in Kind
    BY <1>0 DEF TypeOK, Rows
  <2>2. to \in Status
    BY <2>1 DEF Transitions, Status
  <2>3. CASE to # "resolved"
    <3>1. resolution \in {"none"}
      BY <2>3, Zenon DEF Resolutions
    <3> QED BY <2>2, <3>1 DEF Resolution
  <2>4. CASE to = "resolved" /\ claims[c].kind = "warranty"
    BY <2>2, <2>4 DEF Resolutions, Resolution
  <2>5. CASE to = "resolved" /\ claims[c].kind # "warranty"
    BY <2>2, <2>5 DEF Resolutions, Resolution
  <2> QED BY <2>2, <2>3, <2>4, <2>5
<1>4. /\ effect \in Effect \union {"none"}
      /\ effect = "restock" => to = "received"
      /\ effect \in {"refund", "replace"} => to = "resolved" /\ resolution = effect
      /\ effect = "refund" => stripe
      /\ resolution = "refund" /\ stripe => effect = "refund"
      /\ resolution = "replace" => effect = "replace"
  <2>1. CASE to = "received" /\ restock
    BY <1>3, <2>1 DEF EffectOf, Effect
  <2>2. CASE ~(to = "received" /\ restock)
    BY <1>p, <1>3, <2>2 DEF EffectOf, Effect
  <2> QED BY <2>1, <2>2
<1>5. to = "rejected" => ~claims[c].restocked
  BY <1>1 DEF Refused
<1> HIDE DEF effect
<1>6. x \in WorkType /\ Planned(x, stripe) /\ x.claim = c /\ x.row = claims[c] /\ x.stage = "read"
  <2>1. x \in WorkType
    BY <1>0, <1>3, <1>4 DEF WorkType, TypeOK
  <2>2. Coherent(claims[c])
    BY <1>0 DEF TypeOK
  <2> QED BY <1>3, <1>4, <1>5, <2>1, <2>2 DEF Planned
<1> HIDE DEF x
<1>7. TypeOK'
  <2>1. work' \in [Slot -> WorkType \union {Idle}]
    BY <1>0, <1>2, <1>6 DEF TypeOK
  <2>2. requests' \in 0 .. MaxRequests
    BY <1>0, ReturnsAssumption DEF TypeOK
  <2> QED BY <1>0, <2>1, <2>2 DEF TypeOK
<1>8. /\ work'[s] = x
      /\ \A t \in Slot : t # s => work'[t] = work[t] /\ (Busy(t)' <=> Busy(t))
  BY <1>0, <1>2, OneSlot
<1>9. Plans'
  <2>1. Planned(work'[s], stripe')
    BY <1>0, <1>6, <1>8
  <2>2. ASSUME NEW t \in Slot, t # s, Busy(t)' PROVE Planned(work[t], stripe)'
    BY <1>0, <1>8, <2>2 DEF Plans
  <2> QED BY <1>8, <2>1, <2>2 DEF Plans
<1>10. Fresh'
  <2> SUFFICES ASSUME NEW t \in Slot, Busy(t)', work'[t].claim \notin raced
               PROVE  \/ work'[t].row = claims[work'[t].claim]
                      \/ Rank(work'[t].row.status) < Rank(claims[work'[t].claim].status)
    BY <1>0 DEF Fresh, Current, Rank
  <2>1. CASE t = s
    BY <1>6, <1>8, <2>1
  <2>2. CASE t # s
    BY <1>0, <1>8, <2>2 DEF Fresh, Current
  <2> QED BY <2>1, <2>2
<1>11. Accounts'
  <2> SUFFICES ASSUME NEW d \in Claim \ raced, NEW e \in Effect
               PROVE  Accounted(d, e)'
    BY <1>0 DEF Accounts
  <2>1. Accounted(d, e)
    BY <1>0 DEF Accounts
  <2>2. ASSUME NEW t \in Slot PROVE Acts(t, d, e)' <=> Acts(t, d, e)
    <3>1. CASE t = s
      BY <1>0, <1>6, <1>8, <3>1 DEF Acts
    <3>2. CASE t # s
      BY <1>0, <1>2, <3>2, OneSlot
    <3> QED BY <3>1, <3>2
  <2>3. /\ Stands(d, e, "new")' => Stands(d, e, "new")
        /\ Stands(d, e, "known")' => Stands(d, e, "known")
    BY <1>0, <1>2, <1>6, OneSlot
  <2> QED BY <1>0, <2>1, <2>2, <2>3, AccountKept, Zenon
<1> QED BY <1>7, <1>9, <1>10, <1>11 DEF RInv

\* What a step of one transition that stays under way has to show.
LEMMA Advanced ==
    ASSUME RInv, NEW s \in Slot, Busy(s), NEW st \in {"new", "known", "acted"},
           Advance(s, st), work[s].effect \in Effect,
           st \in {"new", "known"} => work[s].effect = "restock",
           UNCHANGED <<phase, warehouse, stripe, claims, list, page, lost, raced, requests>>,
           done' \in [Claim -> [Effect -> Nat]]
    PROVE  /\ TypeOK' /\ Plans' /\ Fresh'
           /\ work' = [work EXCEPT ![s] = [work[s] EXCEPT !.stage = st]]
           /\ work'[s].stage = st /\ Busy(s)'
           /\ work'[s].claim = work[s].claim /\ work'[s].effect = work[s].effect
<1> DEFINE x == [work[s] EXCEPT !.stage = st]
<1>0. TypeOK /\ Plans /\ Fresh /\ Planned(work[s], stripe) /\ work[s] \in WorkType
  BY Under DEF RInv, Plans
<1>1. /\ x \in WorkType /\ x.stage = st /\ x.claim = work[s].claim /\ x.row = work[s].row
      /\ x.to = work[s].to /\ x.effect = work[s].effect /\ x.resolution = work[s].resolution
  BY <1>0 DEF WorkType
<1>2. work' = [work EXCEPT ![s] = x]
  BY DEF Advance
<1> HIDE DEF x
<1>3. /\ work'[s] = x
      /\ \A t \in Slot : t # s => work'[t] = work[t] /\ (Busy(t)' <=> Busy(t))
  <2>1. work \in [Slot -> WorkType \union {Idle}]
    BY <1>0 DEF TypeOK
  <2>2. work'[s] = x /\ \A t \in Slot : t # s => work'[t] = work[t]
    BY <1>2, <2>1
  <2> QED BY <2>2 DEF Busy
<1>4. TypeOK'
  <2>1. work' \in [Slot -> WorkType \union {Idle}]
    BY <1>0, <1>1, <1>2 DEF TypeOK
  <2>2. done' \in [Claim -> [Effect -> Nat]]
    OBVIOUS
  <2>3. UNCHANGED <<phase, warehouse, stripe, claims, list, page, lost, raced, requests>>
    OBVIOUS
  <2> HIDE <1>0, <1>1, <1>2, <1>3
  <2>4. TypeOK
    BY <1>0
  <2> QED BY <2>1, <2>2, <2>3, <2>4 DEF TypeOK
<1>5. Plans'
  <2>1. Planned(work'[s], stripe')
    <3>1. Planned(x, stripe)
      BY <1>0, <1>1 DEF Planned, Effect
    <3> QED BY <1>3, <3>1
  <2>2. ASSUME NEW t \in Slot, t # s, Busy(t)' PROVE Planned(work[t], stripe)'
    BY <1>0, <1>3, <2>2 DEF Plans
  <2> QED BY <1>3, <2>1, <2>2 DEF Plans
<1>6. Fresh'
  <2> SUFFICES ASSUME NEW t \in Slot, Busy(t)', work'[t].claim \notin raced
               PROVE  \/ work'[t].row = claims[work'[t].claim]
                      \/ Rank(work'[t].row.status) < Rank(claims[work'[t].claim].status)
    BY DEF Fresh, Current, Rank
  <2>1. CASE t = s
    BY <1>0, <1>1, <1>3, <2>1 DEF Fresh, Current
  <2>2. CASE t # s
    BY <1>0, <1>3, <2>2 DEF Fresh, Current
  <2> QED BY <2>1, <2>2
<1>7. Busy(s)'
  BY <1>1, <1>3 DEF Busy, Idle
<1> QED BY <1>1, <1>2, <1>3, <1>4, <1>5, <1>6, <1>7 DEF x

LEMMA LookUpStep ==
    ASSUME RInv, NEW s \in Slot, LookUp(s)
    PROVE  RInv'
<1> USE DEF order, pages, history
<1>0. /\ UNCHANGED <<phase, warehouse, stripe, claims, done, list, page, lost, raced, requests>>
      /\ TypeOK /\ Accounts /\ Busy(s) /\ work[s].effect = "restock" /\ work[s].stage = "read"
      /\ Planned(work[s], stripe) /\ work[s] \in WorkType
  BY Under DEF RInv, LookUp, Plans
<1> DEFINE k == work[s].claim
           st == IF done[k]["restock"] = 0 THEN "new" ELSE "known"
<1>1. Advance(s, st) /\ st \in {"new", "known"} /\ k \in Claim
  BY <1>0 DEF LookUp, WorkType
<1>2. /\ TypeOK' /\ Plans' /\ Fresh'
      /\ work' = [work EXCEPT ![s] = [work[s] EXCEPT !.stage = st]]
      /\ work'[s].stage = st /\ work'[s].claim = k /\ work'[s].effect = "restock"
  BY <1>0, <1>1, Advanced DEF TypeOK, Effect
<1>3. Accounts'
  <2> SUFFICES ASSUME NEW c \in Claim \ raced, NEW e \in Effect
               PROVE  Accounted(c, e)'
    BY <1>0 DEF Accounts
  <2>1. Accounted(c, e)
    BY <1>0 DEF Accounts
  <2>2. ASSUME NEW t \in Slot PROVE Acts(t, c, e)' <=> Acts(t, c, e)
    <3>1. CASE t = s
      BY <1>0, <1>1, <1>2, <3>1 DEF Acts
    <3>2. CASE t # s
      BY <1>0, <1>2, <3>2, OneSlot
    <3> QED BY <3>1, <3>2
  <2>3. /\ Stands(c, e, "new")' =>
               Stands(c, e, "new") \/ (c = k /\ e = "restock" /\ st = "new")
        /\ Stands(c, e, "known")' =>
               Stands(c, e, "known") \/ (c = k /\ e = "restock" /\ st = "known")
    <3>1. PICK x : x = [work[s] EXCEPT !.stage = st]
      OBVIOUS
    <3>2. work' = [work EXCEPT ![s] = x] /\ work'[s] = x
      BY <1>0, <1>2, <3>1, OneSlot
    <3>3. x.claim = k /\ x.effect = "restock" /\ x.stage = st
      BY <1>2, <3>2
    <3> HIDE DEF st, k
    <3>4. /\ Stands(c, e, "new")' =>
                 Stands(c, e, "new") \/ (x.claim = c /\ x.effect = e /\ x.stage = "new")
          /\ Stands(c, e, "known")' =>
                 Stands(c, e, "known") \/ (x.claim = c /\ x.effect = e /\ x.stage = "known")
      BY <1>0, <3>2, OneSlot
    <3> QED BY <3>3, <3>4
  <2>4. CASE ~(c = k /\ e = "restock")
    BY <1>0, <2>1, <2>2, <2>3, <2>4, AccountKept
  <2>5. CASE c = k /\ e = "restock"
    <3>1. NoneActs(c, e)' <=> NoneActs(c, e)
      BY <2>2, Zenon DEF NoneActs
    <3>2. OneActs(c, e)' <=> OneActs(c, e)
      BY <2>2, Zenon DEF OneActs
    <3>3. InTime(c, e) => InTime(c, e)'
      <4> SUFFICES ASSUME InTime(c, e) PROVE InTime(c, e)'
        OBVIOUS
      <4>1. CASE done[k]["restock"] = 0
        <5>1. st = "new" /\ (Stands(c, e, "known")' => Stands(c, e, "known"))
          BY <2>3, <4>1
        <5>2. ~(NoneActs(c, e) /\ <<c, e>> \in lost)
          BY <2>5, <4>1 DEF InTime
        <5> QED BY <1>0, <3>1, <3>2, <5>1, <5>2 DEF InTime
      <4>2. CASE done[k]["restock"] # 0
        <5>1. st = "known" /\ (Stands(c, e, "new")' => Stands(c, e, "new"))
          BY <2>3, <4>2
        <5>2. ~(NoneActs(c, e) /\ <<c, e>> \notin lost)
          BY <2>5, <4>2 DEF InTime
        <5> QED BY <1>0, <3>1, <3>2, <5>1, <5>2 DEF InTime
      <4> QED BY <4>1, <4>2
    <3>4. Early(c, e) => Early(c, e)'
      BY <1>0 DEF Early
    <3>5. Late(c, e) => Late(c, e)'
      BY <1>0, <3>1 DEF Late, Recorded
    <3>6. Rank(claims[c].status)' = Rank(claims[c].status) /\ Before(e)' = Before(e)
      BY <1>0
    <3> QED BY <2>1, <3>3, <3>4, <3>5, <3>6 DEF Accounted
  <2> QED BY <2>4, <2>5
<1> QED BY <1>2, <1>3 DEF RInv

LEMMA PerformStep ==
    ASSUME RInv, NEW s \in Slot, Perform(s)
    PROVE  RInv'
<1> USE DEF order, pages, history
<1> DEFINE k == work[s].claim
           f == work[s].effect
           again == work[s].stage = "known" \/ (f # "restock" /\ done[k][f] > 0)
<1>0. /\ UNCHANGED <<phase, warehouse, stripe, claims, list, page, lost, raced, requests>>
      /\ TypeOK /\ Fresh /\ Accounts /\ Busy(s) /\ f \in Effect
      /\ Planned(work[s], stripe) /\ work[s] \in WorkType /\ k \in Claim
      /\ work[s].stage \in (IF f = "restock" THEN {"new", "known"} ELSE {"read"})
      /\ done' = IF again THEN done ELSE [done EXCEPT ![k][f] = @ + 1]
      /\ Advance(s, "acted")
  <2>1. work[s] \in WorkType /\ TypeOK /\ Fresh /\ Accounts /\ Busy(s) /\ Planned(work[s], stripe)
    BY Under DEF RInv, Perform, Plans
  <2>2. k \in Claim
    BY <2>1 DEF WorkType
  <2> QED BY <2>1, <2>2 DEF Perform
<1>1. /\ done' \in [Claim -> [Effect -> Nat]]
      /\ done'[k][f] = IF again THEN done[k][f] ELSE done[k][f] + 1
      /\ \A c \in Claim, e \in Effect : c # k \/ e # f => done'[c][e] = done[c][e]
      /\ done[k][f] \in Nat
  <2>1. done \in [Claim -> [Effect -> Nat]]
    BY <1>0 DEF TypeOK
  <2>2. done' = IF again THEN done ELSE [done EXCEPT ![k][f] = @ + 1]
    BY <1>0
  <2>3. k \in Claim /\ f \in Effect
    BY <1>0
  <2> HIDE DEF k, f, again
  <2>4. [done EXCEPT ![k][f] = @ + 1] = [done EXCEPT ![k] = [done[k] EXCEPT ![f] = done[k][f] + 1]]
    BY <2>1, <2>3
  <2>5. done[k] \in [Effect -> Nat] /\ done[k][f] \in Nat
    BY <2>1, <2>3
  <2>6. [done[k] EXCEPT ![f] = done[k][f] + 1] \in [Effect -> Nat]
    <3>1. \A g \in [Effect -> Nat], n \in Nat : [g EXCEPT ![f] = n] \in [Effect -> Nat]
      OBVIOUS
    <3>2. done[k][f] + 1 \in Nat
      BY <2>5
    <3> QED BY <2>5, <3>1, <3>2
  <2>7. CASE again
    BY <2>1, <2>2, <2>5, <2>7
  <2>8. CASE ~again
    <3> DEFINE d == [done[k] EXCEPT ![f] = done[k][f] + 1]
    <3>1. done' = [done EXCEPT ![k] = d]
      BY <2>2, <2>4, <2>8
    <3>2. /\ d[f] = done[k][f] + 1
          /\ \A e \in Effect : e # f => d[e] = done[k][e]
      BY <2>3, <2>5
    <3> HIDE DEF d
    <3>3. d \in [Effect -> Nat]
      BY <2>6 DEF d
    <3> QED BY <2>1, <2>3, <2>5, <2>8, <3>1, <3>2, <3>3
  <2> QED BY <2>7, <2>8
<1>2. /\ TypeOK' /\ Plans' /\ Fresh'
      /\ work' = [work EXCEPT ![s] = [work[s] EXCEPT !.stage = "acted"]]
      /\ work'[s].stage = "acted" /\ work'[s].claim = k /\ work'[s].effect = f /\ Busy(s)'
  BY <1>0, <1>1, Advanced
<1> HIDE DEF again
<1>3. Accounts'
  <2> SUFFICES ASSUME NEW c \in Claim \ raced, NEW e \in Effect
               PROVE  Accounted(c, e)'
    BY <1>0 DEF Accounts
  <2>1. Accounted(c, e)
    BY <1>0 DEF Accounts
  <2>2. /\ \A t \in Slot : t # s => (Acts(t, c, e)' <=> Acts(t, c, e))
        /\ Stands(c, e, "new")' => Stands(c, e, "new")
        /\ Stands(c, e, "known")' => Stands(c, e, "known")
    <3>1. PICK x : x = [work[s] EXCEPT !.stage = "acted"]
      OBVIOUS
    <3>2. work' = [work EXCEPT ![s] = x] /\ work'[s] = x
      BY <1>0, <1>2, <3>1, OneSlot
    <3>3. x.stage = "acted"
      BY <1>2, <3>2
    <3>4. /\ Stands(c, e, "new")' => Stands(c, e, "new") \/ x.stage = "new"
          /\ Stands(c, e, "known")' => Stands(c, e, "known") \/ x.stage = "known"
      BY <1>0, <3>2, OneSlot
    <3>5. \A t \in Slot : t # s => (Acts(t, c, e)' <=> Acts(t, c, e))
      BY <1>0, <3>2, OneSlot
    <3> QED BY <3>3, <3>4, <3>5
  <2>3. ~Acts(s, c, e)
    BY <1>0 DEF Acts
  <2>4. Acts(s, c, e)' <=> c = k /\ e = f
    BY <1>2 DEF Acts
  <2>5. CASE ~(c = k /\ e = f)
    <3>1. \A t \in Slot : Acts(t, c, e)' <=> Acts(t, c, e)
      BY <2>2, <2>3, <2>4, <2>5
    <3> QED BY <1>0, <1>1, <2>1, <2>2, <2>5, <3>1, AccountKept
  <2>6. CASE c = k /\ e = f
    <3>1. ~NoneActs(c, e)'
      BY <2>4, <2>6 DEF NoneActs
    <3>2. OneActs(c, e)' => NoneActs(c, e)
      <4> SUFFICES ASSUME OneActs(c, e)', NEW t \in Slot, Acts(t, c, e)
                   PROVE  FALSE
        BY DEF NoneActs
      <4>1. t # s /\ Acts(t, c, e)' /\ Acts(s, c, e)'
        BY <2>2, <2>3, <2>4, <2>6
      <4> QED BY <4>1 DEF OneActs
    <3>3. /\ Rank(work[s].row.status) = Before(f)
          /\ Rank(work[s].row.status) <= Rank(claims[k].status)
          /\ Rank(claims[k].status) \in Nat /\ Before(f) \in Nat
      <4>1. Rank(work[s].row.status) = Before(f)
        BY <1>0, Recording
      <4>2. Current(s)
        BY <1>0 DEF Fresh
      <4>3. claims[k].status \in Status
        BY <1>0 DEF TypeOK, Rows
      <4>4. Rank(claims[k].status) \in Nat /\ Before(f) \in Nat
        BY <1>0, <4>3, Ranks
      <4> QED BY <1>0, <2>6, <4>1, <4>2, <4>4 DEF Current
    <3>4. Late(c, e)'
      BY <3>1 DEF Late
    <3>5. CASE Rank(claims[k].status) = Before(f)
      <4>1. InTime(c, e)
        BY <2>1, <2>6, <3>5 DEF Accounted
      <4>2. NoneActs(c, e) => done'[c][e] = 1
        <5>1. CASE NoneActs(c, e) /\ <<c, e>> \notin lost
          <6>1. done[c][e] = 0 /\ ~Stands(c, e, "known")
            BY <4>1, <5>1 DEF InTime
          <6>2. work[s].stage # "known"
            BY <1>0, <2>6, <6>1 DEF Stands
          <6> QED BY <1>1, <2>6, <6>1, <6>2 DEF again
        <5>2. CASE NoneActs(c, e) /\ <<c, e>> \in lost
          <6>1. done[c][e] = 1 /\ ~Stands(c, e, "new")
            BY <4>1, <5>2 DEF InTime
          <6>2. work[s].stage # "new"
            BY <1>0, <2>6, <6>1 DEF Stands
          <6>3. again
            BY <1>0, <2>6, <6>1, <6>2 DEF again
          <6> QED BY <1>1, <2>6, <6>1, <6>3
        <5> QED BY <5>1, <5>2
      <4>3. done'[c][e] > 0
        BY <1>1, <2>6, <4>1, <4>2 DEF InTime
      <4>4. InTime(c, e)'
        BY <3>1, <3>2, <4>2, <4>3 DEF InTime
      <4>5. claims' = claims /\ Before(e)' = Before(e)
        BY <1>0
      <4> QED BY <2>6, <3>3, <3>5, <4>4, <4>5 DEF Accounted
    <3>6. CASE Rank(claims[k].status) > Before(f)
      <4>1. claims[c] = claims'[c]
        BY <1>0
      <4> QED BY <2>6, <3>3, <3>4, <3>6, <4>1 DEF Accounted
    <3> QED BY <3>3, <3>5, <3>6
  <2> QED BY <2>5, <2>6
<1> QED BY <1>2, <1>3 DEF RInv

\* What a step that frees its slot has to show, besides the claims and the types.
LEMMA Freed ==
    ASSUME TypeOK, NEW s \in Slot, work' = [work EXCEPT ![s] = Idle],
           NEW c \in Claim, NEW e \in Effect
    PROVE  /\ ~Busy(s)' /\ work' \in [Slot -> WorkType \union {Idle}]
           /\ \A t \in Slot : t # s => work'[t] = work[t] /\ (Busy(t)' <=> Busy(t))
           /\ ~Acts(s, c, e)'
           /\ \A t \in Slot : t # s => (Acts(t, c, e)' <=> Acts(t, c, e))
           /\ Stands(c, e, "new")' => Stands(c, e, "new")
           /\ Stands(c, e, "known")' => Stands(c, e, "known")
<1>1. PICK x : x = Idle
  OBVIOUS
<1>2. work' = [work EXCEPT ![s] = x] /\ x.stage = "idle" /\ Idle' = Idle
  BY <1>1 DEF Idle
<1>3. work'[s] = x
  BY <1>2, OneSlot
<1>4. ~Busy(s)'
  BY <1>1, <1>2, <1>3 DEF Busy
<1>5. /\ Stands(c, e, "new")' => Stands(c, e, "new") \/ x.stage = "new"
      /\ Stands(c, e, "known")' => Stands(c, e, "known") \/ x.stage = "known"
  BY <1>2, OneSlot
<1>6. \A t \in Slot : t # s => work'[t] = work[t] /\ (Busy(t)' <=> Busy(t))
  BY <1>2, OneSlot
<1>7. \A t \in Slot : t # s => (Acts(t, c, e)' <=> Acts(t, c, e))
  BY <1>2, OneSlot
<1>8. ~Acts(s, c, e)'
  BY <1>4 DEF Acts
<1>9. work' \in [Slot -> WorkType \union {Idle}]
  BY DEF TypeOK
<1> QED BY <1>2, <1>4, <1>5, <1>6, <1>7, <1>8, <1>9

LEMMA GiveUpStep ==
    ASSUME RInv, NEW s \in Slot, GiveUp(s)
    PROVE  RInv'
<1> USE DEF order, pages, history
<1> DEFINE k == work[s].claim
           f == work[s].effect
<1>0. /\ UNCHANGED <<phase, warehouse, stripe, claims, done, list, page, requests>>
      /\ TypeOK /\ Plans /\ Fresh /\ Accounts /\ Busy(s) /\ work' = [work EXCEPT ![s] = Idle]
      /\ Planned(work[s], stripe) /\ work[s] \in WorkType /\ k \in Claim
      /\ f \in Effect \union {"none"}
  <2>1. /\ work[s] \in WorkType /\ TypeOK /\ Plans /\ Fresh /\ Accounts /\ Busy(s)
        /\ Planned(work[s], stripe)
    BY Under DEF RInv, GiveUp, Plans
  <2>2. k \in Claim /\ f \in Effect \union {"none"}
    BY <2>1 DEF WorkType
  <2> QED BY <2>1, <2>2 DEF GiveUp
<1>1. /\ work[s].stage = "acted" =>
             /\ lost' = lost \union {<<k, f>>}
             /\ raced' = raced \union (IF On(k) = {s} THEN {} ELSE {k})
      /\ work[s].stage # "acted" => UNCHANGED <<lost, raced>>
      /\ raced \subseteq raced'
  BY DEF GiveUp
<1>2. TypeOK'
  <2>1. lost' \in SUBSET (Claim \X (Effect \union {"none"})) /\ raced' \in SUBSET Claim
    BY <1>0, <1>1 DEF TypeOK
  <2>2. work' \in [Slot -> WorkType \union {Idle}]
    BY <1>0 DEF TypeOK
  <2> QED BY <1>0, <2>1, <2>2 DEF TypeOK
<1>3. /\ ~Busy(s)'
      /\ \A t \in Slot : t # s => work'[t] = work[t] /\ (Busy(t)' <=> Busy(t))
  BY <1>0, Freed DEF Effect
<1>4. Plans'
  BY <1>0, <1>3 DEF Plans
<1>5. Fresh'
  <2> SUFFICES ASSUME NEW t \in Slot, Busy(t)', work'[t].claim \notin raced'
               PROVE  \/ work'[t].row = claims'[work'[t].claim]
                      \/ Rank(work'[t].row.status) < Rank(claims'[work'[t].claim].status)
    BY DEF Fresh, Current
  <2>1. t # s /\ work'[t] = work[t] /\ Busy(t) /\ work[t].claim \notin raced
    BY <1>1, <1>3
  <2> QED BY <1>0, <2>1 DEF Fresh, Current
<1>6. Accounts'
  <2> SUFFICES ASSUME NEW c \in Claim, c \notin raced', NEW e \in Effect
               PROVE  Accounted(c, e)'
    BY DEF Accounts
  <2>1. Accounted(c, e)
    BY <1>0, <1>1 DEF Accounts
  <2>2. /\ ~Acts(s, c, e)'
        /\ \A t \in Slot : t # s => (Acts(t, c, e)' <=> Acts(t, c, e))
        /\ Stands(c, e, "new")' => Stands(c, e, "new")
        /\ Stands(c, e, "known")' => Stands(c, e, "known")
    BY <1>0, Freed
  <2>3. CASE ~Acts(s, c, e)
    <3>1. \A t \in Slot : Acts(t, c, e)' <=> Acts(t, c, e)
      BY <2>2, <2>3
    <3>2. <<c, e>> \in lost' <=> <<c, e>> \in lost
      BY <1>0, <1>1, <2>3 DEF Acts
    <3> QED BY <1>0, <2>1, <2>2, <3>1, <3>2, AccountKept
  <2>4. CASE Acts(s, c, e)
    <3>1. c = k /\ e = f /\ work[s].stage = "acted"
      BY <2>4 DEF Acts
    <3>2. On(c) = {s} /\ <<c, e>> \in lost'
      BY <1>1, <3>1
    <3>3. \A t \in Slot : Busy(t) /\ work[t].claim = c => t = s
      BY <3>2 DEF On
    <3>4. NoneActs(c, e)' /\ ~OneActs(c, e)' /\ OneActs(c, e)
      <4>1. \A t \in Slot : Acts(t, c, e) => t = s
        BY <3>3 DEF Acts
      <4>2. OneActs(c, e)
        BY <2>4, <4>1 DEF OneActs
      <4>3. \A t \in Slot : ~Acts(t, c, e)'
        BY <2>2, <4>1
      <4> QED BY <4>2, <4>3 DEF NoneActs, OneActs
    <3>5. ~Stands(c, e, "new")'
      BY <1>3, <3>3 DEF Stands
    <3>6. /\ Rank(claims[c].status) >= Before(e)
          /\ Rank(claims[c].status) \in Nat /\ Before(e) \in Nat
      <4>1. Rank(work[s].row.status) = Before(e)
        BY <1>0, <3>1, Recording
      <4>2. claims[c].status \in Status
        BY <1>0 DEF TypeOK, Rows
      <4>3. Rank(claims[c].status) \in Nat /\ Before(e) \in Nat
        BY <4>2, Ranks
      <4> QED BY <1>0, <1>1, <3>1, <4>1, <4>3 DEF Fresh, Current
    <3>7. Rank(claims[c].status) = Before(e) => InTime(c, e)'
      BY <1>0, <2>1, <3>2, <3>4, <3>5 DEF Accounted, InTime
    <3>8. Late(c, e)'
      BY <3>2 DEF Late
    <3>9. claims' = claims /\ Before(e)' = Before(e)
      BY <1>0
    <3> QED BY <3>6, <3>7, <3>8, <3>9 DEF Accounted
  <2> QED BY <2>3, <2>4
<1> QED BY <1>2, <1>4, <1>5, <1>6 DEF RInv

LEMMA SaveStep ==
    ASSUME RInv, NEW s \in Slot, Save(s)
    PROVE  RInv'
<1> USE DEF order, pages, history
<1> DEFINE k == work[s].claim
           f == work[s].effect
<1>0. /\ UNCHANGED <<phase, warehouse, stripe, done, list, page, requests>>
      /\ TypeOK /\ Plans /\ Fresh /\ Accounts /\ Busy(s) /\ work' = [work EXCEPT ![s] = Idle]
      /\ Planned(work[s], stripe) /\ work[s] \in WorkType /\ k \in Claim
      /\ work[s].stage = (IF f = "none" THEN "read" ELSE "acted")
      /\ claims' = [claims EXCEPT ![k] = Saved(work[s])]
      /\ lost' = lost \ {<<k, f>>}
      /\ raced' = raced \union (IF claims[k] = work[s].row THEN {} ELSE {k})
  <2>1. /\ work[s] \in WorkType /\ TypeOK /\ Plans /\ Fresh /\ Accounts /\ Busy(s)
        /\ Planned(work[s], stripe)
    BY Under DEF RInv, Save, Plans
  <2>2. k \in Claim
    BY <2>1 DEF WorkType
  <2> QED BY <2>1, <2>2 DEF Save
<1>r. PICK row : row = Saved(work[s])
  OBVIOUS
<1>1. /\ row \in Rows /\ Coherent(row) /\ Rank(row.status) > Rank(work[s].row.status)
      /\ f \in Effect => Rank(work[s].row.status) = Before(f)
      /\ \A e \in Effect : Recorded(row, e) <=> Recorded(work[s].row, e) \/ f = e
  BY <1>0, <1>r, Recording
<1>2. claims'[k] = row /\ \A c \in Claim : c # k => claims'[c] = claims[c]
  BY <1>0, <1>r DEF TypeOK
<1>3. TypeOK'
  <2>1. claims' \in [Claim -> Rows] /\ \A c \in Claim : Coherent(claims'[c])
    BY <1>0, <1>r, <1>1, <1>2 DEF TypeOK
  <2>2. lost' \in SUBSET (Claim \X (Effect \union {"none"})) /\ raced' \in SUBSET Claim
    BY <1>0 DEF TypeOK
  <2>3. work' \in [Slot -> WorkType \union {Idle}]
    BY <1>0 DEF TypeOK
  <2> QED BY <1>0, <2>1, <2>2, <2>3 DEF TypeOK
<1>4. /\ ~Busy(s)'
      /\ \A t \in Slot : t # s => work'[t] = work[t] /\ (Busy(t)' <=> Busy(t))
  BY <1>0, Freed DEF Effect
<1>5. Plans'
  BY <1>0, <1>4 DEF Plans
<1>6. Fresh'
  <2> SUFFICES ASSUME NEW t \in Slot, Busy(t)', work'[t].claim \notin raced'
               PROVE  \/ work'[t].row = claims'[work'[t].claim]
                      \/ Rank(work'[t].row.status) < Rank(claims'[work'[t].claim].status)
    BY DEF Fresh, Current
  <2>1. /\ t # s /\ work'[t] = work[t] /\ Busy(t) /\ work[t].claim \notin raced
        /\ work[t] \in WorkType
    BY <1>0, <1>4, Under
  <2>2. /\ Rank(work[t].row.status) \in Nat /\ Rank(row.status) \in Nat
        /\ Rank(work[s].row.status) \in Nat
    BY <1>0, <1>1, <2>1, Ranks DEF WorkType, Rows
  <2>3. \/ work[t].row = claims[work[t].claim]
        \/ Rank(work[t].row.status) < Rank(claims[work[t].claim].status)
    BY <1>0, <2>1 DEF Fresh, Current
  <2>4. CASE work[t].claim = k
    <3>1. claims[k] = work[s].row
      BY <1>0, <2>1, <2>4
    <3>2. Rank(work[t].row.status) < Rank(row.status)
      BY <1>1, <2>2, <2>3, <2>4, <3>1
    <3> QED BY <1>2, <2>1, <2>4, <3>2
  <2>5. CASE work[t].claim # k
    <3>1. work[t].claim \in Claim
      BY <2>1 DEF WorkType
    <3> QED BY <1>2, <2>1, <2>3, <2>5, <3>1
  <2> QED BY <2>4, <2>5
<1>7. Accounts'
  <2> SUFFICES ASSUME NEW c \in Claim, c \notin raced', NEW e \in Effect
               PROVE  Accounted(c, e)'
    BY DEF Accounts
  <2>1. Accounted(c, e) /\ c \notin raced
    BY <1>0 DEF Accounts
  <2>2. /\ ~Acts(s, c, e)'
        /\ \A t \in Slot : t # s => (Acts(t, c, e)' <=> Acts(t, c, e))
        /\ Stands(c, e, "new")' => Stands(c, e, "new")
        /\ Stands(c, e, "known")' => Stands(c, e, "known")
    BY <1>0, Freed
  <2>3. CASE c # k
    <3>1. \A t \in Slot : Acts(t, c, e)' <=> Acts(t, c, e)
      BY <2>2, <2>3 DEF Acts
    <3>2. <<c, e>> \in lost' <=> <<c, e>> \in lost
      BY <1>0, <2>3
    <3> QED BY <1>0, <1>2, <2>1, <2>2, <2>3, <3>1, <3>2, AccountKept
  <2>4. CASE c = k
    <3> DEFINE r == Rank(claims[c].status)
               q == Rank(row.status)
               b == Before(e)
    <3>1. /\ claims[c] = work[s].row /\ claims'[c] = row /\ claims[c] \in Rows
          /\ Coherent(claims[c])
      BY <1>0, <1>2, <2>4 DEF TypeOK
    <3>2. r \in Nat /\ q \in Nat /\ b \in Nat /\ q > r
      BY <1>1, <3>1, Ranks DEF Rows
    <3>3. r <= b => ~Recorded(claims[c], e)
      BY <3>1, NotYet
    <3>4. Recorded(row, e)' <=> Recorded(row, e)
      BY <1>0 DEF Recorded
    <3> HIDE DEF r, q, b
    <3>5. CASE e = f
      <4>1. r = b /\ Acts(s, c, e)
        BY <1>0, <1>1, <2>4, <3>1, <3>5 DEF r, b, Acts, Effect
      <4>2. NoneActs(c, e)' => OneActs(c, e)
        BY <2>2, <4>1 DEF NoneActs, OneActs
      <4>3. NoneActs(c, e)' => done'[c][e] = 1
        BY <1>0, <2>1, <4>1, <4>2 DEF r, b, Accounted, InTime
      <4>4. Recorded(row, e)'
        BY <1>1, <3>4, <3>5
      <4>5. Late(c, e)'
        BY <3>1, <4>3, <4>4 DEF Late
      <4>6. q > b
        BY <3>2, <4>1
      <4> QED BY <3>1, <3>2, <4>5, <4>6 DEF q, b, Accounted
    <3>6. CASE e # f
      <4>1. \A t \in Slot : Acts(t, c, e)' <=> Acts(t, c, e)
        BY <2>2, <3>6 DEF Acts
      <4>2. NoneActs(c, e)' <=> NoneActs(c, e)
        BY <4>1, Zenon DEF NoneActs
      <4>3. done'[c][e] = done[c][e] /\ (<<c, e>> \in lost' <=> <<c, e>> \in lost)
        BY <1>0, <3>6
      <4>4. Recorded(row, e)' <=> Recorded(claims[c], e)
        BY <1>1, <3>1, <3>4, <3>6
      <4>5. r < b => Early(c, e)' /\ InTime(c, e)' /\ Late(c, e)'
        <5> SUFFICES ASSUME r < b
                     PROVE  Early(c, e)' /\ InTime(c, e)' /\ Late(c, e)'
          OBVIOUS
        <5>1. Early(c, e)
          BY <2>1 DEF r, b, Accounted
        <5>2. \A t \in Slot : ~(Busy(t) /\ work[t].claim = c /\ work[t].effect = e)
          <6> SUFFICES ASSUME NEW t \in Slot, Busy(t), work[t].claim = c, work[t].effect = e
                       PROVE  FALSE
            OBVIOUS
          <6>1. work[t] \in WorkType /\ Planned(work[t], stripe)
            BY <1>0, Under DEF Plans
          <6>2. Rank(work[t].row.status) = b
            BY <6>1, Recording DEF b
          <6>3. work[t].row = claims[c] \/ Rank(work[t].row.status) < r
            BY <1>0, <2>1 DEF Fresh, Current, r
          <6> QED BY <3>2, <6>2, <6>3 DEF r
        <5>3. \A t \in Slot : ~Acts(t, c, e)
          BY <5>2 DEF Acts
        <5>4. ~Stands(c, e, "known")
          BY <5>2 DEF Stands
        <5>5. ~Recorded(row, e)'
          BY <3>2, <3>3, <4>4
        <5>6. Early(c, e)'
          BY <4>3, <5>1 DEF Early
        <5>7. ~OneActs(c, e)' /\ NoneActs(c, e)'
          BY <4>1, <5>3 DEF OneActs, NoneActs
        <5>8. InTime(c, e)'
          BY <2>2, <5>4, <5>6, <5>7 DEF InTime, Early
        <5>9. Late(c, e)'
          BY <3>1, <5>5, <5>6 DEF Late, Early
        <5> QED BY <5>6, <5>8, <5>9
      <4>6. r = b => Late(c, e)'
        <5> SUFFICES ASSUME r = b PROVE Late(c, e)'
          OBVIOUS
        <5>1. InTime(c, e)
          BY <2>1 DEF r, b, Accounted
        <5>2. ~Recorded(row, e)'
          BY <3>2, <3>3, <4>4
        <5> QED BY <3>1, <4>2, <4>3, <5>1, <5>2 DEF Late, InTime
      <4>7. r > b => Late(c, e)'
        <5> SUFFICES ASSUME r > b PROVE Late(c, e)'
          OBVIOUS
        <5>1. Late(c, e)
          BY <2>1 DEF r, b, Accounted
        <5> QED BY <3>1, <4>2, <4>3, <4>4, <5>1 DEF Late
      <4> QED BY <3>1, <3>2, <4>5, <4>6, <4>7 DEF q, b, Accounted
    <3> QED BY <3>5, <3>6
  <2> QED BY <2>3, <2>4
<1> QED BY <1>3, <1>5, <1>6, <1>7 DEF RInv

-----------------------------------------------------------------------------
\* Every step keeps the invariant.
LEMMA Inductive == RInv /\ [Next]_vars => RInv'
<1> SUFFICES ASSUME RInv, [Next]_vars PROVE RInv'
  OBVIOUS
<1>1. CASE Next
  BY <1>1, ReadingStep, FileStep, AskStep, LookUpStep, PerformStep, GiveUpStep, SaveStep,
     Zenon DEF Next
<1>2. CASE UNCHANGED vars
  <2>1. /\ UNCHANGED <<phase, warehouse, stripe, claims, done, work, list, page>>
        /\ UNCHANGED <<lost, raced, requests>>
    BY <1>2 DEF vars, order, pages, history
  <2>2. TypeOK'
    BY <2>1 DEF RInv, TypeOK
  <2>3. Plans' /\ Fresh'
    BY <2>1 DEF RInv, Plans, Fresh, Busy, Current
  <2>4. Accounts'
    <3> SUFFICES ASSUME NEW c \in Claim \ raced, NEW e \in Effect
                 PROVE  Accounted(c, e)'
      BY <2>1 DEF Accounts
    <3>1. Accounted(c, e)
      BY DEF RInv, Accounts
    <3>2. \A s \in Slot : Acts(s, c, e)' <=> Acts(s, c, e)
      BY <2>1 DEF Acts, Busy
    <3>3. /\ Stands(c, e, "new")' <=> Stands(c, e, "new")
          /\ Stands(c, e, "known")' <=> Stands(c, e, "known")
      BY <2>1 DEF Stands, Busy
    <3> QED BY <2>1, <3>1, <3>2, <3>3, AccountKept, Zenon
  <2> QED BY <2>2, <2>3, <2>4 DEF RInv
<1> QED BY <1>1, <1>2

\* The invariant holds in every reachable state.
THEOREM Always == Spec => []RInv
<1> QED BY Base, Inductive, PTL DEF Spec

\* The rows and what is under way keep their types, and the columns of a row
\* belong together, although a transition saves the whole row it once read
\* (returns.py:127-130).
THEOREM TypeCorrect == Spec => []TypeOK
<1>1. RInv => TypeOK
  BY DEF RInv
<1> QED BY Always, <1>1, PTL

\* Every row of a claim nobody works on says what was done.
LEMMA DoneHere == RInv => DoneAsRecorded
<1> SUFFICES ASSUME RInv, NEW c \in Claim \ raced, NEW e \in Effect,
                    On(c) = {}, <<c, e>> \notin lost
             PROVE  done[c][e] = (IF Recorded(claims[c], e) THEN 1 ELSE 0)
  BY DEF DoneAsRecorded
<1>1. /\ Accounted(c, e) /\ claims[c] \in Rows /\ Coherent(claims[c])
      /\ claims[c].status \in Status
  BY DEF RInv, Accounts, TypeOK, Rows
<1>2. NoneActs(c, e)
  BY DEF NoneActs, Acts, On
<1>3. Rank(claims[c].status) \in Nat /\ Before(e) \in Nat
  BY <1>1, Ranks
<1>4. CASE Rank(claims[c].status) > Before(e)
  BY <1>1, <1>2, <1>4 DEF Accounted, Late
<1>5. CASE Rank(claims[c].status) <= Before(e)
  <2>1. ~Recorded(claims[c], e)
    BY <1>1, <1>5, NotYet
  <2>2. done[c][e] = 0
    BY <1>1, <1>2, <1>3, <1>5 DEF Accounted, Early, InTime
  <2> QED BY <2>1, <2>2
<1> QED BY <1>3, <1>4, <1>5

\* "A failed refund or stock call leaves the claim where it was"
\* (returns.py:85): unless two transitions got in each other's way, or an answer
\* was lost, stock and money agree with the row of a claim nobody works on.
THEOREM RecordedIsDone == Spec => []DoneAsRecorded
BY Always, DoneHere, PTL

-----------------------------------------------------------------------------
(* The units the claims on the line cover. *)

UnitsTaken == [c \in Claim |-> IF Taken(claims[c]) THEN claims[c].quantity ELSE 0]

\* Unless two transitions got in each other's way, the claims that are neither
\* rejected nor repaired cover no more units than were sold: File tests this sum.
Fits == raced # {} \/ SumOver(UnitsTaken, Claim) <= Units

LEMMA QuantitiesAreSums ==
    ASSUME NEW T
    PROVE  MapThenSumSet(LAMBDA c : claims[c].quantity, T)
             = SumOver([c \in T |-> claims[c].quantity], T)
<1> DEFINE f == [c \in T |-> claims[c].quantity]
<1>1. \A it : IsTable(it, f, T) <=>
        it = [s \in SUBSET T |->
                IF s = {} THEN 0 ELSE claims[Picked(s)].quantity + it[s \ {Picked(s)}]]
  <2>1. \A s \in SUBSET T : s # {} => f[Picked(s)] = claims[Picked(s)].quantity
    BY PickedIn
  <2> HIDE DEF f
  <2> QED BY <2>1 DEF IsTable
<1> HIDE DEF f
<1>2. (CHOOSE it : IsTable(it, f, T))
        = CHOOSE it : it = [s \in SUBSET T |->
            IF s = {} THEN 0 ELSE claims[Picked(s)].quantity + it[s \ {Picked(s)}]]
  BY <1>1
<1>3. MapThenSumSet(LAMBDA c : claims[c].quantity, T)
        = (CHOOSE it : it = [s \in SUBSET T |->
            IF s = {} THEN 0 ELSE claims[Picked(s)].quantity + it[s \ {Picked(s)}]])[T]
  BY DEF MapThenSumSet, MapThenFoldSet, Picked
<1> QED BY <1>2, <1>3 DEF SumOver, f

\* The sum over some of the claims is a sum over all of them.
LEMMA QuantitiesOf ==
    ASSUME TypeOK, NEW T \in SUBSET Claim, NEW g,
           \A c \in Claim : g[c] = IF c \in T THEN claims[c].quantity ELSE 0
    PROVE  MapThenSumSet(LAMBDA c : claims[c].quantity, T) = SumOver(g, Claim)
<1> DEFINE f == [c \in T |-> claims[c].quantity]
<1>1. \A c \in Claim : claims[c].quantity \in Int
  BY ReturnsAssumption DEF TypeOK, Rows
<1>2. \A c \in T : f[c] \in Int
  BY <1>1
<1>3. \A c \in Claim : g[c] = IF c \in T THEN f[c] ELSE 0
  OBVIOUS
<1>4. MapThenSumSet(LAMBDA c : claims[c].quantity, T) = SumOver(f, T)
  BY QuantitiesAreSums, Zenon
<1> HIDE DEF f
<1>5. SumOver(f, T) = SumOver(g, Claim)
  BY <1>2, <1>3, ReturnsAssumption, SumPart
<1> QED BY <1>4, <1>5

LEMMA ClaimedIsSum ==
    ASSUME TypeOK
    PROVE  Claimed = SumOver(UnitsTaken, Claim)
<1> DEFINE T == {c \in Claim : Taken(claims[c])}
<1>1. \A c \in Claim : UnitsTaken[c] = IF c \in T THEN claims[c].quantity ELSE 0
  BY DEF UnitsTaken
<1>2. T \in SUBSET Claim
  OBVIOUS
<1>3. Claimed = MapThenSumSet(LAMBDA c : claims[c].quantity, T)
  BY Zenon DEF Claimed
<1> HIDE DEF T
<1> QED BY <1>1, <1>2, <1>3, QuantitiesOf, Zenon

LEMMA UnitsTakenType == TypeOK => \A c \in Claim : UnitsTaken[c] \in Int
BY ReturnsAssumption DEF TypeOK, Rows, UnitsTaken

LEMMA FitsAtFirst == Init => Fits
<1> SUFFICES ASSUME Init PROVE SumOver(UnitsTaken, Claim) <= Units
  BY DEF Fits
<1>1. \A c \in Claim : UnitsTaken[c] = 0
  BY DEF Init, UnitsTaken, Taken, NoRow
<1>2. SumOver(UnitsTaken, Claim) = 0
  BY <1>1, ReturnsAssumption, SumOfZeros
<1> QED BY <1>2, ReturnsAssumption

\* File looks at what the claims cover before it adds to it.
LEMMA FitsFile ==
    ASSUME RInv, Fits, NEW c \in Claim, NEW kind \in Kind, NEW n \in 1 .. Units,
           File(c, kind, n), RInv'
    PROVE  Fits'
<1>0. /\ raced' = raced /\ claims[c].status = "none" /\ n <= Units - Claimed
      /\ claims' = [claims EXCEPT ![c] =
             [NoRow EXCEPT !.status = "submitted", !.kind = kind, !.quantity = n]]
  BY DEF File, history
<1>1. claims'[c] = [status |-> "submitted", kind |-> kind, quantity |-> n,
                    restocked |-> FALSE, resolution |-> "none"]
      /\ \A d \in Claim : d # c => claims'[d] = claims[d]
  <2>1. claims \in [Claim -> Rows]
    BY DEF RInv, TypeOK
  <2> QED BY <1>0, <2>1, Submitted, Zenon
<1>2. UnitsTaken[c] = 0 /\ UnitsTaken'[c] \in {0, n}
  <2>1. ~Taken(claims[c])
    BY <1>0 DEF Taken
  <2>2. claims'[c].quantity = n
    BY <1>1
  <2> QED BY <2>1, <2>2 DEF UnitsTaken
<1>3. \A d \in Claim \ {c} : UnitsTaken[d] = UnitsTaken'[d]
  BY <1>1 DEF UnitsTaken
<1>4. \A d \in Claim : UnitsTaken[d] \in Int /\ UnitsTaken'[d] \in Int
  <2>1. TypeOK /\ TypeOK'
    BY DEF RInv
  <2>2. \A d \in Claim : UnitsTaken'[d] \in Int
    BY <2>1, ReturnsAssumption DEF TypeOK, Rows, UnitsTaken
  <2> QED BY <2>1, <2>2, UnitsTakenType
<1>5. /\ SumOver(UnitsTaken', Claim) = SumOver(UnitsTaken, Claim) - UnitsTaken[c] + UnitsTaken'[c]
      /\ SumOver(UnitsTaken, Claim) \in Int
  BY <1>3, <1>4, ReturnsAssumption, SumChanged
<1>6. Claimed = SumOver(UnitsTaken, Claim)
  BY ClaimedIsSum DEF RInv
<1>7. raced # {} \/ SumOver(UnitsTaken, Claim) <= Units
  BY DEF Fits
<1>8. raced' # {} \/ SumOver(UnitsTaken', Claim) <= Units
  BY <1>0, <1>2, <1>5, <1>6, <1>7, ReturnsAssumption
<1> QED BY <1>8 DEF Fits

\* A transition that overwrites nothing had a claim that counts; it can only
\* give units back.
LEMMA FitsSave ==
    ASSUME RInv, Fits, NEW s \in Slot, Save(s), RInv'
    PROVE  Fits'
<1> DEFINE k == work[s].claim
<1> SUFFICES ASSUME raced' = {} PROVE SumOver(UnitsTaken', Claim) <= Units
  BY DEF Fits
<1>0. /\ work[s] \in WorkType /\ Planned(work[s], stripe) /\ k \in Claim
      /\ claims' = [claims EXCEPT ![k] = Saved(work[s])]
      /\ claims[k] = work[s].row /\ raced = {} /\ TypeOK /\ TypeOK'
  <2>1. Busy(s) /\ TypeOK /\ TypeOK' /\ Plans
    BY DEF RInv, Save
  <2>2. work[s] \in WorkType
    BY <2>1, Under
  <2>3. k \in Claim
    BY <2>2 DEF WorkType
  <2>4. raced = {} /\ claims[k] = work[s].row
    BY DEF Save
  <2> QED BY <2>1, <2>2, <2>3, <2>4 DEF Save, Plans
<1>1. claims'[k].quantity = claims[k].quantity
  BY <1>0, Recording DEF TypeOK
<1>2. Taken(claims[k])
  BY <1>0 DEF Taken, Planned, Transitions
<1>3. \A c \in Claim : c # k => claims'[c] = claims[c]
  BY <1>0 DEF TypeOK
<1>4. \A c \in Claim : UnitsTaken[c] \in Int /\ UnitsTaken'[c] \in Int
  <2>1. \A c \in Claim : UnitsTaken'[c] \in Int
    BY <1>0, ReturnsAssumption DEF TypeOK, Rows, UnitsTaken
  <2> QED BY <1>0, <2>1, UnitsTakenType
<1>5. \A c \in Claim : UnitsTaken'[c] <= UnitsTaken[c]
  <2> SUFFICES ASSUME NEW c \in Claim PROVE UnitsTaken'[c] <= UnitsTaken[c]
    OBVIOUS
  <2>1. CASE c # k
    <3>1. UnitsTaken'[c] = UnitsTaken[c]
      BY <1>3, <2>1 DEF UnitsTaken
    <3> QED BY <1>4, <3>1
  <2>2. CASE c = k
    <3>1. UnitsTaken[c] = claims[c].quantity /\ UnitsTaken'[c] \in {0, claims[c].quantity}
      BY <1>1, <1>2, <2>2 DEF UnitsTaken
    <3>2. claims[c].quantity \in Nat
      BY <1>0, ReturnsAssumption DEF TypeOK, Rows
    <3> QED BY <3>1, <3>2
  <2> QED BY <2>1, <2>2
<1>6. SumOver(UnitsTaken', Claim) <= SumOver(UnitsTaken, Claim)
  <2> DEFINE f == UnitsTaken'
  <2>1. \A c \in Claim : f[c] \in Int /\ UnitsTaken[c] \in Int /\ f[c] <= UnitsTaken[c]
    BY <1>4, <1>5
  <2> HIDE DEF f
  <2>2. SumOver(f, Claim) <= SumOver(UnitsTaken, Claim)
    BY <2>1, ReturnsAssumption, SumMonotone
  <2> QED BY <2>2 DEF f
<1>7. SumOver(UnitsTaken', Claim) \in Int /\ SumOver(UnitsTaken, Claim) \in Int
  BY <1>4, ReturnsAssumption, SumType
<1>8. SumOver(UnitsTaken, Claim) <= Units
  BY <1>0 DEF Fits
<1> QED BY <1>6, <1>7, <1>8, ReturnsAssumption

LEMMA FitsStep == RInv /\ Fits /\ [Next]_vars => Fits'
<1> SUFFICES ASSUME RInv, Fits, [Next]_vars PROVE Fits'
  OBVIOUS
<1>0. RInv'
  BY Inductive
<1>1. ASSUME claims' = claims, raced \subseteq raced' PROVE Fits'
  BY <1>1 DEF Fits, UnitsTaken
<1>2. CASE Pass \/ ViewOrder \/ ListClaims
  BY <1>1, <1>2 DEF Pass, ViewOrder, ListClaims, history
<1>3. ASSUME NEW c \in Claim, NEW kind \in Kind, NEW n \in 1 .. Units, File(c, kind, n)
      PROVE  Fits'
  BY <1>0, <1>3, FitsFile
<1>4. ASSUME NEW s \in Slot, NEW c \in Claim, Ask(s, c) PROVE Fits'
  <2>1. claims' = claims /\ raced' = raced
    BY <1>4 DEF Ask, history
  <2> QED BY <1>1, <2>1
<1>5. ASSUME NEW s \in Slot, LookUp(s) \/ Perform(s) PROVE Fits'
  <2>1. claims' = claims /\ raced' = raced
    BY <1>5 DEF LookUp, Perform, history
  <2> QED BY <1>1, <2>1
<1>6. ASSUME NEW s \in Slot, GiveUp(s) PROVE Fits'
  <2>1. claims' = claims /\ raced \subseteq raced'
    BY <1>6 DEF GiveUp, history
  <2> QED BY <1>1, <2>1
<1>7. ASSUME NEW s \in Slot, Save(s) PROVE Fits'
  BY <1>0, <1>7, FitsSave
<1>8. CASE UNCHANGED vars
  <2>1. claims' = claims /\ raced' = raced
    BY <1>8 DEF vars, history
  <2> QED BY <1>1, <2>1
<1> QED BY <1>2, <1>3, <1>4, <1>5, <1>6, <1>7, <1>8, Zenon DEF Next

LEMMA GivenIsSum ==
    MapThenSumSet(LAMBDA c : UnitsGiven[c], Claim) = SumOver(UnitsGiven, Claim)
<1>1. \A it : IsTable(it, UnitsGiven, Claim) <=>
        it = [s \in SUBSET Claim |->
                IF s = {} THEN 0 ELSE UnitsGiven[Picked(s)] + it[s \ {Picked(s)}]]
  BY DEF IsTable
<1>2. (CHOOSE it : IsTable(it, UnitsGiven, Claim))
        = CHOOSE it : it = [s \in SUBSET Claim |->
            IF s = {} THEN 0 ELSE UnitsGiven[Picked(s)] + it[s \ {Picked(s)}]]
  BY <1>1
<1>3. MapThenSumSet(LAMBDA c : UnitsGiven[c], Claim)
        = (CHOOSE it : it = [s \in SUBSET Claim |->
            IF s = {} THEN 0 ELSE UnitsGiven[Picked(s)] + it[s \ {Picked(s)}]])[Claim]
  BY DEF MapThenSumSet, MapThenFoldSet, Picked
<1> QED BY <1>2, <1>3 DEF SumOver

\* With nothing under way and nothing lost, something was or can be given once
\* for a claim, and only if its units are counted as taken.
LEMMA SharesTaken ==
    ASSUME RInv, \A s \in Slot : ~Busy(s), raced = {}, NEW c \in Claim,
           <<c, "refund">> \notin lost, <<c, "replace">> \notin lost
    PROVE  Share(c) \in {0, 1} /\ (Share(c) = 1 => Taken(claims[c]))
<1>1. \A e \in {"refund", "replace"} :
         done[c][e] = (IF Recorded(claims[c], e) THEN 1 ELSE 0)
  <2>1. On(c) = {} /\ c \in Claim \ raced
    BY DEF On
  <2>2. /\ <<c, "refund">> \notin lost => done[c]["refund"]
                = (IF Recorded(claims[c], "refund") THEN 1 ELSE 0)
        /\ <<c, "replace">> \notin lost => done[c]["replace"]
                = (IF Recorded(claims[c], "replace") THEN 1 ELSE 0)
    BY <2>1, DoneHere, Zenon DEF DoneAsRecorded, Effect
  <2> QED BY <2>2, Zenon
<1>2. Coherent(claims[c]) /\ claims[c].status \in Status
  BY DEF RInv, TypeOK, Rows
<1>3. \A e \in {"refund", "replace"} :
         Recorded(claims[c], e) => claims[c].resolution = e
  BY DEF Recorded
<1>4. Given(c) \in {0, 1} /\ (Given(c) = 1 => claims[c].resolution \in {"refund", "replace"})
  <2>1. done[c]["refund"] \in {0, 1} /\ (done[c]["refund"] = 1 => claims[c].resolution = "refund")
    BY <1>1, <1>3
  <2>2. done[c]["replace"] \in {0, 1} /\ (done[c]["replace"] = 1 => claims[c].resolution = "replace")
    BY <1>1, <1>3
  <2> QED BY <2>1, <2>2 DEF Given
<1>5. claims[c].resolution \in {"refund", "replace"} => Entitled(claims[c])
  BY DEF Entitled
<1>6. Entitled(claims[c]) => Taken(claims[c])
  BY <1>2 DEF Coherent, Entitled, Taken
<1> QED BY <1>4, <1>5, <1>6 DEF Share

\* "Two simultaneous claims cannot both take the last unit" (returns.py:59):
\* whatever is rejected, repaired and claimed again, the buyer is given money or
\* new units for no more units than were sold, unless a transition overwrote
\* another one or a refund or a replacement was done and its answer lost.
THEOREM ClaimsCovered == Spec => []ClaimsFit
<1>1. Spec => []Fits
  BY Always, FitsAtFirst, FitsStep, PTL DEF Spec
<1>2. RInv /\ Fits => ClaimsFit
  <2> SUFFICES ASSUME RInv, Fits, \A s \in Slot : ~Busy(s), raced = {},
                      \A c \in Claim : <<c, "refund">> \notin lost
                                     /\ <<c, "replace">> \notin lost
               PROVE  MapThenSumSet(LAMBDA c : UnitsGiven[c], Claim) <= Units
    BY Zenon DEF ClaimsFit
  <2>1. \A c \in Claim : UnitsTaken[c] \in Int
    BY UnitsTakenType DEF RInv
  <2>2. \A c \in Claim : UnitsGiven[c] \in Int /\ UnitsGiven[c] <= UnitsTaken[c]
    <3> SUFFICES ASSUME NEW c \in Claim
                 PROVE  UnitsGiven[c] \in Int /\ UnitsGiven[c] <= UnitsTaken[c]
      OBVIOUS
    <3>1. claims[c].quantity \in Nat
      BY ReturnsAssumption DEF RInv, TypeOK, Rows
    <3>2. Share(c) \in {0, 1} /\ (Share(c) = 1 => Taken(claims[c]))
      BY SharesTaken
    <3>3. UnitsGiven[c] = claims[c].quantity * Share(c)
      BY DEF UnitsGiven
    <3>4. CASE Share(c) = 1
      BY <3>1, <3>2, <3>3, <3>4 DEF UnitsTaken
    <3>5. CASE Share(c) = 0
      <4>1. UnitsGiven[c] = 0 /\ UnitsTaken[c] \in {0, claims[c].quantity}
        BY <3>1, <3>3, <3>5 DEF UnitsTaken
      <4> QED BY <3>1, <4>1
    <3> QED BY <3>2, <3>4, <3>5
  <2>3. /\ SumOver(UnitsGiven, Claim) <= SumOver(UnitsTaken, Claim)
        /\ SumOver(UnitsGiven, Claim) \in Int /\ SumOver(UnitsTaken, Claim) \in Int
    <3>1. \A c \in Claim : UnitsGiven[c] \in Int
      BY <2>2
    <3> QED BY <2>1, <2>2, <3>1, ReturnsAssumption, SumMonotone, SumType
  <2>4. SumOver(UnitsTaken, Claim) <= Units
    BY DEF Fits
  <2>5. SumOver(UnitsGiven, Claim) <= Units
    BY <2>3, <2>4, ReturnsAssumption
  <2> QED BY <2>5, GivenIsSum
<1> QED BY Always, <1>1, <1>2, PTL
=============================================================================

------------------------------- MODULE Returns -------------------------------
(***************************************************************************)
(* Returns and warranty claims for the units of one order line, in         *)
(* order-service (orders/returns.py, returns_views.py), with the page a    *)
(* buyer files them on (frontend my/orders/[id]) and the page the staff    *)
(* moves them on with (frontend admin/returns).                            *)
(*                                                                         *)
(* A transition reads the row of the claim, without a lock, has inventory  *)
(* or Stripe do what belongs to the new status, and then saves the whole   *)
(* row it read.  Requests overlap, calls are refused, answers to them are  *)
(* lost, and the process may die between the call and the save.            *)
(***************************************************************************)
EXTENDS Integers, FiniteSets, FiniteSetsExt

CONSTANTS
    Claim,        \* bounds the claims filed
    Slot,         \* bounds the transitions under way
    Units,        \* units of the order line
    MaxRequests   \* bounds the transitions asked for

ASSUME ReturnsAssumption ==
    Units \in Nat /\ MaxRequests \in Nat /\ IsFiniteSet(Claim)

VARIABLES
    phase,      \* how far the order and its two claim periods are
    warehouse,  \* whether the order names a warehouse
    stripe,     \* whether it was paid through Stripe
    claims,     \* the rows of ReturnRequest
    done,       \* how often inventory or Stripe did what was asked for a claim
    work,       \* the transitions under way
    list,       \* the page of the staff: the status of each claim
    page,       \* the page of the buyer: the phase, and the units free to claim
    lost,       \* history: what was done for a claim that was not saved
    raced,      \* history: claims two transitions of which got in each other's way
    requests

order == <<phase, warehouse, stripe>>
pages == <<list, page>>
history == <<lost, raced>>
vars == <<order, claims, done, work, pages, history, requests>>

Kind == {"return", "warranty"}
Status == {"none", "submitted", "approved", "received", "resolved", "rejected"}
Resolution == {"none", "refund", "replace", "repair"}
Effect == {"restock", "refund", "replace"}

NoRow == [status |-> "none", kind |-> "return", quantity |-> 0,
          restocked |-> FALSE, resolution |-> "none"]

-----------------------------------------------------------------------------
(* Filing a claim.                                                         *)

Phases == <<"sold", "returnable", "guaranteed", "expired">>

\* claim_deadline, openKinds
OpenKinds(p) == CASE p = "returnable" -> Kind
                  [] p = "guaranteed" -> {"warranty"}
                  [] OTHER -> {}

\* Mutant: a settled claim gives its units back.
TakenByLive(row) == row.status \notin {"none", "rejected", "resolved"}

\* "Units not already covered by a live or settled claim"
Taken(row) ==
    /\ row.status \notin {"none", "rejected"}
    /\ ~(row.status = "resolved" /\ row.resolution = "repair")

Claimed == MapThenSumSet(LAMBDA c : claims[c].quantity,
                         {c \in Claim : Taken(claims[c])})

\* The order is handed over, and time goes by.
Pass ==
    /\ \E i \in 1 .. 3 : phase = Phases[i] /\ phase' = Phases[i + 1]
    /\ UNCHANGED <<warehouse, stripe, claims, done, work, pages, history, requests>>

\* The buyer's page reads the order and its claims.
ViewOrder ==
    /\ page' = [phase |-> phase, free |-> Units - Claimed]
    /\ UNCHANGED <<order, claims, done, work, list, history, requests>>

\* ReturnDialog offers what was open and free when the page was read; the
\* service looks again, with the order line locked. The page may miss the
\* answer.
File(c, kind, n) ==
    /\ kind \in OpenKinds(page.phase) /\ n <= page.free
    /\ claims[c].status = "none"
    /\ kind \in OpenKinds(phase) /\ n <= Units - Claimed
    /\ claims' = [claims EXCEPT ![c] =
           [NoRow EXCEPT !.status = "submitted", !.kind = kind, !.quantity = n]]
    /\ page' \in {page, [phase |-> phase, free |-> Units - Claimed - n]}
    /\ UNCHANGED <<order, done, work, list, history, requests>>

-----------------------------------------------------------------------------
(* Moving it on.                                                           *)

\* STATUS_TRANSITIONS, NEXT
Transitions(status) ==
    CASE status = "submitted" -> {"approved", "rejected"}
      [] status = "approved" -> {"received", "rejected"}
      [] status = "received" -> {"resolved", "rejected"}
      [] OTHER -> {}

\* The page of the staff reads its list.
ListClaims ==
    /\ list' = [c \in Claim |-> claims[c].status]
    /\ UNCHANGED <<order, claims, done, work, page, history, requests>>

Resolutions(to, kind) ==
    IF to # "resolved" THEN {"none"}
    ELSE {"refund", "replace"} \union (IF kind = "warranty" THEN {"repair"} ELSE {})

\* What has to be done elsewhere before the row is saved.
EffectOf(to, restock, resolution) ==
    CASE to = "received" /\ restock -> "restock"
      [] resolution = "refund" /\ stripe -> "refund"
      [] resolution = "replace" -> "replace"
      [] OTHER -> "none"

\* Mutant: a claim can be rejected after its unit went back on the shelf.
RefusedNever(row, to, effect) == effect \in {"restock", "replace"} /\ ~warehouse

Refused(row, to, effect) ==
    \/ to = "rejected" /\ row.restocked
    \/ effect \in {"restock", "replace"} /\ ~warehouse

Idle == [stage |-> "idle"]
Busy(s) == work[s] # Idle
On(c) == {s \in Slot : Busy(s) /\ work[s].claim = c}
Advance(s, stage) == work' = [work EXCEPT ![s].stage = stage]

\* A button of the page, and transition up to its first call. A refused request
\* changes nothing.
Ask(s, c) ==
    LET row == claims[c] IN
    /\ requests < MaxRequests /\ requests' = requests + 1
    /\ ~Busy(s)
    /\ \E to \in Transitions(list[c]) \intersect Transitions(row.status),
          restock \in BOOLEAN :
       /\ restock => to = "received"
       /\ \E resolution \in Resolutions(to, row.kind) :
          LET effect == EffectOf(to, restock, resolution) IN
          /\ ~Refused(row, to, effect)
          /\ work' = [work EXCEPT ![s] = [stage |-> "read", claim |-> c, row |-> row,
                          to |-> to, effect |-> effect, resolution |-> resolution]]
    /\ UNCHANGED <<order, claims, done, pages, history>>

\* return_to_stock looks for its key before it locks the stock.
LookUp(s) ==
    /\ Busy(s) /\ work[s].stage = "read" /\ work[s].effect = "restock"
    /\ Advance(s, IF done[work[s].claim]["restock"] = 0 THEN "new" ELSE "known")
    /\ UNCHANGED <<order, claims, done, pages, history, requests>>

\* Inventory or Stripe does it. deduct_batch and Stripe look for the key and
\* act in one step.
Perform(s) ==
    LET w == work[s]
        again == w.stage = "known" \/ (w.effect # "restock" /\ done[w.claim][w.effect] > 0)
    IN
    /\ Busy(s)
    /\ w.effect \in Effect
    /\ w.stage \in (IF w.effect = "restock" THEN {"new", "known"} ELSE {"read"})
    /\ done' = IF again THEN done ELSE [done EXCEPT ![w.claim][w.effect] = @ + 1]
    /\ Advance(s, "acted")
    /\ UNCHANGED <<order, claims, pages, history, requests>>

\* The call is refused or does not arrive, its answer is lost, or the process
\* dies: in any case nothing is saved.
GiveUp(s) ==
    LET w == work[s] IN
    /\ Busy(s) /\ work' = [work EXCEPT ![s] = Idle]
    /\ IF w.stage = "acted"
       THEN /\ lost' = lost \union {<<w.claim, w.effect>>}
            /\ raced' = raced \union (IF On(w.claim) = {s} THEN {} ELSE {w.claim})
       ELSE UNCHANGED history
    /\ UNCHANGED <<order, claims, done, pages, requests>>

\* Mutant: update_fields forgets what the call has changed.
SavedInPart(w) == [claims[w.claim] EXCEPT !.status = w.to]

\* ret.save(): the row as it was read, with what the transition set.
Saved(w) ==
    [w.row EXCEPT !.status = w.to, !.restocked = @ \/ w.effect = "restock",
                  !.resolution = w.resolution]

Save(s) ==
    LET w == work[s] IN
    /\ Busy(s) /\ w.stage = (IF w.effect = "none" THEN "read" ELSE "acted")
    /\ claims' = [claims EXCEPT ![w.claim] = Saved(w)]
    /\ work' = [work EXCEPT ![s] = Idle]
    /\ lost' = lost \ {<<w.claim, w.effect>>}
    /\ raced' = raced \union (IF claims[w.claim] = w.row THEN {} ELSE {w.claim})
    /\ UNCHANGED <<order, done, pages, requests>>

-----------------------------------------------------------------------------
Init ==
    /\ phase = "sold" /\ warehouse \in BOOLEAN /\ stripe \in BOOLEAN
    /\ claims = [c \in Claim |-> NoRow]
    /\ done = [c \in Claim |-> [e \in Effect |-> 0]]
    /\ work = [s \in Slot |-> Idle]
    /\ list = [c \in Claim |-> "none"]
    /\ page = [phase |-> "sold", free |-> Units]
    /\ lost = {} /\ raced = {} /\ requests = 0

Next ==
    \/ Pass \/ ViewOrder \/ ListClaims
    \/ \E c \in Claim, kind \in Kind, n \in 1 .. Units : File(c, kind, n)
    \/ \E s \in Slot, c \in Claim : Ask(s, c)
    \/ \E s \in Slot : LookUp(s) \/ Perform(s) \/ GiveUp(s) \/ Save(s)

Spec == Init /\ [][Next]_vars

-----------------------------------------------------------------------------
(* Properties.                                                             *)

Rows == [status: Status, kind: Kind, quantity: 0 .. Units,
         restocked: BOOLEAN, resolution: Resolution]

\* What the columns of a row say together.
Coherent(row) ==
    /\ row.resolution # "none" => row.status = "resolved"
    /\ row.resolution = "repair" => row.kind = "warranty"
    /\ row.restocked => row.status \in {"received", "resolved"}

WorkType == [stage: {"read", "new", "known", "acted"}, claim: Claim, row: Rows,
             to: Status, effect: Effect \union {"none"}, resolution: Resolution]

\* Types, and rows whose columns belong together, although two requests may
\* each save the whole row they read (returns.py:127-130).
TypeOK ==
    /\ phase \in {"sold", "returnable", "guaranteed", "expired"}
    /\ warehouse \in BOOLEAN /\ stripe \in BOOLEAN
    /\ claims \in [Claim -> Rows] /\ \A c \in Claim : Coherent(claims[c])
    /\ done \in [Claim -> [Effect -> Nat]]
    /\ work \in [Slot -> WorkType \union {Idle}]
    /\ list \in [Claim -> Status]
    /\ page.phase \in {"sold", "returnable", "guaranteed", "expired"}
    /\ lost \in SUBSET (Claim \X (Effect \union {"none"})) /\ raced \in SUBSET Claim
    /\ requests \in 0 .. MaxRequests

\* Something went to the buyer for these units, or still may.
Entitled(row) == \/ row.status \in {"submitted", "approved", "received"}
                 \/ row.resolution \in {"refund", "replace"}

\* How often something went to the buyer for the units of the claim, or once if it
\* still may: inventory and Stripe are counted, not only the row.
Given(c) == done[c]["refund"] + done[c]["replace"]
Share(c) == IF Given(c) = 0 /\ Entitled(claims[c]) THEN 1 ELSE Given(c)
UnitsGiven == [c \in Claim |-> claims[c].quantity * Share(c)]

\* "two simultaneous claims cannot both take the last unit" (returns.py:59):
\* whatever is rejected, repaired and claimed again, the buyer is given money or
\* new units for no more units than were sold. There are two exceptions, in which
\* the code does give twice: a transition overwrote what another had saved, and a
\* refund or a replacement was done but its answer was lost, until the same
\* transition is asked for again. (In the second one the staff may reject the
\* claim, or resolve it the other way, and its units are free to be claimed.)
ClaimsFit ==
    /\ \A s \in Slot : ~Busy(s)
    /\ raced = {}
    /\ \A c \in Claim : <<c, "refund">> \notin lost /\ <<c, "replace">> \notin lost
    => MapThenSumSet(LAMBDA c : UnitsGiven[c], Claim) <= Units

Recorded(row, e) ==
    CASE e = "restock" -> row.restocked
      [] e = "refund" -> row.resolution = "refund" /\ stripe
      [] e = "replace" -> row.resolution = "replace"

\* When nothing is under way for a claim, its unit went back on the shelf, its
\* money went back to the buyer and a new unit went out exactly as the row
\* says, and not twice: "a failed refund or stock call leaves the claim where
\* it was" (returns.py:85). The exceptions are transitions that got in each
\* other's way, and what was done but not saved, until the same transition is
\* asked for again.
DoneAsRecorded ==
    \A c \in Claim \ raced, e \in Effect :
        On(c) = {} /\ <<c, e>> \notin lost =>
            done[c][e] = (IF Recorded(claims[c], e) THEN 1 ELSE 0)
=============================================================================

------------------------------- MODULE Delivery -------------------------------
(***************************************************************************)
(* What the event bus promises of an event and a queue it is bound to: once *)
(* the change it reports is committed, the queue's consumer handles it at   *)
(* most once, or misses it for good.                                        *)
(***************************************************************************)
CONSTANTS Event, Queue,
          Bound   \* pairs <<q, e>>: queue q is bound to the key of event e

VARIABLE outcome  \* [Queue -> [Event -> Outcome]]

\* Refused: a copy was thrown away that nobody had claimed.
Outcome == {"none", "open", "refused", "handled", "missed"}
Undecided == {"open", "refused"}

Init == outcome = [q \in Queue |-> [e \in Event |-> "none"]]

\* A transaction commits and its events are due.
Commit(E) ==
    /\ \A e \in E, q \in Queue : outcome[q][e] = "none"
    /\ outcome' = [q \in Queue |-> [e \in Event |->
                     IF e \in E /\ <<q, e>> \in Bound THEN "open"
                     ELSE outcome[q][e]]]

Handle(q, e) ==
    /\ outcome[q][e] \in Undecided
    /\ outcome' = [outcome EXCEPT ![q][e] = "handled"]

\* Any number of deliveries are lost for good, or lose a copy.
Lose(D, R) ==
    /\ \A d \in D \cup R : outcome[d[1]][d[2]] \in Undecided
    /\ outcome' = [q \in Queue |-> [e \in Event |->
                     IF <<q, e>> \in D THEN "missed"
                     ELSE IF <<q, e>> \in R THEN "refused" ELSE outcome[q][e]]]

Next ==
    \/ \E E \in SUBSET Event : Commit(E)
    \/ \E q \in Queue, e \in Event : Handle(q, e)
    \/ \E D, R \in SUBSET (Queue \X Event) : Lose(D, R)

Spec == Init /\ [][Next]_outcome
=============================================================================

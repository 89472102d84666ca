------------------------------ MODULE MCEventBus ------------------------------
(***************************************************************************)
(* Small instances of EventBus for TLC.                                     *)
(***************************************************************************)
EXTENDS EventBus, TLC

CONSTANTS e1, e2

\* A request publishes one of the events, or both.
MCAny == {<<e1>>, <<e2>>, <<e1, e2>>}

\* notification-service dispatches by the key its queue is bound with.
MCCreated  == [e \in Event |-> "order.created"]
MCToOrders == [q \in Queue |-> "order.created"]
MCByKey    == [q \in Queue |-> {"order.created"}]

\* product-service: QUEUE_MAP of products/eventbus.py is keyed by queue.
MCChanged  == [e \in Event |-> "inventory.stock.changed"]
MCToStock  == [q \in Queue |-> "inventory.stock.changed"]
MCByQueue  == [q \in Queue |-> {"product.stock.sync", "product.catalog.update"}]
=============================================================================

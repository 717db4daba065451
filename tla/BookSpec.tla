------------------------------ MODULE BookSpec ------------------------------
(***************************************************************************)
(* What an order-level book promises, without its data structures: the     *)
(* exact effect of every call on its queues of orders.  Module L3Book      *)
(* implements it.                                                          *)
(***************************************************************************)
EXTENDS BookEffects

VARIABLES
  queue,   \* [line -> sequence of resting orders]
  call     \* the last call

Init ==
  /\ queue = NoOrders
  /\ call = NoCall

Next ==
  /\ call' \in Call
  /\ queue' = Effect(queue, call')

Spec == Init /\ [][Next]_<<queue, call>>
=============================================================================

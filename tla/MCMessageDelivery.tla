------------------------- MODULE MCMessageDelivery -------------------------
(* Small instances of MessageDelivery for TLC. *)
EXTENDS MessageDelivery

CONSTANT m1

\* None, over before it began, below MaxDelay, two hops of which the first is capped.
MCDelays == {None, -1, 1, 3}
============================================================================

--------------------------- MODULE MCSagaCommands ---------------------------
(* Small instances of SagaCommands for TLC. *)
EXTENDS SagaCommands

CONSTANTS k1, k2, l1

\* Every command is for the same saga.
MCOneSaga == [m \in Messages |-> k1]
\* The commands that both start and correlate are for a saga of their own.
MCTwoSagas == [m \in Messages |-> IF m \in Starting \cap Correlated THEN k2 ELSE k1]
\* ("ab", "c") and ("a", "bc"): two keys whose concatenations are equal.
MCSameName == [k \in Keys |-> l1]

MCDeliveries == Deliveries
=============================================================================

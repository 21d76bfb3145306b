---------------------------- MODULE MCSagaEvents ----------------------------
(* Small instances of SagaEvents for TLC. *)
EXTENDS SagaEvents

CONSTANTS k1, k2, l1, l2, e1, s2

MCTwoKeys == <<k1, k2>>
MCOneKey == <<k1>>
\* Every command is for the first saga but s2, which starts the second.
MCKeyOf == [c \in Commands |-> IF c = s2 THEN k2 ELSE k1]
MCOwnLock == [k \in Keys |-> IF k = k1 THEN l1 ELSE l2]
\* The handler of e1 may throw for the first saga, or for the second.
MCFirstThrows == {<<e1, k1>>}
MCSecondThrows == {<<e1, k2>>}
=============================================================================

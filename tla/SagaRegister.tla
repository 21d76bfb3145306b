---------------------------- MODULE SagaRegister ----------------------------
(***************************************************************************)
(* What a saga promises its author, whatever the processes that serve it   *)
(* do: the data of a saga key is a register that appears when a command    *)
(* starts it, that every later command changes starting from the data the  *)
(* previous one left, and that disappears when a command finishes it.  No  *)
(* update is lost and no update is made to data that is not current.       *)
(***************************************************************************)
EXTENDS Sequences

CONSTANTS Messages, Keys, Starting, Correlated, Finishing, KeyOf, NoData

VARIABLES
    data,       \* data[k]: the commands applied to the live saga k, in order
    closed      \* closed[k]: the data of the finished sagas of k, oldest first

vars == <<data, closed>>

Init ==
    /\ data = [k \in Keys |-> NoData]
    /\ closed = [k \in Keys |-> <<>>]

Start(m) ==
    /\ m \in Starting
    /\ data[KeyOf[m]] = NoData
    /\ data' = [data EXCEPT ![KeyOf[m]] = <<m>>]
    /\ UNCHANGED closed

Handle(m) ==
    /\ m \in Correlated \ Finishing
    /\ data[KeyOf[m]] # NoData
    /\ data' = [data EXCEPT ![KeyOf[m]] = Append(@, m)]
    /\ UNCHANGED closed

\* The finishing command sees all the data there is.
Finish(m) ==
    /\ m \in Correlated \cap Finishing
    /\ data[KeyOf[m]] # NoData
    /\ data' = [data EXCEPT ![KeyOf[m]] = NoData]
    /\ closed' = [closed EXCEPT ![KeyOf[m]] =
                     Append(@, Append(data[KeyOf[m]], m))]

Next == \E m \in Messages : Start(m) \/ Handle(m) \/ Finish(m)

Spec == Init /\ [][Next]_vars

=============================================================================

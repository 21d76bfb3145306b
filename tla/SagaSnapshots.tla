---------------------------- MODULE SagaSnapshots ----------------------------
(***************************************************************************)
(* What sagas can expect of events, whatever the processes that handle     *)
(* them do: an event visits the sagas its query found, in the query's      *)
(* order and one at a time, and leaves none out unless it abandons the     *)
(* pass.  It changes the data that the query found, not the data of now,   *)
(* but only in a saga that is still as it was when the event read it       *)
(* again.  An event is consumed when a pass has come to its end.           *)
(***************************************************************************)
EXTENDS Sequences, Naturals

CONSTANTS Keys, Events, Commands, Starting, Finishing, Closing, KeyOf, NoData

VARIABLES
    data,       \* data[k]: the messages applied to the live saga k, in order
    phase,      \* phase[e]: "idle", "asking", "visiting" or "consumed"
    seen,       \* seen[e]: pairs <<k, data>> that the query found, yet to be visited
    fresh       \* pairs <<m, k>>: k is as it was when m read it again

vars == <<data, phase, seen, fresh>>

Init ==
    /\ data = [k \in Keys |-> NoData]
    /\ phase = [e \in Events |-> "idle"]
    /\ seen = [e \in Events |-> <<>>]
    /\ fresh = {}

\* Whoever has read k has read something old.
Write(k, d) ==
    /\ data' = [data EXCEPT ![k] = d]
    /\ fresh' = {p \in fresh : p[2] # k}

Reread(m, k) ==
    /\ data[k] # NoData
    /\ fresh' = fresh \cup {<<m, k>>}
    /\ UNCHANGED <<data, phase, seen>>

----------------------------------------------------------------------------
(* Commands *)

Start(c) ==
    /\ c \in Starting
    /\ data[KeyOf[c]] = NoData
    /\ Write(KeyOf[c], <<c>>)
    /\ UNCHANGED <<phase, seen>>

Update(c) ==
    /\ c \notin Starting \cup Finishing
    /\ data[KeyOf[c]] # NoData
    /\ Write(KeyOf[c], Append(data[KeyOf[c]], c))
    /\ UNCHANGED <<phase, seen>>

Finish(c) ==
    /\ c \in Finishing
    /\ <<c, KeyOf[c]>> \in fresh
    /\ Write(KeyOf[c], NoData)
    /\ UNCHANGED <<phase, seen>>

----------------------------------------------------------------------------
(* Events *)

Deliver(e) ==
    /\ phase[e] = "idle"
    /\ phase' = [phase EXCEPT ![e] = "asking"]
    /\ UNCHANGED <<data, seen, fresh>>

\* Live sagas are found, with the data they have, and join the list.
Find(e) ==
    /\ phase[e] = "asking"
    /\ \E next \in {"asking", "visiting"} : phase' = [phase EXCEPT ![e] = next]
    /\ seen' = [seen EXCEPT ![e] = seen'[e]]
    /\ Len(seen[e]) <= Len(seen'[e])
    /\ \A i \in 1..Len(seen[e]) : seen'[e][i] = seen[e][i]
    /\ \A i \in (Len(seen[e]) + 1)..Len(seen'[e]) :
          \E k \in Keys : data[k] # NoData /\ seen'[e][i] = <<k, data[k]>>
    /\ UNCHANGED <<data, fresh>>

Visiting(e) == phase[e] = "visiting" /\ seen[e] # <<>>

\* On to the next saga, or nowhere.
Leave(e) ==
    \/ seen' = [seen EXCEPT ![e] = Tail(@)] /\ UNCHANGED phase
    \/ seen' = [seen EXCEPT ![e] = <<>>] /\ phase' = [phase EXCEPT ![e] = "idle"]

LookAgain(e) == Visiting(e) /\ Reread(e, Head(seen[e])[1])

Apply(e) ==
    /\ Visiting(e) /\ e \notin Closing
    /\ <<e, Head(seen[e])[1]>> \in fresh
    /\ Write(Head(seen[e])[1], Append(Head(seen[e])[2], e))
    /\ Leave(e)

Close(e) ==
    /\ Visiting(e) /\ e \in Closing
    /\ <<e, Head(seen[e])[1]>> \in fresh
    /\ Write(Head(seen[e])[1], NoData)
    /\ Leave(e)

Abandon(e) ==
    /\ phase[e] \in {"asking", "visiting"}
    /\ phase' = [phase EXCEPT ![e] = "idle"]
    /\ seen' = [seen EXCEPT ![e] = <<>>]
    /\ fresh' = {p \in fresh : p[1] # e}
    /\ UNCHANGED data

Consume(e) ==
    /\ phase[e] = "visiting" /\ seen[e] = <<>>
    /\ phase' = [phase EXCEPT ![e] = "consumed"]
    /\ UNCHANGED <<data, seen, fresh>>

Next ==
    \/ \E c \in Commands :
          \/ Start(c) \/ Update(c) \/ Finish(c)
          \/ c \in Finishing /\ Reread(c, KeyOf[c])
    \/ \E e \in Events :
          \/ Deliver(e) \/ Find(e) \/ LookAgain(e) \/ Apply(e) \/ Close(e)
          \/ Abandon(e) \/ Consume(e)

Spec == Init /\ [][Next]_vars

=============================================================================

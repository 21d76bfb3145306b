------------------------------- MODULE Mailbox -------------------------------
(***************************************************************************)
(* What those who send and handle messages can rely on, whatever becomes   *)
(* of the queue's copies, the files with bodies and the processes: a       *)
(* message that was put on the queue is kept until its handlers have run;  *)
(* they run when it is due, and once more at most for every trouble; and a *)
(* message is given up only after enough troubles, or for want of a        *)
(* handler.  Nothing but its being kept is promised of a message that is   *)
(* so near the size limit that its size is not settled ("edge").           *)
(***************************************************************************)
EXTENDS Integers

CONSTANTS
    Messages,
    None,           \* no time in particular
    Grace,          \* how much too early a handler may run
    Patience        \* troubles that it takes to give a message up

VARIABLES
    now,
    sent,           \* sent[m]: its size, whether it has a handler, and when it is due
    kept,           \* messages that are in the mailbox, whole
    runs,           \* runs[m]: how often the handlers of m ran
    handled,        \* messages whose handlers are done
    dead,           \* messages that were given up
    troubles

vars == <<now, sent, kept, runs, handled, dead, troubles>>

Init ==
    /\ now = 0
    /\ sent = [m \in Messages |-> [size |-> "small", known |-> TRUE, wake |-> None]]
    /\ kept = {}
    /\ runs = [m \in Messages |-> 0]
    /\ handled = {}
    /\ dead = {}
    /\ troubles = 0

\* What happens may come with a trouble.
MayFail == troubles' \in {troubles, troubles + 1}

Edge(m) == sent[m].size = "edge"
Due(m) == sent[m].wake # None => now >= sent[m].wake - Grace

Elapse == now' = now + 1 /\ UNCHANGED <<sent, kept, runs, handled, dead, troubles>>

Fail == troubles' = troubles + 1 /\ UNCHANGED <<now, sent, kept, runs, handled, dead>>

\* The sender decides what is sent, and not any more when it is in the mailbox.
Ask(m) ==
    /\ m \notin kept \cup handled
    /\ sent' = [sent EXCEPT ![m] = sent'[m]]
    /\ UNCHANGED <<now, kept, runs, handled, dead, troubles>>

Put(m) ==
    /\ kept' = kept \cup {m}
    /\ MayFail
    /\ UNCHANGED <<now, sent, runs, handled, dead>>

Run(m) ==
    /\ m \in kept \cup handled
    /\ sent[m].known /\ Due(m)
    /\ Edge(m) \/ runs[m] <= troubles
    /\ runs' = [runs EXCEPT ![m] = @ + 1]
    /\ UNCHANGED <<now, sent, kept, handled, dead, troubles>>

Finish(m) ==
    /\ runs[m] > 0
    /\ handled' = handled \cup {m}
    /\ UNCHANGED <<now, sent, kept, runs, dead, troubles>>

Drop(m) ==
    /\ m \in handled
    /\ kept' = kept \ {m}
    /\ MayFail
    /\ UNCHANGED <<now, sent, runs, handled, dead>>

GiveUp(m) ==
    /\ m \in kept \cup handled
    /\ troubles >= Patience \/ ~sent[m].known \/ Edge(m)
    /\ dead' = dead \cup {m}
    /\ UNCHANGED <<now, sent, kept, runs, handled, troubles>>

Next ==
    \/ \E m \in Messages : Ask(m) \/ Put(m) \/ Run(m) \/ Finish(m) \/ Drop(m) \/ GiveUp(m)
    \/ Elapse \/ Fail

Spec == Init /\ [][Next]_vars

=============================================================================

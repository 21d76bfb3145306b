----------------------- MODULE MessageDeliveryProofs -----------------------
(***************************************************************************)
(* Theorems about MessageDelivery, for every set of messages and delays,   *)
(* every limit and every number of copies, mishaps and ticks: no message   *)
(* vanishes, none comes too early, and what happens once more, or what is  *)
(* given up, is owed to a mishap.                                          *)
(***************************************************************************)
EXTENDS MessageDelivery, CountingLemmas, SequenceTheorems

----------------------------------------------------------------------------
(* Processes and copies *)

Sending == {"upload", "add"}

\* Contexts that are on the queue, or on their way there.
OnWire ==
    [msg : Messages, delayed : (0 .. MaxDelay) \cup {None},
     inFile : BOOLEAN, body : 0 .. uploads]
OnQueue ==
    [ctx : OnWire, visible : Nat,
     at : {"queue", "hidden", "deleted", "poison"}, dequeues : 0 .. MaxDequeueCount]

CountsOK ==
    /\ now \in 0 .. MaxTime
    /\ files \subseteq 1 .. uploads
    /\ uploads \in Nat
    /\ mishaps \in 0 .. MaxMishaps
    /\ runs \in [Messages -> Nat]
    /\ handled \subseteq Messages
CopiesOK == copies \in Seq(OnQueue) /\ Len(copies) <= MaxCopies
ProcessesOK ==
    /\ pc \in [Processes -> Steps \cup {"idle", "over"}]
    /\ out \in [Processes -> OnWire]
SentOK == sent \in [Messages -> [size : Sizes, known : BOOLEAN, wake : Int \cup {None}]]

\* The message that p sends or handles.
Of(p) == IF p \in Messages THEN p ELSE Ctx(p).msg

\* A context with a delay is due some time.
Timed(ctx) == ctx.delayed # None => sent[ctx.msg].wake \in Int

\* Who sends a copy has been asked to; who handles one has received it.
SenderOK(m) ==
    /\ pc[m] \in Sending \cup {"idle", "over"}
    /\ pc[m] = "idle" => sent[m] = NotSent
SendingOK(p) ==
    /\ p \in Attempts /\ pc[p] # "idle" => p[1] \in DOMAIN copies
    /\ pc[p] \in Sending => out[p].msg = Of(p) /\ Timed(out[p])
CopyOK(c) == pc[copies[c].ctx.msg] # "idle" /\ Timed(copies[c].ctx)

TypeInv ==
    /\ CountsOK /\ CopiesOK /\ ProcessesOK /\ SentOK
    /\ \A m \in Messages : SenderOK(m)
    /\ \A p \in Processes : SendingOK(p)
    /\ \A c \in DOMAIN copies : CopyOK(c)

\* The type invariant is part of the inductive one.
LEMMA TypeInvTypes == TypeInv => TypeOK
<1> SUFFICES ASSUME TypeInv PROVE TypeOK
  OBVIOUS
<1>1. OnWire \subseteq Contexts
  BY LimitsAreNat DEF OnWire, Contexts, TypeInv, CountsOK
<1> QED
  BY <1>1 DEF TypeInv, TypeOK, CountsOK, CopiesOK, ProcessesOK, SentOK, OnWire, OnQueue

\* A process is a sender or an attempt, and an attempt has a copy and a number.
LEMMA Kinds ==
    /\ \A p \in Processes : p \in Messages \/ p \in Attempts
    /\ \A p \in Attempts : /\ p \in Processes /\ p \notin Messages
                           /\ p = <<p[1], p[2]>>
                           /\ p[1] \in 1 .. MaxCopies /\ p[2] \in 1 .. MaxDequeueCount
    /\ \A m \in Messages : m \in Processes /\ m \notin Attempts
    /\ \A c \in 1 .. MaxCopies, n \in 1 .. MaxDequeueCount : <<c, n>> \in Attempts
BY SendersAreNoAttempts DEF Processes, Attempts

\* The copies are numbered from the oldest.
LEMMA CopiesTyped ==
    ASSUME CopiesOK
    PROVE  /\ Len(copies) \in Nat
           /\ DOMAIN copies = 1 .. Len(copies)
           /\ DOMAIN copies \subseteq 1 .. MaxCopies
           /\ \A c \in DOMAIN copies : copies[c] \in OnQueue
<1>1. copies \in Seq(OnQueue) /\ Len(copies) <= MaxCopies
  BY DEF CopiesOK
<1>2. /\ Len(copies) \in Nat /\ DOMAIN copies = 1 .. Len(copies)
      /\ copies \in [1 .. Len(copies) -> OnQueue]
  BY <1>1, LenProperties
<1> QED
  BY <1>1, <1>2, LimitsAreNat

\* Goto moves one process, and clears the context of one that is over.
LEMMA GotoMoves ==
    ASSUME ProcessesOK, NEW p \in Processes, NEW step, Goto(p, step)
    PROVE  /\ pc'[p] = step
           /\ out'[p] = IF step = "over" THEN NoContext ELSE out[p]
           /\ \A q \in Processes \ {p} : pc'[q] = pc[q] /\ out'[q] = out[q]
BY DEF ProcessesOK, Goto

\* Only the process that takes a step moves.
Others(p) == \A q \in Processes \ {p} : pc'[q] = pc[q] /\ out'[q] = out[q]

\* No context is the one of nothing.
LEMMA NoContextTyped == CountsOK => NoContext \in OnWire
BY SendersAreNoAttempts DEF NoContext, OnWire, CountsOK, Inline

\* A file's number stays a file's number.
LEMMA WireGrows ==
    ASSUME CountsOK, uploads' \in Nat, uploads <= uploads'
    PROVE  OnWire \subseteq OnWire' /\ OnQueue \subseteq OnQueue'
BY DEF CountsOK, OnWire, OnQueue

\* What SendMessageAsync has before its first storage call.
LEMMA NewContext ==
    ASSUME ProcessesOK, CountsOK, UNCHANGED uploads, NEW p \in Processes, NEW m \in Messages,
           NEW size \in Sizes, NEW delay \in Int \cup {None}, NEW inFile \in BOOLEAN,
           SendMessage(p, m, size, delay, inFile)
    PROVE  /\ ProcessesOK' /\ Others(p)
           /\ pc'[p] \in Sending
           /\ out'[p].msg = m /\ out'[p].body = Inline
           /\ out'[p].delayed = Capped(delay)
           /\ inFile \/ pc'[p] = "upload" <=> out'[p].inFile
           /\ size = "small" => pc'[p] = "add"
           /\ size = "big" => pc'[p] = "upload"
<1>1. PICK big \in TooBig(size) :
        /\ out' = [out EXCEPT ![p] = [msg |-> m, delayed |-> Capped(delay),
                                      inFile |-> inFile \/ big, body |-> Inline]]
        /\ pc' = [pc EXCEPT ![p] = IF big THEN "upload" ELSE "add"]
  BY DEF SendMessage
<1>2. big \in BOOLEAN /\ (size = "small" => ~big) /\ (size = "big" => big)
  BY DEF TooBig, Sizes
<1>3. Capped(delay) \in (0 .. MaxDelay) \cup {None}
  BY LimitsAreNat, DelaysAreTimes DEF Capped
<1>4. [msg |-> m, delayed |-> Capped(delay), inFile |-> inFile \/ big, body |-> Inline]
        \in OnWire
  BY <1>2, <1>3 DEF OnWire, Inline, CountsOK
<1>5. OnWire' = OnWire
  BY DEF OnWire
<1>6. ProcessesOK'
  BY <1>1, <1>4, <1>5 DEF ProcessesOK, Steps
<1> QED
  BY <1>1, <1>2, <1>6 DEF ProcessesOK, Others, Sending
\* What the service or a receiver notes of a copy leaves its context.
LEMMA MarkCopy ==
    ASSUME CopiesOK, UNCHANGED uploads, NEW c \in DOMAIN copies, NEW r \in OnQueue,
           r.ctx = copies[c].ctx, copies' = [copies EXCEPT ![c] = r]
    PROVE  /\ CopiesOK'
           /\ DOMAIN copies' = DOMAIN copies
           /\ copies'[c] = r
           /\ \A d \in DOMAIN copies \ {c} : copies'[d] = copies[d]
<1>1. copies \in Seq(OnQueue) /\ Len(copies) <= MaxCopies /\ OnQueue' = OnQueue
  BY DEF CopiesOK, OnQueue, OnWire
<1>2. DOMAIN copies = 1 .. Len(copies)
  BY CopiesTyped
<1>3. /\ copies' \in Seq(OnQueue) /\ Len(copies') = Len(copies)
      /\ \A j \in 1 .. Len(copies) : copies'[j] = IF j = c THEN r ELSE copies[j]
  BY <1>1, <1>2, ExceptSeq
<1>4. DOMAIN copies' = 1 .. Len(copies')
  BY <1>3, LenProperties
<1> QED
  BY <1>1, <1>2, <1>3, <1>4 DEF CopiesOK

\* A new copy comes after all the others.
LEMMA NewCopy ==
    ASSUME CopiesOK, UNCHANGED uploads, Len(copies) < MaxCopies, NEW r \in OnQueue,
           copies' = Append(copies, r)
    PROVE  /\ CopiesOK'
           /\ DOMAIN copies' = DOMAIN copies \cup {Len(copies) + 1}
           /\ copies'[Len(copies) + 1] = r
           /\ \A d \in DOMAIN copies : copies'[d] = copies[d] /\ d < Len(copies) + 1
<1>1. copies \in Seq(OnQueue) /\ Len(copies) <= MaxCopies /\ OnQueue' = OnQueue
  BY DEF CopiesOK, OnQueue, OnWire
<1>2. DOMAIN copies = 1 .. Len(copies) /\ Len(copies) \in Nat
  BY CopiesTyped
<1>3. /\ copies' \in Seq(OnQueue) /\ Len(copies') = Len(copies) + 1
      /\ \A j \in 1 .. Len(copies) : copies'[j] = copies[j]
      /\ copies'[Len(copies) + 1] = r
  BY <1>1, <1>2, AppendProperties
<1>4. DOMAIN copies' = 1 .. Len(copies')
  BY <1>3, LenProperties
<1> QED
  BY <1>1, <1>2, <1>3, <1>4, LimitsAreNat DEF CopiesOK

\* How a step may change the copies: one is added, the marks of one change, or
\* nothing does.
Adds(p) ==
    /\ pc[p] = "add"
    /\ DOMAIN copies' = DOMAIN copies \cup {Len(copies) + 1}
    /\ copies'[Len(copies) + 1].ctx = out[p]
    /\ copies'[Len(copies) + 1].at = "queue"
    /\ copies'[Len(copies) + 1].dequeues = 0
    /\ \A d \in DOMAIN copies : copies'[d] = copies[d] /\ d < Len(copies) + 1
Marks(c, at, dequeues) ==
    /\ DOMAIN copies' = DOMAIN copies
    /\ copies'[c].ctx = copies[c].ctx
    /\ copies'[c].at = at /\ copies'[c].dequeues = dequeues
    /\ \A d \in DOMAIN copies \ {c} : copies'[d] = copies[d]

LEMMA AddMessageAdds ==
    ASSUME CountsOK, CopiesOK, ProcessesOK, NEW p \in Processes, AddMessage(p)
    PROVE  CopiesOK' /\ (copies' = copies \/ Adds(p))
<1>1. CASE copies' = copies
  BY <1>1 DEF AddMessage, CopiesOK, OnQueue, OnWire
<1>2. CASE copies' # copies
  <2> DEFINE wait == IF out[p].delayed = None THEN 0 ELSE out[p].delayed
             r == [ctx |-> out[p], at |-> "queue", dequeues |-> 0,
                   visible |-> AtMost(now + wait)]
  <2>1. pc[p] = "add" /\ Len(copies) < MaxCopies /\ copies' = Append(copies, r)
    BY <1>2 DEF AddMessage
  <2>2. out[p] \in OnWire /\ out[p].delayed \in (0 .. MaxDelay) \cup {None}
    BY DEF ProcessesOK, OnWire
  <2>3. AtMost(now + wait) \in Nat
    BY <2>2, LimitsAreNat, DelaysAreTimes DEF AtMost, CountsOK
  <2>4. r \in OnQueue
    BY <2>2, <2>3, LimitsAreNat DEF OnQueue
  <2> HIDE DEF r
  <2>5. /\ CopiesOK'
        /\ DOMAIN copies' = DOMAIN copies \cup {Len(copies) + 1}
        /\ copies'[Len(copies) + 1] = r
        /\ \A d \in DOMAIN copies : copies'[d] = copies[d] /\ d < Len(copies) + 1
    BY <2>1, <2>4, NewCopy DEF AddMessage
  <2> QED
    BY <2>1, <2>5 DEF Adds, r
<1> QED
  BY <1>1, <1>2

\* The service's steps mark one copy.
LEMMA HostMarks ==
    ASSUME CountsOK, CopiesOK, NEW c \in DOMAIN copies
    PROVE  /\ Receive(c) => CopiesOK' /\ Marks(c, "hidden", copies[c].dequeues + 1)
           /\ VisibilityTimeout(c) \/ Redeliver(c) =>
                CopiesOK' /\ Marks(c, "queue", copies[c].dequeues)
           /\ Poison(c) => CopiesOK' /\ Marks(c, "poison", copies[c].dequeues)
<1>1. copies[c] \in OnQueue /\ copies[c].dequeues \in 0 .. MaxDequeueCount
  BY CopiesTyped DEF OnQueue
<1>2. ASSUME NEW at \in {"queue", "hidden", "deleted", "poison"},
             NEW n \in 0 .. MaxDequeueCount, UNCHANGED uploads,
             copies' = [copies EXCEPT ![c] = [copies[c] EXCEPT !.at = at, !.dequeues = n]]
      PROVE  CopiesOK' /\ Marks(c, at, n)
  <2> DEFINE r == [copies[c] EXCEPT !.at = at, !.dequeues = n]
  <2>1. /\ r \in OnQueue /\ r.ctx = copies[c].ctx
        /\ r.at = at /\ r.dequeues = n
    BY <1>1 DEF OnQueue
  <2> HIDE DEF r
  <2>2. copies' = [copies EXCEPT ![c] = r]
    BY <1>2 DEF r
  <2> QED
    BY <1>2, <2>1, <2>2, MarkCopy DEF Marks
<1>3. Receive(c) => CopiesOK' /\ Marks(c, "hidden", copies[c].dequeues + 1)
  <2> SUFFICES ASSUME Receive(c)
               PROVE  CopiesOK' /\ Marks(c, "hidden", copies[c].dequeues + 1)
    OBVIOUS
  <2>1. copies' = [copies EXCEPT ![c] =
          [copies[c] EXCEPT !.at = "hidden", !.dequeues = copies[c].dequeues + 1]]
    BY <1>1, CopiesTyped DEF Receive, OnQueue
  <2>2. copies[c].dequeues + 1 \in 0 .. MaxDequeueCount
    BY <1>1, LimitsAreNat DEF Receive
  <2> QED
    BY <1>2, <2>1, <2>2 DEF Receive
<1>4. ASSUME NEW at, copies' = [copies EXCEPT ![c].at = at]
      PROVE  copies' = [copies EXCEPT ![c] =
               [copies[c] EXCEPT !.at = at, !.dequeues = copies[c].dequeues]]
  BY <1>1, <1>4, CopiesTyped DEF OnQueue
<1> QED
  BY <1>1, <1>2, <1>3, <1>4 DEF VisibilityTimeout, Redeliver, Poison

\* The last step of an attempt deletes its copy, if it may.
LEMMA CompleteMarks ==
    ASSUME CountsOK, CopiesOK, NEW p \in Attempts, p[1] \in DOMAIN copies, Complete(p)
    PROVE  /\ CopiesOK'
           /\ IF p[2] = copies[p[1]].dequeues /\ copies[p[1]].at # "poison"
                THEN Marks(p[1], "deleted", copies[p[1]].dequeues)
                ELSE copies' = copies
<1> DEFINE c == p[1]
           r == [copies[c] EXCEPT !.at = "deleted"]
<1>1. copies[c] \in OnQueue
  BY CopiesTyped
<1>2. r \in OnQueue /\ r.ctx = copies[c].ctx /\ r.at = "deleted"
      /\ r.dequeues = copies[c].dequeues
  BY <1>1 DEF OnQueue
<1>3. UNCHANGED uploads
  BY DEF Complete
<1>4. CASE p[2] = copies[c].dequeues /\ copies[c].at # "poison"
  <2>1. copies' = [copies EXCEPT ![c] = r]
    BY <1>4 DEF Complete, Copy
  <2> HIDE DEF r
  <2> QED
    BY <1>2, <1>3, <1>4, <2>1, MarkCopy DEF Marks
<1>5. CASE ~(p[2] = copies[c].dequeues /\ copies[c].at # "poison")
  BY <1>3, <1>5 DEF Complete, Copy, CopiesOK, OnQueue, OnWire
<1> QED
  BY <1>4, <1>5

----------------------------------------------------------------------------
(* Types *)

\* No step changes the context of a copy.
CopiesStay ==
    \A c \in DOMAIN copies : c \in DOMAIN copies' /\ copies'[c].ctx = copies[c].ctx

\* A copy that a step adds comes from a process that adds one.
CopiesFrom(moved) ==
    \A c \in DOMAIN copies' \ DOMAIN copies :
        /\ c = Len(copies) + 1
        /\ copies'[c].at = "queue" /\ copies'[c].dequeues = 0
        /\ \E p \in moved : pc[p] = "add" /\ copies'[c].ctx = out[p]

\* The invariant is kept when those that move keep their part of it.
LEMMA TypeKept ==
    ASSUME TypeInv, CountsOK', CopiesOK', ProcessesOK', SentOK',
           NEW moved \in SUBSET Processes,
           \A p \in Processes \ moved : pc'[p] = pc[p] /\ out'[p] = out[p],
           \A m \in Messages : pc[m] # "idle" \/ m \notin moved => sent'[m] = sent[m],
           \A m \in Messages \cap moved : pc'[m] \in Sending \cup {"over"},
           \A p \in moved : SendingOK(p)',
           CopiesStay, CopiesFrom(moved)
    PROVE  TypeInv'
<1>1. \A m \in Messages : m \in Processes
  BY Kinds
<1>2. ASSUME NEW c \in DOMAIN copies
      PROVE  copies[c].ctx.msg \in Messages
  BY <1>2, CopiesTyped DEF TypeInv, OnQueue, OnWire
<1>3. ASSUME NEW m \in Messages PROVE SenderOK(m)' /\ (pc[m] # "idle" => pc'[m] # "idle")
  BY <1>1, <1>3 DEF TypeInv, SenderOK, Sending
<1>4. ASSUME NEW c \in DOMAIN copies PROVE CopyOK(c)'
  BY <1>2, <1>3, <1>4 DEF TypeInv, CopyOK, Timed, CopiesStay
<1>5. ASSUME NEW p \in Processes, pc[p] \in Sending
      PROVE  /\ Of(p) \in Messages /\ pc[Of(p)] # "idle"
             /\ out[p].msg = Of(p) /\ Timed(out[p])
  BY <1>2, <1>5, Kinds DEF TypeInv, Of, Ctx, Copy, CopyOK, SendingOK, Sending
<1>6. ASSUME NEW c \in DOMAIN copies' \ DOMAIN copies PROVE CopyOK(c)'
  <2>1. PICK p \in moved : pc[p] = "add" /\ copies'[c].ctx = out[p]
    BY <1>6 DEF CopiesFrom
  <2>2. /\ Of(p) \in Messages /\ pc[Of(p)] # "idle"
        /\ out[p].msg = Of(p) /\ Timed(out[p])
    BY <1>5, <2>1 DEF Sending
  <2> QED
    BY <1>3, <2>1, <2>2 DEF CopyOK, Timed
<1>7. ASSUME NEW p \in Processes \ moved PROVE SendingOK(p)'
  <2>1. CASE p \in Messages
    <3>1. Of(p)' = p /\ p \notin Attempts
      BY <2>1, Kinds DEF Of
    <3>2. pc[p] \in Sending => sent'[p] = sent[p] /\ out[p].msg = p /\ Timed(out[p])
      BY <1>5, <1>7, <2>1 DEF Of, Sending
    <3> QED
      BY <1>7, <3>1, <3>2 DEF SendingOK, Timed, Of
  <2>2. CASE p \in Attempts /\ pc[p] # "idle"
    <3>1. /\ p[1] \in DOMAIN copies /\ p \notin Messages
          /\ Of(p) \in Messages /\ pc[Of(p)] # "idle"
      BY <1>2, <2>2, Kinds DEF TypeInv, SendingOK, Of, Ctx, Copy, CopyOK
    <3>2. p[1] \in DOMAIN copies' /\ Of(p)' = Of(p)
      BY <3>1 DEF CopiesStay, Of, Ctx, Copy
    <3>3. sent'[Of(p)] = sent[Of(p)]
      BY <3>1
    <3>4. pc[p] \in Sending => out[p].msg = Of(p) /\ Timed(out[p])
      BY <1>5, <1>7
    <3> QED
      BY <1>7, <3>2, <3>3, <3>4 DEF SendingOK, Timed
  <2>3. CASE p \in Attempts /\ pc[p] = "idle"
    BY <1>7, <2>3 DEF SendingOK, Sending
  <2> QED
    BY <2>1, <2>2, <2>3, Kinds
<1> QED
  BY <1>3, <1>4, <1>6, <1>7 DEF TypeInv

\* Added and marked copies leave the others as they are.
LEMMA CopiesMove ==
    /\ \A p : copies' = copies \/ Adds(p) => CopiesStay /\ CopiesFrom({p})
    /\ \A c, at, n : Marks(c, at, n) => CopiesStay /\ \A moved : CopiesFrom(moved)
    /\ copies' = copies => CopiesStay /\ \A moved : CopiesFrom(moved)
BY DEF Adds, Marks, CopiesStay, CopiesFrom

\* What the steps of a process have in common: it alone moves, it has been
\* started, and it stays an attempt at a copy.
Moves(p) ==
    /\ CountsOK' /\ CopiesOK' /\ ProcessesOK'
    /\ Others(p)
    /\ pc[p] # "over" /\ pc'[p] # "idle"
    /\ SendingOK(p)'
    /\ CopiesStay /\ CopiesFrom({p})

\* A step to where nothing is sent.
LEMMA MovesOn ==
    ASSUME TypeInv, CountsOK', CopiesOK', uploads <= uploads', CopiesStay, NEW p \in Processes,
           CopiesFrom({p}), pc[p] \notin {"idle", "over"},
           NEW step \in (Steps \ Sending) \cup {"over"}, Goto(p, step)
    PROVE  Moves(p) /\ pc'[p] = step /\ pc'[p] \notin Sending
<1>1. CountsOK /\ ProcessesOK
  BY DEF TypeInv
<1>2. /\ pc'[p] = step
      /\ out'[p] = IF step = "over" THEN NoContext ELSE out[p]
      /\ Others(p)
  BY <1>1, GotoMoves DEF Others
<1>3. OnWire \subseteq OnWire' /\ NoContext \in OnWire
  BY <1>1, WireGrows, NoContextTyped DEF CountsOK
<1>4. ProcessesOK'
  <2>1. pc' \in [Processes -> Steps \cup {"idle", "over"}]
    BY <1>1 DEF ProcessesOK, Goto
  <2>2. out' \in [Processes -> OnWire]
    BY <1>1, <1>3 DEF ProcessesOK, Goto
  <2> QED
    BY <1>3, <2>1, <2>2 DEF ProcessesOK
<1>5. SendingOK(p)'
  BY <1>2 DEF TypeInv, SendingOK, CopiesStay, Sending
<1> QED
  BY <1>2, <1>4, <1>5 DEF Moves, Steps, Sending

\* A mishap is counted within the bound.
LEMMA MishapCounts == \A kind : Mishap(kind) => mishaps' = mishaps + 1 /\ mishaps < MaxMishaps
BY DEF Mishap

LEMMA UploadFileMoves ==
    ASSUME TypeInv, NEW p \in Processes, UploadFile(p)
    PROVE  /\ Moves(p) /\ UNCHANGED <<now, sent, copies, runs, handled>>
           /\ pc[p] = "upload" /\ out'[p].msg \in Messages
           /\ \/ /\ pc'[p] = "add" /\ mishaps' = mishaps
                 /\ out'[p] = [out[p] EXCEPT !.body = NewFile]
                 /\ files' = files \cup {NewFile} /\ uploads' = uploads + 1
              \/ /\ pc'[p] = "over" /\ mishaps' = mishaps + 1
                 /\ \/ files' = files /\ uploads' = uploads
                    \/ files' = files \cup {NewFile} /\ uploads' = uploads + 1
<1>1. CountsOK /\ CopiesOK /\ ProcessesOK /\ SendingOK(p)
  BY DEF TypeInv
<1>2. /\ UNCHANGED <<now, sent, copies, runs, handled>> /\ pc[p] = "upload"
      /\ \/ files' = files /\ uploads' = uploads
         \/ files' = files \cup {NewFile} /\ uploads' = uploads + 1
  BY DEF UploadFile
<1>3. CopiesStay /\ CopiesFrom({p})
  BY <1>2, CopiesMove
<1>4. mishaps' \in 0 .. MaxMishaps
  BY <1>1, LimitsAreNat DEF UploadFile, Mishap, CountsOK
<1>5. CountsOK'
  <2>1. uploads \in Nat /\ uploads' \in Nat /\ uploads <= uploads'
    BY <1>1, <1>2 DEF CountsOK
  <2>2. ASSUME NEW f \in files' PROVE f \in 1 .. uploads'
    <3>1. f \in 1 .. uploads \/ (f = uploads + 1 /\ uploads' = uploads + 1)
      BY <1>1, <1>2, <2>2 DEF CountsOK, NewFile
    <3> QED
      BY <2>1, <3>1
  <2> QED
    BY <1>1, <1>2, <1>4, <2>1, <2>2 DEF CountsOK
<1>6. OnWire \subseteq OnWire' /\ OnQueue \subseteq OnQueue' /\ uploads <= uploads'
  BY <1>1, <1>2, <1>5, WireGrows DEF CountsOK
<1>7. CopiesOK'
  BY <1>1, <1>2, <1>6, SeqMonotonic DEF CopiesOK
<1>8. CASE Raise(p)
  <2>1. Goto(p, "over")
    BY <1>8 DEF Raise
  <2>2. Moves(p) /\ pc'[p] = "over"
    BY <1>2, <1>3, <1>5, <1>6, <1>7, <2>1, MovesOn
  <2>3. Mishap("fault")
    BY <1>1, <1>2, <2>2 DEF UploadFile, ProcessesOK
  <2>4. out'[p].msg \in Messages
    BY <1>5, <2>2 DEF Moves, ProcessesOK, OnWire
  <2> QED
    BY <1>2, <2>2, <2>3, <2>4, MishapCounts
<1>9. CASE ~Raise(p)
  <2>1. /\ files' = files \cup {NewFile} /\ uploads' = uploads + 1 /\ mishaps' = mishaps
        /\ pc' = [pc EXCEPT ![p] = "add"] /\ out' = [out EXCEPT ![p].body = NewFile]
    BY <1>9 DEF UploadFile
  <2>2. out[p] \in OnWire
    BY <1>1 DEF ProcessesOK
  <2>3. [out[p] EXCEPT !.body = NewFile] \in OnWire'
    BY <1>1, <2>1, <2>2 DEF OnWire, NewFile, CountsOK
  <2>4. ProcessesOK'
    BY <1>1, <1>6, <2>1, <2>3 DEF ProcessesOK, Steps
  <2>5. pc'[p] = "add" /\ out'[p] = [out[p] EXCEPT !.body = NewFile] /\ Others(p)
    BY <1>1, <2>1 DEF ProcessesOK, Others
  <2>6. out'[p].msg = out[p].msg /\ out'[p].delayed = out[p].delayed
    BY <2>2, <2>5 DEF OnWire
  <2>7. SendingOK(p)'
    BY <1>1, <1>2, <1>3, <2>5, <2>6
    DEF SendingOK, Timed, Of, Ctx, Copy, Sending
  <2>8. out[p].msg \in Messages
    BY <2>2 DEF OnWire
  <2> QED
    BY <1>2, <1>3, <1>5, <1>7, <2>1, <2>4, <2>5, <2>6, <2>7, <2>8 DEF Moves
<1> QED
  BY <1>8, <1>9

LEMMA AddMessageMoves ==
    ASSUME TypeInv, NEW p \in Processes, AddMessage(p)
    PROVE  /\ Moves(p) /\ UNCHANGED <<now, sent, files, uploads, runs, handled>>
           /\ pc[p] = "add"
           /\ \/ Adds(p) /\ pc'[p] = AfterSending(p) /\ mishaps' = mishaps
              \/ /\ copies' = copies \/ Adds(p)
                 /\ pc'[p] = "over" /\ mishaps' = mishaps + 1
<1>1. CountsOK /\ CopiesOK /\ ProcessesOK
  BY DEF TypeInv
<1>2. /\ UNCHANGED <<now, sent, files, uploads, runs, handled>> /\ pc[p] = "add"
      /\ CopiesOK' /\ (copies' = copies \/ Adds(p))
      /\ CopiesStay /\ CopiesFrom({p})
  BY <1>1, AddMessageAdds, CopiesMove DEF AddMessage
<1>3. CountsOK' /\ uploads <= uploads'
  BY <1>1, <1>2, LimitsAreNat DEF CountsOK, AddMessage, Answered, Mishap
<1>4. /\ AfterSending(p) \in (Steps \ Sending) \cup {"over"}
      /\ "over" \in (Steps \ Sending) \cup {"over"}
  BY DEF AfterSending, Steps, Sending
<1>5. ASSUME NEW step \in (Steps \ Sending) \cup {"over"}, Goto(p, step)
      PROVE  Moves(p) /\ pc'[p] = step
  BY <1>2, <1>3, <1>5, MovesOn
<1>6. CASE Mishap("fault") /\ Raise(p)
  BY <1>2, <1>4, <1>5, <1>6, MishapCounts DEF Raise
<1>7. CASE copies' # copies /\ Goto(p, AfterSending(p)) /\ UNCHANGED mishaps
  BY <1>2, <1>4, <1>5, <1>7
<1>8. CASE copies' = copies /\ ~Mishap("fault")
  <2>1. PICK r : copies' = Append(copies, r) /\ Len(copies) < MaxCopies
    BY <1>8 DEF AddMessage, Answered
  <2>2. Len(copies') = Len(copies) + 1 /\ Len(copies) \in Nat
    BY <1>1, <2>1, CopiesTyped
  <2> QED
    BY <1>8, <2>2
<1> QED
  BY <1>6, <1>7, <1>8 DEF AddMessage, Answered

LEMMA SendAsyncMoves ==
    ASSUME TypeInv, NEW m \in Messages, SendAsync(m)
    PROVE  /\ Moves(m) /\ UNCHANGED <<now, copies, files, uploads, mishaps, runs, handled>>
           /\ pc[m] = "idle" /\ pc'[m] \in Sending
           /\ out'[m].msg = m /\ out'[m].body = Inline
           /\ pc'[m] = "upload" <=> out'[m].inFile
           /\ sent'[m].size = "small" => pc'[m] = "add"
           /\ sent'[m].size = "big" => pc'[m] = "upload"
           /\ SentOK' /\ \A k \in Messages \ {m} : sent'[k] = sent[k]
           /\ \E delay \in Int \cup {None} :
                /\ out'[m].delayed = Capped(delay)
                /\ sent'[m].wake = IF delay = None THEN None ELSE AtMost(now + delay)
<1>1. CountsOK /\ CopiesOK /\ ProcessesOK /\ SentOK /\ m \in Processes
  BY Kinds DEF TypeInv
<1>2. UNCHANGED <<now, copies, files, uploads, mishaps, runs, handled>> /\ pc[m] = "idle"
  BY DEF SendAsync
<1>3. PICK delay \in Delays, size \in Sizes, known \in BOOLEAN :
        /\ sent' = [sent EXCEPT ![m] =
                      [size |-> size, known |-> known,
                       wake |-> IF delay = None THEN None ELSE AtMost(now + delay)]]
        /\ SendMessage(m, m, size, delay, FALSE)
  BY DEF SendAsync
<1>4. delay \in Int \cup {None}
  BY DelaysAreTimes
<1>5. /\ ProcessesOK' /\ Others(m)
      /\ pc'[m] \in Sending
      /\ out'[m].msg = m /\ out'[m].body = Inline
      /\ out'[m].delayed = Capped(delay)
      /\ FALSE \/ pc'[m] = "upload" <=> out'[m].inFile
      /\ size = "small" => pc'[m] = "add"
      /\ size = "big" => pc'[m] = "upload"
  BY <1>1, <1>2, <1>3, <1>4, NewContext
<1>6. (IF delay = None THEN None ELSE AtMost(now + delay)) \in Int \cup {None}
      /\ (delay # None => AtMost(now + delay) \in Int)
  BY <1>1, <1>4, LimitsAreNat DEF AtMost, CountsOK
<1>7. /\ sent'[m].size = size /\ SentOK'
      /\ sent'[m].wake = IF delay = None THEN None ELSE AtMost(now + delay)
      /\ \A k \in Messages \ {m} : sent'[k] = sent[k]
  BY <1>1, <1>3, <1>6 DEF SentOK
<1>8. SendingOK(m)'
  <2>1. m \notin Attempts /\ Of(m)' = m
    BY Kinds DEF Of
  <2>2. Capped(delay) # None => sent'[m].wake \in Int
    BY <1>6, <1>7 DEF Capped
  <2> QED
    BY <1>5, <2>1, <2>2 DEF SendingOK, Timed
<1>9. CountsOK' /\ CopiesOK' /\ CopiesStay /\ CopiesFrom({m})
  BY <1>1, <1>2, CopiesMove DEF CountsOK, CopiesOK, OnQueue, OnWire
<1>10. Moves(m)
  BY <1>2, <1>5, <1>8, <1>9 DEF Moves, Sending
<1> QED
  BY <1>2, <1>4, <1>5, <1>7, <1>10

\* An attempt has a copy, whose message has been sent.
LEMMA AttemptTyped ==
    ASSUME TypeInv, NEW p \in Attempts, pc[p] # "idle"
    PROVE  /\ p[1] \in DOMAIN copies /\ copies[p[1]] \in OnQueue
           /\ Ctx(p) = copies[p[1]].ctx /\ Ctx(p) \in OnWire
           /\ Ctx(p).msg \in Messages /\ pc[Ctx(p).msg] # "idle"
           /\ Of(p) = Ctx(p).msg /\ Timed(Ctx(p))
<1>1. p[1] \in DOMAIN copies /\ p \notin Messages
  BY Kinds DEF TypeInv, SendingOK
<1>2. copies[p[1]] \in OnQueue /\ CopyOK(p[1])
  BY <1>1, CopiesTyped DEF TypeInv
<1> QED
  BY <1>1, <1>2 DEF OnQueue, OnWire, CopyOK, Of, Ctx, Copy

\* A step between two calls changes nothing but its process.
LEMMA MovesAlone ==
    ASSUME TypeInv, NEW p \in Processes, pc[p] \notin {"idle", "over"}, CountsOK',
           UNCHANGED <<copies, uploads>>,
           NEW step \in (Steps \ Sending) \cup {"over"}, Goto(p, step)
    PROVE  Moves(p) /\ pc'[p] = step
<1>1. CountsOK /\ CopiesOK
  BY DEF TypeInv
<1>2. CopiesOK' /\ uploads <= uploads'
  BY <1>1 DEF CopiesOK, OnQueue, OnWire, CountsOK
<1> QED
  BY <1>2, CopiesMove, MovesOn

LEMMA ReadBodyMoves ==
    ASSUME TypeInv, NEW p \in Attempts, ReadBody(p)
    PROVE  /\ Moves(p) /\ UNCHANGED <<now, sent, copies, files, uploads, runs, handled>>
           /\ pc[p] = "read"
           /\ \/ pc'[p] = "look" /\ mishaps' = mishaps
              \/ pc'[p] = "done" /\ mishaps' = mishaps /\ Ctx(p).body \notin files \cup {Inline}
              \/ pc'[p] = "over" /\ mishaps' = mishaps + 1
              \/ pc'[p] = "over" /\ mishaps' = mishaps /\ Ctx(p).inFile /\ Ctx(p).body = Inline
<1>0. UNCHANGED <<now, sent, copies, files, uploads, runs, handled>> /\ pc[p] = "read"
      /\ p \in Processes
  BY Kinds DEF ReadBody
<1>1. CountsOK'
  BY <1>0, LimitsAreNat DEF ReadBody, Answered, Mishap, TypeInv, CountsOK
<1>2. ASSUME NEW step \in {"look", "done", "over"}, Goto(p, step)
      PROVE  Moves(p) /\ pc'[p] = step
  BY <1>0, <1>1, <1>2, MovesAlone DEF Steps, Sending
<1> QED
  BY <1>0, <1>2 DEF ReadBody, Answered, Raise, Mishap, IsMissing

LEMMA LookMoves ==
    ASSUME TypeInv, NEW p \in Attempts, Look(p)
    PROVE  /\ Moves(p)
           /\ UNCHANGED <<now, sent, copies, files, uploads, mishaps, runs, handled>>
           /\ pc[p] = "look"
           /\ \/ pc'[p] = "over" /\ ~sent[Ctx(p).msg].known
              \/ /\ pc'[p] = "stateless"
                 /\ ~Slept(p) \/ \E skew \in -MaxSkew .. MaxSkew :
                                    Slept(p) /\ ~(Left(p, skew) > Slack)
              \/ /\ pc'[p] \in Sending
                 /\ out'[p].msg = Ctx(p).msg /\ out'[p].body = Inline
                 /\ Ctx(p).inFile \/ pc'[p] = "upload" <=> out'[p].inFile
                 /\ sent[Ctx(p).msg].size = "small" => pc'[p] = "add"
                 /\ sent[Ctx(p).msg].size = "big" => pc'[p] = "upload"
                 /\ \E delay \in Int : delay > Slack /\ out'[p].delayed = Capped(delay)
<1>0. /\ UNCHANGED <<now, sent, copies, files, uploads, mishaps, runs, handled>>
      /\ pc[p] = "look" /\ p \in Processes
      /\ CountsOK /\ CopiesOK /\ ProcessesOK /\ SentOK
  BY Kinds DEF Look, TypeInv
<1>1. CountsOK' /\ CopiesOK'
  BY <1>0 DEF CountsOK, CopiesOK, OnQueue, OnWire
<1>2. ASSUME NEW step \in {"stateless", "over"}, Goto(p, step)
      PROVE  Moves(p) /\ pc'[p] = step
  BY <1>0, <1>1, <1>2, MovesAlone DEF Steps, Sending
<1>3. /\ Ctx(p).msg \in Messages /\ Ctx(p).inFile \in BOOLEAN
      /\ Of(p) = Ctx(p).msg /\ Timed(Ctx(p)) /\ p[1] \in DOMAIN copies
  BY <1>0, AttemptTyped DEF OnWire
<1>4. CASE ~sent[Ctx(p).msg].known /\ Raise(p)
  BY <1>0, <1>2, <1>4 DEF Raise
<1>5. CASE Goto(p, "stateless") /\ ~Slept(p)
  BY <1>0, <1>2, <1>5
<1>6. CASE Slept(p) /\ \E skew \in -MaxSkew .. MaxSkew :
              ~(Left(p, skew) > Slack) /\ Goto(p, "stateless")
  BY <1>0, <1>2, <1>6
<1>7. ASSUME Slept(p), NEW skew \in -MaxSkew .. MaxSkew, Left(p, skew) > Slack,
             SendMessage(p, Ctx(p).msg, sent[Ctx(p).msg].size, Left(p, skew), Ctx(p).inFile)
      PROVE  /\ Moves(p) /\ pc'[p] \in Sending
             /\ out'[p].msg = Ctx(p).msg /\ out'[p].body = Inline
             /\ Ctx(p).inFile \/ pc'[p] = "upload" <=> out'[p].inFile
             /\ sent[Ctx(p).msg].size = "small" => pc'[p] = "add"
             /\ sent[Ctx(p).msg].size = "big" => pc'[p] = "upload"
             /\ Left(p, skew) \in Int /\ out'[p].delayed = Capped(Left(p, skew))
  <2>1. sent[Ctx(p).msg].wake \in Int
    BY <1>3, <1>7, DelaysAreTimes DEF Slept, Timed
  <2>2. Left(p, skew) \in Int
    BY <1>0, <2>1, LimitsAreNat DEF Left, CountsOK
  <2>3. sent[Ctx(p).msg].size \in Sizes
    BY <1>0, <1>3 DEF SentOK
  <2>4. /\ ProcessesOK' /\ Others(p)
        /\ pc'[p] \in Sending
        /\ out'[p].msg = Ctx(p).msg /\ out'[p].body = Inline
        /\ out'[p].delayed = Capped(Left(p, skew))
        /\ Ctx(p).inFile \/ pc'[p] = "upload" <=> out'[p].inFile
        /\ sent[Ctx(p).msg].size = "small" => pc'[p] = "add"
        /\ sent[Ctx(p).msg].size = "big" => pc'[p] = "upload"
    BY <1>0, <1>3, <1>7, <2>2, <2>3, NewContext
  <2>5. SendingOK(p)'
    BY <1>0, <1>3, <2>1, <2>4 DEF SendingOK, Timed, Of, Ctx, Copy
  <2>6. Moves(p)
    BY <1>0, <1>1, <2>4, <2>5, CopiesMove DEF Moves, Sending
  <2> QED
    BY <2>2, <2>4, <2>6
<1>8. CASE Slept(p) /\ \E skew \in -MaxSkew .. MaxSkew :
              /\ Left(p, skew) > Slack
              /\ SendMessage(p, Ctx(p).msg, sent[Ctx(p).msg].size, Left(p, skew), Ctx(p).inFile)
  BY <1>0, <1>7, <1>8
<1> QED
  BY <1>4, <1>5, <1>6, <1>8 DEF Look

LEMMA HandlersMove ==
    ASSUME TypeInv, NEW p \in Attempts
    PROVE  /\ InvokeStatelessHandlers(p) =>
                /\ Moves(p) /\ UNCHANGED <<now, sent, copies, files, uploads, handled>>
                /\ pc[p] = "stateless"
                /\ \/ pc'[p] = "sagas" /\ mishaps' = mishaps
                      /\ runs' = [runs EXCEPT ![Ctx(p).msg] = @ + 1]
                   \/ pc'[p] = "over" /\ mishaps' = mishaps + 1 /\ runs' = runs
           /\ InvokeSagaHandlers(p) =>
                /\ Moves(p) /\ UNCHANGED <<now, sent, copies, files, uploads, runs>>
                /\ pc[p] = "sagas"
                /\ \/ /\ pc'[p] = IF Ctx(p).inFile THEN "deleteFile" ELSE "done"
                      /\ mishaps' = mishaps /\ handled' = handled \cup {Ctx(p).msg}
                   \/ pc'[p] = "over" /\ mishaps' = mishaps + 1 /\ handled' = handled
<1>0. p \in Processes /\ CountsOK
  BY Kinds DEF TypeInv
<1>1. ASSUME pc[p] # "idle" PROVE Ctx(p).msg \in Messages
  BY <1>1, AttemptTyped
<1>2. CASE InvokeStatelessHandlers(p)
  <2>1. CountsOK'
    BY <1>0, <1>1, <1>2, LimitsAreNat DEF InvokeStatelessHandlers, Mishap, CountsOK
  <2>2. ASSUME NEW step \in {"sagas", "over"}, Goto(p, step)
        PROVE  Moves(p) /\ pc'[p] = step
    BY <1>0, <1>2, <2>1, <2>2, MovesAlone DEF InvokeStatelessHandlers, Steps, Sending
  <2> QED
    BY <1>2, <2>2 DEF InvokeStatelessHandlers, InvokeSagaHandlers, Raise, Mishap
<1>3. CASE InvokeSagaHandlers(p)
  <2>1. CountsOK'
    BY <1>0, <1>1, <1>3, LimitsAreNat DEF InvokeSagaHandlers, Mishap, CountsOK
  <2>2. ASSUME NEW step \in {"deleteFile", "done", "over"}, Goto(p, step)
        PROVE  Moves(p) /\ pc'[p] = step
    BY <1>0, <1>3, <2>1, <2>2, MovesAlone DEF InvokeSagaHandlers, Steps, Sending
  <2> QED
    BY <1>3, <2>2 DEF InvokeStatelessHandlers, InvokeSagaHandlers, Raise, Mishap
<1> QED
  BY <1>2, <1>3

LEMMA DeleteFileMoves ==
    ASSUME TypeInv, NEW p \in Attempts, DeleteFile(p)
    PROVE  /\ Moves(p) /\ UNCHANGED <<now, sent, copies, uploads, runs, handled>>
           /\ pc[p] = "deleteFile"
           /\ \/ /\ pc'[p] = "done" /\ mishaps' = mishaps
                 /\ Ctx(p).body # Inline /\ files' = files \ {Ctx(p).body}
              \/ /\ pc'[p] = "over" /\ mishaps' = mishaps + 1 /\ Ctx(p).body # Inline
                 /\ files' = files \/ files' = files \ {Ctx(p).body}
              \/ /\ pc'[p] = "over" /\ mishaps' = mishaps /\ Ctx(p).body = Inline
                 /\ files' = files
<1>0. /\ UNCHANGED <<now, sent, copies, uploads, runs, handled>>
      /\ pc[p] = "deleteFile" /\ p \in Processes /\ CountsOK
  BY Kinds DEF DeleteFile, TypeInv
<1>1. CountsOK'
  <2>1. files' \subseteq files /\ mishaps' \in 0 .. MaxMishaps
    BY <1>0, LimitsAreNat DEF DeleteFile, Answered, Mishap, CountsOK
  <2> QED
    BY <1>0, <2>1 DEF CountsOK
<1>2. ASSUME NEW step \in {"done", "over"}, Goto(p, step)
      PROVE  Moves(p) /\ pc'[p] = step
  BY <1>0, <1>1, <1>2, MovesAlone DEF Steps, Sending
<1> QED
  BY <1>0, <1>2 DEF DeleteFile, Answered, Raise, Mishap

\* The latest receiver of a copy that is not poisoned deletes it.
MayDelete(p) == p[2] = copies[p[1]].dequeues /\ copies[p[1]].at # "poison"

LEMMA CompleteMoves ==
    ASSUME TypeInv, NEW p \in Attempts, Complete(p)
    PROVE  /\ Moves(p) /\ UNCHANGED <<now, sent, files, uploads, mishaps, runs, handled>>
           /\ pc[p] = "done" /\ pc'[p] = "over" /\ p[1] \in DOMAIN copies
           /\ MayDelete(p) => Marks(p[1], "deleted", copies[p[1]].dequeues)
           /\ ~MayDelete(p) => copies' = copies
<1>0. /\ UNCHANGED <<now, sent, files, uploads, mishaps, runs, handled>>
      /\ pc[p] = "done" /\ Goto(p, "over") /\ p \in Processes
      /\ CountsOK /\ CopiesOK /\ CountsOK' /\ uploads <= uploads'
  BY Kinds DEF Complete, TypeInv, CountsOK
<1>1. p[1] \in DOMAIN copies
  BY <1>0, AttemptTyped
<1>2. /\ CopiesOK' /\ CopiesStay /\ CopiesFrom({p})
      /\ MayDelete(p) => Marks(p[1], "deleted", copies[p[1]].dequeues)
      /\ ~MayDelete(p) => copies' = copies
  BY <1>0, <1>1, CompleteMarks, CopiesMove DEF MayDelete
<1>3. Moves(p) /\ pc'[p] = "over"
  BY <1>0, <1>2, MovesOn DEF Steps, Sending
<1> QED
  BY <1>0, <1>1, <1>2, <1>3

LEMMA CrashMoves ==
    ASSUME TypeInv, NEW p \in Processes, Crash(p)
    PROVE  /\ Moves(p) /\ UNCHANGED <<now, sent, copies, files, uploads, runs, handled>>
           /\ pc[p] # "idle" /\ pc'[p] = "over" /\ mishaps' = mishaps + 1
<1>0. /\ UNCHANGED <<now, sent, copies, files, uploads, runs, handled>>
      /\ pc[p] \notin {"idle", "over"} /\ Goto(p, "over")
      /\ mishaps' = mishaps + 1 /\ mishaps < MaxMishaps
  BY DEF Crash, Mishap
<1>1. CountsOK'
  BY <1>0, LimitsAreNat DEF TypeInv, CountsOK
<1> QED
  BY <1>0, <1>1, MovesAlone

\* The service gives a copy to a new attempt.
LEMMA ReceiveMoves ==
    ASSUME TypeInv, NEW c \in DOMAIN copies, Receive(c)
    PROVE  /\ CountsOK' /\ CopiesOK' /\ ProcessesOK'
           /\ UNCHANGED <<now, sent, files, uploads, mishaps, runs, handled>>
           /\ copies[c].at = "queue"
           /\ Marks(c, "hidden", copies[c].dequeues + 1)
           /\ CopiesStay /\ \A moved : CopiesFrom(moved)
           /\ \E p \in Attempts : /\ p = <<c, copies[c].dequeues + 1>> /\ Others(p)
                                  /\ pc'[p] = "read" /\ SendingOK(p)'
<1>0. /\ UNCHANGED <<now, sent, files, uploads, mishaps, runs, handled>>
      /\ copies[c].at = "queue" /\ copies[c].dequeues < MaxDequeueCount
      /\ CountsOK /\ CopiesOK /\ ProcessesOK
  BY DEF Receive, TypeInv
<1>1. CopiesOK' /\ Marks(c, "hidden", copies[c].dequeues + 1)
  BY <1>0, HostMarks
<1>2. CopiesStay /\ \A moved : CopiesFrom(moved)
  BY <1>1, CopiesMove
<1>3. PICK p \in Attempts : p = <<c, copies[c].dequeues + 1>>
  <2>1. copies[c].dequeues \in 0 .. MaxDequeueCount /\ c \in 1 .. MaxCopies
    BY <1>0, CopiesTyped DEF OnQueue
  <2>2. copies[c].dequeues + 1 \in 1 .. MaxDequeueCount
    BY <1>0, <2>1, LimitsAreNat
  <2> QED
    BY <2>1, <2>2, Kinds
<1>4. p \in Processes /\ Goto(p, "read") /\ p[1] = c
  BY <1>3, Kinds DEF Receive
<1>5. pc'[p] = "read" /\ Others(p)
  BY <1>0, <1>4, GotoMoves DEF Others
<1>6. ProcessesOK'
  BY <1>0, <1>4 DEF ProcessesOK, Goto, OnWire, Steps
<1>7. SendingOK(p)'
  BY <1>2, <1>4, <1>5 DEF SendingOK, CopiesStay, Sending
<1>8. CountsOK'
  BY <1>0 DEF CountsOK
<1> QED
  BY <1>0, <1>1, <1>2, <1>3, <1>5, <1>6, <1>7, <1>8

\* The other steps of the service mark a copy, and start nothing.
LEMMA HostMoves ==
    ASSUME TypeInv, NEW c \in DOMAIN copies, VisibilityTimeout(c) \/ Redeliver(c) \/ Poison(c)
    PROVE  /\ CountsOK' /\ CopiesOK' /\ ProcessesOK'
           /\ UNCHANGED <<now, sent, files, uploads, pc, out, runs, handled>>
           /\ CopiesStay /\ \A moved : CopiesFrom(moved)
           /\ \/ Marks(c, "queue", copies[c].dequeues) /\ mishaps' = mishaps
                 /\ copies[c].at = "hidden" /\ pc[<<c, copies[c].dequeues>>] = "over"
              \/ Marks(c, "queue", copies[c].dequeues) /\ mishaps' = mishaps + 1
                 /\ copies[c].at = "hidden"
              \/ Marks(c, "poison", copies[c].dequeues) /\ mishaps' = mishaps
                 /\ copies[c].at = "queue" /\ copies[c].dequeues = MaxDequeueCount
<1>0. /\ UNCHANGED <<now, sent, files, uploads, pc, out, runs, handled>>
      /\ CountsOK /\ CopiesOK /\ ProcessesOK
  BY DEF VisibilityTimeout, Redeliver, Poison, TypeInv
<1>1. CopiesOK'
  BY <1>0, HostMarks
<1>2. ProcessesOK'
  BY <1>0 DEF ProcessesOK, OnWire
<1>3. CountsOK'
  BY <1>0, LimitsAreNat DEF VisibilityTimeout, Redeliver, Poison, Mishap, CountsOK
<1>4. \/ Marks(c, "queue", copies[c].dequeues)
      \/ Marks(c, "poison", copies[c].dequeues)
  BY <1>0, HostMarks
<1>5. CopiesStay /\ \A moved : CopiesFrom(moved)
  BY <1>4, CopiesMove
<1> QED
  BY <1>0, <1>1, <1>2, <1>3, <1>5, HostMarks
  DEF VisibilityTimeout, Redeliver, Poison, Mishap

\* Time passes, or nothing happens.
Quiet == now' \in 0 .. MaxTime /\ now <= now'
         /\ UNCHANGED <<sent, copies, files, uploads, pc, out, mishaps, runs, handled>>

LEMMA QuietSteps == TypeInv /\ (Tick \/ UNCHANGED vars) => Quiet
BY LimitsAreNat DEF TypeInv, CountsOK, Tick, vars, Quiet

\* A step of a process keeps the invariant.
LEMMA TypeMoves ==
    ASSUME TypeInv, NEW p \in Processes, Moves(p), SentOK',
           \A m \in Messages : pc[m] # "idle" \/ m # p => sent'[m] = sent[m],
           p \in Messages => pc'[p] \in Sending \cup {"over"}
    PROVE  TypeInv'
<1> DEFINE moved == {p}
<1>1. /\ CountsOK' /\ CopiesOK' /\ ProcessesOK'
      /\ \A q \in Processes \ moved : pc'[q] = pc[q] /\ out'[q] = out[q]
      /\ \A q \in moved : SendingOK(q)'
      /\ CopiesStay /\ CopiesFrom(moved)
  BY DEF Moves, Others
<1>2. /\ \A m \in Messages : pc[m] # "idle" \/ m \notin moved => sent'[m] = sent[m]
      /\ \A m \in Messages \cap moved : pc'[m] \in Sending \cup {"over"}
      /\ moved \in SUBSET Processes
  OBVIOUS
<1> HIDE DEF moved
<1> QED
  BY <1>1, <1>2, TypeKept

\* What is on the queue, sent or handled belongs to a message that was sent.
LEMMA Started ==
    ASSUME TypeInv
    PROVE  /\ \A c \in DOMAIN copies :
                copies[c].ctx.msg \in Messages /\ pc[copies[c].ctx.msg] # "idle"
           /\ \A p \in Processes : pc[p] \in Sending =>
                out[p].msg = Of(p) /\ Of(p) \in Messages /\ pc[Of(p)] # "idle"
           /\ \A p \in Attempts : pc[p] # "idle" =>
                /\ p[1] \in DOMAIN copies /\ Of(p) = copies[p[1]].ctx.msg
                /\ Ctx(p) = copies[p[1]].ctx
           /\ \A m \in Messages : Of(m) = m /\ m \in Processes
<1>1. ASSUME NEW c \in DOMAIN copies
      PROVE  copies[c].ctx.msg \in Messages /\ pc[copies[c].ctx.msg] # "idle"
  BY <1>1, CopiesTyped DEF TypeInv, OnQueue, OnWire, CopyOK
<1>2. ASSUME NEW p \in Attempts, pc[p] # "idle"
      PROVE  /\ p[1] \in DOMAIN copies /\ Of(p) = copies[p[1]].ctx.msg
             /\ Ctx(p) = copies[p[1]].ctx
  BY <1>2, AttemptTyped
<1>3. ASSUME NEW p \in Processes, pc[p] \in Sending
      PROVE  out[p].msg = Of(p) /\ Of(p) \in Messages /\ pc[Of(p)] # "idle"
  BY <1>1, <1>2, <1>3, Kinds DEF TypeInv, SendingOK, Of, Sending
<1>4. ASSUME NEW m \in Messages PROVE Of(m) = m /\ m \in Processes
  BY Kinds DEF Of
<1> QED
  BY <1>1, <1>2, <1>3, <1>4

\* Every step keeps the invariant.
LEMMA TypeNext == TypeInv /\ [Next]_vars => TypeInv'
<1> SUFFICES ASSUME TypeInv, [Next]_vars PROVE TypeInv'
  OBVIOUS
<1>0. /\ SentOK /\ CountsOK
      /\ \A p \in Attempts : p \in Processes /\ p \notin Messages
      /\ UNCHANGED sent => SentOK'
  BY Kinds DEF TypeInv, SentOK
<1>1. ASSUME NEW m \in Messages, SendAsync(m) PROVE TypeInv'
  <2>1. m \in Processes
    BY Kinds
  <2>2. /\ Moves(m) /\ SentOK' /\ pc[m] = "idle" /\ pc'[m] \in Sending
        /\ \A k \in Messages \ {m} : sent'[k] = sent[k]
    BY <1>1, SendAsyncMoves
  <2> QED
    BY <2>1, <2>2, TypeMoves
<1>2. ASSUME NEW p \in Processes, UploadFile(p) \/ AddMessage(p) \/ Crash(p) PROVE TypeInv'
  <2>1. Moves(p) /\ UNCHANGED sent
    BY <1>2, UploadFileMoves, AddMessageMoves, CrashMoves
  <2>2. p \in Messages => pc'[p] \in Sending \cup {"over"}
    BY <1>2, UploadFileMoves, AddMessageMoves, CrashMoves DEF AfterSending, Sending
  <2> QED
    BY <1>0, <2>1, <2>2, TypeMoves
<1>3. ASSUME NEW p \in Attempts,
             \/ ReadBody(p) \/ Look(p) \/ InvokeStatelessHandlers(p)
             \/ InvokeSagaHandlers(p) \/ DeleteFile(p) \/ Complete(p)
      PROVE  TypeInv'
  <2>1. Moves(p) /\ UNCHANGED sent
    BY <1>3, ReadBodyMoves, LookMoves, HandlersMove, DeleteFileMoves, CompleteMoves
  <2> QED
    BY <1>0, <2>1, TypeMoves
<1>4. ASSUME NEW c \in DOMAIN copies, Receive(c) PROVE TypeInv'
  <2>1. PICK p \in Attempts : Others(p) /\ pc'[p] = "read" /\ SendingOK(p)'
    BY <1>4, ReceiveMoves
  <2>2. /\ CountsOK' /\ CopiesOK' /\ ProcessesOK' /\ UNCHANGED sent
        /\ CopiesStay /\ CopiesFrom({p})
    BY <1>4, ReceiveMoves
  <2> DEFINE moved == {p}
  <2>3. /\ \A q \in Processes \ moved : pc'[q] = pc[q] /\ out'[q] = out[q]
        /\ \A q \in moved : SendingOK(q)'
        /\ moved \in SUBSET Processes /\ Messages \cap moved = {}
    BY <1>0, <2>1 DEF Others
  <2> HIDE DEF moved
  <2>4. CopiesFrom(moved)
    BY <1>4, ReceiveMoves
  <2> QED
    BY <1>0, <2>2, <2>3, <2>4, TypeKept
<1>5. ASSUME CountsOK', CopiesOK', ProcessesOK', UNCHANGED <<sent, pc, out>>,
             CopiesStay, CopiesFrom({})
      PROVE  TypeInv'
  BY <1>0, <1>5, TypeKept
<1>6. ASSUME NEW c \in DOMAIN copies, VisibilityTimeout(c) \/ Redeliver(c) \/ Poison(c)
      PROVE  TypeInv'
  BY <1>5, <1>6, HostMoves
<1>7. CASE Tick \/ UNCHANGED vars
  <2>1. Quiet
    BY <1>7, QuietSteps
  <2>2. CountsOK' /\ CopiesOK' /\ ProcessesOK'
    BY <2>1 DEF Quiet, TypeInv, CountsOK, CopiesOK, ProcessesOK, OnQueue, OnWire
  <2> QED
    BY <1>5, <2>1, <2>2, CopiesMove DEF Quiet
<1> QED
  BY <1>1, <1>2, <1>3, <1>4, <1>6, <1>7 DEF Next, Step

\* Nothing has been sent at the start.
LEMMA TypeInit == Init => TypeInv
<1> SUFFICES ASSUME Init PROVE TypeInv
  OBVIOUS
<1>1. CountsOK
  BY LimitsAreNat DEF Init, CountsOK
<1>2. copies = <<>> /\ DOMAIN copies = {} /\ CopiesOK
  BY LimitsAreNat DEF Init, CopiesOK
<1>3. ProcessesOK
  BY <1>1, NoContextTyped DEF Init, ProcessesOK
<1>4. SentOK
  BY DEF Init, SentOK, NotSent, Sizes
<1>5. /\ \A m \in Messages : m \in Processes
      /\ \A p \in Processes : pc[p] = "idle"
  BY Kinds DEF Init
<1> QED
  BY <1>1, <1>2, <1>3, <1>4, <1>5 DEF Init, TypeInv, SenderOK, SendingOK, Sending

\* In every reachable state, every variable has its type; a copy on the queue
\* belongs to a message that has been sent, and carries a delay within the
\* transport's limit, if its message is due some time.
THEOREM TypeCorrect == Spec => []TypeOK
<1>1. TypeInv /\ [Next]_vars => TypeInv'
  BY TypeNext
<1> QED
  BY <1>1, TypeInit, TypeInvTypes, PTL DEF Spec

----------------------------------------------------------------------------
(* A step by the processes that it moves *)

\* The steps of an attempt.
Handles(p) ==
    \/ ReadBody(p) \/ Look(p) \/ InvokeStatelessHandlers(p)
    \/ InvokeSagaHandlers(p) \/ DeleteFile(p) \/ Complete(p)

\* What a step may be, in the eyes of a process that it moves.
Acts(p) ==
    \/ p \in Messages /\ SendAsync(p)
    \/ UploadFile(p) \/ AddMessage(p) \/ Crash(p)
    \/ p \in Attempts /\ Handles(p)
    \/ /\ p \in Attempts /\ pc'[p] = "read"
       /\ UNCHANGED <<files, handled>>

\* A step by the processes that it moves.
Framed(moved) ==
    /\ \A p \in Processes \ moved : pc'[p] = pc[p] /\ out'[p] = out[p]
    /\ \A p \in moved : Acts(p) /\ \A q \in moved : p = q
    /\ moved = {} => UNCHANGED <<files, handled>>
    /\ CopiesStay /\ CopiesFrom(moved)

\* A step moves one process or none.
LEMMA Frame ==
    ASSUME TypeInv, [Next]_vars
    PROVE  \E moved \in SUBSET Processes : Framed(moved)
<1>1. ASSUME NEW p \in Processes, Moves(p), Acts(p) PROVE Framed({p})
  BY <1>1 DEF Moves, Others, Framed
<1>2. ASSUME NEW m \in Messages, SendAsync(m) PROVE m \in Processes /\ Framed({m})
  <2>1. m \in Processes /\ Moves(m)
    BY <1>2, SendAsyncMoves, Kinds
  <2> QED
    BY <1>1, <1>2, <2>1 DEF Acts
<1>3. ASSUME NEW p \in Processes, UploadFile(p) \/ AddMessage(p) \/ Crash(p)
      PROVE  Framed({p})
  <2>1. Moves(p)
    BY <1>3, UploadFileMoves, AddMessageMoves, CrashMoves
  <2> QED
    BY <1>1, <1>3, <2>1 DEF Acts
<1>4. ASSUME NEW p \in Attempts, Handles(p) PROVE p \in Processes /\ Framed({p})
  <2>1. p \in Processes /\ Moves(p)
    BY <1>4, ReadBodyMoves, LookMoves, HandlersMove, DeleteFileMoves, CompleteMoves, Kinds
    DEF Handles
  <2> QED
    BY <1>1, <1>4, <2>1 DEF Acts
<1>5. ASSUME NEW c \in DOMAIN copies, Receive(c)
      PROVE  \E p \in Processes : Framed({p})
  <2>1. PICK p \in Attempts : Others(p) /\ pc'[p] = "read"
    BY <1>5, ReceiveMoves
  <2>2. CopiesStay /\ CopiesFrom({p}) /\ UNCHANGED <<files, handled>>
    BY <1>5, ReceiveMoves
  <2>3. Framed({p}) /\ p \in Processes
    BY <2>1, <2>2, Kinds DEF Others, Acts, Framed
  <2> QED
    BY <2>3
<1>6. ASSUME NEW c \in DOMAIN copies, VisibilityTimeout(c) \/ Redeliver(c) \/ Poison(c)
      PROVE  Framed({})
  BY <1>6, HostMoves DEF Framed
<1>7. ASSUME Tick \/ UNCHANGED vars PROVE Framed({})
  BY <1>7, QuietSteps, CopiesMove DEF Quiet, Framed
<1>8. ASSUME NEW p \in Processes, Step(p) \/ Crash(p) PROVE Framed({p})
  BY <1>3, <1>4, <1>8 DEF Step, Handles
<1>9. /\ \A p \in Processes : {p} \in SUBSET Processes
      /\ {} \in SUBSET Processes
  OBVIOUS
<1> QED
  BY <1>2, <1>5, <1>6, <1>7, <1>8, <1>9 DEF Next

\* Files go when an attempt deletes the one its copy came with.
LEMMA FilesGo ==
    ASSUME TypeInv, NEW p \in Processes, Acts(p), NEW f \in files, f \notin files'
    PROVE  p \in Attempts /\ DeleteFile(p) /\ f = Ctx(p).body
<1>1. ASSUME UploadFile(p) PROVE FALSE
  BY <1>1, UploadFileMoves
<1> QED
  BY <1>1, SendAsyncMoves, AddMessageMoves, CrashMoves, ReadBodyMoves, LookMoves,
     HandlersMove, DeleteFileMoves, CompleteMoves
  DEF Acts, Handles

----------------------------------------------------------------------------
(* No handler runs before the message is due *)

\* By the clocks of the hosts, m may be due.
MayRun(m) == sent[m].wake \in Int => now >= sent[m].wake - Slack - MaxSkew

\* What is not delayed (any more) may run: on the queue, on its way there, and
\* in the hands of its handlers.
CopyInTime(c) == copies[c].ctx.delayed \in {None, 0} => MayRun(copies[c].ctx.msg)
InTime(p) ==
    /\ pc[p] \in Sending /\ out[p].delayed \in {None, 0} => MayRun(out[p].msg)
    /\ p \in Attempts /\ pc[p] = "stateless" => MayRun(Ctx(p).msg)
TimeInv ==
    /\ \A c \in DOMAIN copies : CopyInTime(c)
    /\ \A p \in Processes : InTime(p)

\* Time only passes for what does not move.
LEMMA TimeKept ==
    ASSUME TypeInv, TimeInv, now' \in Nat, now <= now',
           NEW moved \in SUBSET Processes,
           \A p \in Processes \ moved : pc'[p] = pc[p] /\ out'[p] = out[p],
           \A m \in Messages : pc[m] # "idle" => sent'[m] = sent[m],
           \A p \in moved : InTime(p)',
           CopiesStay, CopiesFrom(moved)
    PROVE  TimeInv'
<1>1. ASSUME NEW m \in Messages, pc[m] # "idle", MayRun(m) PROVE MayRun(m)'
  <2>1. now \in Nat /\ sent'[m] = sent[m]
    BY <1>1 DEF TypeInv, CountsOK
  <2> QED
    BY <1>1, <2>1, LimitsAreNat DEF MayRun
<1>2. ASSUME NEW c \in DOMAIN copies PROVE CopyInTime(c)'
  BY <1>1, <1>2, Started DEF TimeInv, CopyInTime, CopiesStay
<1>3. ASSUME NEW c \in DOMAIN copies' \ DOMAIN copies PROVE CopyInTime(c)'
  <2>1. PICK p \in moved : pc[p] = "add" /\ copies'[c].ctx = out[p]
    BY <1>3 DEF CopiesFrom
  <2> QED
    BY <1>1, <2>1, Started DEF TimeInv, InTime, CopyInTime, Sending
<1>4. ASSUME NEW p \in Processes \ moved PROVE InTime(p)'
  <2>1. pc[p] \in Sending /\ out[p].delayed \in {None, 0} => MayRun(out[p].msg)'
    BY <1>1, Started DEF TimeInv, InTime
  <2>2. ASSUME p \in Attempts, pc[p] = "stateless" PROVE MayRun(Ctx(p).msg)'
    <3>1. MayRun(Ctx(p).msg)
      BY <2>2 DEF TimeInv, InTime
    <3>2. /\ p[1] \in DOMAIN copies /\ Ctx(p) = copies[p[1]].ctx
          /\ Ctx(p).msg \in Messages /\ pc[Ctx(p).msg] # "idle"
      BY <2>2, Started
    <3>3. Ctx(p)' = Ctx(p)
      BY <3>2 DEF CopiesStay, Ctx, Copy
    <3> QED
      BY <1>1, <3>1, <3>2, <3>3 DEF MayRun
  <2> QED
    BY <1>4, <2>1, <2>2 DEF InTime
<1> QED
  BY <1>2, <1>3, <1>4 DEF TimeInv

\* A message is sent without a delay only when it may run.
LEMMA TimeSend ==
    ASSUME TypeInv, NEW m \in Messages, SendAsync(m)
    PROVE  InTime(m)'
<1>1. PICK delay \in Int \cup {None} :
        /\ out'[m].delayed = Capped(delay)
        /\ sent'[m].wake = IF delay = None THEN None ELSE AtMost(now + delay)
  BY SendAsyncMoves
<1>2. out'[m].msg = m /\ UNCHANGED now /\ now \in Nat /\ m \notin Attempts
  BY SendAsyncMoves, Kinds DEF TypeInv, CountsOK
<1>3. ASSUME delay # None, Capped(delay) \in {None, 0}
      PROVE  delay <= 0
  BY <1>3, LimitsAreNat, DelaysAreTimes DEF Capped
<1>4. ASSUME delay # None, delay <= 0 PROVE AtMost(now + delay) <= now /\ AtMost(now + delay) \in Int
  BY <1>2, <1>4, LimitsAreNat DEF AtMost
<1>5. ASSUME out'[m].delayed \in {None, 0} PROVE MayRun(m)'
  <2>1. CASE delay = None
    BY <1>1, <2>1, DelaysAreTimes DEF MayRun
  <2>2. CASE delay # None
    BY <1>1, <1>2, <1>3, <1>4, <1>5, <2>2, LimitsAreNat DEF MayRun
  <2> QED
    BY <2>1, <2>2
<1> QED
  BY <1>2, <1>5 DEF InTime

\* A message that slept goes to its handlers when it may run, and sleeps again
\* otherwise.
LEMMA TimeLook ==
    ASSUME TypeInv, TimeInv, NEW p \in Attempts, Look(p)
    PROVE  InTime(p)'
<1>0. /\ UNCHANGED <<now, sent, copies>> /\ pc[p] = "look" /\ now \in Int
      /\ Ctx(p)' = Ctx(p) /\ Ctx(p) = copies[p[1]].ctx /\ p[1] \in DOMAIN copies
  BY LookMoves, AttemptTyped DEF Ctx, Copy, TypeInv, CountsOK
<1>1. CASE pc'[p] \notin Sending \cup {"stateless"}
  BY <1>1 DEF InTime
<1>2. CASE pc'[p] \in Sending
  <2>1. PICK delay \in Int : delay > Slack /\ out'[p].delayed = Capped(delay)
    BY <1>2, LookMoves DEF Sending
  <2>2. Capped(delay) \notin {None, 0}
    BY <2>1, LimitsAreNat, DelaysAreTimes DEF Capped
  <2> QED
    BY <1>2, <2>1, <2>2 DEF InTime, Sending
<1>3. CASE pc'[p] = "stateless"
  <2>1. MayRun(Ctx(p).msg)
    <3>1. CASE ~Slept(p)
      <4>1. Ctx(p).delayed \in (0 .. MaxDelay) \cup {None}
        BY <1>0, AttemptTyped DEF OnWire
      <4>2. Ctx(p).delayed \in {None, 0}
        BY <3>1, <4>1, LimitsAreNat DEF Slept
      <4> QED
        BY <1>0, <4>2 DEF TimeInv, CopyInTime
    <3>2. ASSUME NEW skew \in -MaxSkew .. MaxSkew, ~(Left(p, skew) > Slack)
          PROVE  MayRun(Ctx(p).msg)
      BY <1>0, <3>2, LimitsAreNat DEF Left, MayRun
    <3> QED
      BY <1>3, <3>1, <3>2, LookMoves DEF Sending
  <2> QED
    BY <1>0, <1>3, <2>1 DEF InTime, MayRun, Sending
<1> QED
  BY <1>1, <1>2, <1>3

\* Every step keeps what may run apart from what is too early.
LEMMA TimeNext == TypeInv /\ TimeInv /\ [Next]_vars => TimeInv'
<1> SUFFICES ASSUME TypeInv, TimeInv, [Next]_vars PROVE TimeInv'
  OBVIOUS
<1>0. now \in Nat /\ \A p \in Attempts : p \in Processes /\ p \notin Messages
  BY Kinds DEF TypeInv, CountsOK
<1>1. ASSUME NEW p \in Processes, Moves(p), UNCHANGED now,
             \A m \in Messages : pc[m] # "idle" => sent'[m] = sent[m],
             InTime(p)'
      PROVE  TimeInv'
  <2> DEFINE moved == {p}
  <2>1. /\ \A q \in Processes \ moved : pc'[q] = pc[q] /\ out'[q] = out[q]
        /\ \A q \in moved : InTime(q)'
        /\ CopiesStay /\ CopiesFrom(moved) /\ moved \in SUBSET Processes
    BY <1>1 DEF Moves, Others
  <2>2. now' \in Nat /\ now <= now'
    BY <1>0, <1>1
  <2> HIDE DEF moved
  <2> QED
    BY <1>1, <2>1, <2>2, TimeKept
<1>2. ASSUME NEW p \in Processes, pc'[p] \notin Sending \cup {"stateless"}
      PROVE  InTime(p)'
  BY <1>2 DEF InTime
<1>3. ASSUME NEW m \in Messages, SendAsync(m) PROVE TimeInv'
  BY <1>1, <1>3, SendAsyncMoves, TimeSend, Kinds
<1>4. ASSUME NEW p \in Processes, UploadFile(p) PROVE TimeInv'
  <2>1. /\ Moves(p) /\ UNCHANGED <<now, sent>> /\ pc[p] = "upload"
        /\ pc'[p] = "over" \/ (pc'[p] = "add" /\ out'[p] = [out[p] EXCEPT !.body = NewFile])
    BY <1>4, UploadFileMoves
  <2>2. out[p] \in OnWire
    BY DEF TypeInv, ProcessesOK
  <2>3. InTime(p)'
    BY <2>1, <2>2 DEF InTime, TimeInv, MayRun, Sending, OnWire
  <2> QED
    BY <1>1, <2>1, <2>3
<1>5. ASSUME NEW p \in Processes, AddMessage(p) \/ Crash(p) PROVE TimeInv'
  <2>1. Moves(p) /\ UNCHANGED <<now, sent>> /\ pc'[p] \notin Sending \cup {"stateless"}
    BY <1>5, AddMessageMoves, CrashMoves DEF AfterSending, Sending
  <2> QED
    BY <1>1, <1>2, <2>1
<1>6. ASSUME NEW p \in Attempts, Look(p) PROVE TimeInv'
  BY <1>0, <1>1, <1>6, LookMoves, TimeLook
<1>7. ASSUME NEW p \in Attempts,
             \/ ReadBody(p) \/ InvokeStatelessHandlers(p)
             \/ InvokeSagaHandlers(p) \/ DeleteFile(p) \/ Complete(p)
      PROVE  TimeInv'
  <2>1. Moves(p) /\ UNCHANGED <<now, sent>> /\ pc'[p] \notin Sending \cup {"stateless"}
    BY <1>7, ReadBodyMoves, HandlersMove, DeleteFileMoves, CompleteMoves DEF Sending
  <2> QED
    BY <1>0, <1>1, <1>2, <2>1
<1>8. ASSUME NEW c \in DOMAIN copies, Receive(c) PROVE TimeInv'
  <2>1. PICK p \in Attempts : Others(p) /\ pc'[p] = "read"
    BY <1>8, ReceiveMoves
  <2> DEFINE moved == {p}
  <2>2. /\ \A q \in Processes \ moved : pc'[q] = pc[q] /\ out'[q] = out[q]
        /\ \A q \in moved : InTime(q)'
        /\ moved \in SUBSET Processes
    BY <1>0, <1>2, <2>1 DEF Others, Sending
  <2> HIDE DEF moved
  <2>3. UNCHANGED <<now, sent>> /\ CopiesStay /\ CopiesFrom(moved)
    BY <1>8, ReceiveMoves
  <2>4. now' \in Nat /\ now <= now' /\ \A m \in Messages : sent'[m] = sent[m]
    BY <1>0, <2>3
  <2> QED
    BY <2>2, <2>3, <2>4, TimeKept
<1>9. ASSUME now' \in Nat, now <= now', UNCHANGED <<sent, pc, out>>,
             CopiesStay, CopiesFrom({})
      PROVE  TimeInv'
  <2> DEFINE moved == {}
  <2>1. /\ \A q \in Processes \ moved : pc'[q] = pc[q] /\ out'[q] = out[q]
        /\ \A q \in moved : InTime(q)'
        /\ \A m \in Messages : sent'[m] = sent[m]
        /\ moved \in SUBSET Processes /\ CopiesFrom(moved)
    BY <1>9
  <2> HIDE DEF moved
  <2> QED
    BY <1>9, <2>1, TimeKept
<1>10. ASSUME NEW c \in DOMAIN copies, VisibilityTimeout(c) \/ Redeliver(c) \/ Poison(c)
      PROVE  TimeInv'
  <2>1. UNCHANGED <<now, sent, pc, out>> /\ CopiesStay /\ CopiesFrom({})
    BY <1>10, HostMoves
  <2>2. now' \in Nat /\ now <= now'
    BY <1>0, <2>1
  <2> QED
    BY <1>9, <2>1, <2>2
<1>11. CASE Tick \/ UNCHANGED vars
  BY <1>9, <1>11, QuietSteps, CopiesMove DEF Quiet
<1> QED
  BY <1>3, <1>4, <1>5, <1>6, <1>7, <1>8, <1>10, <1>11 DEF Next, Step

\* No handler runs before its message is due by the clock of its host, however
\* long the delay, however often the message is sent again, repeated or handled
\* by hosts with different clocks (HandlersContainer.cs, the check of
\* MessageDelayedTime).
THEOREM NothingEarly == Spec => NeverEarly
<1>1. Init => TimeInv
  BY Kinds DEF Init, TimeInv, InTime, Sending
<1>2. TypeInv /\ TimeInv /\ [Next]_vars =>
        [\A m \in Messages :
           runs'[m] > runs[m] /\ sent[m].wake \in Int =>
               now >= sent[m].wake - Slack - MaxSkew]_vars
  <2> SUFFICES ASSUME TypeInv, TimeInv, Next, NEW m \in Messages,
                      runs'[m] > runs[m], sent[m].wake \in Int
               PROVE  now >= sent[m].wake - Slack - MaxSkew
    OBVIOUS
  <2>0. runs[m] \in Nat
    BY DEF TypeInv, CountsOK
  <2>1. ASSUME UNCHANGED runs PROVE FALSE
    BY <2>0, <2>1
  <2>2. ASSUME NEW p \in Attempts, InvokeStatelessHandlers(p)
        PROVE  MayRun(m)
    <3>1. pc[p] = "stateless" /\ runs' = [runs EXCEPT ![Ctx(p).msg] = @ + 1] /\ p \in Processes
      BY <2>1, <2>2, HandlersMove, Kinds
    <3>2. m = Ctx(p).msg
      BY <2>0, <3>1 DEF TypeInv, CountsOK
    <3> QED
      BY <3>1, <3>2, <2>2 DEF TimeInv, InTime
  <2>3. MayRun(m)
    <3>1. ASSUME NEW p \in Processes, UploadFile(p) \/ AddMessage(p) \/ Crash(p) PROVE FALSE
      BY <2>1, <3>1 DEF UploadFile, AddMessage, Crash
    <3>2. ASSUME NEW p \in Attempts,
                 ReadBody(p) \/ Look(p) \/ InvokeSagaHandlers(p) \/ DeleteFile(p) \/ Complete(p)
          PROVE  FALSE
      BY <2>1, <3>2 DEF ReadBody, Look, InvokeSagaHandlers, DeleteFile, Complete
    <3>3. ASSUME NEW c \in DOMAIN copies,
                 Receive(c) \/ VisibilityTimeout(c) \/ Redeliver(c) \/ Poison(c)
          PROVE  FALSE
      BY <2>1, <3>3 DEF Receive, VisibilityTimeout, Redeliver, Poison
    <3> QED
      BY <2>1, <2>2, <3>1, <3>2, <3>3 DEF Next, Step, SendAsync, Tick
  <2> QED
    BY <2>3 DEF MayRun
<1>3. TypeInv /\ TimeInv /\ [Next]_vars => (TypeInv /\ TimeInv)'
  BY TypeNext, TimeNext
<1> QED
  BY <1>1, <1>2, <1>3, TypeInit, PTL DEF Spec, NeverEarly
=============================================================================

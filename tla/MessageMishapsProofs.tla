------------------------ MODULE MessageMishapsProofs ------------------------
(***************************************************************************)
(* Theorems about what goes wrong in MessageDelivery: a message is given   *)
(* up, and its handlers run again, for no other reason than a crash, a     *)
(* fault, an exception or a late redelivery.  With all that came before,   *)
(* MessageDelivery implements Mailbox.                                     *)
(***************************************************************************)
EXTENDS MessageFilesProofs

----------------------------------------------------------------------------
(* The size of a message tells where its body is *)

\* Away from the limit, a body is in a file if it is big, and BodyInFile tells.
CopySized(c) ==
    LET size == sent[copies[c].ctx.msg].size
    IN  /\ size = "small" => ~copies[c].ctx.inFile
        /\ size = "big" => Body(c) # Inline
Sized(p) ==
    /\ pc[p] \in Sending /\ sent[Of(p)].size = "small" => ~out[p].inFile
    /\ pc[p] = "add" /\ sent[Of(p)].size = "big" => out[p].body # Inline
    /\ p \in Attempts /\ pc[p] = "deleteFile" => AtLimit(Ctx(p).msg) \/ Ctx(p).inFile
SizeInv ==
    /\ \A c \in DOMAIN copies : CopySized(c)
    /\ \A p \in Processes : Sized(p)

\* SendAsync is asked for a message once.
LEMMA SentStays ==
    ASSUME TypeInv, [Next]_vars
    PROVE  \A m \in Messages : pc[m] # "idle" => sent'[m] = sent[m] /\ pc'[m] # "idle"
<1>0. \A p \in Attempts : p \in Processes
  BY Kinds
<1>1. ASSUME NEW k \in Messages, SendAsync(k)
      PROVE  \A m \in Messages : pc[m] # "idle" => sent'[m] = sent[m]
  BY <1>1, SendAsyncMoves
<1>2. ASSUME NEW p \in Processes, Step(p) \/ Crash(p) PROVE sent' = sent
  BY <1>2 DEF Step, UploadFile, AddMessage, Crash, ReadBody, Look, InvokeStatelessHandlers,
     InvokeSagaHandlers, DeleteFile, Complete
<1>3. ASSUME NEW c \in DOMAIN copies,
             Receive(c) \/ VisibilityTimeout(c) \/ Redeliver(c) \/ Poison(c)
      PROVE  sent' = sent
  BY <1>3 DEF Receive, VisibilityTimeout, Redeliver, Poison
<1>4. CASE Tick \/ UNCHANGED vars
  <2>1. sent' = sent /\ pc' = pc
    BY <1>4, QuietSteps DEF Quiet
  <2> QED
    BY <2>1
<1>5. ASSUME NEW m \in Messages, pc[m] # "idle" PROVE pc'[m] # "idle"
  <2>1. PICK moved \in SUBSET Processes : Framed(moved)
    BY Frame
  <2>2. m \in Processes /\ (m \notin moved => pc'[m] = pc[m]) /\ (m \in moved => Acts(m))
    BY <2>1, Kinds DEF Framed
  <2>3. Acts(m) => pc'[m] # "idle"
    BY <1>5, Kinds, SendAsyncMoves, UploadFileMoves, AddMessageMoves, CrashMoves, ReadBodyMoves,
       LookMoves, HandlersMove, DeleteFileMoves, CompleteMoves
    DEF Acts, Handles, Moves
  <2> QED
    BY <1>5, <2>2, <2>3
<1> QED
  BY <1>1, <1>2, <1>3, <1>4, <1>5 DEF Next

\* An attempt's message is the same before and after a step.
LEMMA AttemptStays ==
    ASSUME TypeInv, [Next]_vars, CopiesStay, NEW p \in Attempts, pc[p] # "idle"
    PROVE  /\ Ctx(p)' = Ctx(p) /\ Of(p)' = Of(p) /\ Of(p) = Ctx(p).msg
           /\ Ctx(p).msg \in Messages /\ sent'[Ctx(p).msg] = sent[Ctx(p).msg]
           /\ p[1] \in DOMAIN copies /\ Ctx(p) = copies[p[1]].ctx
<1>1. /\ p[1] \in DOMAIN copies /\ Ctx(p) = copies[p[1]].ctx
      /\ Ctx(p).msg \in Messages /\ pc[Ctx(p).msg] # "idle" /\ Of(p) = Ctx(p).msg
  BY AttemptTyped
<1>2. Ctx(p)' = Ctx(p)
  BY <1>1 DEF CopiesStay, Ctx, Copy
<1> QED
  BY <1>1, <1>2, SentStays, Kinds DEF Of

\* A moving process keeps its part.
LEMMA SizedMoves ==
    ASSUME TypeInv, NameInv, SizeInv, [Next]_vars, NEW p \in Processes, Acts(p), CopiesStay
    PROVE  Sized(p)'
<1>0. out[p] \in OnWire /\ SentOK
  BY DEF TypeInv, ProcessesOK
<1>1. CASE pc'[p] \notin Sending \cup {"deleteFile"}
  BY <1>1 DEF Sized, Sending
<1>2. ASSUME p \in Attempts, pc[p] # "idle"
      PROVE  /\ Ctx(p)' = Ctx(p) /\ Of(p)' = Of(p) /\ Of(p) = Ctx(p).msg
             /\ sent'[Ctx(p).msg] = sent[Ctx(p).msg] /\ sent[Ctx(p).msg].size \in Sizes
             /\ sent[Ctx(p).msg].size = "small" => ~Ctx(p).inFile
             /\ sent[Ctx(p).msg].size = "big" => Ctx(p).inFile
  <2>1. /\ Ctx(p)' = Ctx(p) /\ Of(p)' = Of(p) /\ Of(p) = Ctx(p).msg
        /\ Ctx(p).msg \in Messages /\ sent'[Ctx(p).msg] = sent[Ctx(p).msg]
        /\ p[1] \in DOMAIN copies /\ Ctx(p) = copies[p[1]].ctx
    BY <1>2, AttemptStays
  <2>2. CopySized(p[1]) /\ CopyNamed(p[1])
    BY <2>1 DEF SizeInv, NameInv
  <2> QED
    BY <1>0, <2>1, <2>2 DEF CopySized, CopyNamed, Body, SentOK
<1>3. CASE p \in Messages /\ SendAsync(p)
  <2>1. /\ p \notin Attempts /\ Of(p)' = p
        /\ pc'[p] \in Sending /\ out'[p].body = Inline
        /\ pc'[p] = "upload" <=> out'[p].inFile
        /\ sent'[p].size = "small" => pc'[p] = "add"
        /\ sent'[p].size = "big" => pc'[p] = "upload"
    BY <1>3, SendAsyncMoves, Kinds DEF Of
  <2> QED
    BY <2>1 DEF Sized
<1>4. CASE UploadFile(p)
  <2>1. CASE pc'[p] = "add" /\ out'[p] = [out[p] EXCEPT !.body = NewFile]
    <3>1. /\ out'[p].inFile = out[p].inFile /\ out'[p].body = NewFile /\ pc[p] = "upload"
          /\ NewFile # Inline
      BY <1>0, <1>4, <2>1, UploadFileMoves DEF OnWire, NewFile, Inline, TypeInv, CountsOK
    <3>2. Of(p)' = Of(p) /\ sent'[Of(p)] = sent[Of(p)]
      BY <1>2, <1>4, <3>1, Kinds, UploadFileMoves DEF Of
    <3> QED
      BY <2>1, <3>1, <3>2 DEF SizeInv, Sized, Sending
  <2> QED
    BY <1>1, <1>4, <2>1, UploadFileMoves DEF Sending
<1>5. CASE AddMessage(p)
  <2>1. CASE pc'[p] = "deleteFile"
    <3>1. p \in Attempts /\ pc[p] = "add" /\ out[p].inFile
      BY <1>5, <2>1, AddMessageMoves, Kinds DEF AfterSending
    <3>2. sent[Ctx(p).msg].size = "small" => ~out[p].inFile
      BY <1>2, <3>1 DEF SizeInv, Sized, Sending
    <3>3. AtLimit(Ctx(p).msg) \/ Ctx(p).inFile
      BY <1>2, <3>1, <3>2 DEF AtLimit, Sizes
    <3>4. AtLimit(Ctx(p).msg)' \/ Ctx(p)'.inFile
      BY <1>2, <3>1, <3>3 DEF AtLimit
    <3> QED
      BY <2>1, <3>4 DEF Sized, Sending
  <2> QED
    BY <1>1, <1>5, <2>1, AddMessageMoves DEF AfterSending, Sending
<1>6. CASE p \in Attempts /\ Look(p)
  <2>1. CASE pc'[p] \in Sending
    BY <1>2, <1>6, <2>1, LookMoves DEF Sized, Sending
  <2> QED
    BY <1>1, <1>6, <2>1, LookMoves DEF Sending
<1>7. CASE p \in Attempts /\ InvokeSagaHandlers(p)
  BY <1>1, <1>2, <1>7, HandlersMove DEF Sized, Sending
<1>8. CASE \/ Crash(p) \/ pc'[p] = "read"
           \/ /\ p \in Attempts
              /\ ReadBody(p) \/ InvokeStatelessHandlers(p) \/ DeleteFile(p) \/ Complete(p)
  BY <1>1, <1>8, CrashMoves, ReadBodyMoves, HandlersMove, DeleteFileMoves, CompleteMoves
  DEF Sending
<1> QED
  BY <1>3, <1>4, <1>5, <1>6, <1>7, <1>8 DEF Acts, Handles

LEMMA SizeNext == TypeInv /\ NameInv /\ SizeInv /\ [Next]_vars => SizeInv'
<1> SUFFICES ASSUME TypeInv, NameInv, SizeInv, [Next]_vars PROVE SizeInv'
  OBVIOUS
<1>0. PICK moved \in SUBSET Processes : Framed(moved)
  BY Frame
<1>1. /\ \A p \in Processes \ moved : pc'[p] = pc[p] /\ out'[p] = out[p]
      /\ \A p \in moved : Acts(p)
      /\ CopiesStay /\ CopiesFrom(moved)
  BY <1>0 DEF Framed
<1>2. ASSUME NEW c \in DOMAIN copies' PROVE CopySized(c)'
  <2>1. CASE c \in DOMAIN copies
    <3>1. copies'[c].ctx = copies[c].ctx /\ sent'[copies[c].ctx.msg] = sent[copies[c].ctx.msg]
      BY <1>1, <2>1, Started, SentStays DEF CopiesStay
    <3> QED
      BY <2>1, <3>1 DEF SizeInv, CopySized, Body
  <2>2. CASE c \notin DOMAIN copies
    <3>1. PICK p \in moved : p \in Processes /\ pc[p] = "add" /\ copies'[c].ctx = out[p]
      BY <1>1, <2>2 DEF CopiesFrom
    <3>2. out[p].msg = Of(p) /\ sent'[Of(p)] = sent[Of(p)]
      BY <3>1, Started, SentStays DEF Sending
    <3> QED
      BY <3>1, <3>2 DEF SizeInv, Sized, CopySized, Body, Sending
  <2> QED
    BY <2>1, <2>2
<1>3. ASSUME NEW p \in Processes \ moved PROVE Sized(p)'
  <2>1. CASE p \in Attempts /\ pc[p] # "idle"
    <3>1. /\ Ctx(p)' = Ctx(p) /\ Of(p)' = Of(p) /\ Of(p) = Ctx(p).msg
          /\ sent'[Ctx(p).msg] = sent[Ctx(p).msg]
      BY <1>1, <2>1, AttemptStays
    <3> QED
      BY <1>1, <1>3, <3>1 DEF SizeInv, Sized, AtLimit
  <2>2. CASE p \in Messages /\ pc[p] # "idle"
    <3>1. Of(p)' = Of(p) /\ Of(p) = p /\ sent'[p] = sent[p] /\ p \notin Attempts
      BY <2>2, Kinds, SentStays DEF Of
    <3> QED
      BY <1>1, <1>3, <3>1 DEF SizeInv, Sized
  <2>3. CASE pc[p] = "idle"
    BY <1>1, <1>3, <2>3 DEF Sized, Sending
  <2> QED
    BY <2>1, <2>2, <2>3, Kinds
<1>4. \A p \in moved : Sized(p)'
  BY <1>1, SizedMoves
<1> QED
  BY <1>2, <1>3, <1>4 DEF SizeInv

----------------------------------------------------------------------------
(* A message is given up for a cause *)

\* A copy that an attempt has is no longer new.
HiddenInv == \A c \in DOMAIN copies : copies[c].at = "hidden" => copies[c].dequeues > 0

LEMMA HiddenNext == TypeInv /\ HiddenInv /\ [Next]_vars => HiddenInv'
<1> SUFFICES ASSUME TypeInv, HiddenInv, [Next]_vars,
                    NEW c \in DOMAIN copies', copies'[c].at = "hidden"
             PROVE  copies'[c].dequeues > 0
  BY DEF HiddenInv
<1>0. /\ \A p \in Attempts : p \in Processes
      /\ \A d \in DOMAIN copies : copies[d].dequeues \in Nat
  BY Kinds, MishapsGrow
<1>1. ASSUME NEW p \in Processes, Step(p) \/ Crash(p) PROVE copies'[c].dequeues > 0
  <2>1. \/ copies' = copies \/ Adds(p)
        \/ p \in Attempts /\ Marks(p[1], "deleted", copies[p[1]].dequeues)
    BY <1>1, UploadFileMoves, AddMessageMoves, CrashMoves, ReadBodyMoves, LookMoves,
       HandlersMove, DeleteFileMoves, CompleteMoves DEF Step
  <2> QED
    BY <2>1 DEF Adds, Marks, HiddenInv
<1>2. ASSUME NEW d \in DOMAIN copies, Receive(d) PROVE copies'[c].dequeues > 0
  BY <1>0, <1>2, ReceiveMoves DEF Marks, HiddenInv
<1>3. ASSUME NEW d \in DOMAIN copies, VisibilityTimeout(d) \/ Redeliver(d) \/ Poison(d)
      PROVE  copies'[c].dequeues > 0
  <2>1. \E at \in {"queue", "poison"} : Marks(d, at, copies[d].dequeues)
    BY <1>3, HostMoves
  <2> QED
    BY <2>1 DEF Marks, HiddenInv
<1>4. ASSUME copies' = copies PROVE copies'[c].dequeues > 0
  BY <1>4 DEF HiddenInv
<1> QED
  BY <1>1, <1>2, <1>3, <1>4, SendAsyncMoves, QuietSteps DEF Next, Quiet

\* The attempt that has the copy, or had it last.
Latest(c) == <<c, copies[c].dequeues>>

\* A copy whose handlers will run again, if they have run: it is on the queue, or
\* will be there again.
Awaited(c) ==
    \/ copies[c].at = "queue"
    \/ copies[c].at = "hidden" /\ pc[Latest(c)] = "over"

LEMMA LatestKind ==
    ASSUME TypeInv, HiddenInv, NEW c \in DOMAIN copies, copies[c].at = "hidden"
    PROVE  /\ Latest(c) \in Attempts /\ Latest(c)[1] = c
           /\ Latest(c)[2] = copies[c].dequeues
BY CopiesTyped, Kinds, LimitsAreNat DEF TypeInv, OnQueue, HiddenInv, Latest

\* An attempt leaves without deleting its copy because something went wrong, or
\* there is something wrong with the message.
LEMMA OverForCause ==
    ASSUME TypeInv, NameInv, SizeInv, NEW p \in Attempts, Step(p) \/ Crash(p),
           ~Complete(p), pc'[p] = "over"
    PROVE  \/ mishaps' = mishaps + 1 /\ mishaps \in Nat
           \/ AtLimit(Ctx(p).msg)
           \/ pc[p] = "look" /\ ~sent[Ctx(p).msg].known
<1>0. p \in Processes /\ p \notin Messages /\ mishaps \in Nat
  BY Kinds DEF TypeInv, CountsOK
<1>1. CASE UploadFile(p) \/ AddMessage(p) \/ Crash(p)
  BY <1>0, <1>1, UploadFileMoves, AddMessageMoves, CrashMoves DEF AfterSending
<1>2. CASE InvokeStatelessHandlers(p) \/ InvokeSagaHandlers(p)
  BY <1>0, <1>2, HandlersMove
<1>3. CASE Look(p)
  BY <1>3, LookMoves DEF Sending
<1>4. ASSUME pc[p] # "idle"
      PROVE  /\ sent[Ctx(p).msg].size \in Sizes
             /\ sent[Ctx(p).msg].size = "small" => ~Ctx(p).inFile
             /\ sent[Ctx(p).msg].size = "big" => Ctx(p).body # Inline
  <2>1. p[1] \in DOMAIN copies /\ Ctx(p) = copies[p[1]].ctx /\ Ctx(p).msg \in Messages
    BY <1>4, AttemptTyped
  <2> QED
    BY <2>1 DEF SizeInv, CopySized, Body, TypeInv, SentOK
<1>5. CASE ReadBody(p)
  BY <1>0, <1>4, <1>5, ReadBodyMoves DEF AtLimit, Sizes
<1>6. CASE DeleteFile(p)
  <2>1. Sized(p)
    BY <1>0 DEF SizeInv
  <2> QED
    BY <1>0, <1>4, <1>6, <2>1, DeleteFileMoves DEF AtLimit, Sizes, Sized
<1> QED
  BY <1>0, <1>1, <1>2, <1>3, <1>5, <1>6 DEF Step

\* Every attempt at a copy, but for the one that still has it, is paid for by a
\* mishap of its own.
Known(c) == sent[copies[c].ctx.msg].known /\ ~AtLimit(copies[c].ctx.msg)
Caused(c) ==
    Known(c) =>
        /\ Awaited(c) => mishaps >= copies[c].dequeues
        /\ copies[c].at = "hidden" => mishaps >= copies[c].dequeues - 1
        /\ copies[c].at = "poison" => mishaps >= MaxDequeueCount
CauseInv == \A c \in DOMAIN copies : Caused(c)

LEMMA CauseNext ==
    TypeInv /\ NameInv /\ SizeInv /\ HiddenInv /\ CauseInv /\ [Next]_vars => CauseInv'
<1> SUFFICES ASSUME TypeInv, NameInv, SizeInv, HiddenInv, CauseInv, [Next]_vars,
                    NEW c \in DOMAIN copies'
             PROVE  Caused(c)'
  BY DEF CauseInv
<1>0. /\ \A p \in Attempts : p \in Processes /\ p \notin Messages
      /\ mishaps \in Nat /\ mishaps' \in Nat /\ mishaps' >= mishaps
  BY Kinds, MishapsGrow
<1>1. CASE c \notin DOMAIN copies
  <2>1. PICK moved \in SUBSET Processes : CopiesFrom(moved)
    BY Frame DEF Framed
  <2>2. copies'[c].at = "queue" /\ copies'[c].dequeues = 0
    BY <1>1, <2>1 DEF CopiesFrom
  <2> QED
    BY <1>0, <2>2 DEF Caused
<1>2. ASSUME c \in DOMAIN copies, Known(c)'
      PROVE  /\ Known(c) /\ Caused(c) /\ copies'[c].ctx = copies[c].ctx
             /\ copies[c].dequeues \in Nat /\ copies[c].ctx.msg \in Messages
  <2>1. CopiesStay
    BY Frame DEF Framed
  <2>2. copies'[c].ctx = copies[c].ctx /\ sent'[copies[c].ctx.msg] = sent[copies[c].ctx.msg]
    BY <1>2, <2>1, Started, SentStays DEF CopiesStay
  <2>3. copies[c].dequeues \in Nat
    BY <1>2, MishapsGrow
  <2> QED
    BY <1>2, <2>2, <2>3, Started DEF Known, AtLimit, CauseInv
\* Nothing happens to the copy, nor to the attempt that has it.
<1>3. ASSUME c \in DOMAIN copies, copies'[c] = copies[c],
             copies[c].at = "hidden" =>
                 (pc'[Latest(c)] = pc[Latest(c)] \/ pc'[Latest(c)] # "over")
      PROVE  Caused(c)'
  <2>1. Awaited(c)' => Awaited(c)
    BY <1>3 DEF Awaited, Latest
  <2> QED
    BY <1>0, <1>2, <1>3, <2>1, LimitsAreNat DEF Caused
<1>4. ASSUME NEW p \in Processes, Step(p) \/ Crash(p), c \in DOMAIN copies, Known(c)'
      PROVE  Caused(c)'
  <2>1. /\ Others(p)
        /\ \/ copies' = copies \/ Adds(p)
           \/ p \in Attempts /\ Complete(p) /\ MayDelete(p)
              /\ Marks(p[1], "deleted", copies[p[1]].dequeues)
    BY <1>4, UploadFileMoves, AddMessageMoves, CrashMoves, ReadBodyMoves, LookMoves,
       HandlersMove, DeleteFileMoves, CompleteMoves DEF Step, Moves
  <2>2. CASE copies[c].at = "hidden" /\ p = Latest(c) /\ pc'[p] = "over"
    <3>1. p \in Attempts /\ p[1] = c /\ p[2] = copies[c].dequeues
      BY <1>4, <2>2, LatestKind
    <3>2. CASE Complete(p)
      <4>1. MayDelete(p)
        BY <2>2, <3>1 DEF MayDelete
      <4>2. copies'[c].at = "deleted"
        BY <3>1, <3>2, <4>1, CompleteMoves DEF Marks
      <4> QED
        BY <4>2 DEF Caused, Awaited
    <3>3. CASE ~Complete(p)
      <4>1. pc[p] # "idle"
        BY <1>4 DEF Step, UploadFile, AddMessage, Crash, ReadBody, Look,
           InvokeStatelessHandlers, InvokeSagaHandlers, DeleteFile, Complete
      <4>2. Ctx(p) = copies[c].ctx
        BY <3>1, <4>1, Started
      <4>3. mishaps' = mishaps + 1
        BY <1>2, <1>4, <2>2, <3>1, <3>3, <4>2, OverForCause DEF Known
      <4>4. copies'[c] = copies[c]
        BY <1>4, <2>1, <3>3 DEF Adds
      <4>5. mishaps >= copies[c].dequeues - 1 /\ copies[c].dequeues \in Nat
        BY <1>2, <1>4, <2>2 DEF Caused
      <4> QED
        BY <1>0, <2>2, <4>3, <4>4, <4>5 DEF Caused
    <3> QED
      BY <3>2, <3>3
  <2>3. CASE ~(copies[c].at = "hidden" /\ p = Latest(c) /\ pc'[p] = "over")
    <3>1. copies[c].at = "hidden" =>
            (pc'[Latest(c)] = pc[Latest(c)] \/ pc'[Latest(c)] # "over")
      BY <1>0, <1>4, <2>1, <2>3, LatestKind DEF Others
    <3>2. CASE copies'[c] = copies[c]
      BY <1>3, <1>4, <3>1, <3>2
    <3>3. CASE copies'[c] # copies[c]
      BY <1>4, <2>1, <3>3 DEF Adds, Marks, Caused, Awaited
    <3> QED
      BY <3>2, <3>3
  <2> QED
    BY <2>2, <2>3
<1>5. ASSUME NEW d \in DOMAIN copies, Receive(d), c \in DOMAIN copies, Known(c)'
      PROVE  Caused(c)'
  <2>1. /\ copies[d].at = "queue"
        /\ Marks(d, "hidden", copies[d].dequeues + 1)
        /\ \E p \in Attempts : p = <<d, copies[d].dequeues + 1>> /\ Others(p) /\ pc'[p] = "read"
    BY <1>5, ReceiveMoves
  <2>2. CASE c = d
    <3>1. copies'[c].at = "hidden" /\ copies'[c].dequeues = copies[c].dequeues + 1
          /\ pc'[<<c, copies[c].dequeues + 1>>] = "read"
      BY <2>1, <2>2 DEF Marks
    <3>2. mishaps >= copies[c].dequeues
      BY <1>2, <1>5, <2>1, <2>2 DEF Caused, Awaited
    <3> QED
      BY <1>0, <1>2, <1>5, <3>1, <3>2 DEF Caused, Awaited, Latest
  <2>3. CASE c # d
    <3>1. copies'[c] = copies[c]
      BY <1>5, <2>1, <2>3 DEF Marks
    <3>2. copies[c].at = "hidden" => pc'[Latest(c)] = pc[Latest(c)] \/ pc'[Latest(c)] # "over"
      BY <1>0, <1>5, <2>1, LatestKind DEF Others
    <3> QED
      BY <1>3, <1>5, <3>1, <3>2
  <2> QED
    BY <2>2, <2>3
<1>6. ASSUME NEW d \in DOMAIN copies, VisibilityTimeout(d) \/ Redeliver(d) \/ Poison(d),
             c \in DOMAIN copies, Known(c)'
      PROVE  Caused(c)'
  <2>1. /\ UNCHANGED pc
        /\ \/ Marks(d, "queue", copies[d].dequeues)
              /\ copies[d].at = "hidden" /\ pc[Latest(d)] = "over"
           \/ Marks(d, "queue", copies[d].dequeues) /\ mishaps' = mishaps + 1
              /\ copies[d].at = "hidden"
           \/ Marks(d, "poison", copies[d].dequeues)
              /\ copies[d].at = "queue" /\ copies[d].dequeues = MaxDequeueCount
    BY <1>6, HostMoves DEF Latest
  <2>2. CASE c = d
    <3>1. copies'[c].dequeues = copies[c].dequeues /\ copies[c].dequeues \in Nat
      BY <1>2, <1>6, <2>1, <2>2 DEF Marks
    <3>2. CASE copies[c].at = "hidden"
      <4>1. copies'[c].at = "queue"
        BY <2>1, <2>2, <3>2 DEF Marks
      <4>2. mishaps' >= copies[c].dequeues
        BY <1>0, <1>2, <1>6, <2>1, <2>2, <3>1, <3>2 DEF Caused, Awaited
      <4> QED
        BY <3>1, <4>1, <4>2 DEF Caused
    <3>3. CASE copies[c].at = "queue"
      <4>1. copies'[c].at = "poison" /\ copies[c].dequeues = MaxDequeueCount
        BY <2>1, <2>2, <3>3 DEF Marks
      <4>2. mishaps' >= MaxDequeueCount
        BY <1>0, <1>2, <1>6, <3>1, <3>3, <4>1 DEF Caused, Awaited
      <4> QED
        BY <4>1, <4>2 DEF Caused, Awaited
    <3> QED
      BY <2>1, <2>2, <3>2, <3>3
  <2>3. CASE c # d
    <3>1. copies'[c] = copies[c]
      BY <1>6, <2>1, <2>3 DEF Marks
    <3> QED
      BY <1>3, <1>6, <2>1, <3>1
  <2> QED
    BY <2>2, <2>3
<1>7. ASSUME NEW m \in Messages, SendAsync(m), c \in DOMAIN copies PROVE Caused(c)'
  <2>1. copies' = copies /\ Others(m)
    BY <1>7, SendAsyncMoves DEF Moves
  <2>2. copies[c].at = "hidden" => pc'[Latest(c)] = pc[Latest(c)]
    BY <1>0, <1>7, <2>1, LatestKind DEF Others
  <2> QED
    BY <1>3, <1>7, <2>1, <2>2
<1>8. ASSUME Tick \/ UNCHANGED vars, c \in DOMAIN copies PROVE Caused(c)'
  BY <1>3, <1>8, QuietSteps DEF Quiet
<1>9. CASE c \in DOMAIN copies
  <2>1. ~Known(c)' => Caused(c)'
    BY DEF Caused
  <2> QED
    BY <1>4, <1>5, <1>6, <1>7, <1>8, <1>9, <2>1 DEF Next
<1> QED
  BY <1>1, <1>9

\* The body of a message is where its size says.
LEMMA CauseInit == Init => NameInv /\ SizeInv /\ HiddenInv /\ CauseInv
BY Kinds DEF Init, NameInv, CopyNamed, Named, SizeInv, CopySized, Sized, HiddenInv,
   CauseInv, Sending

\* A message goes to the poison queue only when as many mishaps as it may have
\* attempts are its reason, when no handler knows it, or when its size is at the
\* limit, where BodyInFile may lie: an attempt that sends the message again,
\* or finds its file gone, deletes its copy and counts as no failure.
THEOREM PoisonHasACause == Spec => []PoisonedForCause
<1>1. CauseInv => PoisonedForCause
  BY DEF CauseInv, Caused, Known, PoisonedForCause
<1>2. TypeInv /\ NameInv /\ SizeInv /\ HiddenInv /\ CauseInv /\ [Next]_vars
        => (TypeInv /\ NameInv /\ SizeInv /\ HiddenInv /\ CauseInv)'
  BY TypeNext, NameNext, SizeNext, HiddenNext, CauseNext
<1> QED
  BY <1>1, <1>2, TypeInit, CauseInit, PTL DEF Spec

----------------------------------------------------------------------------
(* Handlers run once, and once more for a mishap *)

\* What may still make the handlers of m run once: its sender, a copy that waits
\* for an attempt, and an attempt that has not come to the handlers yet.
BeforeRun == {"read", "look", "upload", "add", "stateless"}
ToSend(m) == pc[m] \in {"idle", "upload", "add"}
Copies(m) == {c \in DOMAIN copies : copies[c].ctx.msg = m /\ Awaited(c)}
Tries(m) == {p \in Attempts : pc[p] \in BeforeRun /\ Of(p) = m}

\* Together they are one, and one more for every mishap.
Paid(m) ==
    \/ AtLimit(m)
    \/ runs[m] + Worth(ToSend(m)) + Cardinality(Copies(m)) + Cardinality(Tries(m))
         <= 1 + mishaps
PaidInv == \A m \in Messages : Paid(m)

\* There are finitely many of them.
LEMMA PaidFinite ==
    ASSUME TypeInv, NEW m
    PROVE  IsFiniteSet(Copies(m)) /\ IsFiniteSet(Tries(m))
<1>1. /\ IsFiniteSet(1 .. MaxCopies) /\ IsFiniteSet(1 .. MaxDequeueCount)
  BY LimitsAreNat, FS_Interval
<1>2. IsFiniteSet(Attempts)
  BY <1>1, FS_Product DEF Attempts
<1>3. Copies(m) \in SUBSET (1 .. MaxCopies) /\ Tries(m) \in SUBSET Attempts
  BY CopiesTyped DEF TypeInv, Copies, Tries
<1> QED
  BY <1>1, <1>2, <1>3, FS_Subset

\* A step that changes two copies and one attempt, and pays.
LEMMA PaidKept ==
    ASSUME TypeInv, TypeInv', NEW m \in Messages, Paid(m), AtLimit(m) => AtLimit(m)',
           NEW x, NEW y, x # y, NEW p,
           Copies(m)' \ {x, y} \subseteq Copies(m), Tries(m)' \ {p} \subseteq Tries(m),
           \/ AtLimit(m)'
           \/ runs'[m] + Worth(ToSend(m)') + Worth(x \in Copies(m)') + Worth(y \in Copies(m)')
                 + Worth(p \in Tries(m)') + mishaps
               <= runs[m] + Worth(ToSend(m)) + Worth(x \in Copies(m)) + Worth(y \in Copies(m))
                    + Worth(p \in Tries(m)) + mishaps'
    PROVE  Paid(m)'
<1> DEFINE S == Copies(m)
           T == Copies(m)'
           P == Tries(m)
           Q == Tries(m)'
           before == runs[m] + Worth(ToSend(m))
           after == runs'[m] + Worth(ToSend(m)')
<1>1. IsFiniteSet(S) /\ IsFiniteSet(P) /\ T \ {x, y} \subseteq S /\ Q \ {p} \subseteq P
  BY PaidFinite
<1>2. before \in Nat /\ after \in Nat /\ mishaps \in Nat /\ mishaps' \in Nat
  BY DEF TypeInv, CountsOK, Worth
<1>3. AtLimit(m) \/ before + Cardinality(S) + Cardinality(P) <= 1 + mishaps
  BY DEF Paid
<1>4. \/ AtLimit(m)'
      \/ after + Worth(x \in T) + Worth(y \in T) + Worth(p \in Q) + mishaps
           <= before + Worth(x \in S) + Worth(y \in S) + Worth(p \in P) + mishaps'
  OBVIOUS
<1>5. (AtLimit(m)' \/ after + Cardinality(T) + Cardinality(Q) <= 1 + mishaps')
        => Paid(m)'
  BY DEF Paid, Worth
<1> HIDE DEF S, T, P, Q, before, after
<1>6. CASE AtLimit(m)'
  BY <1>5, <1>6
<1>7. CASE ~AtLimit(m)'
  <2>1. before + Cardinality(S) + Cardinality(P) <= 1 + mishaps
    BY <1>3, <1>7
  <2>2. after + Worth(x \in T) + Worth(y \in T) + Worth(p \in Q) + mishaps
          <= before + Worth(x \in S) + Worth(y \in S) + Worth(p \in P) + mishaps'
    BY <1>4, <1>7
  <2>3. /\ Cardinality(S) \in Nat /\ Cardinality(T) \in Nat
        /\ Cardinality(P) \in Nat /\ Cardinality(Q) \in Nat
        /\ after + Cardinality(T) + Cardinality(Q) + mishaps
             <= before + Cardinality(S) + Cardinality(P) + mishaps'
    BY <1>1, <1>2, <2>2, CountPaid
  <2> QED
    BY <1>2, <1>5, <2>1, <2>3
<1> QED
  BY <1>6, <1>7

\* The limit is a matter of what SendAsync was asked for.
LEMMA LimitStays == TypeInv /\ [Next]_vars => \A m \in Messages : AtLimit(m) => AtLimit(m)'
<1> SUFFICES ASSUME TypeInv, [Next]_vars, NEW m \in Messages, AtLimit(m) PROVE AtLimit(m)'
  OBVIOUS
<1>1. pc[m] # "idle"
  BY DEF TypeInv, SenderOK, NotSent, AtLimit
<1> QED
  BY <1>1, SentStays DEF AtLimit

\* The attempts that a step does not move stay what they are.
LEMMA TriesStay ==
    ASSUME TypeInv, CopiesStay, NEW p, Others(p), NEW m
    PROVE  Tries(m)' \ {p} \subseteq Tries(m)
<1> SUFFICES ASSUME NEW q \in Attempts, q # p, pc'[q] \in BeforeRun, Of(q)' = m
             PROVE  q \in Tries(m)
  BY DEF Tries
<1>1. pc[q] = pc'[q] /\ q \in Processes /\ q \notin Messages
  BY Kinds DEF Others
<1>2. q[1] \in DOMAIN copies /\ Of(q) = copies[q[1]].ctx.msg
  BY <1>1, Started DEF BeforeRun
<1>3. Of(q)' = Of(q)
  BY <1>1, <1>2 DEF CopiesStay, Of, Ctx, Copy
<1> QED
  BY <1>1, <1>3 DEF Tries

\* A copy that a step leaves, with its attempt, is awaited as before.
LEMMA AwaitedStays ==
    ASSUME TypeInv, HiddenInv, NEW c \in DOMAIN copies, copies'[c] = copies[c],
           NEW p, Others(p), copies[c].at = "hidden" /\ pc'[p] = "over" => p # Latest(c)
    PROVE  Awaited(c)' => Awaited(c)
<1>1. copies[c].at = "hidden" => Latest(c) \in Processes
  BY LatestKind, Kinds
<1> QED
  BY <1>1 DEF Others, Awaited, Latest

\* What a step of a process does to the runs, the copies and itself.
LEMMA ProcessSteps ==
    ASSUME TypeInv, NEW p \in Processes, Step(p) \/ Crash(p)
    PROVE  /\ Moves(p) /\ pc[p] \notin {"idle", "over"}
           /\ \/ copies' = copies
              \/ Adds(p) /\ pc'[p] = AfterSending(p)
              \/ Adds(p) /\ pc'[p] = "over" /\ mishaps' = mishaps + 1
              \/ /\ p \in Attempts /\ Complete(p) /\ MayDelete(p)
                 /\ Marks(p[1], "deleted", copies[p[1]].dequeues)
           /\ \/ runs' = runs
              \/ /\ p \in Attempts /\ pc[p] = "stateless" /\ pc'[p] = "sagas"
                 /\ copies' = copies /\ runs' = [runs EXCEPT ![Of(p)] = @ + 1]
           /\ p \in Attempts /\ pc'[p] \in BeforeRun => pc[p] \in BeforeRun
           /\ p \in Messages => pc[p] \in Sending /\ pc'[p] \in {"add", "over"}
<1>0. /\ \A q \in Attempts : q \notin Messages
      /\ p \in Messages => pc[p] \in Sending \cup {"idle", "over"}
  BY Kinds DEF TypeInv, SenderOK
<1>1. CASE UploadFile(p)
  BY <1>0, <1>1, UploadFileMoves DEF BeforeRun, Sending
<1>2. CASE AddMessage(p)
  <2>1. AfterSending(p) \in {"over", "deleteFile", "done"}
        /\ (p \in Messages => AfterSending(p) = "over")
    BY DEF AfterSending
  <2> QED
    BY <1>0, <1>2, <2>1, AddMessageMoves DEF BeforeRun, Sending
<1>3. CASE Crash(p)
  BY <1>0, <1>3, CrashMoves DEF BeforeRun, Sending, Moves
<1>4. CASE p \in Attempts /\ ReadBody(p)
  BY <1>0, <1>4, ReadBodyMoves DEF BeforeRun
<1>5. CASE p \in Attempts /\ Look(p)
  BY <1>0, <1>5, LookMoves DEF BeforeRun
<1>6. CASE p \in Attempts /\ InvokeStatelessHandlers(p)
  <2>1. pc[p] = "stateless"
    BY <1>6, HandlersMove
  <2>2. Of(p) = Ctx(p).msg
    BY <1>6, <2>1, AttemptTyped
  <2>3. Moves(p) /\ copies' = copies
        /\ \/ pc'[p] = "sagas" /\ runs' = [runs EXCEPT ![Of(p)] = @ + 1]
           \/ pc'[p] = "over" /\ runs' = runs
    BY <1>6, <2>2, HandlersMove
  <2> QED
    BY <1>0, <1>6, <2>1, <2>3 DEF BeforeRun
<1>7. CASE p \in Attempts /\ InvokeSagaHandlers(p)
  BY <1>0, <1>7, HandlersMove DEF BeforeRun
<1>8. CASE p \in Attempts /\ DeleteFile(p)
  BY <1>0, <1>8, DeleteFileMoves DEF BeforeRun
<1>9. CASE p \in Attempts /\ Complete(p)
  BY <1>0, <1>9, CompleteMoves DEF BeforeRun
<1> QED
  BY <1>1, <1>2, <1>3, <1>4, <1>5, <1>6, <1>7, <1>8, <1>9 DEF Step

LEMMA PaidProcess ==
    ASSUME TypeInv, NameInv, SizeInv, HiddenInv, PaidInv, [Next]_vars,
           NEW p \in Processes, Step(p) \/ Crash(p), NEW m \in Messages
    PROVE  Paid(m)'
<1> DEFINE x == IF p \in Attempts THEN p[1] ELSE 0
           y == Len(copies) + 1
<1>0. /\ Moves(p) /\ Others(p) /\ CopiesStay /\ pc[p] \notin {"idle", "over"}
      /\ TypeInv' /\ Paid(m) /\ (AtLimit(m) => AtLimit(m)')
      /\ DOMAIN copies = 1 .. Len(copies) /\ Len(copies) \in Nat
      /\ m \in Processes /\ runs[m] \in Nat
      /\ mishaps \in Nat /\ (mishaps' = mishaps \/ mishaps' = mishaps + 1)
  BY ProcessSteps, TypeNext, LimitStays, CopiesTyped, Kinds, MishapsGrow
  DEF Moves, PaidInv, TypeInv, CountsOK
<1>1. ASSUME p \in Attempts
      PROVE  /\ p[1] \in DOMAIN copies /\ Of(p) = copies[p[1]].ctx.msg /\ Of(p)' = Of(p)
             /\ Ctx(p) = copies[p[1]].ctx /\ p \notin Messages /\ Of(p) \in Messages
  BY <1>0, <1>1, AttemptStays, Kinds
<1>2. x # y /\ y \notin DOMAIN copies /\ 0 \notin DOMAIN copies
  BY <1>0, <1>1
<1>3. DOMAIN copies' \subseteq DOMAIN copies \cup {y} /\ 0 \notin DOMAIN copies'
  BY <1>0, ProcessSteps DEF Adds, Marks
<1>4. \A c \in DOMAIN copies : copies'[c] = copies[c]
                               \/ (c = x /\ p \in Attempts /\ Complete(p) /\ MayDelete(p))
  BY ProcessSteps DEF Adds, Marks
<1>5. \A c \in DOMAIN copies : copies[c].at = "hidden" /\ p = Latest(c) =>
        p \in Attempts /\ c = x /\ p[2] = copies[c].dequeues
  BY LatestKind
<1> HIDE DEF x, y
<1>6. Copies(m)' \ {x, y} \subseteq Copies(m)
  <2> SUFFICES ASSUME NEW c \in DOMAIN copies', c \notin {x, y}, copies'[c].ctx.msg = m,
                      Awaited(c)'
               PROVE  c \in Copies(m)
    BY DEF Copies
  <2>1. c \in DOMAIN copies /\ copies'[c] = copies[c]
    BY <1>3, <1>4
  <2>2. Awaited(c)
    BY <1>0, <1>5, <2>1, AwaitedStays
  <2> QED
    BY <2>1, <2>2 DEF Copies
<1>7. Tries(m)' \ {p} \subseteq Tries(m)
  BY <1>0, TriesStay
<1>8. ASSUME x \in Copies(m)'
      PROVE  /\ p \in Attempts /\ m = Of(p) /\ x = p[1]
             /\ x \in Copies(m) \/ (pc'[p] = "over" /\ ~Complete(p))
  <2>1. p \in Attempts /\ x = p[1] /\ x \in DOMAIN copies
    BY <1>1, <1>3, <1>8 DEF Copies, x
  <2>2. copies'[x].ctx.msg = m /\ Awaited(x)'
    BY <1>8 DEF Copies
  <2>3. copies'[x].ctx = copies[x].ctx /\ m = Of(p)
    BY <1>0, <1>1, <2>1, <2>2 DEF CopiesStay
  <2>4. CASE Complete(p)
    <3>1. pc[p] = "done" /\ (MayDelete(p) => copies'[x].at = "deleted")
          /\ (~MayDelete(p) => copies' = copies)
      BY <2>1, <2>4, CompleteMoves DEF Marks
    <3>2. copies' = copies /\ ~MayDelete(p)
      BY <2>2, <3>1 DEF Awaited
    <3>3. copies[x].at = "hidden" => p # Latest(x)
      BY <1>5, <2>1, <3>2 DEF MayDelete
    <3>4. Awaited(x)
      BY <1>0, <2>1, <2>2, <3>2, <3>3, AwaitedStays
    <3> QED
      BY <1>1, <2>1, <2>3, <3>4 DEF Copies
  <2>5. CASE ~Complete(p) /\ pc'[p] # "over"
    <3>1. Awaited(x)
      BY <1>0, <1>4, <2>1, <2>2, <2>5, AwaitedStays
    <3> QED
      BY <1>1, <2>1, <2>3, <3>1 DEF Copies
  <2> QED
    BY <2>1, <2>3, <2>4, <2>5
<1>9. ASSUME y \in Copies(m)'
      PROVE  /\ Adds(p) /\ m = Of(p) /\ pc[p] = "add"
             /\ pc'[p] = AfterSending(p) \/ (pc'[p] = "over" /\ mishaps' = mishaps + 1)
  <2>1. y \in DOMAIN copies' /\ copies'[y].ctx.msg = m
    BY <1>9 DEF Copies
  <2>2. /\ Adds(p)
        /\ pc'[p] = AfterSending(p) \/ (pc'[p] = "over" /\ mishaps' = mishaps + 1)
    BY <1>2, <2>1, ProcessSteps DEF Marks
  <2>3. pc[p] = "add" /\ copies'[y].ctx = out[p]
    BY <2>2 DEF Adds, y
  <2> QED
    BY <2>1, <2>2, <2>3, Started DEF Sending
<1>10. y \notin Copies(m)
  BY <1>2 DEF Copies
<1>11. /\ p \in Tries(m) <=> p \in Attempts /\ pc[p] \in BeforeRun /\ Of(p) = m
       /\ p \in Tries(m)' => p \in Attempts /\ pc'[p] \in BeforeRun /\ Of(p) = m
  BY <1>1 DEF Tries
<1>12. m # p => (ToSend(m)' <=> ToSend(m))
  BY <1>0 DEF Others, ToSend
<1> DEFINE Pays == runs'[m] + Worth(ToSend(m)') + Worth(x \in Copies(m)')
                     + Worth(y \in Copies(m)') + Worth(p \in Tries(m)') + mishaps
                   <= runs[m] + Worth(ToSend(m)) + Worth(x \in Copies(m))
                     + Worth(y \in Copies(m)) + Worth(p \in Tries(m)) + mishaps'
<1>13. ASSUME m # Of(p)
       PROVE  AtLimit(m)' \/ Pays
  <2>1. /\ x \notin Copies(m)' /\ y \notin Copies(m)' /\ p \notin Tries(m)' /\ m # p
    BY <1>8, <1>9, <1>11, <1>13 DEF Of
  <2>2. runs'[m] = runs[m]
    BY <1>0, <1>1, <1>13, ProcessSteps DEF TypeInv, CountsOK
  <2>3. ToSend(m)' <=> ToSend(m)
    BY <1>12, <2>1
  <2> QED
    BY <1>0, <2>1, <2>2, <2>3 DEF Worth
<1>14. ASSUME m = Of(p), p \in Messages
       PROVE  AtLimit(m)' \/ Pays
  <2>1. /\ p \notin Attempts /\ p = m
        /\ pc[m] \in Sending /\ pc'[m] \in {"add", "over"} /\ runs' = runs
    BY <1>14, Kinds, ProcessSteps DEF Of
  <2>2. x \notin Copies(m)' /\ p \notin Tries(m)' /\ ToSend(m)
    BY <1>8, <1>11, <2>1 DEF ToSend, Sending
  <2>3. y \in Copies(m)' => ~ToSend(m)'
    BY <1>9, <2>1 DEF AfterSending, ToSend
  <2> QED
    BY <1>0, <2>1, <2>2, <2>3 DEF Worth
<1>15. ASSUME m = Of(p), p \in Attempts, pc'[p] # "over" \/ Complete(p)
       PROVE  AtLimit(m)' \/ Pays
  <2>1. (x \in Copies(m)' => x \in Copies(m)) /\ (ToSend(m)' <=> ToSend(m))
    BY <1>1, <1>8, <1>12, <1>15
  <2>2. CASE runs' = runs /\ y \notin Copies(m)'
    <3>1. p \in Tries(m)' => p \in Tries(m)
      BY <1>11, <1>15, ProcessSteps
    <3> QED
      BY <1>0, <2>1, <2>2, <3>1 DEF Worth
  <2>3. CASE runs' = runs /\ y \in Copies(m)'
    <3>1. p \in Tries(m) /\ pc[p] = "add"
      BY <1>9, <1>11, <1>15, <2>3 DEF BeforeRun
    <3>2. p \notin Tries(m)'
      BY <1>1, <1>9, <1>11, <1>15, <2>3 DEF BeforeRun, AfterSending
    <3> QED
      BY <1>0, <2>1, <2>3, <3>1, <3>2 DEF Worth
  <2>4. CASE runs' # runs
    <3>1. /\ pc[p] = "stateless" /\ pc'[p] = "sagas" /\ copies' = copies
          /\ runs' = [runs EXCEPT ![m] = @ + 1]
      BY <1>15, <2>4, ProcessSteps
    <3>2. runs'[m] = runs[m] + 1
      BY <3>1 DEF TypeInv, CountsOK
    <3>3. p \in Tries(m) /\ p \notin Tries(m)'
      BY <1>11, <1>15, <3>1 DEF BeforeRun
    <3>4. y \notin Copies(m)'
      BY <1>2, <3>1 DEF Copies
    <3> QED
      BY <1>0, <2>1, <3>2, <3>3, <3>4 DEF Worth
  <2> QED
    BY <2>2, <2>3, <2>4
<1>16. ASSUME m = Of(p), p \in Attempts, pc'[p] = "over", ~Complete(p)
       PROVE  AtLimit(m)' \/ Pays
  <2>1. /\ runs' = runs /\ (ToSend(m)' <=> ToSend(m)) /\ p \notin Tries(m)'
    BY <1>1, <1>11, <1>12, <1>16, ProcessSteps DEF BeforeRun
  <2>2. \/ mishaps' = mishaps + 1
        \/ AtLimit(m)'
        \/ pc[p] = "look"
    BY <1>0, <1>1, <1>16, OverForCause
  <2>3. ASSUME y \in Copies(m)' PROVE p \in Tries(m) /\ mishaps' = mishaps + 1
    BY <1>1, <1>9, <1>11, <1>16, <2>3 DEF BeforeRun, AfterSending
  <2>4. pc[p] = "look" => p \in Tries(m)
    BY <1>11, <1>16 DEF BeforeRun
  <2>5. CASE y \in Copies(m)'
    <3>1. p \in Tries(m) /\ mishaps' = mishaps + 1
      BY <2>3, <2>5
    <3> QED
      BY <1>0, <2>1, <2>5, <3>1 DEF Worth
  <2>6. CASE y \notin Copies(m)' /\ mishaps' = mishaps + 1
    BY <1>0, <2>1, <2>6 DEF Worth
  <2>7. CASE y \notin Copies(m)' /\ mishaps' = mishaps /\ p \in Tries(m)
    BY <1>0, <2>1, <2>7 DEF Worth
  <2> QED
    BY <1>0, <2>2, <2>4, <2>5, <2>6, <2>7
<1> HIDE DEF Pays
<1>17. AtLimit(m)' \/ Pays
  <2>1. p \in Messages \/ p \in Attempts
    BY Kinds
  <2> QED
    BY <1>13, <1>14, <1>15, <1>16, <2>1
<1> QED
  BY <1>0, <1>2, <1>6, <1>7, <1>17, PaidKept DEF Pays

\* A step of the service at one copy.
LEMMA PaidHost ==
    ASSUME TypeInv, HiddenInv, PaidInv, [Next]_vars, NEW c \in DOMAIN copies,
           Receive(c) \/ VisibilityTimeout(c) \/ Redeliver(c) \/ Poison(c),
           NEW m \in Messages
    PROVE  Paid(m)'
<1>0. /\ TypeInv' /\ Paid(m) /\ (AtLimit(m) => AtLimit(m)')
      /\ DOMAIN copies \subseteq 1 .. MaxCopies /\ m \in Processes /\ m \notin Attempts
      /\ runs[m] \in Nat /\ mishaps \in Nat /\ (mishaps' = mishaps \/ mishaps' = mishaps + 1)
      /\ c # 0
  <2>1. /\ DOMAIN copies \subseteq 1 .. MaxCopies /\ m \in Processes /\ m \notin Attempts
        /\ runs[m] \in Nat /\ mishaps \in Nat
    BY CopiesTyped, Kinds DEF TypeInv, CountsOK
  <2>2. TypeInv' /\ (AtLimit(m) => AtLimit(m)')
    BY TypeNext, LimitStays
  <2>3. mishaps' = mishaps \/ mishaps' = mishaps + 1
    BY MishapsGrow
  <2>4. Paid(m)
    BY DEF PaidInv
  <2> QED
    BY <2>1, <2>2, <2>3, <2>4
<1>1. /\ UNCHANGED runs /\ CopiesStay
      /\ \E at, n : Marks(c, at, n)
  BY ReceiveMoves, HostMoves
<1>2. DOMAIN copies' = DOMAIN copies /\ \A d \in DOMAIN copies \ {c} : copies'[d] = copies[d]
  BY <1>1 DEF Marks
<1>3. 0 \notin Copies(m) /\ 0 \notin Copies(m)'
  BY <1>0, <1>2 DEF Copies
<1>4. ASSUME NEW p \in Attempts, Others(p), p[1] = c \/ pc' = pc
      PROVE  Copies(m)' \ {c, 0} \subseteq Copies(m) /\ Tries(m)' \ {p} \subseteq Tries(m)
             /\ (ToSend(m)' <=> ToSend(m))
  <2>1. ASSUME NEW d \in DOMAIN copies', d # c, copies'[d].ctx.msg = m, Awaited(d)'
        PROVE  d \in Copies(m)
    <3>1. d \in DOMAIN copies /\ copies'[d] = copies[d]
      BY <1>2, <2>1
    <3>2. CASE p[1] = c
      <4>1. copies[d].at = "hidden" => p # Latest(d)
        BY <2>1, <3>1, <3>2, LatestKind
      <4>2. Awaited(d)
        BY <1>4, <2>1, <3>1, <4>1, AwaitedStays
      <4> QED
        BY <2>1, <3>1, <4>2 DEF Copies
    <3>3. CASE pc' = pc
      BY <2>1, <3>1, <3>3 DEF Copies, Awaited, Latest
    <3> QED
      BY <1>4, <3>2, <3>3
  <2>2. Copies(m)' \ {c, 0} \subseteq Copies(m)
    BY <2>1 DEF Copies
  <2>3. Tries(m)' \ {p} \subseteq Tries(m)
    BY <1>1, <1>4, TriesStay
  <2>4. m # p
    BY <1>0
  <2> QED
    BY <1>0, <1>4, <2>2, <2>3, <2>4 DEF Others, ToSend
<1>5. CASE Receive(c)
  <2>1. PICK p \in Attempts :
          p = <<c, copies[c].dequeues + 1>> /\ Others(p) /\ pc'[p] = "read" /\ SendingOK(p)'
    BY <1>5, ReceiveMoves
  <2>2. copies[c].at = "queue" /\ Marks(c, "hidden", copies[c].dequeues + 1)
        /\ UNCHANGED mishaps
    BY <1>5, ReceiveMoves
  <2>3. c \notin Copies(m)'
    BY <2>1, <2>2 DEF Copies, Awaited, Latest, Marks
  <2>4. p \in Tries(m)' => c \in Copies(m)
    <3>1. p[1] = c /\ p \notin Messages /\ p \in Processes
      BY <2>1, Kinds
    <3>2. Of(p)' = copies'[c].ctx.msg
      BY <3>1 DEF Of, Ctx, Copy
    <3> QED
      BY <2>2, <3>2 DEF Copies, Tries, Marks, Awaited
  <2>5. runs'[m] + Worth(ToSend(m)') + Worth(c \in Copies(m)') + Worth(0 \in Copies(m)')
          + Worth(p \in Tries(m)') + mishaps
        <= runs[m] + Worth(ToSend(m)) + Worth(c \in Copies(m)) + Worth(0 \in Copies(m))
          + Worth(p \in Tries(m)) + mishaps'
    BY <1>0, <1>1, <1>3, <1>4, <2>1, <2>2, <2>3, <2>4 DEF Worth
  <2>6. p[1] = c
    BY <2>1
  <2> QED
    BY <1>0, <1>4, <2>1, <2>5, <2>6, PaidKept
<1>6. CASE VisibilityTimeout(c) \/ Redeliver(c) \/ Poison(c)
  <2>1. /\ UNCHANGED <<pc, out>>
        /\ \/ mishaps' = mishaps + 1
           \/ Marks(c, "queue", copies[c].dequeues) /\ Awaited(c)
           \/ Marks(c, "poison", copies[c].dequeues)
    BY <1>6, HostMoves DEF Awaited, Latest
  <2>2. c \in Copies(m)' => c \in Copies(m) \/ mishaps' = mishaps + 1
    BY <1>1, <2>1 DEF Copies, Awaited, CopiesStay, Marks
  <2>3. PICK p \in Attempts : TRUE
    <3>1. 1 \in 1 .. MaxDequeueCount /\ c \in 1 .. MaxCopies
      BY <1>0, LimitsAreNat
    <3> QED
      BY <3>1, Kinds
  <2>4. Others(p) /\ pc' = pc
    BY <2>1 DEF Others
  <2>5. p \in Tries(m)' => p \in Tries(m)
    <3> SUFFICES ASSUME pc'[p] \in BeforeRun, Of(p)' = m PROVE p \in Tries(m)
      BY DEF Tries
    <3>1. pc[p] = pc'[p] /\ p \notin Messages
      BY <2>4, Kinds
    <3>2. p[1] \in DOMAIN copies
      BY <3>1, Started DEF BeforeRun
    <3>3. Of(p)' = Of(p)
      BY <1>1, <3>1, <3>2 DEF CopiesStay, Of, Ctx, Copy
    <3> QED
      BY <3>1, <3>3 DEF Tries
  <2>6. runs'[m] + Worth(ToSend(m)') + Worth(c \in Copies(m)') + Worth(0 \in Copies(m)')
          + Worth(p \in Tries(m)') + mishaps
        <= runs[m] + Worth(ToSend(m)) + Worth(c \in Copies(m)) + Worth(0 \in Copies(m))
          + Worth(p \in Tries(m)) + mishaps'
    BY <1>0, <1>1, <1>3, <1>4, <2>2, <2>4, <2>5 DEF Worth
  <2> QED
    BY <1>0, <1>4, <2>4, <2>6, PaidKept
<1> QED
  BY <1>5, <1>6

LEMMA PaidNext ==
    TypeInv /\ NameInv /\ SizeInv /\ HiddenInv /\ PaidInv /\ [Next]_vars => PaidInv'
<1> SUFFICES ASSUME TypeInv, NameInv, SizeInv, HiddenInv, PaidInv, [Next]_vars,
                    NEW m \in Messages
             PROVE  Paid(m)'
  BY DEF PaidInv
<1>0. /\ \A p \in Attempts : p \in Processes
      /\ m \in Processes /\ Paid(m) /\ (AtLimit(m) => AtLimit(m)')
  BY Kinds, LimitStays DEF PaidInv
<1>1. ASSUME UNCHANGED <<copies, mishaps, runs>>,
             ToSend(m)' <=> ToSend(m), \A c \in DOMAIN copies : Awaited(c)' <=> Awaited(c),
             Tries(m)' = Tries(m)
      PROVE  Paid(m)'
  <2>1. Copies(m)' = Copies(m)
    BY <1>1 DEF Copies
  <2>2. Worth(ToSend(m)') = Worth(ToSend(m)) /\ Worth(ToSend(m))' = Worth(ToSend(m)')
    BY <1>1 DEF Worth
  <2> QED
    BY <1>0, <1>1, <2>1, <2>2 DEF Paid
<1>2. ASSUME NEW k \in Messages, SendAsync(k) PROVE Paid(m)'
  <2>1. /\ UNCHANGED <<copies, mishaps, runs>> /\ Others(k) /\ CopiesStay
        /\ pc[k] = "idle" /\ pc'[k] \in Sending /\ k \notin Attempts
    BY <1>2, SendAsyncMoves, Kinds DEF Moves
  <2>2. ToSend(m)' <=> ToSend(m)
    BY <1>0, <2>1 DEF Others, ToSend, Sending
  <2>3. \A c \in DOMAIN copies : Awaited(c)' <=> Awaited(c)
    <3>1. \A c \in DOMAIN copies : copies[c].at = "hidden" => pc'[Latest(c)] = pc[Latest(c)]
      BY <1>0, <2>1, LatestKind DEF Others
    <3> QED
      BY <2>1, <3>1 DEF Awaited, Latest
  <2>4. \A p \in Attempts : pc'[p] = pc[p] /\ Of(p)' = Of(p)
    BY <1>0, <2>1, Kinds DEF Others, Of, Ctx, Copy
  <2>5. Tries(m)' = Tries(m)
    BY <2>4 DEF Tries
  <2> QED
    BY <1>1, <2>1, <2>2, <2>3, <2>5
<1>3. CASE Tick \/ UNCHANGED vars
  <2>1. UNCHANGED <<sent, copies, pc, mishaps, runs>>
    BY <1>3, QuietSteps DEF Quiet
  <2>2. /\ ToSend(m)' <=> ToSend(m)
        /\ \A c \in DOMAIN copies : Awaited(c)' <=> Awaited(c)
        /\ \A p \in Attempts : pc'[p] = pc[p] /\ Of(p)' = Of(p)
    BY <2>1 DEF ToSend, Awaited, Latest, Of, Ctx, Copy
  <2>3. Tries(m)' = Tries(m)
    BY <2>2 DEF Tries
  <2> QED
    BY <1>1, <2>1, <2>2, <2>3
<1> QED
  BY <1>2, <1>3, PaidProcess, PaidHost DEF Next

\* Nothing has run and nothing is on its way, but for the sender.
LEMMA PaidInit == Init => PaidInv
<1> SUFFICES ASSUME Init, NEW m \in Messages PROVE Paid(m)
  BY DEF PaidInv
<1>1. Copies(m) = {}
  BY DEF Init, Copies
<1>2. Tries(m) = {}
  BY Kinds DEF Init, Tries, BeforeRun
<1>3. runs[m] = 0 /\ mishaps = 0 /\ Cardinality(Copies(m)) = 0 /\ Cardinality(Tries(m)) = 0
  BY <1>1, <1>2, FS_EmptySet DEF Init
<1> QED
  BY <1>3 DEF Paid, Worth

\* Handlers run once, and once more at most for every crash, fault, exception and
\* late redelivery, however often the message is sent again, unless its size is
\* at the limit: the sender, the copies and the attempts that could still make
\* them run, and the runs themselves, are never more than one and the mishaps.
THEOREM RunsArePaid == Spec => []OncePerMishap
<1>1. Init => PaidInv
  BY PaidInit
<1>2. TypeInv /\ PaidInv => OncePerMishap
  <2> SUFFICES ASSUME TypeInv, PaidInv, NEW m \in Messages, ~AtLimit(m)
               PROVE  runs[m] <= 1 + mishaps
    BY DEF OncePerMishap
  <2>1. runs[m] + Worth(ToSend(m)) + Cardinality(Copies(m)) + Cardinality(Tries(m))
          <= 1 + mishaps
    BY DEF PaidInv, Paid
  <2>2. /\ Cardinality(Copies(m)) \in Nat /\ Cardinality(Tries(m)) \in Nat
        /\ Worth(ToSend(m)) \in Nat /\ runs[m] \in Nat /\ mishaps \in Nat
    BY PaidFinite, FS_CardinalityType DEF Worth, TypeInv, CountsOK
  <2> QED
    BY <2>1, <2>2
<1>3. TypeInv /\ NameInv /\ SizeInv /\ HiddenInv /\ PaidInv /\ [Next]_vars
        => (TypeInv /\ NameInv /\ SizeInv /\ HiddenInv /\ PaidInv)'
  BY TypeNext, NameNext, SizeNext, HiddenNext, PaidNext
<1> QED
  BY <1>1, <1>2, <1>3, TypeInit, CauseInit, PTL DEF Spec

----------------------------------------------------------------------------
(* MessageDelivery implements Mailbox *)

\* Handlers run for messages that they know, in order, and for no message that
\* was not sent.
Ran(p) ==
    p \in Attempts =>
        /\ pc[p] = "stateless" => sent[Ctx(p).msg].known
        /\ pc[p] = "sagas" => runs[Ctx(p).msg] > 0
RanInv ==
    /\ \A m \in handled : pc[m] # "idle"
    /\ \A p \in Processes : Ran(p)

\* Runs are counted, never forgotten.
LEMMA RunsStay ==
    ASSUME TypeInv, [Next]_vars, NEW m \in Messages, runs[m] > 0
    PROVE  runs'[m] > 0
<1>0. /\ runs \in [Messages -> Nat]
      /\ \A p \in Attempts : p \in Processes
  BY Kinds DEF TypeInv, CountsOK
<1>1. ASSUME NEW p \in Processes, Step(p) \/ Crash(p) PROVE runs'[m] > 0
  <2>1. runs' = runs \/ runs' = [runs EXCEPT ![Of(p)] = @ + 1]
    BY <1>1, ProcessSteps
  <2> QED
    BY <1>0, <2>1
<1>2. ASSUME NEW c \in DOMAIN copies,
             Receive(c) \/ VisibilityTimeout(c) \/ Redeliver(c) \/ Poison(c)
      PROVE  UNCHANGED runs
  BY <1>2 DEF Receive, VisibilityTimeout, Redeliver, Poison
<1> QED
  BY <1>1, <1>2, SendAsyncMoves, QuietSteps DEF Next, Quiet

\* A moving process runs what it may.
LEMMA RanMoves ==
    ASSUME TypeInv, NEW p \in Processes, Acts(p), CopiesStay
    PROVE  Ran(p)'
<1> SUFFICES ASSUME p \in Attempts, pc'[p] \in {"stateless", "sagas"} PROVE Ran(p)'
  BY DEF Ran
<1>1. \/ Look(p) /\ pc'[p] = "stateless"
      \/ InvokeStatelessHandlers(p) /\ pc'[p] = "sagas"
  BY Kinds, SendAsyncMoves, UploadFileMoves, AddMessageMoves, CrashMoves, ReadBodyMoves,
     LookMoves, HandlersMove, DeleteFileMoves, CompleteMoves
  DEF Acts, Handles, AfterSending, Sending
<1>2. pc[p] # "idle" /\ UNCHANGED sent
  BY <1>1, LookMoves, HandlersMove
<1>3. Ctx(p)' = Ctx(p) /\ Ctx(p).msg \in Messages
  <2>1. p[1] \in DOMAIN copies /\ Ctx(p) = copies[p[1]].ctx /\ Ctx(p).msg \in Messages
    BY <1>2, AttemptTyped
  <2> QED
    BY <2>1 DEF CopiesStay, Ctx, Copy
<1>4. CASE Look(p) /\ pc'[p] = "stateless"
  <2>1. ProcessesOK /\ p \in Processes
    BY DEF TypeInv
  <2>2. ~Goto(p, "over")
    BY <1>4, <2>1, GotoMoves
  <2>3. sent[Ctx(p).msg].known
    BY <1>4, <2>2 DEF Look, Raise
  <2> QED
    BY <1>2, <1>3, <1>4, <2>3 DEF Ran
<1>5. CASE InvokeStatelessHandlers(p) /\ pc'[p] = "sagas"
  <2>1. runs' = [runs EXCEPT ![Ctx(p).msg] = @ + 1]
    BY <1>5, HandlersMove
  <2>2. runs'[Ctx(p).msg] > 0
    BY <1>3, <2>1 DEF TypeInv, CountsOK
  <2> QED
    BY <1>3, <1>5, <2>2 DEF Ran
<1> QED
  BY <1>1, <1>4, <1>5

LEMMA RanNext == TypeInv /\ RanInv /\ [Next]_vars => RanInv'
<1> SUFFICES ASSUME TypeInv, RanInv, [Next]_vars PROVE RanInv'
  OBVIOUS
<1>0. PICK moved \in SUBSET Processes : Framed(moved)
  BY Frame
<1>1. /\ \A p \in Processes \ moved : pc'[p] = pc[p]
      /\ \A p \in moved : Acts(p)
      /\ moved = {} => UNCHANGED handled
      /\ CopiesStay /\ handled \subseteq Messages
  BY <1>0 DEF Framed, TypeInv, CountsOK
<1>2. ASSUME NEW p \in Processes PROVE Ran(p)'
  <2>1. CASE p \in moved
    BY <1>1, <2>1, RanMoves
  <2>2. CASE p \notin moved /\ p \in Attempts /\ pc'[p] \in {"stateless", "sagas"}
    <3>1. pc[p] = pc'[p] /\ Ran(p)
      BY <1>1, <2>2 DEF RanInv
    <3>2. Ctx(p)' = Ctx(p) /\ Ctx(p).msg \in Messages /\ sent'[Ctx(p).msg] = sent[Ctx(p).msg]
      BY <1>1, <2>2, <3>1, AttemptStays
    <3> QED
      BY <3>1, <3>2, RunsStay DEF Ran
  <2> QED
    BY <2>1, <2>2 DEF Ran
<1>3. ASSUME NEW p \in Processes, Acts(p)
      PROVE  handled' = handled \/ \E m \in Messages : pc[m] # "idle" /\ handled' = handled \cup {m}
  <2>1. CASE p \in Attempts /\ InvokeSagaHandlers(p)
    BY <2>1, HandlersMove, AttemptTyped
  <2> QED
    BY <1>3, <2>1, SendAsyncMoves, UploadFileMoves, AddMessageMoves, CrashMoves, ReadBodyMoves,
       LookMoves, HandlersMove, DeleteFileMoves, CompleteMoves
    DEF Acts, Handles
<1>4. \A m \in handled' : m \in Messages /\ pc[m] # "idle"
  BY <1>1, <1>3 DEF RanInv
<1> QED
  BY <1>2, <1>4, SentStays DEF RanInv

\* What the steps of Mailbox need to know.
BoxInv ==
    /\ TypeInv /\ TimeInv /\ BodyInv /\ LifeInv
    /\ NameInv /\ SizeInv /\ HiddenInv /\ CauseInv /\ PaidInv /\ RanInv

\* A message is kept as long as a copy of it is alive.
LEMMA KeptAlive ==
    /\ \A m : m \in Kept <=> m \in Messages /\ \E c \in DOMAIN copies :
                                                 Alive(c) /\ copies[c].ctx.msg = m
    /\ (\A m : m \in Kept <=> m \in Messages /\ \E c \in DOMAIN copies :
                                                 Alive(c) /\ copies[c].ctx.msg = m)'
BY DEF Kept, Alive, Body

\* Every copy's message is kept or handled.
LEMMA KeptOrHandled ==
    ASSUME TypeInv, LifeInv, NEW c \in DOMAIN copies
    PROVE  copies[c].ctx.msg \in Messages /\ copies[c].ctx.msg \in Kept \cup handled
<1>1. copies[c].ctx.msg \in Messages
  BY Started
<1> QED
  BY <1>1, KeptAlive DEF LifeInv, Lasts, Heir

\* No copy comes to life again: a deleted copy stays deleted, and a file's name is
\* never used again.
LEMMA NoneRevives ==
    ASSUME TypeInv, [Next]_vars, NEW c \in DOMAIN copies, Alive(c)'
    PROVE  Alive(c)
<1>0. PICK moved \in SUBSET Processes : Framed(moved)
  BY Frame
<1>1. copies[c] \in OnQueue /\ copies'[c].ctx = copies[c].ctx
  BY <1>0, CopiesTyped DEF TypeInv, Framed, CopiesStay
<1>2. Body(c) \in files \cup {Inline}
  <2> SUFFICES ASSUME Body(c) \in files', Body(c) \notin files PROVE FALSE
    BY <1>1 DEF Alive, Body
  <2>1. PICK p \in moved : Acts(p)
    BY <1>0 DEF Framed
  <2>2. Body(c) = NewFile
    BY <2>1, FilesCome
  <2> QED
    BY <1>1, <2>2 DEF TypeInv, CountsOK, OnQueue, OnWire, Body, NewFile
<1>3. copies[c].at # "deleted"
  <2> SUFFICES ASSUME copies[c].at = "deleted", copies'[c].at # "deleted" PROVE FALSE
    BY DEF Alive
  <2>1. ASSUME NEW p \in Processes, Step(p) \/ Crash(p) PROVE FALSE
    <3>1. \/ copies' = copies \/ Adds(p)
          \/ Marks(p[1], "deleted", copies[p[1]].dequeues)
      BY <2>1, ProcessSteps
    <3> QED
      BY <3>1 DEF Adds, Marks
  <2>2. ASSUME NEW d \in DOMAIN copies,
               Receive(d) \/ VisibilityTimeout(d) \/ Redeliver(d) \/ Poison(d)
        PROVE  FALSE
    <3>1. copies[d].at \in {"queue", "hidden"}
      BY <2>2 DEF Receive, VisibilityTimeout, Redeliver, Poison
    <3>2. \E at, n : Marks(d, at, n)
      BY <2>2, ReceiveMoves, HostMoves
    <3> QED
      BY <3>1, <3>2 DEF Marks
  <2> QED
    BY <2>1, <2>2, SendAsyncMoves, QuietSteps DEF Next, Quiet
<1> QED
  BY <1>2, <1>3 DEF Alive

\* A step that adds no copy may let one message go, whose handlers have run.
LEMMA KeptGoes ==
    ASSUME TypeInv, BodyInv, LifeInv, [Next]_vars, DOMAIN copies' = DOMAIN copies
    PROVE  Kept' = Kept \/ \E m \in handled : Kept' = Kept \ {m}
<1>1. PICK x \in Nat :
        /\ \A c \in DOMAIN copies : Alive(c) /\ c # x => Alive(c)'
        /\ x \in DOMAIN copies => copies[x].ctx.msg \in handled \/ Heir(x)
  BY LifeGoes
<1>2. \A c \in DOMAIN copies : copies'[c].ctx = copies[c].ctx
  <2>1. PICK moved \in SUBSET Processes : Framed(moved)
    BY Frame
  <2> QED
    BY <2>1 DEF Framed, CopiesStay
<1>3. Kept' \subseteq Kept
  BY <1>2, KeptAlive, NoneRevives
<1>4. ASSUME NEW m \in Kept, m \notin Kept'
      PROVE  x \in DOMAIN copies /\ m = copies[x].ctx.msg /\ m \in handled
  <2>1. PICK c \in DOMAIN copies : Alive(c) /\ copies[c].ctx.msg = m
    BY <1>4, KeptAlive
  <2>2. c = x
    BY <1>1, <1>2, <1>4, <2>1, KeptAlive
  <2>3. ASSUME Heir(x) PROVE FALSE
    <3>1. PICK d \in DOMAIN copies : d > x /\ Alive(d) /\ copies[d].ctx.msg = copies[x].ctx.msg
      BY <2>3 DEF Heir
    <3>2. d # x
      BY <1>1, <3>1
    <3> QED
      BY <1>1, <1>2, <1>4, <2>1, <2>2, <3>1, <3>2, KeptAlive
  <2> QED
    BY <1>1, <2>1, <2>2, <2>3
<1>5. CASE Kept \subseteq Kept'
  BY <1>3, <1>5
<1>6. CASE ~(Kept \subseteq Kept')
  <2>1. PICK m \in Kept : m \notin Kept'
    BY <1>6
  <2>2. m \in handled /\ \A k \in Kept : k # m => k \in Kept'
    BY <1>4, <2>1
  <2> QED
    BY <1>3, <2>1, <2>2
<1> QED
  BY <1>5, <1>6

\* The messages given up are those of the poison copies.
LEMMA DeadSame ==
    ASSUME TypeInv, CopiesStay,
           \A c \in DOMAIN copies : copies'[c].at = "poison" <=> copies[c].at = "poison",
           \A c \in DOMAIN copies' \ DOMAIN copies : copies'[c].at # "poison"
    PROVE  Dead' = Dead
<1>1. \A c \in DOMAIN copies : c \in DOMAIN copies' /\ copies'[c].ctx.msg = copies[c].ctx.msg
  BY DEF CopiesStay
<1> QED
  BY <1>1 DEF Dead

\* A step that leaves copies and files alone leaves the mailbox alone.
LEMMA BoxSame ==
    ASSUME UNCHANGED copies, files' = files
    PROVE  Kept' = Kept /\ Dead' = Dead
BY DEF Kept, Dead

\* An upload brings no message back.
LEMMA UploadBoxed ==
    ASSUME BoxInv, [Next]_vars, NEW p \in Processes, UploadFile(p)
    PROVE  Box!Fail \/ UNCHANGED Box!vars
<1>0. TypeInv /\ BodyInv /\ LifeInv
  BY DEF BoxInv
<1>1. UNCHANGED copies /\ files \subseteq files'
  BY <1>0, UploadFileMoves
<1>2. Kept' = Kept
  BY <1>0, <1>1, KeptAlive, NoneRevives DEF Alive, Body
<1>3. Dead' = Dead
  BY <1>1 DEF Dead
<1> QED
  BY <1>0, <1>2, <1>3, UploadFileMoves DEF Box!Fail, Box!vars

\* A copy on the queue puts its message into the mailbox.
LEMMA AddBoxed ==
    ASSUME BoxInv, [Next]_vars, NEW p \in Processes, AddMessage(p)
    PROVE  Box!Fail \/ \E m \in Messages : Box!Put(m)
<1>0. TypeInv /\ BodyInv
  BY DEF BoxInv
<1>1. /\ UNCHANGED <<now, sent, files, runs, handled>>
      /\ pc[p] = "add" /\ CopiesStay
      /\ \/ Adds(p) /\ mishaps' \in {mishaps, mishaps + 1}
         \/ copies' = copies /\ mishaps' = mishaps + 1
  BY <1>0, AddMessageMoves DEF Moves
<1>2. CASE copies' = copies /\ mishaps' = mishaps + 1
  BY <1>1, <1>2, BoxSame DEF Box!Fail
<1>3. CASE Adds(p) /\ mishaps' \in {mishaps, mishaps + 1}
  <2>1. Of(p) \in Messages /\ out[p].msg = Of(p)
    BY <1>0, <1>1, Started DEF Sending
  <2>2. PICK n : n = Len(copies) + 1
    OBVIOUS
  <2>3. out[p].body \in files \cup {Inline}
    BY <1>0, <1>1 DEF BodyInv, OwnsBody
  <2>4. Alive(n)' /\ copies'[n].ctx.msg = Of(p)
    BY <1>1, <1>3, <2>1, <2>3, <2>2 DEF Adds, Alive, Body
  <2>5. \A c \in DOMAIN copies : Alive(c)' <=> Alive(c)
    BY <1>1, <1>3 DEF Adds, Alive, Body
  <2>6. Kept' = Kept \cup {Of(p)}
    <3>1. /\ DOMAIN copies' = DOMAIN copies \cup {n}
          /\ \A c \in DOMAIN copies : copies'[c] = copies[c]
      BY <1>3, <2>2 DEF Adds
    <3>2. ASSUME NEW m PROVE m \in Kept' <=> m \in Kept \/ m = Of(p)
      BY <2>1, <2>4, <2>5, <3>1, KeptAlive
    <3> QED
      BY <3>2
  <2>7. Dead' = Dead
    BY <1>0, <1>1, <1>3, DeadSame DEF Adds
  <2> QED
    BY <1>1, <1>3, <2>1, <2>6, <2>7 DEF Box!Put, Box!MayFail
<1> QED
  BY <1>1, <1>2, <1>3

\* Stateless handlers run for a message that is due and in the mailbox.
LEMMA RunBoxed ==
    ASSUME BoxInv, NEW p \in Attempts, InvokeStatelessHandlers(p)
    PROVE  Box!Fail \/ \E m \in Messages : Box!Run(m)
<1>0. TypeInv /\ p \in Processes
  BY Kinds DEF BoxInv
<1> DEFINE m == Ctx(p).msg
<1>1. /\ UNCHANGED <<now, sent, copies, files, handled>> /\ pc[p] = "stateless"
      /\ \/ mishaps' = mishaps /\ runs' = [runs EXCEPT ![m] = @ + 1]
         \/ mishaps' = mishaps + 1 /\ runs' = runs
  BY <1>0, HandlersMove
<1>2. Kept' = Kept /\ Dead' = Dead
  BY <1>1, BoxSame
<1>3. p[1] \in DOMAIN copies /\ m = copies[p[1]].ctx.msg /\ m \in Messages /\ Of(p) = m
  BY <1>0, <1>1, AttemptTyped
<1>4. m \in Kept \cup handled
  BY <1>0, <1>3, KeptOrHandled DEF BoxInv
<1>5. sent[m].known /\ MayRun(m)
  BY <1>0, <1>1 DEF BoxInv, RanInv, Ran, TimeInv, InTime
<1>6. AtLimit(m) \/ runs[m] <= mishaps
  <2>1. /\ IsFiniteSet(Tries(m)) /\ p \in Tries(m)
        /\ Cardinality(Copies(m)) \in Nat
    BY <1>0, <1>1, <1>3, PaidFinite, FS_CardinalityType DEF Tries, BeforeRun
  <2>2. Cardinality(Tries(m)) \in Nat /\ Cardinality(Tries(m)) # 0
    BY <2>1, FS_CardinalityType, FS_EmptySet
  <2>3. Worth(ToSend(m)) \in Nat /\ runs[m] \in Nat /\ mishaps \in Nat
    BY <1>0, <1>3 DEF Worth, TypeInv, CountsOK
  <2>4. Paid(m)
    BY <1>3 DEF BoxInv, PaidInv
  <2> QED
    BY <2>1, <2>2, <2>3, <2>4 DEF Paid
<1>7. Box!Due(m)
  <2>1. sent[m].wake \in Int \cup {None} /\ now \in Int
    BY <1>0, <1>3 DEF TypeInv, SentOK, CountsOK
  <2> QED
    BY <1>5, <2>1, LimitsAreNat DEF MayRun, Box!Due
<1> HIDE DEF m
<1> QED
  BY <1>1, <1>2, <1>3, <1>4, <1>5, <1>6, <1>7 DEF Box!Fail, Box!Run, Box!Edge, AtLimit

\* Handlers are done after they have run.
LEMMA FinishBoxed ==
    ASSUME BoxInv, NEW p \in Attempts, InvokeSagaHandlers(p)
    PROVE  Box!Fail \/ \E m \in Messages : Box!Finish(m)
<1>0. TypeInv /\ p \in Processes
  BY Kinds DEF BoxInv
<1>1. /\ UNCHANGED <<now, sent, copies, files, runs>> /\ pc[p] = "sagas"
      /\ \/ mishaps' = mishaps /\ handled' = handled \cup {Ctx(p).msg}
         \/ mishaps' = mishaps + 1 /\ handled' = handled
  BY <1>0, HandlersMove
<1>2. Ctx(p).msg \in Messages /\ runs[Ctx(p).msg] > 0
  BY <1>0, <1>1, AttemptTyped DEF BoxInv, RanInv, Ran
<1> QED
  BY <1>1, <1>2, BoxSame DEF Box!Fail, Box!Finish

\* A message is deleted after its handlers are done; as long as another copy of it
\* is alive, nothing has happened.
LEMMA DropBoxed ==
    ASSUME BoxInv, [Next]_vars, NEW p \in Attempts, DeleteFile(p) \/ Complete(p)
    PROVE  \/ \E m \in Messages : Box!Drop(m)
           \/ Box!Fail \/ UNCHANGED Box!vars
<1>0. TypeInv /\ BodyInv /\ LifeInv /\ handled \subseteq Messages
  BY DEF BoxInv, TypeInv, CountsOK
<1>1. UNCHANGED <<now, sent, runs, handled>> /\ mishaps' \in {mishaps, mishaps + 1}
  BY <1>0, DeleteFileMoves, CompleteMoves
<1>2. /\ CopiesStay /\ DOMAIN copies' = DOMAIN copies
      /\ \A c \in DOMAIN copies : copies'[c].at = "poison" <=> copies[c].at = "poison"
  <2>1. CASE DeleteFile(p)
    BY <1>0, <2>1, DeleteFileMoves DEF Moves
  <2>2. CASE Complete(p)
    BY <1>0, <2>2, CompleteMoves DEF Moves, Marks, MayDelete
  <2> QED
    BY <2>1, <2>2
<1>3. Dead' = Dead
  BY <1>0, <1>2, DeadSame
<1>4. Kept' = Kept \/ \E m \in handled : Kept' = Kept \ {m}
  BY <1>0, <1>2, KeptGoes
<1> QED
  BY <1>0, <1>1, <1>3, <1>4 DEF Box!Drop, Box!MayFail, Box!Fail, Box!vars

\* The other steps of processes do nothing to a mailbox, or fail.
LEMMA OthersBoxed ==
    ASSUME BoxInv, NEW p \in Processes,
           Crash(p) \/ (p \in Attempts /\ (ReadBody(p) \/ Look(p)))
    PROVE  Box!Fail \/ UNCHANGED Box!vars
<1>1. /\ UNCHANGED <<now, sent, copies, files, runs, handled>>
      /\ mishaps' \in {mishaps, mishaps + 1}
  BY CrashMoves, ReadBodyMoves, LookMoves DEF BoxInv
<1> QED
  BY <1>1, BoxSame DEF Box!Fail, Box!vars

\* A message is sent before it is in the mailbox.
LEMMA AskBoxed ==
    ASSUME BoxInv, NEW m \in Messages, SendAsync(m)
    PROVE  Box!Ask(m)
<1>0. TypeInv
  BY DEF BoxInv
<1>1. /\ UNCHANGED <<now, copies, files, mishaps, runs, handled>> /\ pc[m] = "idle"
  BY <1>0, SendAsyncMoves
<1>2. sent' = [sent EXCEPT ![m] = sent'[m]]
  BY <1>0 DEF SendAsync, TypeInv, SentOK
<1>3. m \notin Kept \cup handled
  BY <1>0, <1>1, KeptAlive, Started DEF BoxInv, RanInv
<1> QED
  BY <1>1, <1>2, <1>3, BoxSame DEF Box!Ask

\* The host gives a message up for a cause; what else it does is hidden.
LEMMA HostBoxed ==
    ASSUME BoxInv, [Next]_vars, NEW c \in DOMAIN copies,
           Receive(c) \/ VisibilityTimeout(c) \/ Redeliver(c) \/ Poison(c)
    PROVE  \/ \E m \in Messages : Box!GiveUp(m)
           \/ Box!Fail \/ UNCHANGED Box!vars
<1>0. TypeInv /\ LifeInv
  BY DEF BoxInv
<1>1. /\ UNCHANGED <<now, sent, files, runs, handled>> /\ CopiesStay
      /\ mishaps' \in {mishaps, mishaps + 1}
  BY <1>0, ReceiveMoves, HostMoves
<1>2. ASSUME NEW at \in {"queue", "hidden", "poison"}, NEW n, Marks(c, at, n),
             copies[c].at \in {"queue", "hidden"}
      PROVE  Kept' = Kept
  <2>1. \A d \in DOMAIN copies : Alive(d)' <=> Alive(d)
    BY <1>1, <1>2 DEF Marks, Alive, Body
  <2>2. /\ DOMAIN copies' = DOMAIN copies
        /\ \A d \in DOMAIN copies : copies'[d].ctx = copies[d].ctx
    BY <1>1, <1>2 DEF Marks, CopiesStay
  <2>3. \A m : m \in Kept' <=> m \in Kept
    BY <2>1, <2>2, KeptAlive
  <2> QED
    BY <2>3
<1>3. CASE Poison(c)
  <2> DEFINE m == copies[c].ctx.msg
  <2>1. /\ Marks(c, "poison", copies[c].dequeues) /\ mishaps' = mishaps
        /\ copies[c].at = "queue" /\ copies[c].dequeues = MaxDequeueCount
    <3>1. /\ UNCHANGED mishaps /\ copies[c].at = "queue"
          /\ copies[c].dequeues = MaxDequeueCount
      BY <1>3 DEF Poison
    <3> QED
      BY <1>0, <1>3, <3>1, HostMarks DEF TypeInv
  <2>2. m \in Messages /\ m \in Kept \cup handled
    BY <1>0, KeptOrHandled
  <2>3. mishaps >= MaxDequeueCount \/ ~sent[m].known \/ AtLimit(m)
    BY <2>1 DEF BoxInv, CauseInv, Caused, Known, Awaited
  <2>4. Dead' = Dead \cup {m}
    BY <1>1, <2>1, <2>2 DEF Dead, Marks, CopiesStay
  <2>5. Kept' = Kept
    BY <1>2, <2>1
  <2> HIDE DEF m
  <2> QED
    BY <1>1, <2>1, <2>2, <2>3, <2>4, <2>5 DEF Box!GiveUp, Box!Edge, AtLimit
<1>4. CASE Receive(c) \/ VisibilityTimeout(c) \/ Redeliver(c)
  <2>1. copies[c].at \in {"queue", "hidden"}
    BY <1>4 DEF Receive, VisibilityTimeout, Redeliver
  <2>2. \E at \in {"queue", "hidden"} : \E n : Marks(c, at, n)
    BY <1>0, <1>4, HostMarks DEF TypeInv
  <2>3. Kept' = Kept
    BY <1>2, <2>1, <2>2
  <2>4. Dead' = Dead
    BY <1>0, <1>1, <2>1, <2>2, DeadSame DEF Marks
  <2> QED
    BY <1>1, <2>3, <2>4 DEF Box!Fail, Box!vars
<1> QED
  BY <1>3, <1>4

\* To senders and handlers, the queue with its copies, files, hops and attempts
\* is a mailbox: a message that is put there stays until its handlers are done;
\* they run when it is due, in order, and again only for a mishap each; it is
\* given up for a cause; and nothing else happens to it.
THEOREM Refinement == Spec => MailboxSpec
<1>1. Init => BoxInv /\ Box!Init
  <2> SUFFICES ASSUME Init PROVE BoxInv /\ Box!Init
    OBVIOUS
  <2>1. TimeInv
    BY Kinds DEF Init, TimeInv, InTime, Sending
  <2>2. BodyInv /\ LifeInv
    BY Kinds DEF Init, BodyInv, BodiesDiffer, OwnsBody, LifeInv, LetsGo
  <2>3. RanInv
    BY Kinds DEF Init, RanInv, Ran
  <2>4. PaidInv
    BY PaidInit
  <2>5. Kept = {} /\ Dead = {}
    BY DEF Init, Kept, Dead
  <2> QED
    BY <2>1, <2>2, <2>3, <2>4, <2>5, TypeInit, CauseInit DEF BoxInv, Init, Box!Init, NotSent
<1>2. BoxInv /\ [Next]_vars => BoxInv'
  BY TypeNext, TimeNext, BodyNext, LifeNext, NameNext, SizeNext, HiddenNext, CauseNext,
     PaidNext, RanNext DEF BoxInv
<1>3. BoxInv /\ [Next]_vars => [Box!Next]_(Box!vars)
  <2> SUFFICES ASSUME BoxInv, [Next]_vars PROVE Box!Next \/ UNCHANGED Box!vars
    OBVIOUS
  <2>1. ASSUME NEW p \in Processes, Step(p) \/ Crash(p)
        PROVE  Box!Next \/ UNCHANGED Box!vars
    <3>1. CASE UploadFile(p) \/ AddMessage(p)
      BY <3>1, UploadBoxed, AddBoxed DEF Box!Next
    <3>2. CASE p \in Attempts /\ (InvokeStatelessHandlers(p) \/ InvokeSagaHandlers(p))
      BY <3>2, RunBoxed, FinishBoxed DEF Box!Next
    <3>3. CASE p \in Attempts /\ (DeleteFile(p) \/ Complete(p))
      BY <3>3, DropBoxed DEF Box!Next
    <3>4. CASE Crash(p) \/ (p \in Attempts /\ (ReadBody(p) \/ Look(p)))
      BY <3>4, OthersBoxed DEF Box!Next
    <3> QED
      BY <2>1, <3>1, <3>2, <3>3, <3>4 DEF Step
  <2>2. ASSUME NEW m \in Messages, SendAsync(m) PROVE Box!Next
    BY <2>2, AskBoxed DEF Box!Next
  <2>3. ASSUME NEW c \in DOMAIN copies,
               Receive(c) \/ VisibilityTimeout(c) \/ Redeliver(c) \/ Poison(c)
        PROVE  Box!Next \/ UNCHANGED Box!vars
    BY <2>3, HostBoxed DEF Box!Next
  <2>4. CASE Tick
    BY <2>4, BoxSame DEF Tick, Box!Next, Box!Elapse
  <2>5. CASE UNCHANGED vars
    BY <2>5, BoxSame DEF vars, Box!vars
  <2> QED
    BY <2>1, <2>2, <2>3, <2>4, <2>5 DEF Next
<1> QED
  BY <1>1, <1>2, <1>3, PTL DEF Spec, MailboxSpec, Box!Spec
=============================================================================

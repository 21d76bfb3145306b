------------------------- MODULE MessageFilesProofs -------------------------
(***************************************************************************)
(* Theorems about the copies of a message in MessageDelivery and the files *)
(* that hold their bodies: no body is deleted that is still needed, and    *)
(* none is kept that is not.                                               *)
(***************************************************************************)
EXTENDS MessageDeliveryProofs

----------------------------------------------------------------------------
(* A file holds the body of one copy *)

Body(c) == copies[c].ctx.body

\* What is sent has its body with it, and nobody else has.
OwnsBody(p) ==
    /\ pc[p] = "upload" => out[p].body = Inline
    /\ pc[p] = "add" =>
         /\ out[p].body \in files \cup {Inline}
         /\ \A c \in DOMAIN copies : Body(c) = out[p].body => Body(c) = Inline
BodiesDiffer ==
    /\ \A c, d \in DOMAIN copies : Body(c) = Body(d) => c = d \/ Body(c) = Inline
    /\ \A p, q \in Processes :
         pc[p] = "add" /\ pc[q] = "add" /\ out[p].body = out[q].body =>
             p = q \/ out[p].body = Inline
BodyInv == BodiesDiffer /\ \A p \in Processes : OwnsBody(p)

\* A step that gives no process a file, and takes none from those that send.
LEMMA BodyKept ==
    ASSUME TypeInv, BodyInv, NEW moved \in SUBSET Processes,
           \A p \in Processes \ moved : pc'[p] = pc[p] /\ out'[p] = out[p],
           \A p \in moved : pc'[p] \in Sending => out'[p].body = Inline,
           \A f \in files : f \in files' \/ \E c \in DOMAIN copies : Body(c) = f,
           CopiesStay, CopiesFrom(moved)
    PROVE  BodyInv'
<1>1. \A c \in DOMAIN copies : c \in DOMAIN copies' /\ Body(c)' = Body(c)
  BY DEF CopiesStay, Body
<1>2. \A c \in DOMAIN copies' \ DOMAIN copies :
        \E p \in moved : pc[p] = "add" /\ Body(c)' = out[p].body /\ c = Len(copies) + 1
  BY DEF CopiesFrom, Body
<1>3. Inline \notin files
  BY DEF TypeInv, CountsOK, Inline
<1>4. \A p \in Processes : pc'[p] \in Sending /\ out'[p].body # Inline =>
        p \notin moved /\ pc'[p] = pc[p] /\ out'[p] = out[p]
  OBVIOUS
<1>5. ASSUME NEW c \in DOMAIN copies', NEW d \in DOMAIN copies', Body(c)' = Body(d)',
             c # d
      PROVE  Body(c)' = Inline
  <2>1. CASE c \in DOMAIN copies /\ d \in DOMAIN copies
    BY <1>1, <1>5, <2>1 DEF BodyInv, BodiesDiffer
  <2>2. CASE c \in DOMAIN copies /\ d \notin DOMAIN copies
    BY <1>1, <1>2, <1>5, <2>2 DEF BodyInv, OwnsBody
  <2>3. CASE c \notin DOMAIN copies /\ d \in DOMAIN copies
    BY <1>1, <1>2, <1>5, <2>3 DEF BodyInv, OwnsBody
  <2>4. CASE c \notin DOMAIN copies /\ d \notin DOMAIN copies
    BY <1>2, <1>5, <2>4
  <2> QED
    BY <2>1, <2>2, <2>3, <2>4
<1>6. ASSUME NEW p \in Processes, NEW q \in Processes, p # q,
             pc'[p] = "add", pc'[q] = "add", out'[p].body = out'[q].body
      PROVE  out'[p].body = Inline
  BY <1>4, <1>6 DEF BodyInv, BodiesDiffer, Sending
<1>7. ASSUME NEW p \in Processes, pc'[p] = "add" , out'[p].body # Inline
      PROVE  /\ out'[p].body \in files'
             /\ \A c \in DOMAIN copies' : Body(c)' # out'[p].body
  <2>1. p \notin moved /\ pc[p] = "add" /\ out'[p] = out[p]
    BY <1>4, <1>7 DEF Sending
  <2>2. /\ out[p].body \in files
        /\ \A c \in DOMAIN copies : Body(c) # out[p].body
    BY <1>7, <2>1 DEF BodyInv, OwnsBody
  <2>3. ASSUME NEW c \in DOMAIN copies' \ DOMAIN copies PROVE Body(c)' # out[p].body
    BY <1>2, <1>7, <2>1 DEF BodyInv, BodiesDiffer
  <2> QED
    BY <1>1, <2>1, <2>2, <2>3
<1>8. ASSUME NEW p \in Processes, pc'[p] = "upload" PROVE out'[p].body = Inline
  BY <1>4, <1>8 DEF BodyInv, OwnsBody, Sending
<1>9. BodiesDiffer'
  BY <1>5, <1>6 DEF BodiesDiffer
<1>10. \A p \in Processes : OwnsBody(p)'
  BY <1>7, <1>8 DEF OwnsBody
<1> QED
  BY <1>9, <1>10 DEF BodyInv

\* An uploaded file is new.
LEMMA BodyUpload ==
    ASSUME TypeInv, BodyInv, NEW p \in Processes, UploadFile(p)
    PROVE  BodyInv'
<1>1. /\ Moves(p) /\ UNCHANGED copies /\ pc[p] = "upload"
      /\ \/ /\ pc'[p] = "add" /\ out'[p] = [out[p] EXCEPT !.body = NewFile]
            /\ files' = files \cup {NewFile}
         \/ pc'[p] = "over" /\ files \subseteq files'
  BY UploadFileMoves
<1>2. Others(p) /\ CopiesStay /\ CopiesFrom({p})
  BY <1>1 DEF Moves
<1>3. CASE pc'[p] = "over"
  <2> DEFINE moved == {p}
  <2>1. /\ \A q \in Processes \ moved : pc'[q] = pc[q] /\ out'[q] = out[q]
        /\ \A q \in moved : pc'[q] \in Sending => out'[q].body = Inline
        /\ CopiesFrom(moved) /\ moved \in SUBSET Processes
    BY <1>2, <1>3 DEF Others, Sending
  <2>2. files \subseteq files'
    BY <1>1
  <2> HIDE DEF moved
  <2> QED
    BY <1>2, <2>1, <2>2, BodyKept
<1>4. CASE pc'[p] = "add"
  <2>1. uploads \in Nat /\ files \subseteq 1 .. uploads
        /\ \A q \in Processes : out[q] \in OnWire
    BY DEF TypeInv, CountsOK, ProcessesOK
  <2>2. out'[p].body = NewFile /\ files' = files \cup {NewFile}
    BY <1>1, <1>4, <2>1 DEF OnWire
  <2>3. \A c \in DOMAIN copies : copies[c] \in OnQueue
    BY CopiesTyped DEF TypeInv
  <2>4. \A c \in DOMAIN copies : Body(c) # NewFile
    BY <2>1, <2>3 DEF NewFile, OnQueue, OnWire, Body
  <2>5. \A q \in Processes : out[q].body # NewFile
    BY <2>1 DEF NewFile, OnWire
  <2>6. UNCHANGED copies /\ \A c \in DOMAIN copies : Body(c)' = Body(c)
    BY <1>1 DEF Body
  <2>7. BodiesDiffer'
    BY <1>2, <2>2, <2>5, <2>6 DEF BodyInv, BodiesDiffer, Others
  <2>8. \A q \in Processes : OwnsBody(q)'
    BY <1>2, <1>4, <2>2, <2>4, <2>6 DEF BodyInv, OwnsBody, Others
  <2> QED
    BY <2>7, <2>8 DEF BodyInv
<1> QED
  BY <1>1, <1>3, <1>4

\* Bodies stay apart.
LEMMA BodyNext == TypeInv /\ BodyInv /\ [Next]_vars => BodyInv'
<1> SUFFICES ASSUME TypeInv, BodyInv, [Next]_vars PROVE BodyInv'
  OBVIOUS
<1>0. PICK moved \in SUBSET Processes : Framed(moved)
  BY Frame
<1>1. /\ \A p \in Processes \ moved : pc'[p] = pc[p] /\ out'[p] = out[p]
      /\ \A p \in moved : Acts(p)
      /\ moved = {} => UNCHANGED files
      /\ CopiesStay /\ CopiesFrom(moved)
  BY <1>0 DEF Framed
<1>2. CASE \E p \in moved : UploadFile(p)
  BY <1>1, <1>2, BodyUpload
<1>3. CASE \A p \in moved : ~UploadFile(p)
  <2>1. ASSUME NEW p \in moved, pc'[p] \in Sending PROVE out'[p].body = Inline
    <3>1. (SendAsync(p) /\ p \in Messages) \/ (Look(p) /\ p \in Attempts)
      BY <1>1, <1>3, <2>1, AddMessageMoves, CrashMoves, ReadBodyMoves,
         HandlersMove, DeleteFileMoves, CompleteMoves
      DEF Acts, Handles, Sending, AfterSending
    <3> QED
      BY <2>1, <3>1, SendAsyncMoves, LookMoves DEF Sending
  <2>2. ASSUME NEW f \in files, f \notin files' PROVE \E c \in DOMAIN copies : Body(c) = f
    <3>1. PICK p \in moved : p \in Attempts /\ DeleteFile(p) /\ f = Ctx(p).body
      BY <1>1, <2>2, FilesGo
    <3>2. p[1] \in DOMAIN copies /\ Ctx(p) = copies[p[1]].ctx
      BY <3>1, DeleteFileMoves, AttemptTyped
    <3> QED
      BY <3>1, <3>2 DEF Body
  <2> QED
    BY <1>1, <2>1, <2>2, BodyKept
<1> QED
  BY <1>2, <1>3

----------------------------------------------------------------------------
(* No message vanishes *)

\* The copy still has its body.
Alive(c) == copies[c].at # "deleted" /\ Body(c) \in files \cup {Inline}

\* A later copy of the same message is alive.
Heir(c) == \E d \in DOMAIN copies : d > c /\ Alive(d) /\ copies[d].ctx.msg = copies[c].ctx.msg

\* Every copy of a message that waits for its handlers lives, or lives on; it
\* lives on when the attempt at it is about to delete it.
Lasts(c) == copies[c].ctx.msg \in handled \/ Alive(c) \/ Heir(c)
LetsGo(p) ==
    p \in Attempts /\ pc[p] \in {"deleteFile", "done"} =>
        Ctx(p).msg \in handled \/ Heir(p[1])
LifeInv ==
    /\ \A c \in DOMAIN copies : Lasts(c)
    /\ \A p \in Processes : LetsGo(p)

\* Whatever happens, one copy dies at most, and only if it may.
LEMMA LifeGoes ==
    ASSUME TypeInv, BodyInv, LifeInv, [Next]_vars
    PROVE  \E x \in Nat :
              /\ \A c \in DOMAIN copies : Alive(c) /\ c # x => Alive(c)'
              /\ x \in DOMAIN copies => copies[x].ctx.msg \in handled \/ Heir(x)
<1>0. /\ DOMAIN copies \subseteq Nat /\ 0 \in Nat /\ 0 \notin DOMAIN copies
      /\ \A p \in Attempts : p \in Processes
  BY CopiesTyped, Kinds DEF TypeInv
<1>1. ASSUME files \subseteq files', CopiesStay,
             \A c \in DOMAIN copies : copies'[c].at = "deleted" => copies[c].at = "deleted"
      PROVE  \A c \in DOMAIN copies : Alive(c) => Alive(c)'
  BY <1>1 DEF Alive, Body, CopiesStay
<1>2. ASSUME NEW p \in Attempts, DeleteFile(p) \/ Complete(p)
      PROVE  /\ p[1] \in DOMAIN copies
             /\ copies[p[1]].ctx.msg \in handled \/ Heir(p[1])
             /\ \A c \in DOMAIN copies : Alive(c) /\ c # p[1] => Alive(c)'
  <2>1. pc[p] \in {"deleteFile", "done"}
    BY <1>2, DeleteFileMoves, CompleteMoves
  <2>2. p[1] \in DOMAIN copies /\ Ctx(p) = copies[p[1]].ctx
    BY <2>1, AttemptTyped
  <2>3. copies[p[1]].ctx.msg \in handled \/ Heir(p[1])
    BY <1>0, <2>1, <2>2 DEF LifeInv, LetsGo
  <2>4. CASE DeleteFile(p)
    <3>1. UNCHANGED copies /\ \A f \in files : f \in files' \/ (f = Ctx(p).body /\ f # Inline)
      BY <2>4, DeleteFileMoves
    <3>2. \A c \in DOMAIN copies : c # p[1] => Body(c) # Body(p[1]) \/ Body(c) = Inline
      BY <2>2 DEF BodyInv, BodiesDiffer
    <3> QED
      BY <2>2, <2>3, <3>1, <3>2 DEF Alive, Body
  <2>5. CASE Complete(p)
    <3>1. /\ UNCHANGED files
          /\ Marks(p[1], "deleted", copies[p[1]].dequeues) \/ copies' = copies
      BY <2>5, CompleteMoves
    <3>2. \A c \in DOMAIN copies : c # p[1] => copies'[c] = copies[c]
      BY <3>1 DEF Marks
    <3> QED
      BY <2>2, <2>3, <3>1, <3>2 DEF Alive, Body
  <2> QED
    BY <1>2, <2>4, <2>5
<1>3. ASSUME NEW p \in Processes, Acts(p), ~(p \in Attempts /\ DeleteFile(p)),
             ~(p \in Attempts /\ Complete(p)), pc'[p] # "read"
      PROVE  \A c \in DOMAIN copies : Alive(c) => Alive(c)'
  <2>1. files \subseteq files'
    BY <1>3, FilesGo
  <2>2. copies' = copies \/ Adds(p)
    BY <1>3, UploadFileMoves, AddMessageMoves, CrashMoves, SendAsyncMoves, ReadBodyMoves,
       LookMoves, HandlersMove DEF Acts, Handles
  <2> QED
    BY <1>1, <2>1, <2>2, CopiesMove DEF Adds
<1>4. ASSUME NEW c \in DOMAIN copies,
             Receive(c) \/ VisibilityTimeout(c) \/ Redeliver(c) \/ Poison(c)
      PROVE  \A d \in DOMAIN copies : Alive(d) => Alive(d)'
  <2>1. /\ UNCHANGED files /\ CopiesStay
        /\ \E at \in {"hidden", "queue", "poison"} : \E n : Marks(c, at, n)
    BY <1>4, ReceiveMoves, HostMoves
  <2> QED
    BY <1>1, <2>1 DEF Marks
<1>5. CASE Tick \/ UNCHANGED vars
  <2>1. \A d \in DOMAIN copies : Alive(d) => Alive(d)'
    BY <1>5, QuietSteps DEF Quiet, Alive, Body
  <2> QED
    BY <1>0, <2>1
<1>6. ASSUME NEW p \in Processes, UploadFile(p) \/ AddMessage(p) \/ Crash(p)
      PROVE  Acts(p) /\ pc'[p] # "read"
  BY <1>6, UploadFileMoves, AddMessageMoves, CrashMoves DEF Acts, AfterSending
<1>7. ASSUME NEW m \in Messages, SendAsync(m)
      PROVE  m \in Processes /\ Acts(m) /\ pc'[m] # "read" /\ m \notin Attempts
  BY <1>7, SendAsyncMoves, Kinds DEF Acts, Sending
<1>8. ASSUME NEW p \in Attempts, Handles(p)
      PROVE  Acts(p) /\ pc'[p] # "read"
  BY <1>8, ReadBodyMoves, LookMoves, HandlersMove, DeleteFileMoves, CompleteMoves
  DEF Acts, Handles, Sending
<1> QED
  BY <1>0, <1>2, <1>3, <1>4, <1>5, <1>6, <1>7, <1>8 DEF Next, Step, Handles

\* What has been handled stays handled.
LEMMA HandledStays == TypeInv /\ [Next]_vars => handled \subseteq handled'
<1> SUFFICES ASSUME TypeInv, [Next]_vars PROVE handled \subseteq handled'
  OBVIOUS
<1>1. PICK moved \in SUBSET Processes : Framed(moved)
  BY Frame
<1>2. ASSUME NEW p \in Processes, Acts(p) PROVE handled \subseteq handled'
  BY <1>2, SendAsyncMoves, UploadFileMoves, AddMessageMoves, CrashMoves, ReadBodyMoves,
     LookMoves, HandlersMove, DeleteFileMoves, CompleteMoves
  DEF Acts, Handles
<1> QED
  BY <1>1, <1>2 DEF Framed

\* Messages that wait for their handlers keep a copy.
LEMMA LifeNext == TypeInv /\ BodyInv /\ LifeInv /\ [Next]_vars => LifeInv'
<1> SUFFICES ASSUME TypeInv, BodyInv, LifeInv, [Next]_vars PROVE LifeInv'
  OBVIOUS
<1>0. PICK moved \in SUBSET Processes : Framed(moved)
  BY Frame
<1>1. /\ \A p \in Processes \ moved : pc'[p] = pc[p] /\ out'[p] = out[p]
      /\ \A p \in moved : Acts(p) /\ \A q \in moved : p = q
      /\ moved = {} => UNCHANGED files
      /\ CopiesStay /\ CopiesFrom(moved)
  BY <1>0 DEF Framed
<1>2. PICK x \in Nat :
        /\ \A c \in DOMAIN copies : Alive(c) /\ c # x => Alive(c)'
        /\ x \in DOMAIN copies => copies[x].ctx.msg \in handled \/ Heir(x)
  BY LifeGoes
<1>3. /\ handled \subseteq handled'
      /\ DOMAIN copies \subseteq Nat /\ DOMAIN copies \subseteq DOMAIN copies'
      /\ \A c \in DOMAIN copies : copies'[c].ctx = copies[c].ctx
  BY <1>1, HandledStays, CopiesTyped DEF TypeInv, CopiesStay
<1>4. ASSUME NEW c \in DOMAIN copies, Heir(c)
      PROVE  copies[c].ctx.msg \in handled' \/ Heir(c)'
  <2>1. PICK d \in DOMAIN copies :
          d > c /\ Alive(d) /\ copies[d].ctx.msg = copies[c].ctx.msg
    BY <1>4 DEF Heir
  <2>2. CASE d # x
    BY <1>2, <1>3, <2>1, <2>2 DEF Heir
  <2>3. CASE d = x /\ copies[c].ctx.msg \notin handled
    <3>1. PICK e \in DOMAIN copies :
            e > d /\ Alive(e) /\ copies[e].ctx.msg = copies[d].ctx.msg
      BY <1>2, <2>1, <2>3 DEF Heir
    <3>2. {c, d, e} \subseteq Nat
      BY <1>3
    <3>3. e > c /\ e # x
      BY <2>1, <2>3, <3>1, <3>2
    <3> QED
      BY <1>2, <1>3, <2>1, <3>1, <3>3 DEF Heir
  <2> QED
    BY <1>3, <2>2, <2>3
<1>5. ASSUME NEW c \in DOMAIN copies PROVE Lasts(c)'
  BY <1>2, <1>3, <1>4 DEF LifeInv, Lasts
<1>6. ASSUME NEW c \in DOMAIN copies' \ DOMAIN copies
      PROVE  /\ c = Len(copies) + 1 /\ Alive(c)'
             /\ \E p \in moved : pc[p] = "add" /\ copies'[c].ctx = out[p]
  <2>1. PICK p \in moved : pc[p] = "add" /\ copies'[c].ctx = out[p]
    BY <1>1 DEF CopiesFrom
  <2>2. copies'[c].at = "queue" /\ c = Len(copies) + 1
    BY <1>1 DEF CopiesFrom
  <2>3. ~DeleteFile(p) /\ Acts(p)
    BY <1>1, <2>1 DEF DeleteFile
  <2>4. files \subseteq files'
    BY <2>3, FilesGo
  <2>5. out[p].body \in files \cup {Inline}
    BY <2>1 DEF BodyInv, OwnsBody
  <2> QED
    BY <2>1, <2>2, <2>4, <2>5 DEF Alive, Body
<1>7. ASSUME NEW p \in Processes \ moved PROVE LetsGo(p)'
  <2> SUFFICES ASSUME p \in Attempts, pc[p] \in {"deleteFile", "done"}
               PROVE  Ctx(p)'.msg \in handled' \/ Heir(p[1])'
    BY <1>1 DEF LetsGo
  <2>1. p[1] \in DOMAIN copies /\ Ctx(p) = copies[p[1]].ctx
    BY Started
  <2>2. Ctx(p)' = Ctx(p)
    BY <1>3, <2>1 DEF Ctx, Copy
  <2> QED
    BY <1>3, <1>4, <2>1, <2>2 DEF LifeInv, LetsGo
<1>8. ASSUME NEW p \in moved, p \in Attempts, pc'[p] \in {"deleteFile", "done"}
      PROVE  Ctx(p)'.msg \in handled' \/ Heir(p[1])'
  <2>1. pc[p] # "idle" /\ (ReadBody(p) \/ AddMessage(p) \/ InvokeSagaHandlers(p) \/ DeleteFile(p))
    BY <1>1, <1>8, Kinds, SendAsyncMoves, UploadFileMoves, CrashMoves, LookMoves, HandlersMove,
       CompleteMoves, ReadBodyMoves, AddMessageMoves, DeleteFileMoves
    DEF Acts, Handles, Sending
  <2>2. p[1] \in DOMAIN copies /\ Ctx(p) = copies[p[1]].ctx /\ Of(p) = Ctx(p).msg
    BY <1>8, <2>1, AttemptTyped
  <2>3. Ctx(p)' = Ctx(p)
    BY <1>3, <2>2 DEF Ctx, Copy
  <2>4. CASE ReadBody(p)
    <3>1. Ctx(p).body \notin files \cup {Inline}
      BY <1>8, <2>4, ReadBodyMoves
    <3>2. Ctx(p).msg \in handled \/ Heir(p[1])
      BY <2>2, <3>1 DEF LifeInv, Lasts, Alive, Body
    <3> QED
      BY <1>3, <1>4, <2>2, <2>3, <3>2
  <2>5. CASE AddMessage(p)
    <3>1. Adds(p) /\ pc[p] = "add"
      BY <1>8, <2>5, AddMessageMoves
    <3>2. Len(copies) \in Nat /\ DOMAIN copies = 1 .. Len(copies)
      BY CopiesTyped DEF TypeInv
    <3>3. PICK c \in DOMAIN copies' \ DOMAIN copies : c = Len(copies) + 1 /\ c > p[1]
      BY <2>2, <3>1, <3>2 DEF Adds
    <3>4. copies'[c].ctx = out[p] /\ out[p].msg = Ctx(p).msg
      BY <2>2, <3>1, <3>3, Started DEF Adds, Sending
    <3>5. Alive(c)' /\ copies'[p[1]].ctx = copies[p[1]].ctx
      BY <1>3, <1>6, <2>2
    <3> QED
      BY <2>2, <2>3, <3>3, <3>4, <3>5 DEF Heir
  <2>6. CASE InvokeSagaHandlers(p)
    BY <1>8, <2>3, <2>6, HandlersMove
  <2>7. CASE DeleteFile(p)
    <3>1. Ctx(p).msg \in handled \/ Heir(p[1])
      BY <1>8, <2>7, DeleteFileMoves DEF LifeInv, LetsGo
    <3> QED
      BY <1>3, <1>4, <2>2, <2>3, <3>1
  <2> QED
    BY <2>1, <2>4, <2>5, <2>6, <2>7
<1>9. \A c \in DOMAIN copies' : Lasts(c)'
  BY <1>5, <1>6 DEF Lasts
<1>10. \A p \in Processes : LetsGo(p)'
  BY <1>7, <1>8 DEF LetsGo
<1> QED
  BY <1>9, <1>10 DEF LifeInv

\* A message on the queue is never lost before its handlers have run: whatever
\* crashes, fails, comes again or is sent again, there is a copy that is not
\* deleted, and its body is in it or still in its file.  An attempt that
\* ignores a message without a file ignores a copy that has an heir.
THEOREM NothingVanishes == Spec => []NoMessageVanishes
<1>1. Init => BodyInv /\ LifeInv
  BY Kinds DEF Init, BodyInv, BodiesDiffer, OwnsBody, LifeInv, LetsGo
<1>2. LifeInv => NoMessageVanishes
  BY DEF LifeInv, NoMessageVanishes, Sent, Lasts, Heir, Alive, Body
<1>3. TypeInv /\ BodyInv /\ LifeInv /\ [Next]_vars => (TypeInv /\ BodyInv /\ LifeInv)'
  BY TypeNext, BodyNext, LifeNext
<1> QED
  BY <1>1, <1>2, <1>3, TypeInit, PTL DEF Spec

----------------------------------------------------------------------------
(* No file is left behind *)

\* BodyInFile tells of every body in a file, and stays set when the message is
\* sent again; the file of a copy whose attempt is done is gone.
CopyNamed(c) == Body(c) # Inline => copies[c].ctx.inFile
Named(p) ==
    /\ pc[p] = "upload" => out[p].inFile
    /\ pc[p] = "add" /\ out[p].body # Inline => out[p].inFile
    /\ p \in Attempts /\ pc[p] \in Sending /\ Ctx(p).inFile => out[p].inFile
    /\ p \in Attempts /\ pc[p] = "done" => Ctx(p).body \notin files
NameInv ==
    /\ \A c \in DOMAIN copies : CopyNamed(c)
    /\ \A p \in Processes : Named(p)

\* Somebody still has the file f.
HasFile(f) ==
    \/ \E c \in DOMAIN copies : Body(c) = f /\ copies[c].at # "deleted"
    \/ \E p \in Processes : pc[p] = "add" /\ out[p].body = f
FreeInv == mishaps = 0 => \A f \in files : HasFile(f)

\* A file comes by an upload.
LEMMA FilesCome ==
    ASSUME TypeInv, NEW p \in Processes, Acts(p), NEW f \in files', f \notin files
    PROVE  /\ UploadFile(p) /\ f = NewFile
           /\ (pc'[p] = "add" /\ out'[p].body = NewFile) \/ mishaps' = mishaps + 1
<1>1. out[p] \in OnWire
  BY DEF TypeInv, ProcessesOK
<1>2. UploadFile(p)
  BY SendAsyncMoves, AddMessageMoves, CrashMoves, ReadBodyMoves, LookMoves,
     HandlersMove, DeleteFileMoves, CompleteMoves
  DEF Acts, Handles
<1> QED
  BY <1>1, <1>2, UploadFileMoves DEF OnWire

\* A moving process keeps its part.
LEMMA NamedMoves ==
    ASSUME TypeInv, NameInv, NEW p \in Processes, Acts(p), CopiesStay
    PROVE  Named(p)'
<1>1. ASSUME p \in Attempts, pc[p] # "idle"
      PROVE  /\ Ctx(p)' = Ctx(p) /\ Ctx(p).body \in 0 .. uploads
             /\ Ctx(p).body # Inline => Ctx(p).inFile
  <2>1. p[1] \in DOMAIN copies /\ Ctx(p) = copies[p[1]].ctx /\ Ctx(p) \in OnWire
    BY <1>1, AttemptTyped
  <2> QED
    BY <2>1 DEF CopiesStay, Ctx, Copy, NameInv, CopyNamed, Body, OnWire
<1>2. Inline \notin files /\ out[p] \in OnWire
  BY DEF TypeInv, CountsOK, ProcessesOK, Inline
<1>3. ASSUME pc'[p] \notin Sending \cup {"done"} PROVE Named(p)'
  BY <1>3 DEF Named, Sending
<1>4. CASE p \in Messages /\ SendAsync(p)
  BY <1>4, SendAsyncMoves, Kinds DEF Named, Sending
<1>5. CASE UploadFile(p)
  <2>1. CASE pc'[p] = "over"
    BY <1>3, <2>1 DEF Sending
  <2>2. CASE pc'[p] = "add" /\ out'[p] = [out[p] EXCEPT !.body = NewFile]
    <3>1. out'[p].inFile = out[p].inFile /\ out[p].inFile
      BY <1>2, <1>5, <2>2, UploadFileMoves DEF OnWire, NameInv, Named
    <3> QED
      BY <2>2, <3>1 DEF Named
  <2> QED
    BY <1>5, <2>1, <2>2, UploadFileMoves
<1>6. CASE AddMessage(p)
  <2>1. CASE pc'[p] = "done"
    <3>1. p \in Attempts /\ ~out[p].inFile /\ pc[p] = "add" /\ UNCHANGED files
      BY <1>6, <2>1, AddMessageMoves, Kinds DEF AfterSending
    <3>2. Ctx(p).body = Inline
      BY <1>1, <3>1 DEF NameInv, Named, Sending
    <3> QED
      BY <1>1, <1>2, <2>1, <3>1, <3>2 DEF Named, Sending
  <2> QED
    BY <1>3, <1>6, <2>1, AddMessageMoves DEF AfterSending, Sending
<1>7. CASE Crash(p)
  BY <1>3, <1>7, CrashMoves DEF Sending
<1>8. CASE p \in Attempts /\ ReadBody(p)
  <2>1. CASE pc'[p] = "done"
    BY <1>1, <1>8, <2>1, ReadBodyMoves DEF Named, Sending
  <2> QED
    BY <1>3, <1>8, <2>1, ReadBodyMoves DEF Sending
<1>9. CASE p \in Attempts /\ Look(p)
  <2>1. CASE pc'[p] \in Sending
    BY <1>1, <1>9, <2>1, LookMoves DEF Named, Sending
  <2> QED
    BY <1>3, <1>9, <2>1, LookMoves DEF Sending
<1>10. CASE p \in Attempts /\ (InvokeStatelessHandlers(p) \/ InvokeSagaHandlers(p))
  <2>1. CASE pc'[p] = "done"
    <3>1. ~Ctx(p).inFile /\ UNCHANGED files /\ pc[p] # "idle"
      BY <1>10, <2>1, HandlersMove
    <3> QED
      BY <1>1, <1>2, <1>10, <2>1, <3>1 DEF Named, Sending
  <2> QED
    BY <1>3, <1>10, <2>1, HandlersMove DEF Sending
<1>11. CASE p \in Attempts /\ DeleteFile(p)
  <2>1. CASE pc'[p] = "done"
    BY <1>1, <1>11, <2>1, DeleteFileMoves DEF Named, Sending
  <2> QED
    BY <1>3, <1>11, <2>1, DeleteFileMoves DEF Sending
<1>12. CASE pc'[p] = "read" \/ (p \in Attempts /\ Complete(p))
  BY <1>3, <1>12, CompleteMoves DEF Sending
<1> QED
  BY <1>4, <1>5, <1>6, <1>7, <1>8, <1>9, <1>10, <1>11, <1>12 DEF Acts, Handles

\* The names of files stay known where their bodies are.
LEMMA NameNext == TypeInv /\ NameInv /\ [Next]_vars => NameInv'
<1> SUFFICES ASSUME TypeInv, NameInv, [Next]_vars PROVE NameInv'
  OBVIOUS
<1>0. PICK moved \in SUBSET Processes : Framed(moved)
  BY Frame
<1>1. /\ \A p \in Processes \ moved : pc'[p] = pc[p] /\ out'[p] = out[p]
      /\ \A p \in moved : Acts(p)
      /\ moved = {} => UNCHANGED files
      /\ CopiesStay /\ CopiesFrom(moved)
  BY <1>0 DEF Framed
<1>2. ASSUME NEW c \in DOMAIN copies' PROVE CopyNamed(c)'
  <2>1. CASE c \in DOMAIN copies
    BY <1>1, <2>1 DEF NameInv, CopyNamed, Body, CopiesStay
  <2>2. CASE c \notin DOMAIN copies
    <3>1. PICK p \in moved : pc[p] = "add" /\ copies'[c].ctx = out[p]
      BY <1>1, <2>2 DEF CopiesFrom
    <3> QED
      BY <3>1 DEF NameInv, Named, CopyNamed, Body
  <2> QED
    BY <2>1, <2>2
<1>3. ASSUME NEW p \in Processes \ moved PROVE Named(p)'
  <2>1. CASE p \in Attempts /\ pc[p] # "idle"
    <3>1. p[1] \in DOMAIN copies /\ Ctx(p) = copies[p[1]].ctx /\ Ctx(p) \in OnWire
      BY <2>1, AttemptTyped
    <3>2. Ctx(p)' = Ctx(p) /\ Ctx(p).body \in 0 .. uploads
      BY <1>1, <3>1 DEF CopiesStay, Ctx, Copy, OnWire
    <3>3. ASSUME NEW f \in files', f \notin files PROVE f # Ctx(p).body
      <4>1. f = uploads + 1 /\ uploads \in Nat
        BY <1>1, <3>3, FilesCome DEF NewFile, TypeInv, CountsOK
      <4> QED
        BY <3>2, <4>1
    <3> QED
      BY <1>1, <1>3, <3>2, <3>3 DEF NameInv, Named
  <2>2. CASE ~(p \in Attempts /\ pc[p] # "idle")
    BY <1>1, <1>3, <2>2 DEF NameInv, Named, Sending
  <2> QED
    BY <2>1, <2>2
<1>4. \A p \in moved : Named(p)'
  BY <1>1, NamedMoves
<1> QED
  BY <1>2, <1>3, <1>4 DEF NameInv

\* A step counts one mishap at most, and ends the attempt at a copy by deleting
\* it, if it deletes a copy.
LEMMA MishapsGrow ==
    ASSUME TypeInv, [Next]_vars
    PROVE  /\ mishaps \in Nat /\ (mishaps' = mishaps \/ mishaps' = mishaps + 1)
           /\ \A c \in DOMAIN copies :
                /\ c \in DOMAIN copies' /\ copies[c].dequeues \in Nat
                /\ copies'[c].dequeues \in {copies[c].dequeues, copies[c].dequeues + 1}
                /\ copies'[c].at = "deleted" => copies[c].at = "deleted"
                                                \/ \E p \in Attempts : Complete(p) /\ c = p[1]
<1>0. /\ mishaps \in Nat /\ \A c \in DOMAIN copies : copies[c].dequeues \in Nat
      /\ \A p \in Attempts : p \in Processes
  BY CopiesTyped, LimitsAreNat, Kinds DEF TypeInv, CountsOK, OnQueue
<1> DEFINE Grown == mishaps' = mishaps \/ mishaps' = mishaps + 1
           Same(c) == c \in DOMAIN copies' /\ copies'[c].dequeues = copies[c].dequeues
                      /\ copies'[c].at = copies[c].at
<1>1. ASSUME NEW p \in Processes, Step(p) \/ Crash(p), ~(p \in Attempts /\ Complete(p))
      PROVE  Grown /\ \A c \in DOMAIN copies : Same(c)
  <2>1. Grown /\ (copies' = copies \/ Adds(p))
    BY <1>1, UploadFileMoves, AddMessageMoves, CrashMoves, ReadBodyMoves, LookMoves,
       HandlersMove, DeleteFileMoves DEF Step
  <2> QED
    BY <2>1 DEF Adds
<1>2. ASSUME NEW p \in Attempts, Complete(p)
      PROVE  /\ Grown
             /\ \A c \in DOMAIN copies : Same(c) \/ (c = p[1] /\ c \in DOMAIN copies'
                                           /\ copies'[c].dequeues = copies[c].dequeues)
  <2>1. mishaps' = mishaps
        /\ (Marks(p[1], "deleted", copies[p[1]].dequeues) \/ copies' = copies)
    BY <1>2, CompleteMoves
  <2> QED
    BY <2>1 DEF Marks
<1>3. ASSUME NEW m \in Messages, SendAsync(m) PROVE Grown /\ \A c \in DOMAIN copies : Same(c)
  BY <1>3, SendAsyncMoves
<1>4. ASSUME NEW d \in DOMAIN copies,
             Receive(d) \/ VisibilityTimeout(d) \/ Redeliver(d) \/ Poison(d)
      PROVE  /\ Grown
             /\ \A c \in DOMAIN copies :
                  /\ c \in DOMAIN copies'
                  /\ copies'[c].dequeues \in {copies[c].dequeues, copies[c].dequeues + 1}
                  /\ copies'[c].at = "deleted" => copies[c].at = "deleted"
  <2>1. /\ Grown
        /\ \E at \in {"hidden", "queue", "poison"},
              n \in {copies[d].dequeues, copies[d].dequeues + 1} : Marks(d, at, n)
    BY <1>4, ReceiveMoves, HostMoves
  <2> QED
    BY <2>1 DEF Marks
<1>5. CASE Tick \/ UNCHANGED vars
  <2>1. Grown /\ \A c \in DOMAIN copies : Same(c)
    BY <1>5, QuietSteps DEF Quiet
  <2> QED
    BY <1>0, <2>1
<1> QED
  BY <1>0, <1>1, <1>2, <1>3, <1>4, <1>5 DEF Next

\* Attempts are numbered as they are received.
Taken(p) == p \in Attempts /\ pc[p] # "idle" => p[2] <= copies[p[1]].dequeues
TakenInv == \A p \in Processes : Taken(p)

LEMMA TakenNext == TypeInv /\ TakenInv /\ [Next]_vars => TakenInv'
<1> SUFFICES ASSUME TypeInv, TakenInv, [Next]_vars,
                    NEW p \in Processes, p \in Attempts, pc'[p] # "idle"
             PROVE  p[2] <= copies'[p[1]].dequeues
  BY DEF TakenInv, Taken
<1>0. p[2] \in Nat
  BY Kinds
<1>1. CASE pc[p] # "idle"
  <2>1. p[1] \in DOMAIN copies /\ p[2] <= copies[p[1]].dequeues
    BY <1>1, Started DEF TakenInv, Taken
  <2>2. /\ copies[p[1]].dequeues \in Nat
        /\ copies'[p[1]].dequeues \in {copies[p[1]].dequeues, copies[p[1]].dequeues + 1}
    BY <2>1, MishapsGrow
  <2> QED
    BY <1>0, <2>1, <2>2
<1>2. CASE pc[p] = "idle"
  <2>1. ASSUME NEW q \in Processes, Moves(q) PROVE p = q
    BY <1>2, <2>1 DEF Moves, Others
  <2>2. ASSUME NEW m \in Messages, SendAsync(m) PROVE FALSE
    BY <2>1, <2>2, SendAsyncMoves, Kinds
  <2>3. ASSUME NEW q \in Processes, Step(q) \/ Crash(q) PROVE FALSE
    <3>1. Moves(q) /\ pc[q] # "idle"
      BY <2>3, UploadFileMoves, AddMessageMoves, CrashMoves, ReadBodyMoves, LookMoves,
         HandlersMove, DeleteFileMoves, CompleteMoves DEF Step
    <3> QED
      BY <1>2, <2>1, <3>1
  <2>4. ASSUME NEW c \in DOMAIN copies, VisibilityTimeout(c) \/ Redeliver(c) \/ Poison(c)
        PROVE  FALSE
    BY <1>2, <2>4, HostMoves
  <2>5. ASSUME Tick \/ UNCHANGED vars PROVE FALSE
    BY <1>2, <2>5, QuietSteps DEF Quiet
  <2>6. ASSUME NEW c \in DOMAIN copies, Receive(c)
        PROVE  p[2] <= copies'[p[1]].dequeues
    <3>1. PICK q \in Attempts : q = <<c, copies[c].dequeues + 1>> /\ Others(q)
      BY <2>6, ReceiveMoves
    <3>2. p = q
      BY <1>2, <3>1 DEF Others
    <3>3. copies'[c].dequeues = copies[c].dequeues + 1
      BY <2>6, ReceiveMoves DEF Marks
    <3> QED
      BY <1>0, <3>1, <3>2, <3>3
  <2> QED
    BY <2>2, <2>3, <2>4, <2>5, <2>6 DEF Next
<1> QED
  BY <1>1, <1>2

\* As long as nothing goes wrong, a file goes with the last that has it.
LEMMA FreeNext ==
    TypeInv /\ NameInv /\ TakenInv /\ FreeInv /\ [Next]_vars => FreeInv'
<1> SUFFICES ASSUME TypeInv, NameInv, TakenInv, FreeInv, [Next]_vars, mishaps' = 0,
                    NEW f \in files'
             PROVE  HasFile(f)'
  BY DEF FreeInv
<1>0. PICK moved \in SUBSET Processes : Framed(moved)
  BY Frame
<1>1. /\ \A p \in Processes \ moved : pc'[p] = pc[p] /\ out'[p] = out[p]
      /\ \A p \in moved : Acts(p)
      /\ moved = {} => UNCHANGED files
      /\ CopiesStay /\ CopiesFrom(moved)
  BY <1>0 DEF Framed
<1>2. mishaps = 0 /\ mishaps' # mishaps + 1
  BY MishapsGrow
<1>3. CASE f \notin files
  <2>1. PICK p \in moved : p \in Processes /\ Acts(p)
    BY <1>1, <1>3
  <2> QED
    BY <1>2, <1>3, <2>1, FilesCome DEF HasFile
<1>4. ASSUME f \in files, NEW c \in DOMAIN copies, Body(c) = f, copies[c].at # "deleted"
      PROVE  HasFile(f)'
  <2>1. ASSUME NEW p \in Attempts, Complete(p), c = p[1] PROVE FALSE
    <3>1. pc[p] = "done" /\ p \in Processes /\ Ctx(p) = copies[c].ctx
      BY <2>1, CompleteMoves, Started, Kinds
    <3> QED
      BY <1>4, <3>1 DEF NameInv, Named, Body
  <2>2. c \in DOMAIN copies' /\ copies'[c].at # "deleted" /\ copies'[c].ctx = copies[c].ctx
    BY <1>1, <1>4, <2>1, MishapsGrow DEF CopiesStay
  <2> QED
    BY <1>4, <2>2 DEF HasFile, Body
<1>5. ASSUME f \in files, NEW p \in Processes, pc[p] = "add", out[p].body = f
      PROVE  HasFile(f)'
  <2>1. CASE p \notin moved
    BY <1>1, <1>5, <2>1 DEF HasFile
  <2>2. CASE AddMessage(p)
    <3>1. Adds(p)
      BY <1>2, <2>2, AddMessageMoves
    <3> QED
      BY <1>5, <3>1 DEF Adds, HasFile, Body
  <2>3. CASE p \in moved /\ ~AddMessage(p)
    <3>1. p \in Attempts /\ pc'[p] = "read" /\ ~Crash(p) /\ ~Handles(p) /\ ~UploadFile(p)
          /\ ~(p \in Messages /\ SendAsync(p))
      BY <1>1, <1>2, <1>5, <2>3, SendAsyncMoves, UploadFileMoves, CrashMoves, ReadBodyMoves,
         LookMoves, HandlersMove, DeleteFileMoves, CompleteMoves
      DEF Acts, Handles
    <3>2. ASSUME NEW q \in Processes, Moves(q), pc'[q] # "read" PROVE FALSE
      BY <1>5, <3>1, <3>2 DEF Moves, Others
    <3>3. ASSUME NEW q \in Processes, Step(q) \/ Crash(q) PROVE FALSE
      BY <3>2, <3>3, UploadFileMoves, AddMessageMoves, CrashMoves, ReadBodyMoves, LookMoves,
         HandlersMove, DeleteFileMoves, CompleteMoves DEF Step, AfterSending, Sending
    <3>4. ASSUME NEW m \in Messages, SendAsync(m) PROVE FALSE
      BY <3>2, <3>4, SendAsyncMoves, Kinds DEF Sending
    <3>5. ASSUME NEW d \in DOMAIN copies, VisibilityTimeout(d) \/ Redeliver(d) \/ Poison(d)
          PROVE  FALSE
      BY <1>5, <3>1, <3>5, HostMoves
    <3>6. ASSUME Tick \/ UNCHANGED vars PROVE FALSE
      BY <1>5, <3>1, <3>6, QuietSteps DEF Quiet
    <3>7. ASSUME NEW d \in DOMAIN copies, Receive(d) PROVE FALSE
      <4>1. PICK q \in Attempts : q = <<d, copies[d].dequeues + 1>> /\ Others(q)
        BY <3>7, ReceiveMoves
      <4>2. p = q
        BY <1>5, <3>1, <4>1 DEF Others
      <4>3. p[2] <= copies[d].dequeues /\ copies[d].dequeues \in Nat
        BY <1>5, <3>1, <4>1, <4>2, MishapsGrow DEF TakenInv, Taken
      <4> QED
        BY <4>1, <4>2, <4>3
    <3> QED
      BY <3>3, <3>4, <3>5, <3>6, <3>7 DEF Next
  <2> QED
    BY <2>1, <2>2, <2>3
<1>6. CASE f \in files
  BY <1>2, <1>4, <1>5, <1>6 DEF FreeInv, HasFile
<1> QED
  BY <1>3, <1>6

\* Until something goes wrong, every file in the container holds the body of a
\* copy that is not deleted, or of one that is being put on the queue: a message
\* that sleeps again takes a new file and its old one is deleted, although
\* neither step knows of the other.
THEOREM NothingIsLeft == Spec => []FilesFreed
<1>1. Init => NameInv /\ TakenInv /\ FreeInv
  BY Kinds DEF Init, NameInv, CopyNamed, Named, Sending, TakenInv, Taken, FreeInv
<1>2. FreeInv => FilesFreed
  BY DEF FreeInv, FilesFreed, HasFile, Body
<1>3. TypeInv /\ NameInv /\ TakenInv /\ FreeInv /\ [Next]_vars
        => (TypeInv /\ NameInv /\ TakenInv /\ FreeInv)'
  BY TypeNext, NameNext, TakenNext, FreeNext
<1> QED
  BY <1>1, <1>2, <1>3, TypeInit, PTL DEF Spec
=============================================================================

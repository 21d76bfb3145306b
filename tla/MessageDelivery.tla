-------------------------- MODULE MessageDelivery --------------------------
(***************************************************************************)
(* A message from SendAsync to its handlers:                               *)
(*   SendOnlyBus.SendAsync, Bus.SendAsync                                  *)
(*   AzureStorageQueueSendTransport  SendMessageAsync and the file that    *)
(*                                   takes the body of a big message       *)
(*   HandlersContainer               HandleAsync of a serialized message   *)
(* A delayed message sleeps in the queue, for MaxDelay at most, and is     *)
(* sent again when it wakes up too early.  Senders and attempts to handle  *)
(* a message are processes; one step of a process is one call to Azure     *)
(* storage, the look at the clock or a run of the handlers.                *)
(***************************************************************************)
EXTENDS Integers, Sequences, FiniteSets

CONSTANTS
    Messages,
    Delays,           \* values of initialVisibilityDelay, None among them
    None,             \* null
    MaxDelay,         \* ISendMessages.MaxDelay()
    Slack,            \* what is left of a delay at most when it counts as over
    MaxSkew,          \* clock differences of the hosts: a bound
    MaxDequeueCount,  \* attempts before a message goes to the poison queue
    Mishaps,          \* what may go wrong: see MishapKinds
    MaxMishaps,       \* and how often: a bound
    MaxTime,          \* the clock stops here, when every delay is over: a bound
    MaxCopies         \* copies ever put on the queue: a bound

\* "crash"      a process stops between two steps
\* "fault"      a storage call raises, executed or not
\* "throw"      a handler throws
\* "redeliver"  a message becomes visible while an attempt still runs
MishapKinds == {"crash", "fault", "throw", "redeliver"}

ASSUME DelaysAreTimes == None \notin Int /\ Delays \subseteq Int \cup {None}
ASSUME LimitsAreNat ==
    /\ {Slack, MaxSkew, MaxMishaps, MaxTime, MaxCopies} \subseteq Nat
    /\ {MaxDelay, MaxDequeueCount} \subseteq Nat \ {0}
    /\ Mishaps \subseteq MishapKinds

VARIABLES
    now,        \* time of the queue service
    sent,       \* sent[m]: what SendAsync was asked for, and when it is due
    copies,     \* copies of messages put on the queue, oldest first
    files,      \* the files with bodies in the container bigmessages
    uploads,    \* number of files uploaded: a file is named by its number
    pc,         \* pc[p]: next step of process p
    out,        \* out[p]: the context and body that p is sending
    mishaps,    \* number of mishaps so far
    runs,       \* history: runs of m's stateless handlers that returned
    handled     \* history: messages all of whose handlers returned once

vars == <<now, sent, copies, files, uploads, pc, out, mishaps, runs, handled>>

\* The size of the serialized envelope: well below the limit, well above it, or
\* so near that the delay and the names in the context decide.
Sizes == {"small", "big", "edge"}

Attempts == (1 .. MaxCopies) \X (1 .. MaxDequeueCount)
Processes == Messages \cup Attempts

\* A message stands for its sender.
ASSUME SendersAreNoAttempts == Messages # {} /\ Messages \cap Attempts = {}

\* Body is the message itself, or its place is taken by a file's number.
Inline == 0
Contexts ==
    [msg : Messages,
     delayed : Int \cup {None},     \* MessageDelayedTime
     inFile : BOOLEAN,              \* BodyInFile
     body : Nat]
NoContext == [msg |-> CHOOSE m \in Messages : TRUE, delayed |-> None,
              inFile |-> FALSE, body |-> Inline]
NotSent == [size |-> "small", known |-> TRUE, wake |-> None]

Steps == {"read", "look", "stateless", "sagas", "upload", "add", "deleteFile", "done"}

TypeOK ==
    /\ now \in 0 .. MaxTime
    /\ sent \in [Messages -> [size : Sizes, known : BOOLEAN, wake : Int \cup {None}]]
    /\ copies \in Seq([ctx : [msg : Messages, delayed : (0 .. MaxDelay) \cup {None},
                              inFile : BOOLEAN, body : 0 .. uploads],
                       visible : Nat,
                       at : {"queue", "hidden", "deleted", "poison"},
                       dequeues : 0 .. MaxDequeueCount])
    /\ files \subseteq 1 .. uploads
    /\ uploads \in Nat
    /\ pc \in [Processes -> Steps \cup {"idle", "over"}]
    /\ out \in [Processes -> Contexts]
    /\ mishaps \in 0 .. MaxMishaps
    /\ runs \in [Messages -> Nat]
    /\ handled \subseteq Messages

Init ==
    /\ now = 0
    /\ sent = [m \in Messages |-> NotSent]
    /\ copies = <<>>
    /\ files = {}
    /\ uploads = 0
    /\ pc = [p \in Processes |-> "idle"]
    /\ out = [p \in Processes |-> NoContext]
    /\ mishaps = 0
    /\ runs = [m \in Messages |-> 0]
    /\ handled = {}

AtMost(time) == IF time > MaxTime THEN MaxTime ELSE time

----------------------------------------------------------------------------
(* How a step ends *)

Mishap(kind) ==
    /\ kind \in Mishaps
    /\ mishaps < MaxMishaps
    /\ mishaps' = mishaps + 1

\* Locals go out of scope with the process.
Goto(p, step) ==
    /\ pc' = [pc EXCEPT ![p] = step]
    /\ out' = IF step = "over" THEN [out EXCEPT ![p] = NoContext] ELSE out

\* Mutant of Raise: the exception is logged and forgotten.
RaiseNot(p) == Goto(p, "done")

\* The exception leaves SendAsync or HandleAsync.
Raise(p) == Goto(p, "over")

\* The service executed the call; its answer may still be lost.
Answered(p, step) ==
    \/ Goto(p, step) /\ UNCHANGED mishaps
    \/ Mishap("fault") /\ Raise(p)

Copy(p) == copies[p[1]]
Ctx(p) == Copy(p).ctx

----------------------------------------------------------------------------
(* AzureStorageQueueSendTransport.SendMessageAsync *)

\* Mutants of Capped: a delay that is too long is forgotten; it is not capped.
CappedToNone(delay) ==
    IF delay = None THEN None ELSE IF delay >= MaxDelay \/ delay < 0 THEN None ELSE delay
NotCapped(delay) == IF delay = None THEN None ELSE IF delay < 0 THEN None ELSE delay

\* MessageDelayedTime and initialVisibilityDelay: no longer than MaxDelay, and
\* null for a time that has passed.
Capped(delay) ==
    IF delay = None THEN None
    ELSE IF delay >= MaxDelay THEN MaxDelay
    ELSE IF delay < 0 THEN None ELSE delay

\* The envelope is over the limit.
TooBig(size) ==
    CASE size = "small" -> {FALSE} [] size = "big" -> {TRUE} [] size = "edge" -> BOOLEAN

\* Up to the first storage call: the body has to go to a file, or not.  A context
\* that is sent again keeps its BodyInFile.
SendMessage(p, m, size, delay, inFile) ==
    \E big \in TooBig(size) :
        /\ out' = [out EXCEPT ![p] = [msg |-> m, delayed |-> Capped(delay),
                                      inFile |-> inFile \/ big, body |-> Inline]]
        /\ pc' = [pc EXCEPT ![p] = IF big THEN "upload" ELSE "add"]

\* Mutant of NewFile: the file has the name of its message.
SameFile == 1

\* A name of its own for every upload.
NewFile == uploads + 1

UploadFile(p) ==
    /\ pc[p] = "upload"
    /\ \/ /\ files' = files \cup {NewFile}
          /\ uploads' = uploads + 1
          /\ \/ /\ pc' = [pc EXCEPT ![p] = "add"]
                /\ out' = [out EXCEPT ![p].body = NewFile]
                /\ UNCHANGED mishaps
             \/ Mishap("fault") /\ Raise(p)
       \/ /\ Mishap("fault") /\ Raise(p)
          /\ UNCHANGED <<files, uploads>>
    /\ UNCHANGED <<now, sent, copies, runs, handled>>

\* Mutants of AfterSending: HandleAsync does not return; it leaves the file.
AfterSendingHandle(p) == IF p \in Messages THEN "over" ELSE "stateless"
AfterSendingDone(p) == IF p \in Messages THEN "over" ELSE "done"

\* Back in HandleAsync of the serialized message, whose context is the one that
\* was sent again.
AfterSending(p) ==
    IF p \in Messages THEN "over" ELSE IF out[p].inFile THEN "deleteFile" ELSE "done"

AddMessage(p) ==
    /\ pc[p] = "add"
    /\ \/ /\ Len(copies) < MaxCopies
          /\ copies' = Append(copies,
               [ctx |-> out[p], at |-> "queue", dequeues |-> 0,
                visible |-> AtMost(now + IF out[p].delayed = None THEN 0 ELSE out[p].delayed)])
          /\ Answered(p, AfterSending(p))
       \/ Mishap("fault") /\ Raise(p) /\ UNCHANGED copies
    /\ UNCHANGED <<now, sent, files, uploads, runs, handled>>

----------------------------------------------------------------------------
(* SendAsync *)

\* Of a message of any size and delay, with a handler for its type or none.
SendAsync(m) ==
    /\ pc[m] = "idle"
    /\ \E delay \in Delays, size \in Sizes, known \in BOOLEAN :
         /\ sent' = [sent EXCEPT ![m] =
                       [size |-> size, known |-> known,
                        wake |-> IF delay = None THEN None ELSE AtMost(now + delay)]]
         /\ SendMessage(m, m, size, delay, FALSE)
    /\ UNCHANGED <<now, copies, files, uploads, mishaps, runs, handled>>

----------------------------------------------------------------------------
(* The queue and its host (external) *)

Tick ==
    /\ now < MaxTime
    /\ now' = now + 1
    /\ UNCHANGED <<sent, copies, files, uploads, pc, out, mishaps, runs, handled>>

Receive(c) ==
    /\ copies[c].at = "queue"
    /\ copies[c].visible <= now
    /\ copies[c].dequeues < MaxDequeueCount
    /\ copies' = [copies EXCEPT ![c].at = "hidden", ![c].dequeues = @ + 1]
    /\ Goto(<<c, copies[c].dequeues + 1>>, "read")
    /\ UNCHANGED <<now, sent, files, uploads, mishaps, runs, handled>>

\* The latest receiver only may delete a message.
Complete(p) ==
    /\ pc[p] = "done"
    /\ Goto(p, "over")
    /\ copies' = IF p[2] = Copy(p).dequeues /\ Copy(p).at # "poison"
                   THEN [copies EXCEPT ![p[1]].at = "deleted"] ELSE copies
    /\ UNCHANGED <<now, sent, files, uploads, mishaps, runs, handled>>

\* The attempt threw or its process died: the message shows up again.
VisibilityTimeout(c) ==
    /\ copies[c].at = "hidden"
    /\ pc[<<c, copies[c].dequeues>>] = "over"
    /\ copies' = [copies EXCEPT ![c].at = "queue"]
    /\ UNCHANGED <<now, sent, files, uploads, pc, out, mishaps, runs, handled>>

Redeliver(c) ==
    /\ copies[c].at = "hidden"
    /\ pc[<<c, copies[c].dequeues>>] # "over"
    /\ Mishap("redeliver")
    /\ copies' = [copies EXCEPT ![c].at = "queue"]
    /\ UNCHANGED <<now, sent, files, uploads, pc, out, runs, handled>>

Poison(c) ==
    /\ copies[c].at = "queue"
    /\ copies[c].dequeues = MaxDequeueCount
    /\ copies' = [copies EXCEPT ![c].at = "poison"]
    /\ UNCHANGED <<now, sent, files, uploads, pc, out, mishaps, runs, handled>>

Crash(p) ==
    /\ pc[p] \notin {"idle", "over"}
    /\ Mishap("crash")
    /\ Goto(p, "over")
    /\ UNCHANGED <<now, sent, copies, files, uploads, runs, handled>>

----------------------------------------------------------------------------
(* HandlersContainer.HandleAsync *)

\* Mutant of IsMissing: that the file is gone is an error like any other.
NeverMissing(p) == FALSE

\* The blob does not exist.
IsMissing(p) == Ctx(p).body # Inline /\ Ctx(p).body \notin files

\* The body, which is in the message or in a file; a message whose file is gone
\* is ignored; a body that is taken for a file name raises.
ReadBody(p) ==
    /\ pc[p] = "read"
    /\ \/ ~Ctx(p).inFile /\ Goto(p, "look") /\ UNCHANGED mishaps
       \/ Ctx(p).inFile /\ Ctx(p).body \in files /\ Answered(p, "look")
       \/ Ctx(p).inFile /\ IsMissing(p) /\ Answered(p, "done")
       \/ /\ Ctx(p).inFile /\ Ctx(p).body \notin files /\ ~IsMissing(p)
          /\ Raise(p) /\ UNCHANGED mishaps
    /\ UNCHANGED <<now, sent, copies, files, uploads, runs, handled>>

\* It came with a delay.
Slept(p) == Ctx(p).delayed \in Int /\ Ctx(p).delayed > 0

\* What is left until the message is due, read on a host's clock.
Left(p, skew) == sent[Ctx(p).msg].wake - (now + skew)

\* A message that no handler knows raises; one that came too early is sent again;
\* the others go to their handlers.
Look(p) ==
    /\ pc[p] = "look"
    /\ \/ ~sent[Ctx(p).msg].known /\ Raise(p)
       \/ /\ sent[Ctx(p).msg].known
          /\ \/ ~Slept(p) /\ Goto(p, "stateless")
             \/ /\ Slept(p)
                /\ \E skew \in -MaxSkew .. MaxSkew :
                     IF Left(p, skew) > Slack
                       THEN SendMessage(p, Ctx(p).msg, sent[Ctx(p).msg].size,
                                        Left(p, skew), Ctx(p).inFile)
                       ELSE Goto(p, "stateless")
    /\ UNCHANGED <<now, sent, copies, files, uploads, mishaps, runs, handled>>

InvokeStatelessHandlers(p) ==
    /\ pc[p] = "stateless"
    /\ \/ /\ runs' = [runs EXCEPT ![Ctx(p).msg] = @ + 1]
          /\ Goto(p, "sagas") /\ UNCHANGED mishaps
       \/ Mishap("throw") /\ Raise(p) /\ UNCHANGED runs
    /\ UNCHANGED <<now, sent, copies, files, uploads, handled>>

InvokeSagaHandlers(p) ==
    /\ pc[p] = "sagas"
    /\ \/ /\ handled' = handled \cup {Ctx(p).msg}
          /\ Goto(p, IF Ctx(p).inFile THEN "deleteFile" ELSE "done") /\ UNCHANGED mishaps
       \/ Mishap("throw") /\ Raise(p) /\ UNCHANGED handled
    /\ UNCHANGED <<now, sent, copies, files, uploads, runs>>

\* DeleteIfExists, of the body the message came with: a body that is taken for a
\* file name raises.
DeleteFile(p) ==
    /\ pc[p] = "deleteFile"
    /\ \/ /\ Ctx(p).body # Inline
          /\ \/ files' = files \ {Ctx(p).body} /\ Answered(p, "done")
             \/ Mishap("fault") /\ Raise(p) /\ UNCHANGED files
       \/ Ctx(p).body = Inline /\ Raise(p) /\ UNCHANGED <<files, mishaps>>
    /\ UNCHANGED <<now, sent, copies, uploads, runs, handled>>

----------------------------------------------------------------------------

Step(p) ==
    \/ UploadFile(p) \/ AddMessage(p)
    \/ /\ p \in Attempts
       /\ \/ ReadBody(p) \/ Look(p) \/ InvokeStatelessHandlers(p)
          \/ InvokeSagaHandlers(p) \/ DeleteFile(p) \/ Complete(p)

Next ==
    \/ \E m \in Messages : SendAsync(m)
    \/ \E p \in Processes : Step(p) \/ Crash(p)
    \/ \E c \in DOMAIN copies :
         Receive(c) \/ VisibilityTimeout(c) \/ Redeliver(c) \/ Poison(c)
    \/ Tick

\* Processes that do not crash keep running, time passes and the host keeps
\* polling.  No mishap is ever owed, and nobody has to send anything.
Fairness ==
    /\ \A p \in Processes : WF_vars(Step(p))
    /\ \A c \in 1 .. MaxCopies :
         WF_vars(c \in DOMAIN copies /\ (Receive(c) \/ VisibilityTimeout(c) \/ Poison(c)))
    /\ WF_vars(Tick)

Spec == Init /\ [][Next]_vars /\ Fairness

----------------------------------------------------------------------------
(* Properties *)

Sent(m) == \E c \in DOMAIN copies : copies[c].ctx.msg = m

\* A message near the limit may be in a file at one send and not at the next,
\* but BodyInFile, once set, stays set in the context that HandleAsync shares
\* with SendMessageAsync: the body is then taken for a file name.
AtLimit(m) == sent[m].size = "edge"

\* A message that is on the queue is never lost: until its handlers have run,
\* there is a copy that still has its body, on the queue, in an attempt or
\* among the poison messages.  An attempt that ignores a message without a file
\* is right to do so, whatever order the file, the copies and the message are
\* deleted, sent again or lost in.
NoMessageVanishes ==
    \A m \in Messages : Sent(m) /\ m \notin handled =>
        \E c \in DOMAIN copies :
            /\ copies[c].ctx.msg = m
            /\ copies[c].at # "deleted"
            /\ copies[c].ctx.body \in files \cup {Inline}

\* Handlers see a message once, and once more at most for every crash, fault,
\* exception and late redelivery: sending it again does not multiply it.
OncePerMishap ==
    \A m \in Messages : AtLimit(m) \/ runs[m] <= 1 + mishaps

\* No handler runs before the message is due by the clock of its host, however
\* often it was sent again.
NeverEarly ==
    [][\A m \in Messages :
         runs'[m] > runs[m] /\ sent[m].wake \in Int =>
             now >= sent[m].wake - Slack - MaxSkew]_vars

\* A message is given up only for a cause: every attempt failed, or no handler
\* knows it.
PoisonedForCause ==
    \A c \in DOMAIN copies : copies[c].at = "poison" =>
        LET m == copies[c].ctx.msg
        IN  mishaps >= MaxDequeueCount \/ ~sent[m].known \/ AtLimit(m)

\* As long as nothing went wrong, the container holds the bodies of messages
\* that are still on their way only: a message that is sent again takes a new
\* file, and the old one is deleted.
FilesFreed ==
    mishaps = 0 =>
        \A f \in files :
            \/ \E c \in DOMAIN copies : copies[c].ctx.body = f /\ copies[c].at # "deleted"
            \/ \E p \in Processes : out[p].body = f

\* Every message that is on the queue is handled in the end, or given up.
EverySettles ==
    \A m \in Messages :
        Sent(m) ~> m \in handled \/ \E c \in DOMAIN copies :
                                       copies[c].ctx.msg = m /\ copies[c].at = "poison"
----------------------------------------------------------------------------
(* What is left of it without copies, files, attempts and delays in hops *)

\* Messages with a copy on the queue or in an attempt that has its body.
Kept ==
    {m \in Messages : \E c \in DOMAIN copies :
        /\ copies[c].ctx.msg = m /\ copies[c].at # "deleted"
        /\ copies[c].ctx.body \in files \cup {Inline}}

Dead == {m \in Messages :
            \E c \in DOMAIN copies : copies[c].ctx.msg = m /\ copies[c].at = "poison"}

Box == INSTANCE Mailbox WITH
    Grace <- Slack + MaxSkew, Patience <- MaxDequeueCount,
    kept <- Kept, dead <- Dead, troubles <- mishaps

\* Every step is one that Mailbox allows: a message is in the mailbox from the
\* first time it is put on the queue until its handlers have run, and what else
\* happens to it happens in time, in order and for a cause.
MailboxSpec == Box!Spec
=============================================================================

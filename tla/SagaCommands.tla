---------------------------- MODULE SagaCommands ----------------------------
(***************************************************************************)
(* Commands handled by sagas, from the queue to the saga table:            *)
(*   HandlersContainer.LookForCommandsProcessedByASaga                     *)
(*   SagaAzureStoragePersistence  GetSagaDataAsync, InsertAsync,           *)
(*                                UpdateAsync, DeleteAsync                 *)
(*   SagaAzureStorageLocker       CreateLock, ReleaseLock, DeleteLock      *)
(* A queue delivers every command at least once; each attempt to process   *)
(* it is a process of its own, and one step of a process is one call to    *)
(* Azure storage or one handler invocation.  Attempts run concurrently, on *)
(* one host (batchSize) or on several.                                     *)
(***************************************************************************)
EXTENDS SagaStorage

CONSTANTS
    Starting,         \* commands with IHandleCommandStartingSaga
    Correlated,       \* commands with IHandleCommandWithCorrelation
    Finishing,        \* commands whose handler calls DeleteSagaAsync
    Throwing,         \* commands whose handler may throw
    KeyOf,            \* KeyOf[m]: the key m's saga is stored or looked up under
    LockOf,           \* LockOf[k]: name of k's lock blob, PartitionKey + RowKey
    LockSagas,        \* the LockSagas setting
    MaxDequeueCount,  \* attempts before a message goes to the poison queue
    Mishaps,          \* what may go wrong: see MishapKinds
    MaxMishaps        \* and how often: the bound of the model

\* "crash"      a process stops between two steps
\* "fault"      a storage call raises, executed or not
\* "redeliver"  a message becomes visible while an attempt still runs
\* "slow"       a lease expires while its owner still runs
MishapKinds == {"crash", "fault", "redeliver", "slow"}

Deliveries == Messages \X (1..MaxDequeueCount)

ASSUME CommandKinds ==
    /\ Starting \cup Correlated = Messages
    /\ Finishing \subseteq Correlated \ Starting
    /\ Throwing \subseteq Messages
ASSUME KeysAndLocks ==
    /\ KeyOf \in [Messages -> Keys]
    /\ LockOf \in [Keys -> LockIds]
ASSUME Settings ==
    /\ LockSagas \in BOOLEAN
    /\ MaxDequeueCount \in Nat \ {0}
    /\ Mishaps \subseteq MishapKinds
    /\ MaxMishaps \in Nat
\* An attempt owns at most one lease at a time: it stands for its lease id.
ASSUME LeasePerDelivery == Leases = Deliveries

VARIABLES
    queue,      \* queue[m]: where the message is
    dequeues,   \* dequeues[m]: its dequeue count
    pc,         \* pc[d]: next step of attempt d
    entity,     \* entity[d]: the SagaData that d has read, or NoRow
    mishaps,    \* number of mishaps so far
    runs,       \* history: handler invocations of m that returned or went
                \* on to DeleteSagaAsync, which the handler itself calls
    commits,    \* history: changes of the table made for m
    notFound,   \* history: messages logged as "Saga not found"
    closed      \* history: data of the finished sagas of each key

host == <<queue, dequeues>>
history == <<runs, commits, notFound, closed>>
vars == <<table, locks, host, pc, entity, mishaps, history>>

Msg(d) == d[1]
Key(d) == KeyOf[d[1]]
Lock(d) == LockOf[Key(d)]

\* Steps inside the try block of LookForCommandsProcessedByASaga.
InTry == {"handle", "replace", "release", "deleteLock", "deleteRow", "deleteBlobs"}
Steps == InTry \cup
    {"upload", "acquire", "retrieve", "dropLock", "undo", "create",
     "insertUpload", "insertAcquire", "insert", "insertRelease", "done"}
Idle == {"idle", "over"}

TypeOK ==
    /\ StorageTypeOK
    /\ queue \in [Messages -> {"visible", "hidden", "deleted", "poison"}]
    /\ dequeues \in [Messages -> 0..MaxDequeueCount]
    /\ pc \in [Deliveries -> Steps \cup Idle]
    /\ entity \in [Deliveries -> Row \cup {NoRow}]
    /\ mishaps \in 0..MaxMishaps
    /\ runs \in [Messages -> Nat]
    /\ commits \in [Messages -> Nat]
    /\ notFound \in SUBSET Messages
    /\ closed \in [Keys -> Seq(Seq(Messages))]

Init ==
    /\ StorageInit
    /\ queue = [m \in Messages |-> "visible"]
    /\ dequeues = [m \in Messages |-> 0]
    /\ pc = [d \in Deliveries |-> "idle"]
    /\ entity = [d \in Deliveries |-> NoRow]
    /\ mishaps = 0
    /\ runs = [m \in Messages |-> 0]
    /\ commits = [m \in Messages |-> 0]
    /\ notFound = {}
    /\ closed = [k \in Keys |-> <<>>]

----------------------------------------------------------------------------
(* How a step ends *)

Mishap(kind) ==
    /\ kind \in Mishaps
    /\ mishaps < MaxMishaps
    /\ mishaps' = mishaps + 1

\* Locals go out of scope with the attempt.
Goto(d, step) ==
    /\ pc' = [pc EXCEPT ![d] = step]
    /\ entity' = IF step \in {"done", "over"} THEN [entity EXCEPT ![d] = NoRow]
                                              ELSE entity

\* Mutants of Raise: the exception is swallowed; the lock is never undone.
RaiseSwallowed(d) == Goto(d, IF pc[d] \in InTry THEN "undo" ELSE "done")
RaiseUncaught(d) == Goto(d, "over")

\* An exception reaches the catch block, or leaves HandleAsync.
Raise(d) == Goto(d, IF pc[d] \in InTry THEN "undo" ELSE "over")

\* The service executed the call; its answer may still be lost.
Answered(d, step) ==
    \/ Goto(d, step) /\ UNCHANGED mishaps
    \/ Mishap("fault") /\ Raise(d)

\* The service refused the call, or never received it.
Failed(d, allowed) ==
    /\ \/ ~allowed /\ UNCHANGED mishaps
       \/ allowed /\ Mishap("fault")
    /\ Raise(d)
    /\ UNCHANGED <<table, locks>>

\* The handler of d's message returned.
CountRun(d) == runs' = [runs EXCEPT ![Msg(d)] = @ + 1]

\* The table was changed on behalf of d's message.
Commit(d) == commits' = [commits EXCEPT ![Msg(d)] = @ + 1]

----------------------------------------------------------------------------
(* The queue and its host (external) *)

\* Mutant of FirstStep: the row is read without taking the lock.
FirstStepUnlocked(m) == IF m \in Correlated THEN "retrieve" ELSE "create"

FirstStep(m) ==
    IF m \notin Correlated THEN "create"
    ELSE IF LockSagas THEN "upload" ELSE "retrieve"

Receive(m) ==
    /\ queue[m] = "visible"
    /\ dequeues[m] < MaxDequeueCount
    /\ queue' = [queue EXCEPT ![m] = "hidden"]
    /\ dequeues' = [dequeues EXCEPT ![m] = @ + 1]
    /\ pc' = [pc EXCEPT ![<<m, dequeues[m] + 1>>] = FirstStep(m)]
    /\ UNCHANGED <<table, locks, entity, mishaps, history>>

\* Mutant of Acknowledged: the receipt of the first attempt is kept.
AcknowledgedOnce(d) == d[2] = 1 /\ queue[Msg(d)] # "poison"

\* The service lets the latest receiver only delete a message.
Acknowledged(d) == d[2] = dequeues[Msg(d)] /\ queue[Msg(d)] # "poison"

\* HandleAsync returned: the host deletes the message.
Complete(d) ==
    /\ pc[d] = "done"
    /\ Goto(d, "over")
    /\ queue' = IF Acknowledged(d) THEN [queue EXCEPT ![Msg(d)] = "deleted"]
                                   ELSE queue
    /\ UNCHANGED <<table, locks, dequeues, mishaps, history>>

\* The attempt threw or its process died: the message shows up again.
VisibilityTimeout(m) ==
    /\ queue[m] = "hidden"
    /\ pc[<<m, dequeues[m]>>] = "over"
    /\ queue' = [queue EXCEPT ![m] = "visible"]
    /\ UNCHANGED <<table, locks, dequeues, pc, entity, mishaps, history>>

Redeliver(m) ==
    /\ queue[m] = "hidden"
    /\ pc[<<m, dequeues[m]>>] # "over"
    /\ Mishap("redeliver")
    /\ queue' = [queue EXCEPT ![m] = "visible"]
    /\ UNCHANGED <<table, locks, dequeues, pc, entity, history>>

\* Mutant of Poison: the limit is off by one.
PoisonAboveLimit(m) ==
    /\ queue[m] = "visible"
    /\ dequeues[m] > MaxDequeueCount
    /\ queue' = [queue EXCEPT ![m] = "poison"]
    /\ UNCHANGED <<table, locks, dequeues, pc, entity, mishaps, history>>

Poison(m) ==
    /\ queue[m] = "visible"
    /\ dequeues[m] = MaxDequeueCount
    /\ queue' = [queue EXCEPT ![m] = "poison"]
    /\ UNCHANGED <<table, locks, dequeues, pc, entity, mishaps, history>>

Crash(d) ==
    /\ pc[d] \notin Idle
    /\ Mishap("crash")
    /\ Goto(d, "over")
    /\ UNCHANGED <<table, locks, host, history>>

\* LOCK_DURATION is over.  A lease whose owner is gone expires sooner or
\* later; an attempt that still runs loses its lease only if it is too slow.
Expire(l) ==
    /\ l \in leased
    /\ pc[blob[l]] \in Idle
    /\ ExpireLease(l)
    /\ UNCHANGED <<table, host, pc, entity, mishaps, history>>

LoseLease(l) ==
    /\ l \in leased
    /\ pc[blob[l]] \notin Idle
    /\ Mishap("slow")
    /\ ExpireLease(l)
    /\ UNCHANGED <<table, host, pc, entity, history>>

----------------------------------------------------------------------------
(* CreateLock, before the row is read or inserted *)

UploadLock(d) ==
    /\ pc[d] \in {"upload", "insertUpload"}
    /\ \/ /\ UploadAllowed(Lock(d))
          /\ UploadText(Lock(d))
          /\ Answered(d, IF pc[d] = "upload" THEN "acquire" ELSE "insertAcquire")
          /\ UNCHANGED table
       \/ Failed(d, UploadAllowed(Lock(d)))
    /\ UNCHANGED <<host, history>>

AcquireLock(d) ==
    /\ pc[d] \in {"acquire", "insertAcquire"}
    /\ \/ /\ AcquireAllowed(Lock(d))
          /\ AcquireLease(Lock(d), d)
          /\ Answered(d, IF pc[d] = "acquire" THEN "retrieve" ELSE "insert")
          /\ UNCHANGED table
       \/ Failed(d, AcquireAllowed(Lock(d)))
    /\ UNCHANGED <<host, history>>

----------------------------------------------------------------------------
(* The correlated path: GetSagaDataAsync, the handler, UpdateAsync *)

\* No saga to correlate with: the command starts one, or nothing is left to do.
AfterMiss(m) == IF m \in Starting THEN "create" ELSE "done"

NoteNotFound(d) ==
    notFound' = IF pc'[d] = "done" THEN notFound \cup {Msg(d)} ELSE notFound

Retrieve(d) ==
    /\ pc[d] = "retrieve"
    /\ \/ /\ row[Key(d)] # NoRow
          /\ pc' = [pc EXCEPT ![d] = "handle"]
          /\ entity' = [entity EXCEPT ![d] = row[Key(d)]]
          /\ UNCHANGED <<table, locks, mishaps>>
       \/ /\ row[Key(d)] = NoRow
          /\ Goto(d, IF LockSagas THEN "dropLock" ELSE AfterMiss(Msg(d)))
          /\ UNCHANGED <<table, locks, mishaps>>
       \/ Failed(d, TRUE)
    /\ NoteNotFound(d)
    /\ UNCHANGED <<host, runs, commits, closed>>

DropLock(d) ==
    /\ pc[d] = "dropLock"
    /\ \/ /\ DeleteAllowed(Lock(d), d)
          /\ DeleteLockBlob(Lock(d))
          /\ Answered(d, AfterMiss(Msg(d)))
          /\ UNCHANGED table
       \/ Failed(d, DeleteAllowed(Lock(d), d))
    /\ NoteNotFound(d)
    /\ UNCHANGED <<host, runs, commits, closed>>

AfterHandler(m) ==
    IF m \notin Finishing THEN "replace"
    ELSE IF LockSagas THEN "deleteLock" ELSE "deleteRow"

Handle(d) ==
    /\ pc[d] = "handle"
    /\ \/ Goto(d, AfterHandler(Msg(d))) /\ CountRun(d)
       \/ Msg(d) \in Throwing /\ Raise(d) /\ UNCHANGED runs
    /\ UNCHANGED <<table, locks, host, mishaps, commits, notFound, closed>>

Replace(d) ==
    /\ pc[d] = "replace"
    /\ \/ /\ MatchesETag(Key(d), entity[d])
          /\ ReplaceRow(Key(d), Append(entity[d].log, Msg(d)))
          /\ Commit(d)
          /\ Answered(d, IF LockSagas THEN "release" ELSE "done")
          /\ UNCHANGED locks
       \/ /\ Failed(d, MatchesETag(Key(d), entity[d]))
          /\ UNCHANGED commits
    /\ UNCHANGED <<host, runs, notFound, closed>>

\* ReleaseLock after the row has been replaced or inserted.
Release(d) ==
    /\ pc[d] \in {"release", "insertRelease"}
    /\ \/ /\ ReleaseAllowed(Lock(d), d)
          /\ ReleaseLease(Lock(d))
          /\ Answered(d, "done")
          /\ UNCHANGED table
       \/ Failed(d, ReleaseAllowed(Lock(d), d))
    /\ UNCHANGED <<host, history>>

\* The catch block: release the lock, rethrow whether that succeeds or not.
\* Without locks LockID is null and the release raises before any call.
Undo(d) ==
    /\ pc[d] = "undo"
    /\ \/ /\ LockSagas
          /\ ReleaseAllowed(Lock(d), d)
          /\ ReleaseLease(Lock(d))
          /\ Goto(d, "over")
          /\ UNCHANGED <<table, mishaps>>
       \/ Failed(d, LockSagas /\ ReleaseAllowed(Lock(d), d))
    /\ UNCHANGED <<host, history>>

----------------------------------------------------------------------------
(* DeleteSagaAsync: the lock goes first, then the row, then the blobs *)

DeleteLock(d) ==
    /\ pc[d] = "deleteLock"
    /\ \/ /\ DeleteAllowed(Lock(d), d)
          /\ DeleteLockBlob(Lock(d))
          /\ Answered(d, "deleteRow")
          /\ UNCHANGED table
       \/ Failed(d, DeleteAllowed(Lock(d), d))
    /\ UNCHANGED <<host, history>>

DeleteSaga(d) ==
    /\ pc[d] = "deleteRow"
    /\ \/ /\ MatchesETag(Key(d), entity[d])
          /\ DeleteRow(Key(d))
          /\ Commit(d)
          /\ closed' = [closed EXCEPT ![Key(d)] =
                            Append(@, Append(entity[d].log, Msg(d)))]
          /\ Answered(d, "deleteBlobs")
          /\ UNCHANGED locks
       \/ /\ Failed(d, MatchesETag(Key(d), entity[d]))
          /\ UNCHANGED <<commits, closed>>
    /\ UNCHANGED <<host, runs, notFound>>

\* The blobs of big properties are not modelled here: only that the calls
\* may fail.  UpdateAsync then returns at once, because IsDeleted is set.
DeleteBlobs(d) ==
    /\ pc[d] = "deleteBlobs"
    /\ \/ Goto(d, "done") /\ UNCHANGED <<table, locks, mishaps>>
       \/ Failed(d, TRUE)
    /\ UNCHANGED <<host, history>>

----------------------------------------------------------------------------
(* The starting path: the handler, then InsertAsync; no try block *)

Create(d) ==
    /\ pc[d] = "create"
    /\ \/ Goto(d, IF LockSagas THEN "insertUpload" ELSE "insert") /\ CountRun(d)
       \/ Msg(d) \in Throwing /\ Raise(d) /\ UNCHANGED runs
    /\ UNCHANGED <<table, locks, host, mishaps, commits, notFound, closed>>

Insert(d) ==
    /\ pc[d] = "insert"
    /\ \/ /\ InsertAllowed(Key(d))
          /\ InsertRow(Key(d), <<Msg(d)>>)
          /\ Commit(d)
          /\ Answered(d, IF LockSagas THEN "insertRelease" ELSE "done")
          /\ UNCHANGED locks
       \/ /\ Failed(d, InsertAllowed(Key(d)))
          /\ UNCHANGED commits
    /\ UNCHANGED <<host, runs, notFound, closed>>

----------------------------------------------------------------------------
Step(d) ==
    \/ UploadLock(d) \/ AcquireLock(d) \/ Retrieve(d) \/ DropLock(d)
    \/ Handle(d) \/ Replace(d) \/ Release(d) \/ Undo(d)
    \/ DeleteLock(d) \/ DeleteSaga(d) \/ DeleteBlobs(d)
    \/ Create(d) \/ Insert(d) \/ Complete(d)

\* The message has been consumed or given up, and nothing of it is left.
Settled(m) ==
    /\ queue[m] \in {"deleted", "poison"}
    /\ \A n \in 1..MaxDequeueCount : pc[<<m, n>>] \in Idle

Terminating ==
    /\ \A m \in Messages : Settled(m)
    /\ leased = {}
    /\ UNCHANGED vars

Next ==
    \/ \E d \in Deliveries : Step(d) \/ Crash(d)
    \/ \E m \in Messages :
          Receive(m) \/ VisibilityTimeout(m) \/ Redeliver(m) \/ Poison(m)
    \/ \E l \in LockIds : Expire(l) \/ LoseLease(l)
    \/ Terminating

Spec == Init /\ [][Next]_vars

\* Processes that do not crash keep running, the host keeps polling and
\* leases expire on the service's clock.  No mishap is ever owed.
Fairness ==
    /\ \A d \in Deliveries : WF_vars(Step(d))
    /\ \A m \in Messages :
          WF_vars(Receive(m) \/ VisibilityTimeout(m) \/ Poison(m))
    /\ \A l \in LockIds : WF_vars(Expire(l))

FairSpec == Spec /\ Fairness

----------------------------------------------------------------------------
(* Properties *)

\* Through all the interleavings of reads, handlers and writes, the rows of
\* the table behave like the register a saga author counts on: no update is
\* lost (Insert, Replace and Delete with the ETag that was read), and the
\* finishing command has seen every update.
Register == INSTANCE SagaRegister WITH
    NoData <- NoRow,
    data <- [k \in Keys |-> IF row[k] = NoRow THEN NoRow ELSE row[k].log]
RegisterSpec == Register!Spec

\* From the read to the write, an attempt that runs with LockSagas owns the
\* live lease, and the row is the one it read: nobody else has changed it.
\* The exception is DeleteAsync, which gives the lock back before it deletes
\* the row, so that the row may vanish under the next owner of the lock.
LockProtects ==
    LockSagas /\ "slow" \notin Mishaps =>
        \A d \in Deliveries : pc[d] \in {"handle", "replace", "deleteLock"} =>
            /\ Holds(d, Lock(d))
            /\ \/ row[Key(d)] = entity[d]
               \/ row[Key(d)] = NoRow /\ Finishing # {}

\* A command changes its saga's row once; every further change is owed to a
\* mishap of its own.  Retries after a refused lock or a conflict add none
\* (SagaWithLock_Tests.cs:99, Counter == 11).
CommittedOnce == \A m \in Messages : commits[m] <= 1 + mishaps

\* With locks, a correlated command that waits its turn is refused before
\* its handler runs, so that the handler completes once
\* (SagaWithLock_Tests.cs:101, InvocationCounter == 11), and once more per
\* mishap, as long as no saga is deleted meanwhile.
HandledOnce == \A m \in Messages \ Starting : runs[m] <= 1 + mishaps

\* The host deletes a message only if a saga kept its effect, or if it was
\* logged that no saga waits for it: no exception is swallowed on the way.
ConsumedMeansCommitted ==
    \A m \in Messages : queue[m] = "deleted" => commits[m] > 0 \/ m \in notFound

\* "if there is an error release the lock" (HandlersContainer.cs:407): as
\* long as no process died and no storage call failed by itself, an attempt
\* that is over, normally or by an exception, leaves no lease behind.
LockFreed == mishaps = 0 => \A l \in leased : pc[blob[l]] \notin Idle

\* InsertAsync is the only place that forgets a lock: without a mishap, an
\* attempt that ends as the owner of a live lease, normally or by an exception,
\* ends at an Insert that is refused because the saga exists.  No refused write
\* elsewhere, no handler that throws and no finished saga leaves a lease.
OnlyInsertLeaks ==
    [][mishaps' = 0 =>
         \A l \in leased' :
            LET owner == blob'[l] IN
            pc[owner] \notin Idle /\ pc'[owner] \in Idle =>
                pc[owner] = "insert" /\ ~InsertAllowed(Key(owner))]_vars

\* What makes Replace's ETag check sufficient: an ETag names one value of a
\* row, for ever.  A row that still has the ETag an attempt has read still
\* has the data it has read, even if the saga was finished and started again.
ETagNamesData ==
    /\ \A k \in Keys : row[k] # NoRow => row[k].etag <= version[k]
    /\ \A d \in Deliveries : entity[d] # NoRow =>
          /\ entity[d].etag <= version[Key(d)]
          /\ MatchesETag(Key(d), entity[d]) => row[Key(d)] = entity[d]

\* The facts the invariants above rest on.  The attempts that write a row
\* have read one; each path is taken by the commands it is meant for; and
\* with LockSagas an attempt owns its lease from AcquireLease to the call
\* that gives it back.
EntityLoaded ==
    \A d \in Deliveries :
        pc[d] \in {"handle", "replace", "deleteLock", "deleteRow"} => entity[d] # NoRow
OnPath ==
    \A d \in Deliveries :
        /\ pc[d] \in {"create", "insertUpload", "insertAcquire", "insert"} =>
              Msg(d) \in Starting
        /\ pc[d] \in {"upload", "acquire", "retrieve", "dropLock", "handle"} =>
              Msg(d) \in Correlated
        /\ pc[d] = "replace" => Msg(d) \in Correlated \ Finishing
        /\ pc[d] \in {"deleteLock", "deleteRow"} => Msg(d) \in Finishing
LockedSteps == {"retrieve", "dropLock", "handle", "replace", "release",
                "deleteLock", "insert", "insertRelease"}
LeaseHeld ==
    LockSagas /\ "slow" \notin Mishaps =>
        \A d \in Deliveries : pc[d] \in LockedSteps => Holds(d, Lock(d))

\* The inductive invariant behind RegisterSpec and LockProtects.
IndInv ==
    TypeOK /\ EntityLoaded /\ OnPath /\ ETagNamesData /\ LeaseHeld /\ LockProtects

\* Every message is consumed or poisoned in the end, whatever crashes, raises
\* or leaks a lease on the way.
EverySettles == \A m \in Messages : <>[]Settled(m)

\* A lock nobody will release becomes available again (LOCK_DURATION).
LeasesEnd == \A l \in LockIds : l \in leased ~> l \notin leased
=============================================================================

----------------------------- MODULE SagaEvents -----------------------------
(***************************************************************************)
(* Events handled by sagas:                                                *)
(*   HandlersContainer.LookForEventsProcessedBySagas                       *)
(*   SagaAzureStoragePersistence  FindSagaDataAsync (a query in segments), *)
(*                                GetSagaDataAsync, UpdateAsync, ...       *)
(* An event is given to every saga a query finds, one after the other:     *)
(* each is locked and read again, but only the ETag of that second read is *)
(* used, the data is that of the query.  The event is delivered again      *)
(* after an exception or a crash, and starts from the query each time.     *)
(*                                                                         *)
(* Commands are the environment.  SagaCommands shows that a command is     *)
(* one step of SagaRegister, so it is one step here, taken when the lock   *)
(* is free; except the command that finishes a saga, which gives the lock  *)
(* up before it deletes the row and so may meet an event in between.       *)
(***************************************************************************)
EXTENDS SagaStorage, FiniteSets

CONSTANTS
    Events,
    Commands,
    Starting,       \* commands that start the saga of their key
    Finishing,      \* commands that finish it; the others update it
    Closing,        \* events whose handler calls DeleteSagaAsync
    Throwing,       \* pairs <<e, k>>: the handler of e may throw for saga k
    KeyOf,          \* KeyOf[c]: the saga of command c
    LockOf,         \* LockOf[k]: name of k's lock blob, PartitionKey + RowKey
    KeyOrder,       \* the keys the events' queries cover, in the table's order
    LockSagas,      \* the LockSagas setting
    MaxTries,       \* deliveries of an event before it is given up
    Mishaps,        \* what may go wrong: see MishapKinds
    MaxMishaps      \* and how often: the bound of the model

\* "crash"  the process stops between two steps
\* "fault"  a storage call raises, executed or not
\* "slow"   a lease expires while its owner still runs
MishapKinds == {"crash", "fault", "slow"}

ASSUME MessageKinds ==
    /\ Events \cap Commands = {}
    /\ Messages = Events \cup Commands
    /\ Starting \cup Finishing \subseteq Commands
    /\ Starting \cap Finishing = {}
    /\ Closing \subseteq Events
    /\ Throwing \subseteq Events \X Keys
ASSUME KeysAndLocks ==
    /\ KeyOf \in [Commands -> Keys]
    /\ LockOf \in [Keys -> LockIds]
    /\ KeyOrder \in Seq(Keys) \ {<<>>}
    /\ \A i, j \in DOMAIN KeyOrder : KeyOrder[i] = KeyOrder[j] => i = j
ASSUME Settings ==
    /\ LockSagas \in BOOLEAN
    /\ MaxTries \in Nat \ {0}
    /\ Mishaps \subseteq MishapKinds
    /\ MaxMishaps \in Nat
\* An event has at most one lease in use: it stands for its lease id.
ASSUME LeasePerEvent == Leases = Events

VARIABLES
    pc,         \* pc[e]: next step for event e; between attempts, where e is
    tries,      \* tries[e]: deliveries of e
    asked,      \* asked[e]: how much of KeyOrder the query has covered
    sagasData,  \* sagasData[e]: the sagas the query found and e has yet to handle
    entity,     \* entity[m]: ETag and data m writes with, or NoRow
    pending,    \* commands that have not taken effect
    mishaps,    \* number of mishaps so far
    kept,       \* history: the messages whose change to live saga k was stored
    waiting,    \* history: sagas alive since e was delivered, that e has not changed
    served      \* history: pairs <<e, k>>: a change of saga k for e was stored

history == <<kept, waiting, served>>
memory == <<asked, sagasData, entity>>
vars == <<table, locks, pc, tries, memory, pending, mishaps, history>>

Snapshot == [key : Keys, etag : Nat, log : Seq(Messages)]

\* Steps inside the try block: one saga's turn.
Turn == {"upload", "acquire", "retrieve", "dropLock", "handle", "replace", "release",
         "deleteLock", "deleteRow", "deleteBlobs"}
Resting == {"queued", "deleted", "poison"}

TypeOK ==
    /\ StorageTypeOK
    /\ pc \in [Events -> Turn \cup {"query", "undo", "done"} \cup Resting]
    /\ tries \in [Events -> 0..MaxTries]
    /\ asked \in [Events -> 0..Len(KeyOrder)]
    /\ sagasData \in [Events -> Seq(Snapshot)]
    /\ entity \in [Messages -> Row \cup {NoRow}]
    /\ pending \in SUBSET Commands
    /\ mishaps \in 0..MaxMishaps
    /\ kept \in [Keys -> Seq(Messages)]
    /\ waiting \in [Events -> SUBSET Keys]
    /\ served \in SUBSET (Events \X Keys)

Init ==
    /\ StorageInit
    /\ pc = [e \in Events |-> "queued"]
    /\ tries = [e \in Events |-> 0]
    /\ asked = [e \in Events |-> 0]
    /\ sagasData = [e \in Events |-> <<>>]
    /\ entity = [m \in Messages |-> NoRow]
    /\ pending = Commands
    /\ mishaps = 0
    /\ kept = [k \in Keys |-> <<>>]
    /\ waiting = [e \in Events |-> {}]
    /\ served = {}

----------------------------------------------------------------------------
(* How a step ends *)

Mishap(kind) ==
    /\ kind \in Mishaps
    /\ mishaps < MaxMishaps
    /\ mishaps' = mishaps + 1

\* The keys that the queries cover.
Covered == {KeyOrder[i] : i \in DOMAIN KeyOrder}

\* The saga whose turn it is.
Current(e) == Head(sagasData[e]).key
Lock(e) == LockOf[Current(e)]

Goto(e, step) ==
    /\ pc' = [pc EXCEPT ![e] = step]
    /\ UNCHANGED memory

\* The attempt is over and its memory gone; the event will be delivered again.
GiveUp(e) ==
    /\ pc' = [pc EXCEPT ![e] = "queued"]
    /\ asked' = [asked EXCEPT ![e] = 0]
    /\ sagasData' = [sagasData EXCEPT ![e] = <<>>]
    /\ entity' = [entity EXCEPT ![e] = NoRow]

FirstStep == IF LockSagas THEN "upload" ELSE "retrieve"

\* Mutant of NextSaga: the loop ends with the first saga.
FirstSagaOnly(e) ==
    /\ pc' = [pc EXCEPT ![e] = "done"]
    /\ sagasData' = [sagasData EXCEPT ![e] = Tail(@)]
    /\ entity' = [entity EXCEPT ![e] = NoRow]
    /\ UNCHANGED asked

\* foreach: the next saga's turn, or the end of HandleAsync.
NextSaga(e) ==
    /\ pc' = [pc EXCEPT ![e] = IF Len(sagasData[e]) > 1 THEN FirstStep ELSE "done"]
    /\ sagasData' = [sagasData EXCEPT ![e] = Tail(@)]
    /\ entity' = [entity EXCEPT ![e] = NoRow]
    /\ UNCHANGED asked

\* Mutant of Raise: nobody catches the exception.
RaiseUncaught(e) == GiveUp(e)

\* An exception in a saga's turn reaches the catch block.
Raise(e) == Goto(e, "undo")

\* The service refused the call, or never received it.
Failed(e, allowed) ==
    /\ \/ ~allowed /\ UNCHANGED mishaps
       \/ allowed /\ Mishap("fault")
    /\ Raise(e)
    /\ UNCHANGED <<table, locks>>

\* The service executed the call and its answer arrived, or did not.
Answered(e, step) ==
    \/ Goto(e, step) /\ UNCHANGED mishaps
    \/ Mishap("fault") /\ Raise(e)

\* Likewise for the last call of a saga's turn.
Finished(e) ==
    \/ NextSaga(e) /\ UNCHANGED mishaps
    \/ Mishap("fault") /\ Raise(e)

Changed(e) ==
    /\ served' = served \cup {<<e, Current(e)>>}
    /\ kept' = [kept EXCEPT ![Current(e)] = Append(@, e)]
    /\ waiting' = [waiting EXCEPT ![e] = @ \ {Current(e)}]

\* A saga that is deleted waits for no event.
Gone(k) ==
    /\ kept' = [kept EXCEPT ![k] = <<>>]
    /\ waiting' = [e \in Events |-> waiting[e] \ {k}]

----------------------------------------------------------------------------
(* Delivery (external): at least once, up to MaxTries times *)

Deliver(e) ==
    /\ pc[e] = "queued"
    /\ tries[e] < MaxTries
    /\ tries' = [tries EXCEPT ![e] = @ + 1]
    /\ Goto(e, "query")
    /\ waiting' = [waiting EXCEPT ![e] = {k \in Covered : row[k] # NoRow
                                                        /\ <<e, k>> \notin served}]
    /\ UNCHANGED <<table, locks, pending, mishaps, kept, served>>

\* Mutant of Poison: the limit is off by one.
PoisonAboveLimit(e) ==
    /\ pc[e] = "queued"
    /\ tries[e] > MaxTries
    /\ Goto(e, "poison")
    /\ UNCHANGED <<table, locks, tries, pending, mishaps, history>>

Poison(e) ==
    /\ pc[e] = "queued"
    /\ tries[e] = MaxTries
    /\ Goto(e, "poison")
    /\ UNCHANGED <<table, locks, tries, pending, mishaps, history>>

Complete(e) ==
    /\ pc[e] = "done"
    /\ Goto(e, "deleted")
    /\ UNCHANGED <<table, locks, tries, pending, mishaps, history>>

Crash(e) ==
    /\ pc[e] \notin Resting
    /\ Mishap("crash")
    /\ GiveUp(e)
    /\ UNCHANGED <<table, locks, tries, pending, history>>

\* LOCK_DURATION is over.  A lease nobody uses any more expires sooner or
\* later, the one of a turn that goes on only if it is too slow.
LockedSteps == {"retrieve", "dropLock", "handle", "replace", "release",
                "deleteLock", "undo"}
InUse(l) == pc[blob[l]] \in LockedSteps /\ Lock(blob[l]) = l

Expire(l) ==
    /\ l \in leased
    /\ ~InUse(l)
    /\ ExpireLease(l)
    /\ UNCHANGED <<table, pc, tries, memory, pending, mishaps, history>>

LoseLease(l) ==
    /\ l \in leased
    /\ InUse(l)
    /\ Mishap("slow")
    /\ ExpireLease(l)
    /\ UNCHANGED <<table, pc, tries, memory, pending, history>>

----------------------------------------------------------------------------
(* FindSagaDataAsync: the query, a segment at a time *)

\* The rows of the keys number lo to hi, in the table's order: one sequence.
Segments(lo, hi) ==
    LET found == {i \in lo..hi : row[KeyOrder[i]] # NoRow}
        places == {s \in [1..Cardinality(found) -> found] :
                      /\ \A i, j \in DOMAIN s : i < j => s[i] < s[j]
                      /\ \A i \in found : \E j \in DOMAIN s : s[j] = i}
        Snap(k) == [key |-> k, etag |-> row[k].etag, log |-> row[k].log]
    IN  {[i \in DOMAIN s |-> Snap(KeyOrder[s[i]])] : s \in places}

\* A segment ends wherever the service chooses.  When no saga was found the
\* event is logged as such and is consumed.
Query(e) ==
    /\ pc[e] = "query"
    /\ \/ \E hi \in (asked[e] + 1)..Len(KeyOrder) : \E segment \in Segments(asked[e] + 1, hi) :
             LET found == sagasData[e] \o segment
             IN  /\ asked' = [asked EXCEPT ![e] = hi]
                 /\ sagasData' = [sagasData EXCEPT ![e] = found]
                 /\ pc' = [pc EXCEPT ![e] = IF hi < Len(KeyOrder) THEN "query"
                                            ELSE IF found = <<>> THEN "done" ELSE FirstStep]
                 /\ UNCHANGED <<entity, mishaps>>
       \/ Mishap("fault") /\ GiveUp(e)
    /\ UNCHANGED <<table, locks, tries, pending, history>>

----------------------------------------------------------------------------
(* A saga's turn: GetSagaDataAsync *)

UploadLock(e) ==
    /\ pc[e] = "upload"
    /\ \/ /\ UploadAllowed(Lock(e))
          /\ UploadText(Lock(e))
          /\ Answered(e, "acquire")
          /\ UNCHANGED table
       \/ Failed(e, UploadAllowed(Lock(e)))
    /\ UNCHANGED <<tries, pending, history>>

AcquireLock(e) ==
    /\ pc[e] = "acquire"
    /\ \/ /\ AcquireAllowed(Lock(e))
          /\ AcquireLease(Lock(e), e)
          /\ Answered(e, "retrieve")
          /\ UNCHANGED table
       \/ Failed(e, AcquireAllowed(Lock(e)))
    /\ UNCHANGED <<tries, pending, history>>

\* The entity to write: the data of the query with the ETag of the row now.
Refreshed(snapshot, current) == [etag |-> current.etag, log |-> snapshot.log]

\* Without a row, lockedSagaData is null and reading its Timestamp raises,
\* after GetSagaDataAsync has deleted the lock.
Retrieve(e) ==
    /\ pc[e] = "retrieve"
    /\ \/ /\ row[Current(e)] # NoRow
          /\ entity' = [entity EXCEPT ![e] =
                            Refreshed(Head(sagasData[e]), row[Current(e)])]
          /\ pc' = [pc EXCEPT ![e] = "handle"]
          /\ UNCHANGED <<table, locks, asked, sagasData, mishaps>>
       \/ /\ row[Current(e)] = NoRow
          /\ IF LockSagas THEN Goto(e, "dropLock") ELSE Raise(e)
          /\ UNCHANGED <<table, locks, mishaps>>
       \/ Failed(e, TRUE)
    /\ UNCHANGED <<tries, pending, history>>

DropLock(e) ==
    /\ pc[e] = "dropLock"
    /\ \/ /\ DeleteAllowed(Lock(e), e)
          /\ DeleteLockBlob(Lock(e))
          /\ Raise(e)
          /\ UNCHANGED <<table, mishaps>>
       \/ Failed(e, DeleteAllowed(Lock(e), e))
    /\ UNCHANGED <<tries, pending, history>>

----------------------------------------------------------------------------
(* The handler, UpdateAsync or DeleteSagaAsync, and the catch block *)

AfterHandler(e) ==
    IF e \notin Closing THEN "replace"
    ELSE IF LockSagas THEN "deleteLock" ELSE "deleteRow"

Handle(e) ==
    /\ pc[e] = "handle"
    /\ \/ Goto(e, AfterHandler(e))
       \/ <<e, Current(e)>> \in Throwing /\ Raise(e)
    /\ UNCHANGED <<table, locks, tries, pending, mishaps, history>>

Replace(e) ==
    /\ pc[e] = "replace"
    /\ \/ /\ MatchesETag(Current(e), entity[e])
          /\ ReplaceRow(Current(e), Append(entity[e].log, e))
          /\ Changed(e)
          /\ IF LockSagas THEN Answered(e, "release") ELSE Finished(e)
          /\ UNCHANGED locks
       \/ /\ Failed(e, MatchesETag(Current(e), entity[e]))
          /\ UNCHANGED history
    /\ UNCHANGED <<tries, pending>>

Release(e) ==
    /\ pc[e] = "release"
    /\ \/ /\ ReleaseAllowed(Lock(e), e)
          /\ ReleaseLease(Lock(e))
          /\ Finished(e)
          /\ UNCHANGED table
       \/ Failed(e, ReleaseAllowed(Lock(e), e))
    /\ UNCHANGED <<tries, pending, history>>

DeleteLock(e) ==
    /\ pc[e] = "deleteLock"
    /\ \/ /\ DeleteAllowed(Lock(e), e)
          /\ DeleteLockBlob(Lock(e))
          /\ Answered(e, "deleteRow")
          /\ UNCHANGED table
       \/ Failed(e, DeleteAllowed(Lock(e), e))
    /\ UNCHANGED <<tries, pending, history>>

DeleteSaga(e) ==
    /\ pc[e] = "deleteRow"
    /\ \/ /\ MatchesETag(Current(e), entity[e])
          /\ DeleteRow(Current(e))
          /\ Gone(Current(e))
          /\ served' = served \cup {<<e, Current(e)>>}
          /\ Answered(e, "deleteBlobs")
          /\ UNCHANGED locks
       \/ /\ Failed(e, MatchesETag(Current(e), entity[e]))
          /\ UNCHANGED history
    /\ UNCHANGED <<tries, pending>>

\* Afterwards UpdateAsync returns at once, because IsDeleted is set.
DeleteBlobs(e) ==
    /\ pc[e] = "deleteBlobs"
    /\ \/ NextSaga(e) /\ UNCHANGED <<table, locks, mishaps>>
       \/ Failed(e, TRUE)
    /\ UNCHANGED <<tries, pending, history>>

\* The catch block releases sagaData.LockID, which is null until Retrieve has
\* succeeded and without LockSagas: then it raises before any call.
Releasable(e) ==
    /\ LockSagas
    /\ entity[e] # NoRow
    /\ ReleaseAllowed(Lock(e), e)

\* Whether or not the release succeeds, an exception leaves the loop.
Undo(e) ==
    /\ pc[e] = "undo"
    /\ GiveUp(e)
    /\ \/ Releasable(e) /\ ReleaseLease(Lock(e)) /\ UNCHANGED mishaps
       \/ ~Releasable(e) /\ UNCHANGED <<locks, mishaps>>
       \/ Releasable(e) /\ Mishap("fault") /\ UNCHANGED locks
    /\ UNCHANGED <<table, tries, pending, history>>

----------------------------------------------------------------------------
(* Commands, one step each: see SagaCommands *)

LockFree(k) == LockSagas => UploadAllowed(LockOf[k])

\* What CreateLock and ReleaseLock, or DeleteLock, leave behind.
LeaveLock(k, state) ==
    IF LockSagas THEN blob' = [blob EXCEPT ![LockOf[k]] = state] /\ UNCHANGED leased
                 ELSE UNCHANGED locks

StartSaga(c) ==
    /\ c \in pending \cap Starting
    /\ LockFree(KeyOf[c])
    /\ InsertAllowed(KeyOf[c])
    /\ InsertRow(KeyOf[c], <<c>>)
    /\ LeaveLock(KeyOf[c], Free)
    /\ kept' = [kept EXCEPT ![KeyOf[c]] = <<c>>]
    /\ pending' = pending \ {c}
    /\ UNCHANGED <<pc, tries, memory, mishaps, waiting, served>>

UpdateSaga(c) ==
    /\ c \in pending \ (Starting \cup Finishing)
    /\ LockFree(KeyOf[c])
    /\ row[KeyOf[c]] # NoRow
    /\ ReplaceRow(KeyOf[c], Append(row[KeyOf[c]].log, c))
    /\ LeaveLock(KeyOf[c], Free)
    /\ kept' = [kept EXCEPT ![KeyOf[c]] = Append(@, c)]
    /\ pending' = pending \ {c}
    /\ UNCHANGED <<pc, tries, memory, mishaps, waiting, served>>

\* DeleteAsync up to the deletion of the lock ...
BeginFinish(c) ==
    /\ c \in pending \cap Finishing
    /\ entity[c] = NoRow
    /\ LockFree(KeyOf[c])
    /\ row[KeyOf[c]] # NoRow
    /\ entity' = [entity EXCEPT ![c] = row[KeyOf[c]]]
    /\ LeaveLock(KeyOf[c], Absent)
    /\ UNCHANGED <<table, pc, tries, asked, sagasData, pending, mishaps, history>>

\* ... and the deletion of the row, which is tried again later if refused.
EndFinish(c) ==
    /\ c \in pending /\ entity[c] # NoRow
    /\ entity' = [entity EXCEPT ![c] = NoRow]
    /\ \/ /\ MatchesETag(KeyOf[c], entity[c])
          /\ DeleteRow(KeyOf[c])
          /\ Gone(KeyOf[c])
          /\ pending' = pending \ {c}
          /\ UNCHANGED served
       \/ /\ ~MatchesETag(KeyOf[c], entity[c])
          /\ UNCHANGED <<table, pending, history>>
    /\ UNCHANGED <<locks, pc, tries, asked, sagasData, mishaps>>

----------------------------------------------------------------------------
Step(e) ==
    \/ Query(e) \/ UploadLock(e) \/ AcquireLock(e) \/ Retrieve(e) \/ DropLock(e)
    \/ Handle(e) \/ Replace(e) \/ Release(e) \/ DeleteLock(e) \/ DeleteSaga(e)
    \/ DeleteBlobs(e) \/ Undo(e) \/ Complete(e)

Settled(e) == pc[e] \in {"deleted", "poison"}

\* Commands may stay pending: nobody owes the sagas any.
Terminating ==
    /\ \A e \in Events : Settled(e)
    /\ leased = {}
    /\ UNCHANGED vars

Next ==
    \/ \E e \in Events : Deliver(e) \/ Poison(e) \/ Step(e) \/ Crash(e)
    \/ \E l \in LockIds : Expire(l) \/ LoseLease(l)
    \/ \E c \in Commands :
          StartSaga(c) \/ UpdateSaga(c) \/ BeginFinish(c) \/ EndFinish(c)
    \/ Terminating

Spec == Init /\ [][Next]_vars

\* Attempts go on, the host delivers and gives up, leases expire.
Fairness ==
    /\ \A e \in Events : WF_vars(Deliver(e) \/ Poison(e) \/ Step(e))
    /\ \A l \in LockIds : WF_vars(Expire(l))

FairSpec == Spec /\ Fairness

----------------------------------------------------------------------------
(* Properties *)

\* With LockSagas, a saga's turn owns the live lease from the second read to
\* the write, and nobody else changes the row: the ETag copied onto the
\* snapshot stays the row's.  The row may vanish, because DeleteAsync gives
\* the lock up before it deletes the row.
LockProtects ==
    LockSagas /\ "slow" \notin Mishaps =>
        \A e \in Events : pc[e] \in {"handle", "replace", "deleteLock"} =>
            /\ Holds(e, Lock(e))
            /\ \/ MatchesETag(Current(e), entity[e])
               \/ row[Current(e)] = NoRow /\ Finishing \cup Closing # {}

\* How far the loss of updates can go: an event overwrites data it has not
\* seen only in a saga that was changed between the query and the second read
\* of that saga.  Every other change of a row extends the data in it.
LossNeedsOverlap ==
    [][\A k \in Keys : row[k] # row'[k] /\ row[k] # NoRow /\ row'[k] # NoRow =>
          \/ \E m \in Messages : row'[k].log = Append(row[k].log, m)
          \/ \E e \in Events :
                /\ pc[e] = "replace" /\ Current(e) = k
                /\ Head(sagasData[e]).etag # row[k].etag]_vars

\* An event is consumed only when it has changed every saga that lived from
\* its delivery on, whatever the segments of the query, the exceptions on the
\* way and the sagas that come and go: "Multiple_Saga_Can_Receive_An_Event"
\* (SagaWithEvent_Tests.cs:16).
NoSagaMissed == \A e \in Events : pc[e] = "deleted" => waiting[e] = {}

\* "if there is an error release the lock" (HandlersContainer.cs:497): as long
\* as no process died and no call failed by itself, a live lease is in use.
LockFreed == mishaps = 0 => \A l \in leased : InUse(l)

\* A turn that finds its saga locked raises instead of waiting, and the event
\* is tried again a bounded number of times: every event is consumed or given
\* up in the end, although crashes and failed calls leave leases behind.
EventsSettle == \A e \in Events : <>[]Settled(e)

\* "the data that will be stored between messages" (README.md:100): a live
\* saga's data is made by all the messages whose changes were stored, in order.
NoUpdateLost == \A k \in Keys : row[k] # NoRow => row[k].log = kept[k]

\* "process each saga data independently" (HandlersContainer.cs:465): what one
\* saga's handler does keeps no other saga from its turn before the event is
\* given up.
IndependentSagas ==
    mishaps = 0 => \A e \in Events : pc[e] = "poison" =>
        \A k \in waiting[e] : <<e, k>> \in Throwing
----------------------------------------------------------------------------
(* What events do, without locks, ETags, mishaps and deliveries *)

Phase(e) ==
    CASE pc[e] \in {"queued", "poison", "undo"} -> "idle"
      [] pc[e] = "query" -> "asking"
      [] pc[e] = "deleted" -> "consumed"
      [] OTHER -> "visiting"

\* The sagas that e has yet to change in this attempt, which ends with undo.
Ahead(e) ==
    CASE pc[e] = "undo" -> <<>>
      [] pc[e] \in {"release", "deleteBlobs"} -> Tail(sagasData[e])
      [] OTHER -> sagasData[e]

\* What the query found, without the ETags.
View(found) == [i \in DOMAIN found |-> <<found[i].key, found[i].log>>]

\* m has read the row of k in order to write it.
HasRead(m, k) ==
    \/ /\ m \in Events /\ pc[m] \in {"handle", "replace", "deleteLock", "deleteRow"}
       /\ Current(m) = k
    \/ m \in Commands /\ entity[m] # NoRow /\ KeyOf[m] = k

Data == [k \in Keys |-> IF row[k] = NoRow THEN NoRow ELSE row[k].log]
Phases == [e \in Events |-> Phase(e)]
Seen == [e \in Events |-> View(Ahead(e))]
Fresh == {p \in Messages \X Keys : HasRead(p[1], p[2]) /\ MatchesETag(p[2], entity[p[1]])}

Snapshots == INSTANCE SagaSnapshots WITH
    NoData <- NoRow, data <- Data, phase <- Phases, seen <- Seen, fresh <- Fresh

\* Events and commands do nothing to the sagas that SagaSnapshots does not
\* allow: no saga that was found is left out before the event is consumed, and
\* only a saga unchanged since it was last read is written, with or without
\* LockSagas, however deliveries, crashes and expiring leases meet.
SnapshotSpec == Snapshots!Spec
=============================================================================

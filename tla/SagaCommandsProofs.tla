------------------------- MODULE SagaCommandsProofs -------------------------
(***************************************************************************)
(* Theorems about SagaCommands, for every set of messages, keys and lock   *)
(* names, every dequeue limit and every number of mishaps.                 *)
(***************************************************************************)
EXTENDS SagaCommands, TLAPS

USE DEF Deliveries, Msg, Key, Lock

\* A delivery's message, key and lock name are what their names say.
LEMMA DeliveryTyped ==
    ASSUME NEW d \in Deliveries
    PROVE  /\ Msg(d) \in Messages
           /\ Key(d) \in Keys
           /\ Lock(d) \in LockIds
           /\ d \in Leases
BY KeysAndLocks, LeasePerDelivery

----------------------------------------------------------------------------
(* Types *)

\* The locals of all attempts and the count of mishaps are well typed.
LocalsOK ==
    /\ pc \in [Deliveries -> Steps \cup Idle]
    /\ entity \in [Deliveries -> Row \cup {NoRow}]
    /\ mishaps \in 0..MaxMishaps

\* Goto moves one attempt and may clear its entity.
LEMMA GotoTyped ==
    ASSUME LocalsOK, NEW d \in Deliveries, NEW step \in Steps \cup Idle,
           Goto(d, step)
    PROVE  /\ pc' \in [Deliveries -> Steps \cup Idle]
           /\ entity' \in [Deliveries -> Row \cup {NoRow}]
BY DEF LocalsOK, Goto

\* An exception takes an attempt to its catch block or ends it.
LEMMA RaiseTyped ==
    ASSUME LocalsOK, NEW d \in Deliveries, Raise(d)
    PROVE  /\ pc' \in [Deliveries -> Steps \cup Idle]
           /\ entity' \in [Deliveries -> Row \cup {NoRow}]
<1>1. "undo" \in Steps \cup Idle /\ "over" \in Steps \cup Idle
  BY DEF Steps, Idle
<1> QED
  BY <1>1, GotoTyped DEF Raise

\* A mishap is counted within the bound.
LEMMA MishapTyped ==
    ASSUME LocalsOK, NEW kind, Mishap(kind)
    PROVE  mishaps' \in 0..MaxMishaps
BY Settings DEF LocalsOK, Mishap

\* An executed call leaves the locals well typed, its answer lost or not.
LEMMA AnsweredTyped ==
    ASSUME LocalsOK, NEW d \in Deliveries, NEW step \in Steps \cup Idle,
           Answered(d, step)
    PROVE  LocalsOK'
<1>1. CASE Goto(d, step) /\ UNCHANGED mishaps
  BY <1>1, GotoTyped DEF LocalsOK
<1>2. CASE Mishap("fault") /\ Raise(d)
  BY <1>2, RaiseTyped, MishapTyped DEF LocalsOK
<1> QED
  BY <1>1, <1>2 DEF Answered

\* A call that fails changes nothing but the locals.
LEMMA FailedTyped ==
    ASSUME LocalsOK, NEW d \in Deliveries, NEW allowed, Failed(d, allowed)
    PROVE  LocalsOK' /\ UNCHANGED <<table, locks>>
<1>1. mishaps' \in 0..MaxMishaps
  BY MishapTyped DEF Failed, LocalsOK
<1> QED
  BY <1>1, RaiseTyped DEF Failed, LocalsOK

\* What the services do to a lock blob is well typed.
LEMMA LocksTyped ==
    ASSUME StorageTypeOK, UNCHANGED table, NEW d \in Deliveries, NEW l \in LockIds,
           \/ UploadText(l) \/ AcquireLease(l, d) \/ ReleaseLease(l)
           \/ DeleteLockBlob(l) \/ ExpireLease(l)
    PROVE  StorageTypeOK'
BY DeliveryTyped
DEF StorageTypeOK, table, UploadText, AcquireLease, ReleaseLease, DeleteLockBlob, ExpireLease

\* What the table service does to a row is well typed.
LEMMA TableTyped ==
    ASSUME StorageTypeOK, UNCHANGED locks, NEW k \in Keys, NEW log \in Seq(Messages),
           InsertRow(k, log) \/ ReplaceRow(k, log) \/ DeleteRow(k)
    PROVE  StorageTypeOK'
<1>1. version[k] + 1 \in Nat
  BY DEF StorageTypeOK
<1>2. [etag |-> version[k] + 1, log |-> log] \in Row
  BY <1>1 DEF Row
<1> QED
  BY <1>1, <1>2 DEF StorageTypeOK, locks, InsertRow, ReplaceRow, DeleteRow

\* The queue and the history variables are well typed.
HostOK ==
    /\ queue \in [Messages -> {"visible", "hidden", "deleted", "poison"}]
    /\ dequeues \in [Messages -> 0..MaxDequeueCount]
HistoryOK ==
    /\ runs \in [Messages -> Nat]
    /\ commits \in [Messages -> Nat]
    /\ notFound \in SUBSET Messages
    /\ closed \in [Keys -> Seq(Seq(Messages))]

\* TypeOK by parts.
LEMMA TypeParts == TypeOK <=> StorageTypeOK /\ LocalsOK /\ HostOK /\ HistoryOK
BY DEF TypeOK, LocalsOK, HostOK, HistoryOK

\* Every value is of its type at the start.
LEMMA TypeInit == Init => TypeOK
<1> SUFFICES ASSUME Init PROVE TypeOK
  OBVIOUS
<1>1. StorageTypeOK
  BY DEF Init, StorageInit, StorageTypeOK
<1>2. HostOK /\ HistoryOK
  BY Settings DEF Init, HostOK, HistoryOK
<1>3. LocalsOK
  BY Settings DEF Init, LocalsOK, Steps, Idle
<1> QED
  BY <1>1, <1>2, <1>3, TypeParts

\* A step of an attempt, whatever its outcome, leaves the locals well typed.
LEMMA StepLocals ==
    ASSUME TypeOK, NEW d \in Deliveries, Step(d)
    PROVE  LocalsOK'
<1> USE DEF Steps, Idle, InTry
<1>0. LocalsOK
  BY TypeParts
<1>1. \A step \in Steps \cup Idle : Answered(d, step) => LocalsOK'
  BY <1>0, AnsweredTyped
<1>2. \A allowed : Failed(d, allowed) => LocalsOK'
  BY <1>0, FailedTyped
<1>3. \A step \in Steps \cup Idle : Goto(d, step) /\ UNCHANGED mishaps => LocalsOK'
  BY <1>0, GotoTyped DEF LocalsOK
<1>4. Raise(d) /\ UNCHANGED mishaps => LocalsOK'
  BY <1>0, RaiseTyped DEF LocalsOK
<1>5. CASE UploadLock(d)
  BY <1>5, <1>1, <1>2 DEF UploadLock
<1>6. CASE AcquireLock(d)
  BY <1>6, <1>1, <1>2 DEF AcquireLock
<1>7. CASE Retrieve(d)
  <2>1. CASE row[Key(d)] # NoRow /\ pc' = [pc EXCEPT ![d] = "handle"]
             /\ entity' = [entity EXCEPT ![d] = row[Key(d)]] /\ UNCHANGED mishaps
    BY <2>1, <1>0, DeliveryTyped DEF LocalsOK, TypeOK, StorageTypeOK
  <2> QED
    BY <1>7, <1>2, <1>3, <2>1 DEF Retrieve, AfterMiss
<1>8. CASE DropLock(d)
  BY <1>8, <1>1, <1>2 DEF DropLock, AfterMiss
<1>9. CASE Handle(d)
  BY <1>9, <1>3, <1>4 DEF Handle, AfterHandler
<1>10. CASE Replace(d)
  BY <1>10, <1>1, <1>2 DEF Replace
<1>11. CASE Release(d)
  BY <1>11, <1>1, <1>2 DEF Release
<1>12. CASE Undo(d)
  BY <1>12, <1>2, <1>3 DEF Undo
<1>13. CASE DeleteLock(d)
  BY <1>13, <1>1, <1>2 DEF DeleteLock
<1>14. CASE DeleteSaga(d)
  BY <1>14, <1>1, <1>2 DEF DeleteSaga
<1>15. CASE DeleteBlobs(d)
  BY <1>15, <1>2, <1>3 DEF DeleteBlobs
<1>16. CASE Create(d)
  BY <1>16, <1>3, <1>4 DEF Create
<1>17. CASE Insert(d)
  BY <1>17, <1>1, <1>2 DEF Insert
<1>18. CASE Complete(d)
  BY <1>18, <1>3 DEF Complete
<1> QED
  BY <1>5, <1>6, <1>7, <1>8, <1>9, <1>10, <1>11, <1>12, <1>13, <1>14, <1>15,
     <1>16, <1>17, <1>18 DEF Step

\* The data a command leaves behind is a sequence of messages.
LEMMA LogTyped ==
    ASSUME TypeOK, NEW d \in Deliveries, entity[d] # NoRow
    PROVE  Append(entity[d].log, Msg(d)) \in Seq(Messages)
<1>1. entity[d] \in Row
  BY DEF TypeOK
<1>2. entity[d].log \in Seq(Messages)
  BY <1>1 DEF Row
<1> QED
  BY <1>2, DeliveryTyped

\* A step of an attempt leaves the table and the lock blobs well typed.
LEMMA StepStorage ==
    ASSUME TypeOK, EntityLoaded, NEW d \in Deliveries, Step(d)
    PROVE  StorageTypeOK'
<1>0. StorageTypeOK /\ LocalsOK /\ Lock(d) \in LockIds /\ Key(d) \in Keys
      /\ <<Msg(d)>> \in Seq(Messages)
  BY TypeParts, DeliveryTyped
<1>1. UNCHANGED <<table, locks>> => StorageTypeOK'
  BY <1>0 DEF StorageTypeOK, table, locks
<1>2. \A allowed : Failed(d, allowed) => StorageTypeOK'
  BY <1>1 DEF Failed
<1>3. CASE UploadLock(d)
  BY <1>3, <1>0, <1>2, LocksTyped DEF UploadLock
<1>4. CASE AcquireLock(d)
  BY <1>4, <1>0, <1>2, LocksTyped DEF AcquireLock
<1>5. CASE Retrieve(d)
  BY <1>5, <1>1, <1>2 DEF Retrieve
<1>6. CASE DropLock(d)
  BY <1>6, <1>0, <1>2, LocksTyped DEF DropLock
<1>7. CASE Handle(d)
  BY <1>7, <1>1 DEF Handle
<1>8. CASE Replace(d)
  <2>1. Append(entity[d].log, Msg(d)) \in Seq(Messages)
    BY <1>8, LogTyped DEF Replace, EntityLoaded
  <2> QED
    BY <1>8, <2>1, <1>0, <1>2, TableTyped DEF Replace
<1>9. CASE Release(d)
  BY <1>9, <1>0, <1>2, LocksTyped DEF Release
<1>10. CASE Undo(d)
  <2>1. CASE ReleaseLease(Lock(d)) /\ UNCHANGED table
    BY <2>1, <1>0, LocksTyped
  <2> QED
    BY <1>10, <2>1, <1>2 DEF Undo, table
<1>11. CASE DeleteLock(d)
  BY <1>11, <1>0, <1>2, LocksTyped DEF DeleteLock
<1>12. CASE DeleteSaga(d)
  BY <1>12, <1>0, <1>2, TableTyped DEF DeleteSaga
<1>13. CASE DeleteBlobs(d)
  BY <1>13, <1>1, <1>2 DEF DeleteBlobs
<1>14. CASE Create(d)
  BY <1>14, <1>1 DEF Create
<1>15. CASE Insert(d)
  BY <1>15, <1>0, <1>2, TableTyped DEF Insert
<1>16. CASE Complete(d)
  BY <1>16, <1>1 DEF Complete
<1> QED
  BY <1>3, <1>4, <1>5, <1>6, <1>7, <1>8, <1>9, <1>10, <1>11, <1>12, <1>13,
     <1>14, <1>15, <1>16 DEF Step

\* A step of an attempt leaves the queue and the history well typed.
LEMMA StepRest ==
    ASSUME TypeOK, EntityLoaded, NEW d \in Deliveries, Step(d)
    PROVE  HostOK' /\ HistoryOK'
<1>0. HostOK /\ HistoryOK /\ Msg(d) \in Messages /\ Key(d) \in Keys
  BY TypeParts, DeliveryTyped
<1>1. UNCHANGED host => HostOK'
  BY <1>0 DEF HostOK, host
<1>2. UNCHANGED history => HistoryOK'
  BY <1>0 DEF HistoryOK, history
<1>3. Commit(d) => commits' \in [Messages -> Nat]
  BY <1>0 DEF Commit, HistoryOK
<1>4. CountRun(d) \/ UNCHANGED runs => runs' \in [Messages -> Nat]
  BY <1>0 DEF CountRun, HistoryOK
<1>5. NoteNotFound(d) => notFound' \in SUBSET Messages
  BY <1>0 DEF NoteNotFound, HistoryOK
<1>6. CASE UploadLock(d) \/ AcquireLock(d) \/ Release(d) \/ Undo(d) \/ DeleteLock(d)
           \/ DeleteBlobs(d)
  BY <1>6, <1>1, <1>2
  DEF UploadLock, AcquireLock, Release, Undo, DeleteLock, DeleteBlobs
<1>7. CASE Retrieve(d) \/ DropLock(d)
  BY <1>7, <1>0, <1>1, <1>5 DEF Retrieve, DropLock, HistoryOK
<1>8. CASE Handle(d) \/ Create(d)
  BY <1>8, <1>0, <1>1, <1>4 DEF Handle, Create, HistoryOK
<1>9. CASE Replace(d) \/ Insert(d)
  BY <1>9, <1>0, <1>1, <1>3 DEF Replace, Insert, HistoryOK
<1>10. CASE DeleteSaga(d)
  <2>1. Append(entity[d].log, Msg(d)) \in Seq(Messages)
    BY <1>10, LogTyped DEF DeleteSaga, EntityLoaded
  <2>2. closed[Key(d)] \in Seq(Seq(Messages))
    BY <1>0 DEF HistoryOK
  <2>3. Append(closed[Key(d)], Append(entity[d].log, Msg(d))) \in Seq(Seq(Messages))
    BY <2>1, <2>2
  <2>4. closed' \in [Keys -> Seq(Seq(Messages))]
    BY <1>10, <2>3, <1>0 DEF DeleteSaga, HistoryOK
  <2> QED
    BY <1>10, <2>4, <1>0, <1>1, <1>3 DEF DeleteSaga, HistoryOK
<1>11. CASE Complete(d)
  BY <1>11, <1>0, <1>2 DEF Complete, HostOK
<1> QED
  BY <1>6, <1>7, <1>8, <1>9, <1>10, <1>11 DEF Step

----------------------------------------------------------------------------
(* How one attempt moves *)

\* d goes to step and keeps its entity or, at the end, drops it.
Moves(d, step) ==
    /\ pc'[d] = step
    /\ entity'[d] \in {entity[d], NoRow}
    /\ step \notin {"done", "over"} => entity'[d] = entity[d]
    /\ \A e \in Deliveries \ {d} : pc'[e] = pc[e] /\ entity'[e] = entity[e]

\* d leaves the normal path by an exception.
Fails(d) == Moves(d, "undo") \/ Moves(d, "over")

\* Goto moves the attempt it names and no other.
LEMMA GotoMoves ==
    ASSUME LocalsOK, NEW d \in Deliveries, NEW step, Goto(d, step)
    PROVE  Moves(d, step)
BY DEF LocalsOK, Goto, Moves

\* An exception moves the attempt off the normal path.
LEMMA RaiseFails ==
    ASSUME LocalsOK, NEW d \in Deliveries, Raise(d)
    PROVE  Fails(d)
BY GotoMoves DEF Raise, Fails

\* An executed call moves the attempt on, or its answer was lost.
LEMMA AnsweredMoves ==
    ASSUME LocalsOK, NEW d \in Deliveries, NEW step, Answered(d, step)
    PROVE  Moves(d, step) \/ Fails(d)
BY GotoMoves, RaiseFails DEF Answered

\* A failed call changes nothing in the services.
LEMMA FailedFails ==
    ASSUME LocalsOK, NEW d \in Deliveries, NEW allowed, Failed(d, allowed)
    PROVE  Fails(d) /\ UNCHANGED <<table, locks>>
BY RaiseFails DEF Failed

\* Retrieve gives the attempt the row it found.
Reads(d) ==
    /\ pc[d] = "retrieve" /\ pc'[d] = "handle"
    /\ row[Key(d)] # NoRow /\ entity'[d] = row[Key(d)]
    /\ \A e \in Deliveries \ {d} : pc'[e] = pc[e] /\ entity'[e] = entity[e]

\* What a step of an attempt does to the services and to its own place in the
\* code: the next-state relation without the queue, the history and mishaps.
Outcome(d) ==
    \/ Fails(d) /\ UNCHANGED <<table, locks>>
    \/ Reads(d) /\ UNCHANGED <<table, locks>>
    \/ /\ pc[d] = "retrieve" /\ row[Key(d)] = NoRow
       /\ Moves(d, IF LockSagas THEN "dropLock" ELSE AfterMiss(Msg(d)))
       /\ UNCHANGED <<table, locks>>
    \/ pc[d] = "handle" /\ Moves(d, AfterHandler(Msg(d))) /\ UNCHANGED <<table, locks>>
    \/ /\ pc[d] = "create"
       /\ Moves(d, IF LockSagas THEN "insertUpload" ELSE "insert")
       /\ UNCHANGED <<table, locks>>
    \/ pc[d] \in {"deleteBlobs", "done"} /\ UNCHANGED <<table, locks>>
       /\ (Moves(d, "done") \/ Moves(d, "over"))
    \/ /\ UploadAllowed(Lock(d)) /\ UploadText(Lock(d)) /\ UNCHANGED table
       /\ \/ pc[d] = "upload" /\ Moves(d, "acquire")
          \/ pc[d] = "insertUpload" /\ Moves(d, "insertAcquire")
          \/ Fails(d)
    \/ /\ AcquireAllowed(Lock(d)) /\ AcquireLease(Lock(d), d) /\ UNCHANGED table
       /\ \/ pc[d] = "acquire" /\ Moves(d, "retrieve")
          \/ pc[d] = "insertAcquire" /\ Moves(d, "insert")
          \/ Fails(d)
    \/ /\ ReleaseAllowed(Lock(d), d) /\ ReleaseLease(Lock(d)) /\ UNCHANGED table
       /\ Moves(d, "done") \/ Fails(d)
    \/ /\ DeleteAllowed(Lock(d), d) /\ DeleteLockBlob(Lock(d)) /\ UNCHANGED table
       /\ \/ pc[d] = "dropLock" /\ Moves(d, AfterMiss(Msg(d)))
          \/ pc[d] = "deleteLock" /\ Moves(d, "deleteRow")
          \/ Fails(d)
    \/ /\ pc[d] = "replace" /\ MatchesETag(Key(d), entity[d])
       /\ ReplaceRow(Key(d), Append(entity[d].log, Msg(d))) /\ UNCHANGED locks
       /\ Moves(d, IF LockSagas THEN "release" ELSE "done") \/ Fails(d)
    \/ /\ pc[d] = "deleteRow" /\ MatchesETag(Key(d), entity[d])
       /\ DeleteRow(Key(d)) /\ UNCHANGED locks
       /\ Moves(d, "deleteBlobs") \/ Fails(d)
    \/ /\ pc[d] = "insert" /\ InsertAllowed(Key(d))
       /\ InsertRow(Key(d), <<Msg(d)>>) /\ UNCHANGED locks
       /\ Moves(d, IF LockSagas THEN "insertRelease" ELSE "done") \/ Fails(d)

\* Every step of an attempt has one of these outcomes.
LEMMA StepOutcome ==
    ASSUME LocalsOK, NEW d \in Deliveries, Step(d)
    PROVE  Outcome(d)
<1>1. \A step : Answered(d, step) => Moves(d, step) \/ Fails(d)
  BY AnsweredMoves
<1>2. \A allowed : Failed(d, allowed) => Fails(d) /\ UNCHANGED <<table, locks>>
  BY FailedFails
<1>3. \A step : Goto(d, step) => Moves(d, step)
  BY GotoMoves
<1>4. Raise(d) => Fails(d)
  BY RaiseFails
<1>5. CASE UploadLock(d)
  BY <1>5, <1>1, <1>2 DEF UploadLock, Outcome
<1>6. CASE AcquireLock(d)
  BY <1>6, <1>1, <1>2 DEF AcquireLock, Outcome
<1>7. CASE Retrieve(d)
  <2>1. CASE row[Key(d)] # NoRow /\ pc' = [pc EXCEPT ![d] = "handle"]
             /\ entity' = [entity EXCEPT ![d] = row[Key(d)]] /\ UNCHANGED <<table, locks>>
    BY <1>7, <2>1 DEF Retrieve, Reads, Outcome, LocalsOK
  <2> QED
    BY <1>7, <1>2, <1>3, <2>1 DEF Retrieve, Outcome
<1>8. CASE DropLock(d)
  BY <1>8, <1>1, <1>2 DEF DropLock, Outcome
<1>9. CASE Handle(d)
  BY <1>9, <1>3, <1>4 DEF Handle, Outcome
<1>10. CASE Replace(d)
  BY <1>10, <1>1, <1>2 DEF Replace, Outcome
<1>11. CASE Release(d)
  BY <1>11, <1>1, <1>2 DEF Release, Outcome
<1>12. CASE Undo(d)
  BY <1>12, <1>2, <1>3 DEF Undo, Outcome, Fails
<1>13. CASE DeleteLock(d)
  BY <1>13, <1>1, <1>2 DEF DeleteLock, Outcome
<1>14. CASE DeleteSaga(d)
  BY <1>14, <1>1, <1>2 DEF DeleteSaga, Outcome
<1>15. CASE DeleteBlobs(d)
  BY <1>15, <1>2, <1>3 DEF DeleteBlobs, Outcome
<1>16. CASE Create(d)
  BY <1>16, <1>3, <1>4 DEF Create, Outcome
<1>17. CASE Insert(d)
  BY <1>17, <1>1, <1>2 DEF Insert, Outcome
<1>18. CASE Complete(d)
  BY <1>18, <1>3 DEF Complete, Outcome
<1> QED
  BY <1>5, <1>6, <1>7, <1>8, <1>9, <1>10, <1>11, <1>12, <1>13, <1>14, <1>15,
     <1>16, <1>17, <1>18 DEF Step

\* An outcome moves the attempt along the code, or gives it the row it read.
LEMMA OutcomeMoves ==
    ASSUME NEW d, Outcome(d)
    PROVE  Reads(d) \/ \E step : Moves(d, step)
BY DEF Outcome, Fails

----------------------------------------------------------------------------
(* Steps of an attempt preserve each part of the invariant *)

\* An attempt that fails is on no path, and the others stay where they are.
LEMMA PathStep ==
    ASSUME LocalsOK, EntityLoaded, OnPath, NEW d \in Deliveries, Outcome(d)
    PROVE  EntityLoaded' /\ OnPath'
<1>0. Msg(d) \in Starting \/ Msg(d) \in Correlated
  BY CommandKinds, DeliveryTyped
<1>1. ASSUME \E step : Moves(d, step) /\ step \notin
                {"handle", "replace", "deleteLock", "deleteRow", "create", "insertUpload",
                 "insertAcquire", "insert", "upload", "acquire", "retrieve", "dropLock"}
      PROVE  EntityLoaded' /\ OnPath'
  BY <1>1 DEF Moves, EntityLoaded, OnPath
<1>2. CASE Fails(d)
  BY <1>1, <1>2 DEF Fails
<1>3. CASE Reads(d)
  BY <1>3 DEF Reads, EntityLoaded, OnPath
<1>4. CASE /\ pc[d] \in {"upload", "acquire", "retrieve"}
           /\ Moves(d, "acquire") \/ Moves(d, "retrieve") \/ Moves(d, "dropLock")
  BY <1>4 DEF Moves, EntityLoaded, OnPath
<1>5. CASE pc[d] \in {"retrieve", "dropLock"} /\ Moves(d, AfterMiss(Msg(d)))
  BY <1>5, <1>1 DEF AfterMiss, Moves, EntityLoaded, OnPath
<1>6. CASE /\ pc[d] \in {"create", "insertUpload", "insertAcquire"}
           /\ Moves(d, "insertUpload") \/ Moves(d, "insertAcquire") \/ Moves(d, "insert")
  BY <1>6 DEF Moves, EntityLoaded, OnPath
<1>7. CASE pc[d] = "handle" /\ Moves(d, AfterHandler(Msg(d)))
  BY <1>7 DEF AfterHandler, Moves, EntityLoaded, OnPath
<1>8. CASE pc[d] = "deleteLock" /\ Moves(d, "deleteRow")
  BY <1>8 DEF Moves, EntityLoaded, OnPath
<1>9. CASE \/ Moves(d, "done") \/ Moves(d, "over") \/ Moves(d, "deleteBlobs")
           \/ Moves(d, "release") \/ Moves(d, "insertRelease")
  BY <1>1, <1>9
<1> QED
  BY <1>2, <1>3, <1>4, <1>5, <1>6, <1>7, <1>8, <1>9 DEF Outcome

\* Entities that are kept, dropped or read keep the ETags coherent.
LEMMA ETagKept ==
    ASSUME StorageTypeOK, LocalsOK, ETagNamesData, UNCHANGED table,
           \A e \in Deliveries : entity'[e] \in {entity[e], NoRow, row[Key(e)]}
    PROVE  ETagNamesData'
BY DeliveryTyped DEF ETagNamesData, table, MatchesETag, StorageTypeOK, LocalsOK, Row

\* A row that is written gets an ETag nobody has seen.
LEMMA ETagRenewed ==
    ASSUME StorageTypeOK, LocalsOK, ETagNamesData, NEW k \in Keys, NEW log,
           InsertRow(k, log) \/ ReplaceRow(k, log) \/ DeleteRow(k),
           \A e \in Deliveries : entity'[e] \in {entity[e], NoRow}
    PROVE  ETagNamesData'
<1>1. \A j \in Keys : version'[j] \in Nat /\ version[j] <= version'[j]
  BY DEF StorageTypeOK, InsertRow, ReplaceRow, DeleteRow
<1>2. \A j \in Keys : \/ row'[j] = row[j] /\ version'[j] = version[j]
                      \/ row'[j] = NoRow
                      \/ row'[j].etag = version[j] + 1 /\ version'[j] = version[j] + 1
  BY DEF StorageTypeOK, InsertRow, ReplaceRow, DeleteRow
<1>3. \A e \in Deliveries : entity[e] # NoRow => entity[e].etag \in Nat
  BY DEF LocalsOK, Row
<1>4. \A j \in Keys : version[j] \in Nat
  BY DEF StorageTypeOK
<1>5. ASSUME NEW j \in Keys, row'[j] # NoRow PROVE row'[j].etag <= version'[j]
  BY <1>1, <1>2, <1>4, <1>5 DEF ETagNamesData
<1>6. ASSUME NEW e \in Deliveries, entity'[e] # NoRow
      PROVE  /\ entity'[e].etag <= version'[Key(e)]
             /\ MatchesETag(Key(e), entity[e])' => row'[Key(e)] = entity'[e]
  <2>1. entity'[e] = entity[e] /\ entity[e] # NoRow /\ Key(e) \in Keys
    BY <1>6, DeliveryTyped
  <2>2. entity[e].etag <= version[Key(e)]
    BY <2>1 DEF ETagNamesData
  <2>3. entity'[e].etag <= version'[Key(e)]
    BY <2>1, <2>2, <1>1, <1>3, <1>4
  <2>4. ASSUME row'[Key(e)] # NoRow, row'[Key(e)].etag = entity[e].etag
        PROVE  row'[Key(e)] = entity[e]
    <3>1. row'[Key(e)] = row[Key(e)]
      BY <2>1, <2>2, <2>4, <1>2, <1>3, <1>4
    <3> QED
      BY <3>1, <2>1, <2>4 DEF ETagNamesData, MatchesETag
  <2> QED
    BY <2>1, <2>3, <2>4 DEF MatchesETag
<1> QED
  BY <1>5, <1>6 DEF ETagNamesData

\* Every outcome keeps the ETags coherent.
LEMMA ETagStep ==
    ASSUME StorageTypeOK, LocalsOK, ETagNamesData, NEW d \in Deliveries, Outcome(d)
    PROVE  ETagNamesData'
<1>1. ASSUME Reads(d) \/ \E step : Moves(d, step)
      PROVE  \A e \in Deliveries : entity'[e] \in {entity[e], NoRow, row[Key(e)]}
  BY <1>1 DEF Reads, Moves
<1>2. ASSUME NEW step, Moves(d, step)
      PROVE  \A e \in Deliveries : entity'[e] \in {entity[e], NoRow}
  BY <1>2 DEF Moves
<1>3. Fails(d) => \E step : Moves(d, step)
  BY DEF Fails
<1>4. CASE UNCHANGED table
  BY <1>1, <1>4, OutcomeMoves, ETagKept
<1>5. CASE /\ \E log : InsertRow(Key(d), log) \/ ReplaceRow(Key(d), log) \/ DeleteRow(Key(d))
           /\ \E step : Moves(d, step)
  BY <1>5, <1>2, ETagRenewed, DeliveryTyped
<1> QED
  BY <1>3, <1>4, <1>5 DEF Outcome, table

\* An attempt's live lease survives what the others do to the lock blobs.
LEMMA OthersHold ==
    ASSUME StorageTypeOK, NEW d \in Deliveries, NEW e \in Deliveries \ {d},
           NEW k \in LockIds, NEW l \in LockIds, Holds(e, l),
           \/ UploadAllowed(k) /\ UploadText(k)
           \/ AcquireAllowed(k) /\ AcquireLease(k, d)
           \/ ReleaseAllowed(k, d) /\ ReleaseLease(k)
           \/ DeleteAllowed(k, d) /\ DeleteLockBlob(k)
           \/ UNCHANGED locks
    PROVE  Holds(e, l)'
BY DEF StorageTypeOK, Holds, UploadAllowed, UploadText, AcquireAllowed, AcquireLease,
       ReleaseAllowed, ReleaseLease, DeleteAllowed, DeleteLockBlob, locks

\* What an outcome does to the lock blobs, and where it leads.
LEMMA LockOutcome ==
    ASSUME LockSagas, NEW d \in Deliveries, Outcome(d)
    PROVE  /\ \/ UploadAllowed(Lock(d)) /\ UploadText(Lock(d))
              \/ AcquireAllowed(Lock(d)) /\ AcquireLease(Lock(d), d)
              \/ ReleaseAllowed(Lock(d), d) /\ ReleaseLease(Lock(d))
              \/ DeleteAllowed(Lock(d), d) /\ DeleteLockBlob(Lock(d))
              \/ UNCHANGED locks
           /\ \/ pc'[d] \notin LockedSteps
              \/ pc[d] \in LockedSteps /\ UNCHANGED locks
              \/ AcquireAllowed(Lock(d)) /\ AcquireLease(Lock(d), d)
<1>1. Fails(d) => pc'[d] \notin LockedSteps
  BY DEF Fails, Moves, LockedSteps
<1>2. CASE UNCHANGED locks
  BY <1>1, <1>2 DEF Outcome, Moves, Reads, LockedSteps, AfterHandler
<1>3. CASE UploadAllowed(Lock(d)) /\ UploadText(Lock(d))
           /\ (Moves(d, "acquire") \/ Moves(d, "insertAcquire") \/ Fails(d))
  BY <1>1, <1>3 DEF Moves, LockedSteps
<1>4. CASE AcquireAllowed(Lock(d)) /\ AcquireLease(Lock(d), d)
  BY <1>4
<1>5. CASE ReleaseAllowed(Lock(d), d) /\ ReleaseLease(Lock(d))
           /\ (Moves(d, "done") \/ Fails(d))
  BY <1>1, <1>5 DEF Moves, LockedSteps
<1>6. CASE DeleteAllowed(Lock(d), d) /\ DeleteLockBlob(Lock(d))
           /\ (Moves(d, AfterMiss(Msg(d))) \/ Moves(d, "deleteRow") \/ Fails(d))
  BY <1>1, <1>6 DEF Moves, LockedSteps, AfterMiss
<1> QED
  BY <1>2, <1>3, <1>4, <1>5, <1>6 DEF Outcome, locks

\* Every outcome leaves the attempts between AcquireLease and the release
\* with the lease they need.
LEMMA LeaseStep ==
    ASSUME StorageTypeOK, LeaseHeld, NEW d \in Deliveries, Outcome(d)
    PROVE  LeaseHeld'
<1> SUFFICES ASSUME LockSagas, "slow" \notin Mishaps,
                    NEW e \in Deliveries, pc'[e] \in LockedSteps
             PROVE  Holds(e, Lock(e))'
  BY DEF LeaseHeld, LockedSteps
<1>1. Lock(d) \in LockIds /\ Lock(e) \in LockIds
  BY DeliveryTyped
<1>2. CASE e # d
  <2>1. pc'[e] = pc[e]
    BY <1>2, OutcomeMoves DEF Moves, Reads
  <2>2. Holds(e, Lock(e))
    BY <2>1 DEF LeaseHeld
  <2> QED
    BY <1>1, <1>2, <2>2, LockOutcome, OthersHold
<1>3. CASE e = d /\ pc[d] \in LockedSteps /\ UNCHANGED locks
  BY <1>3 DEF LeaseHeld, Holds, locks
<1>4. CASE e = d /\ AcquireLease(Lock(d), d)
  BY <1>1, <1>4 DEF AcquireLease, Holds, StorageTypeOK
<1> QED
  BY <1>2, <1>3, <1>4, LockOutcome

\* At most one attempt owns the lease of a lock.
LEMMA OneHolder ==
    ASSUME NEW d, NEW e, NEW l, Holds(d, l), Holds(e, l)
    PROVE  d = e
BY DEF Holds

\* While an attempt holds the lock, nobody else writes its row, except for
\* the row's deletion.
LEMMA ProtectedStep ==
    ASSUME StorageTypeOK, LocalsOK, OnPath, LeaseHeld, LeaseHeld', LockProtects,
           NEW d \in Deliveries, Outcome(d)
    PROVE  LockProtects'
<1> DEFINE Guarded == {"handle", "replace", "deleteLock"}
<1> SUFFICES ASSUME LockSagas, "slow" \notin Mishaps,
                    NEW e \in Deliveries, pc'[e] \in Guarded
             PROVE  /\ Holds(e, Lock(e))'
                    /\ \/ row'[Key(e)] = entity'[e]
                       \/ row'[Key(e)] = NoRow /\ Finishing # {}
  BY DEF LockProtects
<1>1. Holds(e, Lock(e))'
  BY DEF LeaseHeld, LockedSteps
<1>2. Key(e) \in Keys /\ Key(d) \in Keys /\ Lock(e) = LockOf[Key(e)]
  BY DeliveryTyped
<1>3. ASSUME row'[Key(e)] = row[Key(e)]
      PROVE  \/ row'[Key(e)] = entity'[e]
             \/ row'[Key(e)] = NoRow /\ Finishing # {}
  <2>1. CASE pc[e] \in Guarded /\ entity'[e] = entity[e]
    BY <2>1, <1>3 DEF LockProtects
  <2>2. CASE e = d /\ Reads(d)
    BY <2>2, <1>3 DEF Reads
  <2>3. (pc[e] \in Guarded /\ entity'[e] = entity[e]) \/ (e = d /\ Reads(d))
    <3>1. CASE e # d
      BY <3>1, OutcomeMoves DEF Moves, Reads
    <3>2. CASE e = d /\ ~Reads(d)
      <4>1. PICK step : Moves(d, step)
        BY <3>2, OutcomeMoves
      <4>2. entity'[d] = entity[d]
        BY <3>2, <4>1 DEF Moves
      <4>3. pc[d] \in Guarded
        BY <3>2 DEF Outcome, Moves, Fails, AfterMiss
      <4> QED
        BY <3>2, <4>2, <4>3
    <3> QED
      BY <3>1, <3>2
  <2> QED
    BY <2>1, <2>2, <2>3
<1>4. CASE pc[d] \in {"replace", "insert"} /\ pc'[d] \notin Guarded /\ UNCHANGED locks
           /\ \A k \in Keys \ {Key(d)} : row'[k] = row[k]
  <2>1. Holds(d, Lock(d))
    BY <1>4 DEF LeaseHeld, LockedSteps
  <2>2. e # d
    BY <1>4
  <2>3. Holds(e, Lock(e))
    BY <1>1, <1>4 DEF Holds, locks
  <2>4. Key(e) # Key(d)
    BY <2>1, <2>2, <2>3, <1>2, OneHolder
  <2> QED
    BY <1>1, <1>2, <1>3, <1>4, <2>4
<1>5. CASE pc[d] = "deleteRow" /\ DeleteRow(Key(d))
  <2>1. Finishing # {}
    BY <1>5 DEF OnPath
  <2>2. row'[Key(e)] \in {row[Key(e)], NoRow}
    BY <1>2, <1>5 DEF DeleteRow, StorageTypeOK
  <2> QED
    BY <1>1, <1>3, <2>1, <2>2
<1>6. CASE UNCHANGED table
  BY <1>1, <1>3, <1>6 DEF table
<1>7. ASSUME Fails(d) \/ Moves(d, "release") \/ Moves(d, "insertRelease") \/ Moves(d, "done")
      PROVE  pc'[d] \notin Guarded
  BY <1>7 DEF Fails, Moves
<1>8. \A log : ReplaceRow(Key(d), log) \/ InsertRow(Key(d), log) =>
          \A k \in Keys \ {Key(d)} : row'[k] = row[k]
  BY <1>2 DEF ReplaceRow, InsertRow, StorageTypeOK
<1> QED
  BY <1>4, <1>5, <1>6, <1>7, <1>8 DEF Outcome, table

----------------------------------------------------------------------------
(* The invariant *)

\* The parts of the invariant that do not speak of types.
Core == EntityLoaded /\ OnPath /\ ETagNamesData /\ LeaseHeld /\ LockProtects

\* No row, no entity and no lease at the start.
LEMMA CoreInit == Init => Core
BY DEF Init, StorageInit, Core, EntityLoaded, OnPath, ETagNamesData, LeaseHeld,
       LockProtects, LockedSteps

\* A step of an attempt, or its crash, preserves the invariant.
LEMMA CoreOutcome ==
    ASSUME TypeOK, Core, NEW d \in Deliveries, Outcome(d)
    PROVE  Core'
<1>1. StorageTypeOK /\ LocalsOK
  BY TypeParts
<1>2. EntityLoaded' /\ OnPath'
  BY <1>1, PathStep DEF Core
<1>3. ETagNamesData'
  BY <1>1, ETagStep DEF Core
<1>4. LeaseHeld'
  BY <1>1, LeaseStep DEF Core
<1>5. LockProtects'
  BY <1>1, <1>4, ProtectedStep DEF Core
<1> QED
  BY <1>2, <1>3, <1>4, <1>5 DEF Core

\* What the invariant speaks of, left as it is.
LEMMA CoreStutter ==
    ASSUME Core, UNCHANGED <<table, locks, pc, entity>>
    PROVE  Core'
BY DEF Core, EntityLoaded, OnPath, ETagNamesData, MatchesETag, LeaseHeld, LockProtects,
       Holds, table, locks

\* A new attempt starts without a lease.
LEMMA CoreReceive ==
    ASSUME TypeOK, Core, NEW m \in Messages, Receive(m)
    PROVE  Core'
<1> DEFINE d == <<m, dequeues[m] + 1>>
<1>1. dequeues[m] \in 0..MaxDequeueCount /\ dequeues[m] < MaxDequeueCount
  BY DEF Receive, TypeOK
<1>2. dequeues[m] + 1 \in 1..MaxDequeueCount
  BY <1>1, Settings
<1>3. d \in Deliveries /\ Msg(d) = m
  BY <1>2
<1> HIDE DEF d
<1>4. /\ pc'[d] = FirstStep(m)
      /\ \A e \in Deliveries \ {d} : pc'[e] = pc[e]
      /\ UNCHANGED <<table, locks, entity>>
  BY <1>3 DEF Receive, TypeOK, d
<1>5. /\ FirstStep(m) \in {"create", "upload", "retrieve"}
      /\ FirstStep(m) = "create" => m \in Starting
      /\ FirstStep(m) # "create" => m \in Correlated
      /\ LockSagas => FirstStep(m) # "retrieve"
  BY CommandKinds DEF FirstStep
<1>6. EntityLoaded' /\ OnPath'
  BY <1>3, <1>4, <1>5 DEF Core, EntityLoaded, OnPath
<1>7. ETagNamesData'
  BY <1>4 DEF Core, ETagNamesData, MatchesETag, table
<1>8. LeaseHeld'
  BY <1>4, <1>5 DEF Core, LeaseHeld, LockedSteps, Holds, locks
<1>9. LockProtects'
  BY <1>4, <1>5 DEF Core, LockProtects, Holds, locks, table
<1> QED
  BY <1>6, <1>7, <1>8, <1>9 DEF Core

\* A lease that expires is nobody's, or its owner was too slow.
LEMMA CoreExpire ==
    ASSUME Core, NEW l \in LockIds, Expire(l) \/ LoseLease(l)
    PROVE  Core'
<1>1. UNCHANGED <<table, pc, entity, blob>> /\ leased' = leased \ {l}
  BY DEF Expire, LoseLease, ExpireLease
<1>2. EntityLoaded' /\ OnPath' /\ ETagNamesData'
  BY <1>1 DEF Core, EntityLoaded, OnPath, ETagNamesData, MatchesETag, table
<1>3. "slow" \notin Mishaps => pc[blob[l]] \in Idle
  BY DEF Expire, LoseLease, Mishap
<1>4. LeaseHeld'
  BY <1>1, <1>3 DEF Core, LeaseHeld, Holds, LockedSteps, Idle
<1>5. LockProtects'
  BY <1>1, <1>4 DEF Core, LockProtects, LeaseHeld, LockedSteps, table
<1> QED
  BY <1>2, <1>4, <1>5 DEF Core

\* Every step preserves the parts of the invariant that are not types.
LEMMA CoreStep ==
    ASSUME TypeOK, Core, [Next]_vars
    PROVE  Core'
<1>0. LocalsOK
  BY TypeParts
<1>1. ASSUME NEW d \in Deliveries, Step(d) PROVE Core'
  BY <1>0, <1>1, StepOutcome, CoreOutcome
<1>2. ASSUME NEW d \in Deliveries, Crash(d) PROVE Core'
  <2>1. Outcome(d)
    BY <1>0, <1>2, GotoMoves DEF Crash, Outcome, Fails
  <2> QED
    BY <2>1, CoreOutcome
<1>3. ASSUME NEW m \in Messages, Receive(m) PROVE Core'
  BY <1>3, CoreReceive
<1>4. ASSUME NEW m \in Messages, VisibilityTimeout(m) \/ Redeliver(m) \/ Poison(m)
      PROVE  Core'
  BY <1>4, CoreStutter DEF VisibilityTimeout, Redeliver, Poison
<1>5. ASSUME NEW l \in LockIds, Expire(l) \/ LoseLease(l) PROVE Core'
  BY <1>5, CoreExpire
<1>6. CASE UNCHANGED vars
  BY <1>6, CoreStutter DEF vars
<1> QED
  BY <1>1, <1>2, <1>3, <1>4, <1>5, <1>6 DEF Next, Terminating

\* Every step preserves the types.
LEMMA TypeStep ==
    ASSUME TypeOK, EntityLoaded, [Next]_vars
    PROVE  TypeOK'
<1>0. StorageTypeOK /\ LocalsOK /\ HostOK /\ HistoryOK
  BY TypeParts
<1>parts. StorageTypeOK' /\ LocalsOK' /\ HostOK' /\ HistoryOK' => TypeOK'
  BY DEF TypeOK, LocalsOK, HostOK, HistoryOK
<1>1. ASSUME NEW d \in Deliveries, Step(d) PROVE TypeOK'
  BY <1>1, StepStorage, StepLocals, StepRest, <1>parts
<1>2. UNCHANGED <<table, locks>> => StorageTypeOK'
  BY <1>0 DEF table, locks, StorageTypeOK
<1>3. UNCHANGED history => HistoryOK'
  BY <1>0 DEF history, HistoryOK
<1>4. UNCHANGED host => HostOK'
  BY <1>0 DEF host, HostOK
<1>5. \A kind : UNCHANGED <<pc, entity>> /\ (Mishap(kind) \/ UNCHANGED mishaps) => LocalsOK'
  BY <1>0, MishapTyped DEF LocalsOK
<1>6. ASSUME NEW d \in Deliveries, Crash(d) PROVE TypeOK'
  <2>1. LocalsOK'
    BY <1>0, <1>6, GotoTyped, MishapTyped DEF Crash, LocalsOK, Idle
  <2> QED
    BY <1>6, <2>1, <1>2, <1>3, <1>4, <1>parts DEF Crash
<1>7. ASSUME NEW m \in Messages, Receive(m) PROVE TypeOK'
  <2>1. HostOK'
    BY <1>0, <1>7, Settings DEF Receive, HostOK
  <2>2. FirstStep(m) \in Steps
    BY DEF FirstStep, Steps
  <2>3. LocalsOK'
    BY <1>0, <1>7, <2>2 DEF Receive, LocalsOK
  <2> QED
    BY <1>7, <2>1, <2>3, <1>2, <1>3, <1>parts DEF Receive
<1>8. ASSUME NEW m \in Messages, VisibilityTimeout(m) \/ Redeliver(m) \/ Poison(m)
      PROVE  TypeOK'
  <2>1. HostOK' /\ UNCHANGED <<table, locks, history>>
    BY <1>0, <1>8 DEF VisibilityTimeout, Redeliver, Poison, HostOK
  <2>2. LocalsOK'
    BY <1>5, <1>8 DEF VisibilityTimeout, Redeliver, Poison
  <2> QED
    BY <2>1, <2>2, <1>2, <1>3, <1>parts
<1>9. ASSUME NEW l \in LockIds, Expire(l) \/ LoseLease(l) PROVE TypeOK'
  <2>1. StorageTypeOK'
    BY <1>0, <1>9 DEF Expire, LoseLease, ExpireLease, StorageTypeOK, table
  <2>2. LocalsOK'
    BY <1>5, <1>9 DEF Expire, LoseLease
  <2> QED
    BY <1>9, <2>1, <2>2, <1>3, <1>4, <1>parts DEF Expire, LoseLease
<1>10. CASE UNCHANGED vars
  BY <1>10, <1>0, <1>2, <1>3, <1>4, <1>parts DEF vars, LocalsOK
<1> QED
  BY <1>1, <1>6, <1>7, <1>8, <1>9, <1>10 DEF Next, Terminating

\* The invariant of all behaviours: no attempt writes a row it has not read,
\* ETags name one value for ever, and the lock does what it is taken for.
THEOREM Invariance == Spec => []IndInv
<1>1. Init => IndInv
  BY TypeInit, CoreInit DEF IndInv, Core
<1>2. IndInv /\ [Next]_vars => IndInv'
  BY TypeStep, CoreStep DEF IndInv, Core
<1> QED
  BY <1>1, <1>2, PTL DEF Spec

\* Types, for all constants.
THEOREM TypeCorrect == Spec => []TypeOK
<1>1. IndInv => TypeOK
  BY DEF IndInv
<1> QED
  BY <1>1, Invariance, PTL

\* With LockSagas and handlers faster than the lease, an attempt between
\* read and write owns the lock and its entity is the row: crashes, failed
\* calls and redeliveries do not weaken it, nor do keys that share a lock.
THEOREM LockProtection == Spec => []LockProtects
<1>1. IndInv => LockProtects
  BY DEF IndInv
<1> QED
  BY <1>1, Invariance, PTL

----------------------------------------------------------------------------
(* The table refines the register *)

\* What the table shows of a saga.
Data == [k \in Keys |-> IF row[k] = NoRow THEN NoRow ELSE row[k].log]

\* A stored saga's data is never mistaken for no saga.
LEMMA LogIsData ==
    ASSUME StorageTypeOK, NEW k \in Keys
    PROVE  /\ Data[k] = NoRow <=> row[k] = NoRow
           /\ row[k] # NoRow => Data[k] = row[k].log /\ Data[k] \in Seq(Messages)
BY DistinctValues DEF StorageTypeOK, Data, Row

\* A step that leaves the table and the finished sagas alone is a stutter.
LEMMA RegisterStutter ==
    ASSUME UNCHANGED <<table, closed>>
    PROVE  UNCHANGED Register!vars
BY DEF Register!vars, table

\* Writing the value of one row changes the data of that saga only.
LEMMA DataWritten ==
    ASSUME StorageTypeOK, NEW k \in Keys, NEW log \in Seq(Messages),
           InsertRow(k, log) \/ ReplaceRow(k, log)
    PROVE  Data' = [Data EXCEPT ![k] = log]
<1>1. /\ row' = [row EXCEPT ![k] = [etag |-> version[k] + 1, log |-> log]]
      /\ version[k] + 1 \in Nat
  BY DEF InsertRow, ReplaceRow, StorageTypeOK
<1>2. [etag |-> version[k] + 1, log |-> log] # NoRow
  BY <1>1, DistinctValues DEF Row
<1> QED
  BY <1>1, <1>2 DEF Data, StorageTypeOK

\* Every step of an attempt is a step of the register, or a stutter.  Replace
\* and Delete go by the ETag alone; ETagNamesData makes that enough.
LEMMA RegisterAttempt ==
    ASSUME IndInv, NEW d \in Deliveries, Step(d)
    PROVE  Register!Next \/ UNCHANGED Register!vars
<1>0. /\ StorageTypeOK /\ LocalsOK /\ HistoryOK
      /\ Msg(d) \in Messages /\ Key(d) \in Keys /\ Key(d) = KeyOf[Msg(d)]
  BY TypeParts, DeliveryTyped DEF IndInv
<1>1. CASE Insert(d) /\ InsertAllowed(Key(d)) /\ InsertRow(Key(d), <<Msg(d)>>)
  <2>1. Msg(d) \in Starting
    BY <1>1 DEF Insert, IndInv, OnPath
  <2>2. Data[Key(d)] = NoRow
    BY <1>0, <1>1, LogIsData DEF InsertAllowed
  <2>3. Data' = [Data EXCEPT ![Key(d)] = <<Msg(d)>>]
    BY <1>0, <1>1, DataWritten
  <2>4. closed' = closed
    BY <1>1 DEF Insert
  <2>5. Register!Start(Msg(d))
    BY <1>0, <2>1, <2>2, <2>3, <2>4 DEF Register!Start, Data
  <2> QED
    BY <1>0, <2>5 DEF Register!Next
<1>2. CASE /\ Replace(d) /\ MatchesETag(Key(d), entity[d])
           /\ ReplaceRow(Key(d), Append(entity[d].log, Msg(d)))
  <2>1. Msg(d) \in Correlated \ Finishing /\ entity[d] # NoRow
    BY <1>2 DEF Replace, IndInv, OnPath, EntityLoaded
  <2>2. row[Key(d)] = entity[d]
    BY <1>2, <2>1 DEF IndInv, ETagNamesData
  <2>3. Data[Key(d)] = entity[d].log /\ Data[Key(d)] # NoRow
    BY <1>0, <2>1, <2>2, LogIsData
  <2>4. Append(entity[d].log, Msg(d)) \in Seq(Messages)
    BY <2>1, LogTyped DEF IndInv
  <2>5. Data' = [Data EXCEPT ![Key(d)] = Append(@, Msg(d))]
    BY <1>0, <1>2, <2>3, <2>4, DataWritten
  <2>6. closed' = closed
    BY <1>2 DEF Replace
  <2>7. Register!Handle(Msg(d))
    BY <1>0, <2>1, <2>3, <2>5, <2>6 DEF Register!Handle, Data
  <2> QED
    BY <1>0, <2>7 DEF Register!Next
<1>3. CASE /\ DeleteSaga(d) /\ MatchesETag(Key(d), entity[d]) /\ DeleteRow(Key(d))
           /\ closed' = [closed EXCEPT ![Key(d)] =
                              Append(@, Append(entity[d].log, Msg(d)))]
  <2>1. Msg(d) \in Correlated \cap Finishing /\ entity[d] # NoRow
    BY <1>3, CommandKinds DEF DeleteSaga, IndInv, OnPath, EntityLoaded
  <2>2. row[Key(d)] = entity[d]
    BY <1>3, <2>1 DEF IndInv, ETagNamesData
  <2>3. Data[Key(d)] = entity[d].log /\ Data[Key(d)] # NoRow
    BY <1>0, <2>1, <2>2, LogIsData
  <2>4. Data' = [Data EXCEPT ![Key(d)] = NoRow]
    BY <1>0, <1>3 DEF DeleteRow, Data, StorageTypeOK
  <2>5. Register!Finish(Msg(d))
    BY <1>0, <1>3, <2>1, <2>3, <2>4 DEF Register!Finish, Data
  <2> QED
    BY <1>0, <2>5 DEF Register!Next
<1>4. CASE UNCHANGED <<table, closed>>
  BY <1>4, RegisterStutter
<1>5. \A allowed : Failed(d, allowed) => UNCHANGED table
  BY DEF Failed
<1>6. CASE Insert(d)
  BY <1>1, <1>4, <1>5, <1>6 DEF Insert
<1>7. CASE Replace(d)
  BY <1>2, <1>4, <1>5, <1>7 DEF Replace
<1>8. CASE DeleteSaga(d)
  BY <1>3, <1>4, <1>5, <1>8 DEF DeleteSaga
<1>9. CASE ~(Insert(d) \/ Replace(d) \/ DeleteSaga(d))
  <2>1. UNCHANGED <<table, closed>>
    BY <1>5, <1>9
    DEF Step, UploadLock, AcquireLock, Retrieve, DropLock, Handle, Release, Undo,
        DeleteLock, DeleteBlobs, Create, Complete, history, table
  <2> QED
    BY <2>1, <1>4
<1> QED
  BY <1>6, <1>7, <1>8, <1>9

\* Every step of the system is a step of the register, or a stutter.
LEMMA RegisterStep ==
    ASSUME IndInv, [Next]_vars
    PROVE  [Register!Next]_(Register!vars)
<1>1. ASSUME NEW d \in Deliveries, Step(d)
      PROVE  Register!Next \/ UNCHANGED Register!vars
  BY <1>1, RegisterAttempt
<1>2. CASE UNCHANGED <<table, closed>>
  BY <1>2, RegisterStutter
<1>3. ASSUME NEW d \in Deliveries, Crash(d) PROVE UNCHANGED <<table, closed>>
  BY <1>3 DEF Crash, history
<1>4. ASSUME NEW m \in Messages,
             Receive(m) \/ VisibilityTimeout(m) \/ Redeliver(m) \/ Poison(m)
      PROVE  UNCHANGED <<table, closed>>
  BY <1>4 DEF Receive, VisibilityTimeout, Redeliver, Poison, history
<1>5. ASSUME NEW l \in LockIds, Expire(l) \/ LoseLease(l)
      PROVE  UNCHANGED <<table, closed>>
  BY <1>5 DEF Expire, LoseLease, history
<1>6. CASE UNCHANGED vars
  BY <1>6, <1>2 DEF vars, history
<1> QED
  BY <1>1, <1>2, <1>3, <1>4, <1>5, <1>6 DEF Next, Terminating

\* The saga table implements the register, with locks or without, whatever
\* crashes, fails, is delivered twice or loses its lease: no update of a saga
\* is lost, and a saga is finished on its current data.
THEOREM Refinement == Spec => RegisterSpec
<1>1. Init => Register!Init
  BY DEF Init, StorageInit, Register!Init
<1>2. IndInv /\ [Next]_vars => [Register!Next]_(Register!vars)
  BY RegisterStep
<1> QED
  BY <1>1, <1>2, Invariance, PTL DEF Spec, RegisterSpec, Register!Spec
=============================================================================

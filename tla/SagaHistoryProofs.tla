-------------------------- MODULE SagaHistoryProofs --------------------------
(***************************************************************************)
(* Theorems about what SagaCommands does for a message over all its        *)
(* attempts: that its effect is kept before the message is consumed, and   *)
(* that whatever is done for it once more is owed to a mishap of its own.  *)
(***************************************************************************)
EXTENDS SagaCommandsProofs, CountingLemmas

USE DEF Deliveries, Msg, Key, Lock

----------------------------------------------------------------------------
(* A consumed message had its effect *)

\* Steps after the change of the table, or after it was found that there is
\* nothing to change.
Finished == {"release", "insertRelease", "deleteBlobs", "done"}

\* The effect of m is in a saga, or the log says that no saga waits for it.
Accounted(m) == commits[m] > 0 \/ m \in notFound

\* The message of every attempt that has come this far is accounted for.
EffectKept == \A d \in Deliveries : pc[d] \in Finished => Accounted(Msg(d))

\* What a step of an attempt adds to the history: only an attempt that has
\* changed the table, or logged the miss, comes near its end.
LEMMA StepHistory ==
    ASSUME LocalsOK, NEW d \in Deliveries, Step(d)
    PROVE  /\ \A e \in Deliveries \ {d} : pc'[e] = pc[e]
           /\ commits' = commits \/ Commit(d)
           /\ notFound' = notFound \/ notFound' = notFound \cup {Msg(d)}
           /\ pc'[d] \in Finished =>
                 pc[d] \in Finished \/ Commit(d) \/ Msg(d) \in notFound'
           /\ \/ queue' = queue
              \/ pc[d] = "done" /\ queue' = [queue EXCEPT ![Msg(d)] = "deleted"]
<1>1. \A step : Answered(d, step) => Moves(d, step) \/ Fails(d)
  BY AnsweredMoves
<1>2. \A allowed : Failed(d, allowed) => Fails(d)
  BY FailedFails
<1>3. \A step : Goto(d, step) => Moves(d, step)
  BY GotoMoves
<1>4. Raise(d) => Fails(d)
  BY RaiseFails
<1>5. Fails(d) => pc'[d] \notin Finished
  BY DEF Fails, Moves, Finished
<1>6. \A e \in Deliveries \ {d} : pc'[e] = pc[e]
  BY StepOutcome, OutcomeMoves DEF Moves, Reads
<1>7. CASE UploadLock(d) \/ AcquireLock(d)
  BY <1>7, <1>1, <1>2, <1>5, <1>6
  DEF UploadLock, AcquireLock, Moves, Finished, host, history
<1>8. CASE Retrieve(d) \/ DropLock(d)
  <2>1. \/ pc'[d] \in {"handle", "dropLock", AfterMiss(Msg(d))}
        \/ pc'[d] \notin Finished
    BY <1>8, <1>1, <1>2, <1>3, <1>5 DEF Retrieve, DropLock, Moves, LocalsOK
  <2>2. pc'[d] = "done" \/ pc'[d] \notin Finished
    BY <2>1 DEF AfterMiss, Finished
  <2> QED
    BY <1>6, <1>8, <2>2 DEF Retrieve, DropLock, NoteNotFound, host
<1>9. CASE Handle(d) \/ Create(d)
  <2>1. pc'[d] \notin Finished
    BY <1>9, <1>3, <1>4, <1>5 DEF Handle, Create, AfterHandler, Moves, Finished
  <2> QED
    BY <1>6, <1>9, <2>1 DEF Handle, Create, host
<1>10. CASE Replace(d) \/ Insert(d) \/ DeleteSaga(d)
  BY <1>10, <1>2, <1>5, <1>6 DEF Replace, Insert, DeleteSaga, host
<1>11. CASE Release(d) \/ Undo(d) \/ DeleteLock(d)
  BY <1>11, <1>1, <1>2, <1>3, <1>5, <1>6
  DEF Release, Undo, DeleteLock, Moves, Finished, host, history
<1>12. CASE DeleteBlobs(d)
  BY <1>12, <1>6 DEF DeleteBlobs, Finished, host, history
<1>13. CASE Complete(d)
  BY <1>13, <1>6 DEF Complete, Finished, history
<1> QED
  BY <1>7, <1>8, <1>9, <1>10, <1>11, <1>12, <1>13 DEF Step

\* A step of an attempt preserves the invariant.
LEMMA EffectStep ==
    ASSUME TypeOK, EffectKept, ConsumedMeansCommitted, NEW d \in Deliveries, Step(d)
    PROVE  EffectKept' /\ ConsumedMeansCommitted'
<1>0. LocalsOK /\ HostOK /\ HistoryOK /\ Msg(d) \in Messages
  BY TypeParts, DeliveryTyped
<1>1. Commit(d) => commits'[Msg(d)] = commits[Msg(d)] + 1
                   /\ \A m \in Messages \ {Msg(d)} : commits'[m] = commits[m]
  BY <1>0 DEF Commit, HistoryOK
<1>2. \A m \in Messages : Accounted(m) => Accounted(m)'
  <2>1. \A m \in Messages : {commits[m], commits'[m]} \subseteq Nat /\ commits'[m] >= commits[m]
    BY <1>0, <1>1, StepHistory DEF HistoryOK
  <2>2. notFound \subseteq notFound'
    BY <1>0, StepHistory
  <2> QED
    BY <2>1, <2>2 DEF Accounted
<1>3. Commit(d) => Accounted(Msg(d))'
  BY <1>0, <1>1 DEF Accounted, HistoryOK
<1>4. EffectKept'
  <2> SUFFICES ASSUME NEW e \in Deliveries, pc'[e] \in Finished
               PROVE  Accounted(Msg(e))'
    BY DEF EffectKept, Finished
  <2>1. Msg(e) \in Messages
    BY DeliveryTyped
  <2>2. CASE pc[e] \in Finished
    BY <2>1, <2>2, <1>2 DEF EffectKept
  <2>3. CASE pc[e] \notin Finished
    <3>1. e = d
      BY <2>3, <1>0, StepHistory
    <3>2. Commit(d) \/ Msg(d) \in notFound'
      BY <2>3, <3>1, <1>0, StepHistory
    <3> QED
      BY <3>1, <3>2, <1>3 DEF Accounted
  <2> QED
    BY <2>2, <2>3
<1>5. ConsumedMeansCommitted'
  <2> SUFFICES ASSUME NEW m \in Messages, queue'[m] = "deleted" PROVE Accounted(m)'
    BY DEF ConsumedMeansCommitted, Accounted
  <2>1. CASE queue[m] = "deleted"
    BY <2>1, <1>2 DEF ConsumedMeansCommitted, Accounted
  <2>2. CASE queue[m] # "deleted"
    <3>1. pc[d] = "done" /\ m = Msg(d)
      BY <2>2, <1>0, StepHistory DEF HostOK
    <3> QED
      BY <3>1, <1>2 DEF EffectKept, Finished
  <2> QED
    BY <2>1, <2>2
<1> QED
  BY <1>4, <1>5

\* No other step adds to the history or consumes a message.
LEMMA EffectNext ==
    ASSUME TypeOK, EffectKept, ConsumedMeansCommitted, [Next]_vars
    PROVE  EffectKept' /\ ConsumedMeansCommitted'
<1>0. LocalsOK /\ HostOK
  BY TypeParts
<1>1. ASSUME NEW d \in Deliveries, Step(d)
      PROVE  EffectKept' /\ ConsumedMeansCommitted'
  BY <1>1, EffectStep
<1>2. ASSUME UNCHANGED history,
             \A m \in Messages : queue'[m] = "deleted" => queue[m] = "deleted",
             \A d \in Deliveries : pc'[d] \in Finished => pc[d] \in Finished
      PROVE  EffectKept' /\ ConsumedMeansCommitted'
  BY <1>2 DEF EffectKept, ConsumedMeansCommitted, Accounted, history
<1>3. ASSUME NEW d \in Deliveries, Crash(d) PROVE EffectKept' /\ ConsumedMeansCommitted'
  BY <1>0, <1>2, <1>3, GotoMoves DEF Crash, Moves, Finished, host
<1>4. ASSUME NEW m \in Messages, Receive(m) PROVE EffectKept' /\ ConsumedMeansCommitted'
  <2>1. FirstStep(m) \notin Finished
    BY DEF FirstStep, Finished
  <2> QED
    BY <1>0, <1>2, <1>4, <2>1 DEF Receive, HostOK, LocalsOK
<1>5. ASSUME NEW m \in Messages, VisibilityTimeout(m) \/ Redeliver(m) \/ Poison(m)
      PROVE  EffectKept' /\ ConsumedMeansCommitted'
  BY <1>0, <1>2, <1>5 DEF VisibilityTimeout, Redeliver, Poison, HostOK
<1>6. ASSUME NEW l \in LockIds, Expire(l) \/ LoseLease(l)
      PROVE  EffectKept' /\ ConsumedMeansCommitted'
  BY <1>2, <1>6 DEF Expire, LoseLease, host
<1>7. CASE UNCHANGED vars
  BY <1>2, <1>7 DEF vars, host
<1> QED
  BY <1>1, <1>3, <1>4, <1>5, <1>6, <1>7 DEF Next, Terminating

\* No exception is swallowed on the way from a handler to the host: a message
\* that the host deletes has changed a saga, or was logged as waited for by
\* none, whichever attempts overlap, crash, raise or lose their lease.
THEOREM ConsumedEffect == Spec => []ConsumedMeansCommitted
<1>1. Init => EffectKept /\ ConsumedMeansCommitted
  BY DEF Init, EffectKept, ConsumedMeansCommitted, Finished
<1>2. /\ TypeOK /\ EffectKept /\ ConsumedMeansCommitted
      /\ [Next]_vars
      => (EffectKept /\ ConsumedMeansCommitted)'
  BY EffectNext
<1> QED
  BY <1>1, <1>2, TypeCorrect, PTL DEF Spec

----------------------------------------------------------------------------
(* Accounts: every attempt, and every delivery to come, is paid for *)

\* Steps from which an attempt may still change the table, or its message come
\* back although it has not.
Trying == (InTry \ {"release", "deleteBlobs"}) \cup
    {"upload", "acquire", "retrieve", "dropLock", "undo", "create",
     "insertUpload", "insertAcquire", "insert"}

\* d counts on a lease it has lost: the call that gives it back will raise.
Unheld(d) ==
    /\ ~Holds(d, Lock(d))
    /\ \/ pc[d] \in {"release", "insertRelease"}
       \/ LockSagas /\ pc[d] \in LockedSteps

\* m will be delivered again: its latest attempt ended and did not consume it.
Abandoned(m) ==
    \E d \in Deliveries : d = <<m, dequeues[m]>> /\ queue[m] = "hidden" /\ pc[d] = "over"
Awaited(m) == queue[m] = "visible" \/ Abandoned(m)

AttemptsAt(m, steps) == {n \in 1..MaxDequeueCount : pc[<<m, n>>] \in steps}
Losers(m) == {n \in 1..MaxDequeueCount : Unheld(<<m, n>>)}

\* What has been done for m and what may come of it, against what went wrong.
CommitsPaid ==
    \A m \in Messages :
        commits[m] + Cardinality(AttemptsAt(m, Trying)) + Cardinality(Losers(m))
          + Worth(Awaited(m)) <= 1 + mishaps

\* A message that an attempt has taken has been delivered.
HiddenIsDelivered == \A m \in Messages : queue[m] = "hidden" => dequeues[m] > 0

\* There are finitely many attempts at a message.
LEMMA FiniteAttempts ==
    ASSUME NEW m, NEW steps
    PROVE  IsFiniteSet(AttemptsAt(m, steps)) /\ IsFiniteSet(Losers(m))
<1>1. IsFiniteSet(1..MaxDequeueCount)
  BY Settings, FS_Interval
<1> QED
  BY <1>1, FS_Subset DEF AttemptsAt, Losers

\* f counts one more for d's message.
Adds(f, d) == f' = [f EXCEPT ![Msg(d)] = @ + 1]

\* The ways a step of attempt d, which is open at the given steps, may end: it
\* goes on; it does what f counts; it raises, still open or owing; or a mishap
\* befalls it.
Account(d, f, steps, owing) ==
    \/ /\ mishaps' = mishaps /\ f' = f /\ pc'[d] # "over"
       /\ pc'[d] \in steps => pc[d] \in steps
    \/ /\ mishaps' = mishaps /\ Adds(f, d)
       /\ pc[d] \in steps /\ pc'[d] \notin steps \cup {"over"}
    \/ /\ mishaps' = mishaps /\ f' = f
       /\ pc[d] \in steps \/ owing
       /\ pc'[d] \in {"undo", "over"}
    \/ /\ mishaps' = mishaps + 1
       /\ f' = f \/ (Adds(f, d) /\ pc[d] \in steps)
       /\ pc'[d] \in {"undo", "over"}

\* Every step of an attempt but its last is accounted for, in changes of the
\* table.
LEMMA CommitAccount ==
    ASSUME LocalsOK, NEW d \in Deliveries, Step(d), ~Complete(d)
    PROVE  Account(d, commits, Trying, Unheld(d)) /\ UNCHANGED host
<1>1. \A step : Goto(d, step) => pc'[d] = step
  BY GotoMoves DEF Moves
<1>2. Raise(d) => pc'[d] \in {"undo", "over"}
  BY RaiseFails DEF Moves, Fails
<1> USE DEF Account, Trying, InTry, Answered, Failed, Mishap
<1>3. CASE UploadLock(d) \/ AcquireLock(d)
  BY <1>1, <1>2, <1>3 DEF UploadLock, AcquireLock, history
<1>4. CASE Retrieve(d)
  BY <1>1, <1>2, <1>4 DEF Retrieve, AfterMiss, LocalsOK
<1>5. CASE DropLock(d)
  BY <1>1, <1>2, <1>5 DEF DropLock, AfterMiss
<1>6. CASE Handle(d) \/ Create(d)
  BY <1>1, <1>2, <1>6 DEF Handle, Create, AfterHandler
<1>7. CASE Replace(d) \/ Insert(d) \/ DeleteSaga(d)
  BY <1>1, <1>2, <1>7 DEF Replace, Insert, DeleteSaga, Commit, Adds
<1>8. CASE Release(d)
  BY <1>1, <1>2, <1>8 DEF Release, history, Unheld, Holds, ReleaseAllowed
<1>9. CASE Undo(d)
  BY <1>1, <1>2, <1>9 DEF Undo, history
<1>10. CASE DeleteLock(d)
  BY <1>1, <1>2, <1>10 DEF DeleteLock, history
<1>11. CASE DeleteBlobs(d)
  BY <1>1, <1>2, <1>11 DEF DeleteBlobs, history
<1> QED
  BY <1>3, <1>4, <1>5, <1>6, <1>7, <1>8, <1>9, <1>10, <1>11 DEF Step

\* A step of an attempt changes its lock's blob as the service allows it.
LEMMA LockEffect ==
    ASSUME LocalsOK, NEW d \in Deliveries, Step(d)
    PROVE  \/ UploadAllowed(Lock(d)) /\ UploadText(Lock(d))
           \/ AcquireAllowed(Lock(d)) /\ AcquireLease(Lock(d), d)
           \/ ReleaseAllowed(Lock(d), d) /\ ReleaseLease(Lock(d))
           \/ DeleteAllowed(Lock(d), d) /\ DeleteLockBlob(Lock(d))
           \/ UNCHANGED locks
BY StepOutcome DEF Outcome, locks

\* No attempt loses a lease by a step of an attempt; one that raises counts on
\* none any more.
LEMMA UnheldStep ==
    ASSUME StorageTypeOK, LocalsOK, NEW d \in Deliveries, Step(d),
           NEW e \in Deliveries, Unheld(e)'
    PROVE  Unheld(e) /\ (e = d => pc'[d] \notin {"undo", "over"})
<1>1. Lock(d) \in LockIds /\ Lock(e) \in LockIds
  BY DeliveryTyped
<1>2. CASE e # d
  <2>1. pc'[e] = pc[e]
    BY <1>2, StepOutcome, OutcomeMoves DEF Moves, Reads
  <2>2. ~Holds(e, Lock(e))
    BY <1>1, <1>2, LockEffect, OthersHold DEF Unheld
  <2> QED
    BY <1>2, <2>1, <2>2 DEF Unheld
<1>3. CASE e = d /\ LockSagas
  <2>1. pc'[d] \in LockedSteps
    BY <1>3 DEF Unheld, LockedSteps
  <2>2. ~(AcquireAllowed(Lock(d)) /\ AcquireLease(Lock(d), d))
    BY <1>1, <1>3 DEF Unheld, AcquireLease, Holds, StorageTypeOK
  <2>3. pc[d] \in LockedSteps /\ UNCHANGED locks
    BY <1>3, <2>1, <2>2, StepOutcome, LockOutcome
  <2> QED
    BY <1>3, <2>1, <2>3 DEF Unheld, Holds, locks, LockedSteps
<1>4. CASE e = d /\ ~LockSagas
  <2>1. Outcome(d) /\ pc'[d] \in {"release", "insertRelease"}
    BY <1>4, StepOutcome DEF Unheld
  <2> QED
    BY <1>4, <2>1 DEF Outcome, Moves, Fails, Reads, AfterMiss, AfterHandler
<1> QED
  BY <1>2, <1>3, <1>4

\* A message comes back only when its latest attempt has ended.
LEMMA AwaitedStep ==
    ASSUME NEW d \in Deliveries, \A e \in Deliveries \ {d} : pc'[e] = pc[e],
           UNCHANGED host, NEW m, Awaited(m)'
    PROVE  Awaited(m) \/ (m = Msg(d) /\ pc'[d] = "over")
BY DEF Awaited, Abandoned, host

\* The attempts at a message whose state a step changes are at most one.
LEMMA AttemptsStep ==
    ASSUME NEW d \in Deliveries, \A e \in Deliveries \ {d} : pc'[e] = pc[e],
           NEW m \in Messages, NEW steps
    PROVE  /\ AttemptsAt(m, steps)' \ {d[2]} \subseteq AttemptsAt(m, steps) \ {d[2]}
           /\ m # Msg(d) => AttemptsAt(m, steps)' \subseteq AttemptsAt(m, steps)
           /\ m = Msg(d) => /\ d[2] \in AttemptsAt(m, steps) <=> pc[d] \in steps
                            /\ d[2] \in AttemptsAt(m, steps)' <=> pc'[d] \in steps
<1>1. \A n \in 1..MaxDequeueCount : <<m, n>> \in Deliveries /\ <<m, n>>[2] = n
  OBVIOUS
<1>2. d = <<Msg(d), d[2]>> /\ d[2] \in 1..MaxDequeueCount
  OBVIOUS
<1> QED
  BY <1>1, <1>2 DEF AttemptsAt

\* The attempts that have lost their lease only become fewer by a step of an
\* attempt.
LEMMA LosersStep ==
    ASSUME StorageTypeOK, LocalsOK, NEW d \in Deliveries, Step(d), NEW m \in Messages
    PROVE  /\ Losers(m)' \subseteq Losers(m)
           /\ m = Msg(d) => /\ d[2] \in Losers(m) <=> Unheld(d)
                            /\ d[2] \in Losers(m)' <=> Unheld(d)'
<1>1. \A n \in 1..MaxDequeueCount : <<m, n>> \in Deliveries
  OBVIOUS
<1>2. d = <<Msg(d), d[2]>> /\ d[2] \in 1..MaxDequeueCount
  OBVIOUS
<1>3. \A e \in Deliveries : Unheld(e)' => Unheld(e)
  BY UnheldStep
<1>4. Losers(m)' \subseteq Losers(m)
  BY <1>1, <1>3 DEF Losers
<1>5. ASSUME m = Msg(d)
      PROVE  /\ d[2] \in Losers(m) <=> Unheld(d)
             /\ d[2] \in Losers(m)' <=> Unheld(d)'
  BY <1>2, <1>5 DEF Losers
<1> QED
  BY <1>4, <1>5

\* The last step of an attempt consumes the message, or leaves its delivery to
\* a later attempt.
LEMMA CompleteStep ==
    ASSUME LocalsOK, HostOK, NEW d \in Deliveries, Complete(d), NEW m \in Messages, Awaited(m)'
    PROVE  Awaited(m)
<1>1. /\ \A e \in Deliveries \ {d} : pc'[e] = pc[e]
      /\ Msg(d) \in Messages
      /\ UNCHANGED dequeues
  BY GotoMoves, DeliveryTyped DEF Complete, Moves
<1>2. CASE Acknowledged(d)
  <2>1. queue' = [queue EXCEPT ![Msg(d)] = "deleted"]
    BY <1>2 DEF Complete
  <2>2. m # Msg(d) /\ queue'[m] = queue[m]
    BY <1>1, <2>1 DEF HostOK, Awaited, Abandoned
  <2> QED
    BY <1>1, <2>2 DEF Awaited, Abandoned
<1>3. CASE ~Acknowledged(d)
  <2>1. queue' = queue
    BY <1>3 DEF Complete
  <2>2. d # <<m, dequeues[m]>> \/ queue[m] = "poison"
    BY <1>3 DEF Acknowledged
  <2> QED
    BY <1>1, <2>1, <2>2 DEF Awaited, Abandoned
<1> QED
  BY <1>2, <1>3

\* A step of an attempt keeps the changes of the table paid for.
LEMMA CommitsStep ==
    ASSUME TypeOK, CommitsPaid, NEW d \in Deliveries, Step(d)
    PROVE  CommitsPaid'
<1> SUFFICES ASSUME NEW m \in Messages
             PROVE  commits'[m] + Cardinality(AttemptsAt(m, Trying)')
                      + Cardinality(Losers(m)') + Worth(Awaited(m)') <= 1 + mishaps'
  BY DEF CommitsPaid
<1>0. /\ StorageTypeOK /\ LocalsOK /\ HostOK /\ HistoryOK
      /\ commits[m] \in Nat /\ mishaps \in Nat /\ Msg(d) \in Messages
      /\ \A e \in Deliveries \ {d} : pc'[e] = pc[e]
  BY TypeParts, DeliveryTyped, StepHistory, Settings DEF HistoryOK, LocalsOK
<1> DEFINE tries == Cardinality(AttemptsAt(m, Trying))
           losers == Cardinality(Losers(m))
           paid == commits[m] + tries + losers + Worth(Awaited(m))
<1>1. paid <= 1 + mishaps
  BY DEF CommitsPaid
<1>2. /\ {tries, tries', losers, losers'} \subseteq Nat
      /\ tries' + Worth(d[2] \in AttemptsAt(m, Trying))
           <= tries + Worth(d[2] \in AttemptsAt(m, Trying)')
      /\ losers' <= losers
      /\ losers' + Worth(d[2] \in Losers(m)) <= losers + Worth(d[2] \in Losers(m)')
  BY <1>0, FiniteAttempts, AttemptsStep, LosersStep, CountOne, CountNone
<1>3. m # Msg(d) => tries' <= tries
  BY <1>0, FiniteAttempts, AttemptsStep, CountNone
<1> HIDE DEF tries, losers
<1>4. CASE Complete(d)
  <2>1. commits' = commits /\ mishaps' = mishaps /\ pc'[d] = "over"
    BY <1>0, <1>4, GotoMoves DEF Complete, history, Moves
  <2>2. tries' <= tries
    BY <1>0, <1>2, <1>3, <2>1, AttemptsStep DEF Trying, InTry, Worth
  <2>3. Awaited(m)' => Awaited(m)
    BY <1>0, <1>4, CompleteStep
  <2> QED
    BY <1>0, <1>1, <1>2, <2>1, <2>2, <2>3 DEF Worth, tries, losers
<1>5. CASE ~Complete(d) /\ m # Msg(d)
  <2>1. Account(d, commits, Trying, Unheld(d)) /\ UNCHANGED host
    BY <1>0, <1>5, CommitAccount
  <2>2. commits'[m] = commits[m] /\ (mishaps' = mishaps \/ mishaps' = mishaps + 1)
    BY <1>0, <1>5, <2>1 DEF Account, Adds, HistoryOK
  <2>3. Awaited(m)' => Awaited(m)
    BY <1>0, <1>5, <2>1, AwaitedStep
  <2> QED
    BY <1>0, <1>1, <1>2, <1>3, <1>5, <2>2, <2>3 DEF Worth, tries, losers
<1>6. CASE ~Complete(d) /\ m = Msg(d)
  <2>1. Account(d, commits, Trying, Unheld(d)) /\ UNCHANGED host
    BY <1>0, <1>6, CommitAccount
  <2>2. Awaited(m)' => Awaited(m) \/ pc'[d] = "over"
    BY <1>0, <1>6, <2>1, AwaitedStep
  <2>3. /\ tries' + Worth(pc[d] \in Trying) <= tries + Worth(pc'[d] \in Trying)
        /\ losers' + Worth(Unheld(d)) <= losers + Worth(Unheld(d)')
    BY <1>0, <1>2, <1>6, AttemptsStep, LosersStep DEF Worth
  <2>4. Unheld(d)' => Unheld(d) /\ pc'[d] \notin {"undo", "over"}
    BY <1>0, UnheldStep
  <2>5. Adds(commits, d) => commits'[m] = commits[m] + 1
    BY <1>0, <1>6 DEF Adds, HistoryOK
  <2>6. "over" \notin Trying
    BY DEF Trying, InTry
  <2> QED
    BY <1>0, <1>1, <1>2, <2>1, <2>2, <2>3, <2>4, <2>5, <2>6
    DEF Account, Worth, tries, losers
<1> QED
  BY <1>4, <1>5, <1>6

\* A lease is lost to nobody who counts on it, or by a mishap.
LEMMA LosersExpire ==
    ASSUME LocalsOK, NEW l \in LockIds, Expire(l) \/ LoseLease(l), NEW m \in Messages
    PROVE  /\ Losers(m)' \ {blob[l][2]} \subseteq Losers(m) \ {blob[l][2]}
           /\ Expire(l) => Losers(m)' \subseteq Losers(m)
<1>1. UNCHANGED <<pc, blob>> /\ leased' = leased \ {l}
  BY DEF Expire, LoseLease, ExpireLease
<1>2. ASSUME NEW n \in 1..MaxDequeueCount, Unheld(<<m, n>>)'
      PROVE  /\ ~Unheld(<<m, n>>) => blob[l] = <<m, n>>
             /\ Expire(l) => Unheld(<<m, n>>)
  BY <1>1, <1>2 DEF Unheld, Holds, Expire, LockedSteps, Idle
<1> QED
  BY <1>2 DEF Losers

\* A new attempt takes the place of the delivery that was awaited.
LEMMA AwaitedReceive ==
    ASSUME TypeOK, NEW r \in Messages, Receive(r)
    PROVE  \E d \in Deliveries :
              /\ Msg(d) = r
              /\ pc'[d] = FirstStep(r)
              /\ \A e \in Deliveries \ {d} : pc'[e] = pc[e]
              /\ \A m \in Messages : IF m = r THEN Awaited(m) /\ ~Awaited(m)'
                                              ELSE Awaited(m)' => Awaited(m)
<1>0. LocalsOK /\ HostOK
  BY TypeParts
<1>1. PICK d \in Deliveries : d = <<r, dequeues[r] + 1>> /\ Msg(d) = r
  BY <1>0, Settings DEF Receive, HostOK
<1>2. /\ pc' = [pc EXCEPT ![d] = FirstStep(r)]
      /\ queue' = [queue EXCEPT ![r] = "hidden"]
      /\ dequeues' = [dequeues EXCEPT ![r] = @ + 1]
      /\ queue[r] = "visible"
  BY <1>1 DEF Receive
<1>3. d = <<r, dequeues'[r]>>
  BY <1>0, <1>1, <1>2 DEF HostOK
<1>4. pc'[d] = FirstStep(r) /\ \A e \in Deliveries \ {d} : pc'[e] = pc[e]
  BY <1>0, <1>1, <1>2 DEF LocalsOK
<1>5. Awaited(r) /\ ~Awaited(r)'
  <2>1. queue'[r] = "hidden"
    BY <1>0, <1>2 DEF HostOK
  <2>2. ASSUME NEW e \in Deliveries, e = <<r, dequeues'[r]>> PROVE pc'[e] # "over"
    <3>1. e = d
      BY <1>3, <2>2
    <3> QED
      BY <3>1, <1>4 DEF FirstStep
  <2> QED
    BY <1>2, <2>1, <2>2 DEF Awaited, Abandoned
<1>6. ASSUME NEW m \in Messages, m # r, Awaited(m)' PROVE Awaited(m)
  <2>1. queue'[m] = queue[m] /\ dequeues'[m] = dequeues[m]
    BY <1>0, <1>2, <1>6 DEF HostOK
  <2> QED
    BY <1>1, <1>4, <1>6, <2>1 DEF Awaited, Abandoned
<1> QED
  BY <1>1, <1>4, <1>5, <1>6

\* A message comes back because its attempt ended, or by a mishap.
LEMMA AwaitedHost ==
    ASSUME TypeOK, HiddenIsDelivered, NEW r \in Messages,
           VisibilityTimeout(r) \/ Redeliver(r) \/ Poison(r)
    PROVE  /\ UNCHANGED <<locks, pc, history>>
           /\ mishaps' \in {mishaps, mishaps + 1}
           /\ \A m \in Messages : Awaited(m)' => Awaited(m) \/ mishaps' = mishaps + 1
<1>0. HostOK
  BY TypeParts
<1>1. /\ UNCHANGED <<locks, pc, history, dequeues>>
      /\ mishaps' = mishaps \/ (Redeliver(r) /\ mishaps' = mishaps + 1)
      /\ queue' \in {[queue EXCEPT ![r] = "visible"], [queue EXCEPT ![r] = "poison"]}
  BY DEF VisibilityTimeout, Redeliver, Poison, Mishap
<1>2. ASSUME NEW m \in Messages, Awaited(m)'
      PROVE  Awaited(m) \/ mishaps' = mishaps + 1
  <2>1. CASE m # r \/ queue'[r] = "poison"
    BY <1>0, <1>1, <1>2, <2>1 DEF HostOK, Awaited, Abandoned
  <2>2. CASE m = r /\ VisibilityTimeout(r)
    <3>1. dequeues[r] \in 1..MaxDequeueCount
      BY <1>0, <2>2, Settings DEF VisibilityTimeout, HiddenIsDelivered, HostOK
    <3>2. <<r, dequeues[r]>> \in Deliveries
      BY <3>1
    <3> QED
      BY <2>2, <3>2 DEF VisibilityTimeout, Awaited, Abandoned
  <2>3. CASE m = r /\ Redeliver(r)
    BY <2>3 DEF Redeliver, Mishap
  <2>4. CASE m = r /\ Poison(r)
    BY <1>0, <2>1, <2>4 DEF Poison, HostOK
  <2> QED
    BY <2>1, <2>2, <2>3, <2>4
<1> QED
  BY <1>1, <1>2

\* A new attempt holds nothing and owes nothing.
LEMMA CommitsReceive ==
    ASSUME TypeOK, CommitsPaid, NEW r \in Messages, Receive(r)
    PROVE  CommitsPaid'
<1>0. mishaps \in Nat /\ \A m \in Messages : commits[m] \in Nat
  BY TypeParts, Settings DEF HistoryOK, LocalsOK
<1>1. UNCHANGED <<locks, commits, mishaps>>
  BY DEF Receive, history
<1>2. PICK d \in Deliveries :
        /\ Msg(d) = r
        /\ pc'[d] = FirstStep(r)
        /\ \A e \in Deliveries \ {d} : pc'[e] = pc[e]
        /\ \A m \in Messages : IF m = r THEN Awaited(m) /\ ~Awaited(m)'
                                        ELSE Awaited(m)' => Awaited(m)
  BY AwaitedReceive
<1> SUFFICES ASSUME NEW m \in Messages
             PROVE  commits'[m] + Cardinality(AttemptsAt(m, Trying)')
                      + Cardinality(Losers(m)') + Worth(Awaited(m)') <= 1 + mishaps'
  BY DEF CommitsPaid
<1>3. Losers(m)' \subseteq Losers(m)
  <2>1. ~Unheld(d)'
    BY <1>2 DEF Unheld, FirstStep, LockedSteps
  <2>2. ASSUME NEW e \in Deliveries, Unheld(e)' PROVE Unheld(e)
    BY <2>1, <2>2, <1>1, <1>2 DEF Unheld, Holds, locks
  <2> QED
    BY <2>2 DEF Losers
<1> DEFINE tries == Cardinality(AttemptsAt(m, Trying))
           losers == Cardinality(Losers(m))
<1>4. /\ {tries, tries', losers, losers'} \subseteq Nat
      /\ losers' <= losers
      /\ tries' + Worth(d[2] \in AttemptsAt(m, Trying))
           <= tries + Worth(d[2] \in AttemptsAt(m, Trying)')
      /\ m # r => tries' <= tries
  BY <1>2, <1>3, FiniteAttempts, AttemptsStep, CountOne, CountNone
<1>5. commits[m] + tries + losers + Worth(Awaited(m)) <= 1 + mishaps
  BY DEF CommitsPaid
<1> HIDE DEF tries, losers
<1> QED
  BY <1>0, <1>1, <1>2, <1>4, <1>5 DEF Worth, tries, losers

\* What a mishap costs: a message that comes back, or a lease that is lost.
LEMMA CommitsKept ==
    ASSUME TypeOK, CommitsPaid, UNCHANGED commits,
           mishaps' \in {mishaps, mishaps + 1},
           \A m \in Messages :
               /\ AttemptsAt(m, Trying)' \subseteq AttemptsAt(m, Trying)
               /\ \/ /\ Losers(m)' \subseteq Losers(m)
                     /\ Awaited(m)' => Awaited(m) \/ mishaps' = mishaps + 1
                  \/ /\ \E x : Losers(m)' \ {x} \subseteq Losers(m) \ {x}
                     /\ Awaited(m)' => Awaited(m)
                     /\ mishaps' = mishaps + 1
    PROVE  CommitsPaid'
<1> SUFFICES ASSUME NEW m \in Messages
             PROVE  commits'[m] + Cardinality(AttemptsAt(m, Trying)')
                      + Cardinality(Losers(m)') + Worth(Awaited(m)') <= 1 + mishaps'
  BY DEF CommitsPaid
<1>0. mishaps \in Nat /\ commits[m] \in Nat
  BY TypeParts, Settings DEF HistoryOK, LocalsOK
<1> DEFINE tries == Cardinality(AttemptsAt(m, Trying))
           losers == Cardinality(Losers(m))
<1>1. /\ {tries, tries', losers} \subseteq Nat /\ tries' <= tries
      /\ commits[m] + tries + losers + Worth(Awaited(m)) <= 1 + mishaps
  BY FiniteAttempts, CountNone DEF CommitsPaid
<1>2. CASE Losers(m)' \subseteq Losers(m) /\ (Awaited(m)' => Awaited(m) \/ mishaps' = mishaps + 1)
  <2>1. losers' \in Nat /\ losers' <= losers
    BY <1>2, FiniteAttempts, CountNone
  <2> HIDE DEF tries, losers
  <2> QED
    BY <1>0, <1>1, <1>2, <2>1 DEF Worth, tries, losers
<1>3. CASE /\ \E x : Losers(m)' \ {x} \subseteq Losers(m) \ {x}
           /\ Awaited(m)' => Awaited(m)
           /\ mishaps' = mishaps + 1
  <2>1. PICK x : Losers(m)' \ {x} \subseteq Losers(m) \ {x}
    BY <1>3
  <2>2. /\ losers' \in Nat
        /\ losers' + Worth(x \in Losers(m)) <= losers + Worth(x \in Losers(m)')
    BY <2>1, FiniteAttempts, CountOne
  <2> HIDE DEF tries, losers
  <2> QED
    BY <1>0, <1>1, <1>3, <2>2 DEF Worth, tries, losers
<1> QED
  BY <1>2, <1>3

\* Every step keeps the changes of the table paid for.
LEMMA CommitsNext ==
    ASSUME TypeOK, HiddenIsDelivered, CommitsPaid, [Next]_vars
    PROVE  CommitsPaid'
<1>0. LocalsOK /\ HostOK
  BY TypeParts
<1>1. ASSUME NEW d \in Deliveries, Step(d) PROVE CommitsPaid'
  BY <1>1, CommitsStep
<1>2. ASSUME NEW d \in Deliveries, Crash(d) PROVE CommitsPaid'
  <2>1. /\ pc'[d] = "over" /\ \A e \in Deliveries \ {d} : pc'[e] = pc[e]
        /\ mishaps' = mishaps + 1 /\ UNCHANGED <<commits, locks>>
    BY <1>0, <1>2, GotoMoves DEF Crash, Moves, Mishap, history
  <2>2. \A e \in Deliveries : Unheld(e)' => Unheld(e)
    BY <2>1 DEF Unheld, Holds, locks, LockedSteps
  <2>3. \A m \in Messages : Losers(m)' \subseteq Losers(m)
    BY <2>2 DEF Losers
  <2>4. \A m \in Messages : AttemptsAt(m, Trying)' \subseteq AttemptsAt(m, Trying)
    BY <2>1 DEF AttemptsAt, Trying, InTry
  <2> QED
    BY <2>1, <2>3, <2>4, CommitsKept
<1>3. ASSUME NEW r \in Messages, Receive(r) PROVE CommitsPaid'
  BY <1>3, CommitsReceive
<1>4. ASSUME NEW r \in Messages, VisibilityTimeout(r) \/ Redeliver(r) \/ Poison(r)
      PROVE  CommitsPaid'
  <2>1. \A m \in Messages : AttemptsAt(m, Trying)' = AttemptsAt(m, Trying)
                            /\ Losers(m)' = Losers(m)
    BY <1>4, AwaitedHost DEF AttemptsAt, Losers, Unheld, Holds, locks
  <2> QED
    BY <1>4, <2>1, AwaitedHost, CommitsKept DEF history
<1>5. ASSUME NEW l \in LockIds, Expire(l) \/ LoseLease(l) PROVE CommitsPaid'
  <2>1. /\ UNCHANGED <<pc, host, commits>>
        /\ \/ Expire(l) /\ mishaps' = mishaps
           \/ LoseLease(l) /\ mishaps' = mishaps + 1
    BY <1>5 DEF Expire, LoseLease, Mishap, history
  <2>2. \A m \in Messages : AttemptsAt(m, Trying)' = AttemptsAt(m, Trying)
                            /\ (Awaited(m)' <=> Awaited(m))
    BY <2>1 DEF AttemptsAt, Awaited, Abandoned, host
  <2> QED
    BY <1>0, <1>5, <2>1, <2>2, LosersExpire, CommitsKept
<1>6. CASE UNCHANGED vars
  <2>1. UNCHANGED <<pc, host, locks, commits, mishaps>>
    BY <1>6 DEF vars, history
  <2>2. \A m \in Messages : /\ AttemptsAt(m, Trying)' = AttemptsAt(m, Trying)
                            /\ Losers(m)' = Losers(m)
                            /\ Awaited(m)' <=> Awaited(m)
    BY <2>1 DEF AttemptsAt, Losers, Unheld, Holds, locks, Awaited, Abandoned, host
  <2> QED
    BY <2>1, <2>2, CommitsKept
<1> QED
  BY <1>1, <1>2, <1>3, <1>4, <1>5, <1>6 DEF Next, Terminating

\* A message is taken by an attempt only when it is received, and then counted.
LEMMA HiddenNext ==
    ASSUME TypeOK, HiddenIsDelivered, [Next]_vars
    PROVE  HiddenIsDelivered'
<1>0. HostOK /\ LocalsOK
  BY TypeParts
<1>1. ASSUME \A m \in Messages : queue'[m] = "hidden" => queue[m] = "hidden",
             UNCHANGED dequeues
      PROVE  HiddenIsDelivered'
  BY <1>1 DEF HiddenIsDelivered
<1>2. ASSUME NEW d \in Deliveries, Step(d) PROVE HiddenIsDelivered'
  <2>1. UNCHANGED dequeues
    BY <1>0, <1>2, CommitAccount DEF Complete, host
  <2>2. \A m \in Messages : queue'[m] = "hidden" => queue[m] = "hidden"
    BY <1>0, <1>2, StepHistory DEF HostOK
  <2> QED
    BY <1>1, <2>1, <2>2
<1>3. ASSUME NEW r \in Messages, Receive(r) PROVE HiddenIsDelivered'
  BY <1>0, <1>3 DEF Receive, HostOK, HiddenIsDelivered
<1>4. ASSUME NEW r \in Messages, VisibilityTimeout(r) \/ Redeliver(r) \/ Poison(r)
      PROVE  HiddenIsDelivered'
  BY <1>0, <1>1, <1>4 DEF VisibilityTimeout, Redeliver, Poison, HostOK
<1>5. ASSUME UNCHANGED host PROVE HiddenIsDelivered'
  BY <1>5 DEF HiddenIsDelivered, host
<1> QED
  BY <1>2, <1>3, <1>4, <1>5 DEF Next, Terminating, Crash, Expire, LoseLease, vars

\* At the start every message is awaited, and nothing has been done for it.
LEMMA HistoryInit == Init => HiddenIsDelivered /\ CommitsPaid
<1> SUFFICES ASSUME Init PROVE HiddenIsDelivered /\ CommitsPaid
  OBVIOUS
<1>1. ASSUME NEW m \in Messages
      PROVE  AttemptsAt(m, Trying) = {} /\ Losers(m) = {}
  BY DEF Init, AttemptsAt, Losers, Unheld, LockedSteps, Trying, InTry
<1>2. \A m \in Messages : commits[m] = 0 /\ queue[m] = "visible" /\ mishaps = 0
  BY DEF Init
<1>3. \A m \in Messages : /\ Cardinality(AttemptsAt(m, Trying)) = 0
                          /\ Cardinality(Losers(m)) = 0
  BY <1>1, FS_EmptySet
<1>4. \A m \in Messages : Worth(Awaited(m)) \in {0, 1}
  BY DEF Worth
<1>5. ASSUME NEW m \in Messages
      PROVE  commits[m] + Cardinality(AttemptsAt(m, Trying)) + Cardinality(Losers(m))
               + Worth(Awaited(m)) <= 1 + mishaps
  BY <1>2, <1>3, <1>4
<1>6. CommitsPaid
  BY <1>5 DEF CommitsPaid
<1> QED
  BY <1>2, <1>6 DEF HiddenIsDelivered

\* A command changes its saga's row once, and once more for every mishap: no
\* retry, overlap of attempts or late release does it for nothing.
THEOREM CommitsOwed == Spec => []CommittedOnce
<1>1. Init => HiddenIsDelivered /\ CommitsPaid
  BY HistoryInit
<1>2. TypeOK /\ HiddenIsDelivered /\ CommitsPaid /\ [Next]_vars
      => (HiddenIsDelivered /\ CommitsPaid)'
  BY CommitsNext, HiddenNext
<1>3. TypeOK /\ CommitsPaid => CommittedOnce
  <2> SUFFICES ASSUME TypeOK, CommitsPaid, NEW m \in Messages
               PROVE  commits[m] <= 1 + mishaps
    BY DEF CommittedOnce
  <2>1. commits[m] \in Nat /\ mishaps \in Nat
    BY TypeParts, Settings DEF HistoryOK, LocalsOK
  <2>2. /\ Cardinality(AttemptsAt(m, Trying)) \in Nat
        /\ Cardinality(Losers(m)) \in Nat
    BY FiniteAttempts, FS_CardinalityType
  <2> QED
    BY <2>1, <2>2 DEF CommitsPaid, Worth
<1> QED
  BY <1>1, <1>2, <1>3, TypeCorrect, PTL DEF Spec

----------------------------------------------------------------------------
(* Runs of a handler that waits for its turn *)

\* With locks that outlast the handlers, and sagas that are not deleted.
TurnsGuarded == LockSagas /\ "slow" \notin Mishaps /\ Finishing = {}

\* Where an attempt at a correlated command has not run the handler, or raised.
BeforeRun == {"upload", "acquire", "retrieve", "dropLock", "handle", "undo"}

RunsPaid ==
    \A m \in Messages \ Starting :
        runs[m] + Cardinality(AttemptsAt(m, BeforeRun)) + Worth(Awaited(m)) <= 1 + mishaps

\* Once the handler has returned, its attempt is stopped by mishaps only: the
\* lock is its own, and the row the one it has read.
LEMMA RunAccount ==
    ASSUME TurnsGuarded, IndInv, NEW d \in Deliveries, Step(d), ~Complete(d),
           Msg(d) \notin Starting
    PROVE  Account(d, runs, BeforeRun, FALSE)
<1>0. LocalsOK /\ Msg(d) \in Messages
  BY TypeParts, DeliveryTyped DEF IndInv
<1>1. \A step : Goto(d, step) => pc'[d] = step
  BY <1>0, GotoMoves DEF Moves
<1>2. Raise(d) => pc'[d] \in {"undo", "over"}
  BY <1>0, RaiseFails DEF Moves, Fails
<1>3. /\ pc[d] \notin {"create", "insertUpload", "insertAcquire", "insert",
                      "deleteLock", "deleteRow"}
      /\ Msg(d) \notin Finishing
  BY DEF IndInv, OnPath, TurnsGuarded
<1>4. pc[d] = "replace" => MatchesETag(Key(d), entity[d])
  BY DEF IndInv, LockProtects, EntityLoaded, MatchesETag, TurnsGuarded
<1>5. pc[d] \in {"release", "insertRelease"} => ReleaseAllowed(Lock(d), d)
  BY DEF IndInv, LeaseHeld, LockedSteps, Holds, ReleaseAllowed, TurnsGuarded
<1> USE DEF Account, BeforeRun, InTry, Answered, Failed, Mishap
<1>6. CASE UploadLock(d) \/ AcquireLock(d)
  BY <1>1, <1>2, <1>3, <1>6 DEF UploadLock, AcquireLock, history
<1>7. CASE Retrieve(d) \/ DropLock(d)
  <2>1. AfterMiss(Msg(d)) = "done"
    BY DEF AfterMiss
  <2> QED
    BY <1>0, <1>1, <1>2, <1>7, <2>1 DEF Retrieve, DropLock, LocalsOK
<1>8. CASE Handle(d)
  BY <1>1, <1>2, <1>3, <1>8 DEF Handle, AfterHandler, CountRun, Adds
<1>9. CASE Replace(d)
  BY <1>1, <1>2, <1>4, <1>9 DEF Replace
<1>10. CASE Release(d)
  BY <1>1, <1>2, <1>5, <1>10 DEF Release, history
<1>11. CASE Undo(d)
  BY <1>1, <1>2, <1>11 DEF Undo, history
<1>12. CASE DeleteBlobs(d)
  BY <1>1, <1>2, <1>12 DEF DeleteBlobs, history
<1>13. CASE DeleteLock(d) \/ DeleteSaga(d) \/ Create(d) \/ Insert(d)
  BY <1>3, <1>13 DEF DeleteLock, DeleteSaga, Create, Insert
<1> QED
  BY <1>6, <1>7, <1>8, <1>9, <1>10, <1>11, <1>12, <1>13 DEF Step

\* A step of an attempt runs the handler of its own message at most.
LEMMA RunsOwn ==
    ASSUME LocalsOK, NEW d \in Deliveries, Step(d)
    PROVE  runs' = runs \/ CountRun(d)
BY DEF Step, UploadLock, AcquireLock, Retrieve, DropLock, Handle, Replace, Release, Undo,
       DeleteLock, DeleteSaga, DeleteBlobs, Create, Insert, Complete, history

\* A step of an attempt keeps the runs paid for.
LEMMA RunsStep ==
    ASSUME TurnsGuarded, IndInv, RunsPaid, NEW d \in Deliveries, Step(d)
    PROVE  RunsPaid'
<1> SUFFICES ASSUME NEW m \in Messages \ Starting
             PROVE  runs'[m] + Cardinality(AttemptsAt(m, BeforeRun)')
                      + Worth(Awaited(m)') <= 1 + mishaps'
  BY DEF RunsPaid
<1>0. /\ LocalsOK /\ HostOK /\ HistoryOK
      /\ runs[m] \in Nat /\ mishaps \in Nat /\ Msg(d) \in Messages
      /\ \A e \in Deliveries \ {d} : pc'[e] = pc[e]
  BY TypeParts, DeliveryTyped, StepHistory, Settings DEF HistoryOK, LocalsOK, IndInv
<1> DEFINE tries == Cardinality(AttemptsAt(m, BeforeRun))
<1>1. /\ {tries, tries'} \subseteq Nat
      /\ runs[m] + tries + Worth(Awaited(m)) <= 1 + mishaps
      /\ tries' + Worth(d[2] \in AttemptsAt(m, BeforeRun))
           <= tries + Worth(d[2] \in AttemptsAt(m, BeforeRun)')
  BY <1>0, FiniteAttempts, AttemptsStep, CountOne DEF RunsPaid
<1>2. m # Msg(d) => tries' <= tries
  BY <1>0, FiniteAttempts, AttemptsStep, CountNone
<1>3. m = Msg(d) =>
        tries' + Worth(pc[d] \in BeforeRun) <= tries + Worth(pc'[d] \in BeforeRun)
  BY <1>0, <1>1, AttemptsStep DEF Worth
<1> HIDE DEF tries
<1>4. CASE Complete(d)
  <2>1. runs' = runs /\ mishaps' = mishaps /\ pc'[d] = "over"
    BY <1>0, <1>4, GotoMoves DEF Complete, history, Moves
  <2>2. Awaited(m)' => Awaited(m)
    BY <1>0, <1>4, CompleteStep
  <2> QED
    BY <1>0, <1>1, <1>2, <1>3, <2>1, <2>2 DEF Worth, BeforeRun, tries
<1>5. CASE ~Complete(d) /\ m # Msg(d)
  <2>1. Account(d, commits, Trying, Unheld(d)) /\ UNCHANGED host
    BY <1>0, <1>5, CommitAccount
  <2>2. runs'[m] = runs[m] /\ (mishaps' = mishaps \/ mishaps' = mishaps + 1)
    BY <1>0, <1>5, <2>1, RunsOwn DEF Account, CountRun, HistoryOK
  <2>3. Awaited(m)' => Awaited(m)
    BY <1>0, <1>5, <2>1, AwaitedStep
  <2> QED
    BY <1>0, <1>1, <1>2, <1>5, <2>2, <2>3 DEF Worth, tries
<1>6. CASE ~Complete(d) /\ m = Msg(d)
  <2>1. Account(d, runs, BeforeRun, FALSE)
    BY <1>0, <1>6, RunAccount
  <2>2. Awaited(m)' => Awaited(m) \/ pc'[d] = "over"
    BY <1>0, <1>6, CommitAccount, AwaitedStep
  <2>3. Adds(runs, d) => runs'[m] = runs[m] + 1
    BY <1>0, <1>6 DEF Adds, HistoryOK
  <2>4. "over" \notin BeforeRun
    BY DEF BeforeRun
  <2> QED
    BY <1>0, <1>1, <1>3, <1>6, <2>1, <2>2, <2>3, <2>4 DEF Account, Worth, tries
<1> QED
  BY <1>4, <1>5, <1>6

\* A message that comes back to run its handlers again is a mishap.
LEMMA RunsKept ==
    ASSUME TypeOK, RunsPaid, UNCHANGED runs,
           mishaps' \in {mishaps, mishaps + 1},
           \A m \in Messages :
               /\ AttemptsAt(m, BeforeRun)' \subseteq AttemptsAt(m, BeforeRun)
               /\ Awaited(m)' => Awaited(m) \/ mishaps' = mishaps + 1
    PROVE  RunsPaid'
<1> SUFFICES ASSUME NEW m \in Messages \ Starting
             PROVE  runs'[m] + Cardinality(AttemptsAt(m, BeforeRun)')
                      + Worth(Awaited(m)') <= 1 + mishaps'
  BY DEF RunsPaid
<1>0. mishaps \in Nat /\ runs[m] \in Nat
  BY TypeParts, Settings DEF HistoryOK, LocalsOK
<1> DEFINE tries == Cardinality(AttemptsAt(m, BeforeRun))
<1>1. /\ {tries, tries'} \subseteq Nat /\ tries' <= tries
      /\ runs[m] + tries + Worth(Awaited(m)) <= 1 + mishaps
      /\ Awaited(m)' => Awaited(m) \/ mishaps' = mishaps + 1
  BY FiniteAttempts, CountNone DEF RunsPaid
<1> HIDE DEF tries
<1> QED
  BY <1>0, <1>1 DEF Worth, tries

\* A new attempt may run the handler that was awaited.
LEMMA RunsReceive ==
    ASSUME TypeOK, RunsPaid, NEW r \in Messages, Receive(r)
    PROVE  RunsPaid'
<1> SUFFICES ASSUME NEW m \in Messages \ Starting
             PROVE  runs'[m] + Cardinality(AttemptsAt(m, BeforeRun)')
                      + Worth(Awaited(m)') <= 1 + mishaps'
  BY DEF RunsPaid
<1>0. mishaps \in Nat /\ runs[m] \in Nat /\ UNCHANGED <<runs, mishaps>>
  BY TypeParts, Settings DEF HistoryOK, LocalsOK, Receive, history
<1>1. PICK d \in Deliveries :
        /\ Msg(d) = r
        /\ \A e \in Deliveries \ {d} : pc'[e] = pc[e]
        /\ IF m = r THEN Awaited(m) /\ ~Awaited(m)' ELSE Awaited(m)' => Awaited(m)
  BY AwaitedReceive
<1> DEFINE tries == Cardinality(AttemptsAt(m, BeforeRun))
<1>2. /\ {tries, tries'} \subseteq Nat
      /\ tries' + Worth(d[2] \in AttemptsAt(m, BeforeRun))
           <= tries + Worth(d[2] \in AttemptsAt(m, BeforeRun)')
      /\ m # r => tries' <= tries
  BY <1>1, FiniteAttempts, AttemptsStep, CountOne, CountNone
<1>3. runs[m] + tries + Worth(Awaited(m)) <= 1 + mishaps
  BY DEF RunsPaid
<1> HIDE DEF tries
<1> QED
  BY <1>0, <1>1, <1>2, <1>3 DEF Worth, tries

\* Every step keeps the runs paid for.
LEMMA RunsNext ==
    ASSUME TurnsGuarded, IndInv, HiddenIsDelivered, RunsPaid, [Next]_vars
    PROVE  RunsPaid'
<1>0. TypeOK /\ LocalsOK /\ HostOK
  BY TypeParts DEF IndInv
<1>1. ASSUME NEW d \in Deliveries, Step(d) PROVE RunsPaid'
  BY <1>1, RunsStep
<1>2. ASSUME NEW d \in Deliveries, Crash(d) PROVE RunsPaid'
  <2>1. /\ pc'[d] = "over" /\ \A e \in Deliveries \ {d} : pc'[e] = pc[e]
        /\ mishaps' = mishaps + 1 /\ UNCHANGED runs
    BY <1>0, <1>2, GotoMoves DEF Crash, Moves, Mishap, history
  <2>2. \A m \in Messages : AttemptsAt(m, BeforeRun)' \subseteq AttemptsAt(m, BeforeRun)
    BY <2>1 DEF AttemptsAt, BeforeRun
  <2> QED
    BY <1>0, <2>1, <2>2, RunsKept
<1>3. ASSUME NEW r \in Messages, Receive(r) PROVE RunsPaid'
  BY <1>0, <1>3, RunsReceive
<1>4. ASSUME NEW r \in Messages, VisibilityTimeout(r) \/ Redeliver(r) \/ Poison(r)
      PROVE  RunsPaid'
  <2>1. \A m \in Messages : AttemptsAt(m, BeforeRun)' = AttemptsAt(m, BeforeRun)
    BY <1>0, <1>4, AwaitedHost DEF AttemptsAt
  <2> QED
    BY <1>0, <1>4, <2>1, AwaitedHost, RunsKept DEF history
<1>5. ASSUME UNCHANGED <<pc, host, runs>>, mishaps' \in {mishaps, mishaps + 1}
      PROVE  RunsPaid'
  <2>1. \A m \in Messages : /\ AttemptsAt(m, BeforeRun)' = AttemptsAt(m, BeforeRun)
                            /\ Awaited(m)' <=> Awaited(m)
    BY <1>5 DEF AttemptsAt, Awaited, Abandoned, host
  <2> QED
    BY <1>0, <1>5, <2>1, RunsKept
<1>6. ASSUME NEW l \in LockIds, Expire(l) \/ LoseLease(l) PROVE RunsPaid'
  BY <1>5, <1>6 DEF Expire, LoseLease, Mishap, history
<1>7. CASE UNCHANGED vars
  BY <1>5, <1>7 DEF vars, history
<1> QED
  BY <1>1, <1>2, <1>3, <1>4, <1>6, <1>7 DEF Next, Terminating

\* Where sagas are locked, leases outlast the handlers and no saga is deleted,
\* the handler of a correlated command completes once, and once more for every
\* mishap: an attempt that has to wait is refused before it comes to run it.
THEOREM RunsOwed == ASSUME TurnsGuarded PROVE Spec => []HandledOnce
<1>1. Init => RunsPaid
  <2> SUFFICES ASSUME Init, NEW m \in Messages
               PROVE  runs[m] + Cardinality(AttemptsAt(m, BeforeRun))
                        + Worth(Awaited(m)) <= 1 + mishaps
    BY DEF RunsPaid
  <2>1. AttemptsAt(m, BeforeRun) = {}
    BY DEF Init, AttemptsAt, BeforeRun
  <2>2. Cardinality(AttemptsAt(m, BeforeRun)) = 0 /\ runs[m] = 0 /\ mishaps = 0
    BY <2>1, FS_EmptySet DEF Init
  <2>3. Worth(Awaited(m)) \in {0, 1}
    BY DEF Worth
  <2> QED
    BY <2>2, <2>3
<1>2. Init => HiddenIsDelivered
  BY DEF Init, HiddenIsDelivered
<1>3. IndInv /\ HiddenIsDelivered /\ RunsPaid /\ [Next]_vars
      => (HiddenIsDelivered /\ RunsPaid)'
  BY RunsNext, HiddenNext DEF IndInv
<1>4. IndInv /\ RunsPaid => HandledOnce
  <2> SUFFICES ASSUME IndInv, RunsPaid, NEW m \in Messages \ Starting
               PROVE  runs[m] <= 1 + mishaps
    BY DEF HandledOnce
  <2>1. runs[m] \in Nat /\ mishaps \in Nat
    BY TypeParts, Settings DEF IndInv, HistoryOK, LocalsOK
  <2>2. Cardinality(AttemptsAt(m, BeforeRun)) \in Nat
    BY FiniteAttempts, FS_CardinalityType
  <2> QED
    BY <2>1, <2>2 DEF RunsPaid, Worth
<1> QED
  BY <1>1, <1>2, <1>3, <1>4, Invariance, PTL DEF Spec
----------------------------------------------------------------------------
(* Leases left behind *)

\* Every saga is started by one command at most.
SoleStarters == \A m, n \in Starting : KeyOf[m] = KeyOf[n] => m = n

\* The calls of CreateLock and DeleteLock are made with locks only.
LocksUsed ==
    \A d \in Deliveries :
        pc[d] \in {"upload", "acquire", "insertUpload", "insertAcquire"} => LockSagas

\* Attempts are numbered as they are received.
Numbered == \A d \in Deliveries : d[2] > dequeues[Msg(d)] => pc[d] = "idle"

\* A row is there because a command that starts its saga has inserted it.
RowsStarted ==
    \A k \in Keys : row[k] # NoRow => \E m \in Starting : KeyOf[m] = k /\ commits[m] > 0

\* d was to start a saga that another command had started, and forgot its lock.
Forgot(d) == pc[d] = "over" /\ Msg(d) \in Starting /\ ~SoleStarters

\* Until a mishap, the owner of a live lease will give it back, or forgot it.
LeasesUsed ==
    mishaps = 0 => \A l \in leased :
        \E d \in Deliveries :
            /\ LockSagas /\ Holds(d, l) /\ Lock(d) = l
            /\ pc[d] \in LockedSteps \cup {"undo"} \/ Forgot(d)

LeaksInv == LocksUsed /\ Numbered /\ RowsStarted /\ LeasesUsed

\* What an outcome leads to, for the steps that call the locker.
LEMMA LocksUsedStep ==
    ASSUME LocalsOK, LocksUsed, NEW d \in Deliveries, Step(d)
    PROVE  LocksUsed'
<1>1. Outcome(d) /\ \A e \in Deliveries \ {d} : pc'[e] = pc[e]
  BY StepOutcome, OutcomeMoves DEF Moves, Reads
<1>2. pc'[d] \in {"upload", "acquire", "insertUpload", "insertAcquire"} =>
        LockSagas
  BY <1>1 DEF Outcome, Moves, Fails, Reads, AfterMiss, AfterHandler, LocksUsed
<1> QED
  BY <1>1, <1>2 DEF LocksUsed

\* Rows come from InsertAsync, and the count of a message's changes only grows.
LEMMA RowsStep ==
    ASSUME TypeOK, OnPath, RowsStarted, NEW d \in Deliveries, Step(d)
    PROVE  RowsStarted'
<1>0. LocalsOK /\ HistoryOK /\ StorageTypeOK /\ Msg(d) \in Messages /\ Key(d) \in Keys
  BY TypeParts, DeliveryTyped
<1>1. commits' = commits \/ Commit(d)
  BY <1>0, StepHistory
<1>2. /\ \A m \in Messages : commits[m] > 0 => commits'[m] > 0
      /\ Commit(d) => commits'[Msg(d)] > 0
  <2>1. commits \in [Messages -> Nat]
    BY <1>0 DEF HistoryOK
  <2>2. CASE Commit(d)
    <3>1. commits'[Msg(d)] = commits[Msg(d)] + 1
      BY <1>0, <2>1, <2>2 DEF Commit
    <3>2. \A m \in Messages \ {Msg(d)} : commits'[m] = commits[m]
      BY <1>0, <2>1, <2>2 DEF Commit
    <3> QED
      BY <1>0, <2>1, <3>1, <3>2
  <2> QED
    BY <1>1, <2>2
<1>3. ASSUME \A k \in Keys : row'[k] # NoRow => row[k] # NoRow PROVE RowsStarted'
  BY <1>2, <1>3, CommandKinds DEF RowsStarted
<1>4. CASE UNCHANGED table \/ DeleteSaga(d)
  BY <1>0, <1>3, <1>4 DEF table, DeleteSaga, DeleteRow, Failed, StorageTypeOK
<1>5. CASE Replace(d)
  <2>1. \A k \in Keys : row'[k] # NoRow => row[k] # NoRow
    BY <1>0, <1>5
    DEF Replace, ReplaceRow, MatchesETag, Failed, table, StorageTypeOK
  <2> QED
    BY <1>3, <2>1
<1>6. CASE Insert(d) /\ ~UNCHANGED table
  <2>1. Commit(d) /\ Msg(d) \in Starting /\ InsertRow(Key(d), <<Msg(d)>>)
    BY <1>6 DEF Insert, Failed, OnPath
  <2>2. \A k \in Keys \ {Key(d)} : row'[k] = row[k]
    BY <1>0, <2>1 DEF InsertRow, StorageTypeOK
  <2> QED
    BY <1>2, <2>1, <2>2, CommandKinds DEF RowsStarted
<1>7. UNCHANGED table \/ DeleteSaga(d) \/ Replace(d) \/ Insert(d)
  BY DEF Step, UploadLock, AcquireLock, Retrieve, DropLock, Handle, Release, Undo,
         DeleteLock, DeleteBlobs, Create, Complete, Failed
<1> QED
  BY <1>4, <1>5, <1>6, <1>7

\* The Insert of a saga that one command starts finds no row: that command has
\* not changed the table yet.
LEMMA InsertUnopposed ==
    ASSUME TypeOK, OnPath, RowsStarted, CommitsPaid, SoleStarters, mishaps = 0,
           NEW d \in Deliveries, pc[d] = "insert"
    PROVE  InsertAllowed(Key(d))
<1>0. /\ HistoryOK /\ Msg(d) \in Messages \cap Starting /\ Key(d) \in Keys
      /\ d = <<Msg(d), d[2]>> /\ d[2] \in 1..MaxDequeueCount
  BY TypeParts, DeliveryTyped DEF OnPath
<1>1. commits[Msg(d)] = 0
  <2> DEFINE open == AttemptsAt(Msg(d), Trying)
  <2>1. d[2] \in open
    BY <1>0 DEF AttemptsAt, Trying, InTry
  <2>2. IsFiniteSet(open) /\ Cardinality(open) \in Nat
    BY FiniteAttempts, FS_CardinalityType
  <2>3. Cardinality(open) # 0
    BY <2>1, <2>2, FS_EmptySet
  <2>4. Cardinality(Losers(Msg(d))) \in Nat /\ Worth(Awaited(Msg(d))) \in {0, 1}
    BY FiniteAttempts, FS_CardinalityType DEF Worth
  <2>5. /\ commits[Msg(d)] \in Nat
        /\ commits[Msg(d)] + Cardinality(open) + Cardinality(Losers(Msg(d)))
             + Worth(Awaited(Msg(d))) <= 1 + mishaps
    BY <1>0 DEF CommitsPaid, HistoryOK
  <2> HIDE DEF open
  <2> QED
    BY <2>2, <2>3, <2>4, <2>5
<1>2. ASSUME NEW m \in Starting, KeyOf[m] = Key(d) PROVE commits[m] = 0
  BY <1>0, <1>1, <1>2 DEF SoleStarters
<1> QED
  BY <1>0, <1>2 DEF RowsStarted, InsertAllowed

\* The Insert of an attempt that finds the saga of its command.
RefusedInsert(d) == pc[d] = "insert" /\ ~InsertAllowed(Key(d))

\* A step of an attempt gives back the lease that the attempt holds, or goes on
\* with it, unless its Insert is refused.
LEMMA HolderStep ==
    ASSUME IndInv, LocksUsed, RowsStarted, CommitsPaid, NEW d \in Deliveries, Step(d),
           mishaps = 0, mishaps' = 0, LockSagas, Holds(d, Lock(d)),
           pc[d] \in LockedSteps \cup {"undo"}
    PROVE  \/ ~Holds(d, Lock(d))'
           \/ pc'[d] \in LockedSteps \cup {"undo"}
           \/ RefusedInsert(d) /\ Forgot(d)'
<1>0. /\ TypeOK /\ OnPath /\ EntityLoaded /\ LocalsOK /\ StorageTypeOK
      /\ Lock(d) \in LockIds /\ Msg(d) \in Messages
  BY TypeParts, DeliveryTyped DEF IndInv
<1>1. \A step : Goto(d, step) => pc'[d] = step
  BY <1>0, GotoMoves DEF Moves
<1>2. \A kind : ~Mishap(kind)
  BY DEF Mishap
<1>3. pc[d] \in InTry => (Raise(d) => pc'[d] = "undo")
  BY <1>1 DEF Raise
<1>4. /\ ReleaseAllowed(Lock(d), d) /\ DeleteAllowed(Lock(d), d)
      /\ ReleaseLease(Lock(d)) => ~Holds(d, Lock(d))'
      /\ DeleteLockBlob(Lock(d)) => ~Holds(d, Lock(d))'
  BY DEF Holds, ReleaseAllowed, DeleteAllowed, ReleaseLease, DeleteLockBlob
<1> USE DEF Answered, Failed, InTry, LockedSteps
<1>5. CASE UploadLock(d) \/ AcquireLock(d) \/ DeleteSaga(d) \/ DeleteBlobs(d) \/ Create(d)
           \/ Complete(d)
  BY <1>5 DEF UploadLock, AcquireLock, DeleteSaga, DeleteBlobs, Create, Complete
<1>6. CASE Retrieve(d)
  BY <1>0, <1>1, <1>2, <1>6 DEF Retrieve, LocalsOK
<1>7. CASE Handle(d)
  BY <1>1, <1>3, <1>7 DEF Handle, AfterHandler
<1>8. CASE Replace(d)
  BY <1>1, <1>2, <1>3, <1>8 DEF Replace
<1>9. CASE DropLock(d) \/ DeleteLock(d)
  BY <1>2, <1>4, <1>9 DEF DropLock, DeleteLock
<1>10. CASE Release(d) \/ Undo(d)
  BY <1>2, <1>4, <1>10 DEF Release, Undo
<1>11. CASE Insert(d)
  <2>1. CASE InsertAllowed(Key(d))
    BY <1>1, <1>2, <1>11, <2>1 DEF Insert
  <2>2. CASE ~InsertAllowed(Key(d))
    <3>1. pc'[d] = "over"
      BY <1>1, <1>11, <2>2 DEF Insert, Raise
    <3>2. Msg(d) \in Starting /\ ~SoleStarters
      BY <1>0, <1>11, <2>2, InsertUnopposed DEF Insert, OnPath
    <3> QED
      BY <1>11, <2>2, <3>1, <3>2 DEF Forgot, RefusedInsert, Insert
  <2> QED
    BY <2>1, <2>2
<1> QED
  BY <1>5, <1>6, <1>7, <1>8, <1>9, <1>10, <1>11 DEF Step

\* A lease that a step of an attempt leaves live was live, or is that attempt's.
LEMMA LeasesStep ==
    ASSUME IndInv, LeaksInv, CommitsPaid, NEW d \in Deliveries, Step(d)
    PROVE  LeasesUsed'
<1>0. /\ TypeOK /\ LocalsOK /\ StorageTypeOK /\ Lock(d) \in LockIds /\ mishaps \in Nat
      /\ Outcome(d) /\ \A e \in Deliveries \ {d} : pc'[e] = pc[e]
  BY TypeParts, DeliveryTyped, StepOutcome, OutcomeMoves, Settings
  DEF IndInv, LocalsOK, Moves, Reads
<1> SUFFICES ASSUME mishaps' = 0, NEW l \in leased'
             PROVE  \E e \in Deliveries :
                       /\ LockSagas /\ Holds(e, l)' /\ Lock(e) = l
                       /\ pc'[e] \in LockedSteps \cup {"undo"} \/ Forgot(e)'
  BY DEF LeasesUsed
<1>1. mishaps = 0
  BY <1>0 DEF Step, UploadLock, AcquireLock, Retrieve, DropLock, Handle, Replace, Release,
              Undo, DeleteLock, DeleteSaga, DeleteBlobs, Create, Insert, Complete,
              Answered, Failed, Mishap
<1>2. CASE l \notin leased
  <2>1. AcquireLock(d)
    BY <1>0, <1>2
    DEF Step, UploadLock, Retrieve, DropLock, Handle, Replace, Release, Undo, DeleteLock,
        DeleteSaga, DeleteBlobs, Create, Insert, Complete, Failed, UploadText,
        ReleaseLease, DeleteLockBlob, locks
  <2>2. /\ AcquireLease(Lock(d), d) /\ l = Lock(d)
        /\ Answered(d, IF pc[d] = "acquire" THEN "retrieve" ELSE "insert")
        /\ pc[d] \in {"acquire", "insertAcquire"}
    BY <1>0, <1>2, <2>1 DEF AcquireLock, AcquireLease, Failed, locks
  <2>3. pc'[d] \in {"retrieve", "insert"} /\ LockSagas
    <3>1. Goto(d, IF pc[d] = "acquire" THEN "retrieve" ELSE "insert")
      BY <1>1, <2>2 DEF Answered, Mishap
    <3> QED
      BY <1>0, <2>2, <3>1, GotoMoves DEF Moves, LeaksInv, LocksUsed
  <2> QED
    BY <1>0, <2>2, <2>3 DEF AcquireLease, Holds, StorageTypeOK, LockedSteps
<1>3. CASE l \in leased
  <2>1. blob'[l] = blob[l]
    BY <1>0, <1>3, LockEffect
    DEF UploadAllowed, UploadText, AcquireAllowed, AcquireLease, ReleaseLease,
        DeleteLockBlob, locks, StorageTypeOK
  <2>2. PICK e \in Deliveries :
          /\ LockSagas /\ Holds(e, l) /\ Lock(e) = l
          /\ pc[e] \in LockedSteps \cup {"undo"} \/ Forgot(e)
    BY <1>1, <1>3 DEF LeaksInv, LeasesUsed
  <2>3. Holds(e, l)'
    BY <2>1, <2>2 DEF Holds
  <2>4. CASE e # d
    BY <1>0, <2>2, <2>3, <2>4 DEF Forgot
  <2>5. CASE e = d
    <3>1. pc[d] # "over"
      BY DEF Step, UploadLock, AcquireLock, Retrieve, DropLock, Handle, Replace, Release,
             Undo, DeleteLock, DeleteSaga, DeleteBlobs, Create, Insert, Complete
    <3>2. pc'[d] \in LockedSteps \cup {"undo"} \/ Forgot(d)'
      BY <1>1, <2>2, <2>3, <2>5, <3>1, HolderStep DEF Forgot, LeaksInv
    <3> QED
      BY <2>2, <2>3, <2>5, <3>2
  <2> QED
    BY <2>4, <2>5
<1> QED
  BY <1>2, <1>3

\* A new attempt has never run, and holds no lease.
LEMMA LeaksReceive ==
    ASSUME TypeOK, LeaksInv, NEW r \in Messages, Receive(r)
    PROVE  LeaksInv'
<1>0. LocalsOK /\ HostOK
  BY TypeParts
<1>1. PICK d \in Deliveries : d = <<r, dequeues[r] + 1>> /\ Msg(d) = r
  BY <1>0, Settings DEF Receive, HostOK
<1>2. /\ pc'[d] = FirstStep(r) /\ \A e \in Deliveries \ {d} : pc'[e] = pc[e]
      /\ dequeues'[r] = dequeues[r] + 1
      /\ \A m \in Messages \ {r} : dequeues'[m] = dequeues[m]
      /\ UNCHANGED <<row, blob, leased, mishaps, commits>>
  BY <1>0, <1>1 DEF Receive, LocalsOK, HostOK, table, locks, history
<1>3. pc[d] = "idle"
  BY <1>0, <1>1 DEF LeaksInv, Numbered, HostOK
<1>4. LocksUsed'
  BY <1>2 DEF LeaksInv, LocksUsed, FirstStep
<1>5. Numbered'
  <2> SUFFICES ASSUME NEW e \in Deliveries, e[2] > dequeues'[Msg(e)] PROVE pc'[e] = "idle"
    BY DEF Numbered
  <2>1. Msg(e) \in Messages /\ e[2] \in Nat /\ dequeues[Msg(e)] \in Nat /\ dequeues[r] \in Nat
    BY <1>0, DeliveryTyped DEF HostOK
  <2>2. e # d
    BY <1>1, <1>2, <2>1
  <2>3. e[2] > dequeues[Msg(e)]
    BY <1>2, <2>1
  <2> QED
    BY <1>2, <2>2, <2>3 DEF LeaksInv, Numbered
<1>6. RowsStarted'
  BY <1>2 DEF LeaksInv, RowsStarted
<1>7. LeasesUsed'
  BY <1>2, <1>3 DEF LeaksInv, LeasesUsed, Holds, Forgot, LockedSteps
<1> QED
  BY <1>4, <1>5, <1>6, <1>7 DEF LeaksInv

\* What LeaksInv speaks of, left as it is or given up.
LEMMA LeaksKept ==
    ASSUME LeaksInv, UNCHANGED <<row, pc, dequeues, blob, commits>>, leased' \subseteq leased,
           mishaps' = mishaps \/ mishaps' # 0
    PROVE  LeaksInv'
BY DEF LeaksInv, LocksUsed, Numbered, RowsStarted, LeasesUsed, Holds, Forgot

\* Every step keeps track of the leases.
LEMMA LeaksNext ==
    ASSUME IndInv, CommitsPaid, LeaksInv, [Next]_vars
    PROVE  LeaksInv'
<1>0. TypeOK /\ LocalsOK /\ HostOK /\ OnPath /\ mishaps \in Nat
  BY TypeParts, Settings DEF IndInv, LocalsOK
<1>1. \A kind : Mishap(kind) => mishaps' # 0
  BY <1>0 DEF Mishap
<1>2. ASSUME NEW d \in Deliveries, Step(d) PROVE LeaksInv'
  <2>1. UNCHANGED dequeues /\ \A e \in Deliveries \ {d} : pc'[e] = pc[e]
    BY <1>0, <1>2, StepHistory, CommitAccount DEF Complete, host
  <2>2. pc[d] # "idle"
    BY <1>2
    DEF Step, UploadLock, AcquireLock, Retrieve, DropLock, Handle, Replace, Release, Undo,
        DeleteLock, DeleteSaga, DeleteBlobs, Create, Insert, Complete
  <2>3. Numbered'
    BY <2>1, <2>2 DEF LeaksInv, Numbered
  <2> QED
    BY <1>0, <1>2, <2>3, LocksUsedStep, RowsStep, LeasesStep DEF LeaksInv
<1>3. ASSUME NEW d \in Deliveries, Crash(d) PROVE LeaksInv'
  <2>1. /\ pc'[d] = "over" /\ \A e \in Deliveries \ {d} : pc'[e] = pc[e]
        /\ pc[d] # "idle" /\ mishaps' # 0
        /\ UNCHANGED <<row, dequeues, commits>>
    BY <1>0, <1>1, <1>3, GotoMoves DEF Crash, Moves, Idle, table, host, history
  <2> QED
    BY <2>1 DEF LeaksInv, LocksUsed, Numbered, RowsStarted, LeasesUsed
<1>4. ASSUME NEW r \in Messages, Receive(r) PROVE LeaksInv'
  BY <1>0, <1>4, LeaksReceive
<1>5. ASSUME NEW r \in Messages, VisibilityTimeout(r) \/ Redeliver(r) \/ Poison(r)
      PROVE  LeaksInv'
  BY <1>1, <1>5, LeaksKept
  DEF VisibilityTimeout, Redeliver, Poison, table, locks, history
<1>6. ASSUME NEW l \in LockIds, Expire(l) \/ LoseLease(l) PROVE LeaksInv'
  BY <1>1, <1>6, LeaksKept DEF Expire, LoseLease, ExpireLease, table, host, history
<1>7. CASE UNCHANGED vars
  BY <1>7, LeaksKept DEF vars, table, locks, host, history
<1> QED
  BY <1>2, <1>3, <1>4, <1>5, <1>6, <1>7 DEF Next, Terminating

\* The leases are tracked in every behaviour.
LEMMA LeaksTracked == Spec => [](IndInv /\ CommitsPaid /\ LeaksInv)
<1>1. Init => HiddenIsDelivered /\ CommitsPaid
  BY HistoryInit
<1>2. Init => LeaksInv
  BY DEF Init, StorageInit, LeaksInv, LocksUsed, Numbered, RowsStarted, LeasesUsed
<1>3. IndInv /\ HiddenIsDelivered /\ CommitsPaid /\ LeaksInv /\ [Next]_vars
      => (HiddenIsDelivered /\ CommitsPaid /\ LeaksInv)'
  BY CommitsNext, HiddenNext, LeaksNext DEF IndInv
<1> QED
  BY <1>1, <1>2, <1>3, Invariance, TypeCorrect, PTL DEF Spec

\* An attempt that ends with a lease ends at a refused Insert.
LEMMA LeaksAtInsert ==
    ASSUME IndInv, CommitsPaid, LeaksInv, NEW d \in Deliveries, Step(d), mishaps' = 0,
           NEW l \in leased', blob'[l] = d, pc'[d] \in Idle
    PROVE  RefusedInsert(d)
<1>0. /\ TypeOK /\ LocalsOK /\ StorageTypeOK /\ Lock(d) \in LockIds /\ mishaps \in Nat
      /\ Outcome(d)
  BY TypeParts, DeliveryTyped, StepOutcome, Settings DEF IndInv, LocalsOK
<1>1. mishaps = 0
  BY <1>0 DEF Step, UploadLock, AcquireLock, Retrieve, DropLock, Handle, Replace, Release,
              Undo, DeleteLock, DeleteSaga, DeleteBlobs, Create, Insert, Complete,
              Answered, Failed, Mishap
<1>2. CASE AcquireLock(d) /\ ~UNCHANGED locks
  <2>1. Goto(d, IF pc[d] = "acquire" THEN "retrieve" ELSE "insert")
    BY <1>1, <1>2 DEF AcquireLock, Answered, Failed, Mishap
  <2> QED
    BY <1>0, <2>1, GotoMoves DEF Moves, Idle
<1>3. CASE ~AcquireLock(d) \/ UNCHANGED locks
  <2>1. l \in leased /\ blob[l] = d
    BY <1>0, <1>3
    DEF Step, UploadLock, Retrieve, DropLock, Handle, Replace, Release, Undo, DeleteLock,
        DeleteSaga, DeleteBlobs, Create, Insert, Complete, Failed, UploadText,
        UploadAllowed, ReleaseLease, DeleteLockBlob, locks, StorageTypeOK
  <2>2. /\ LockSagas /\ Holds(d, l) /\ Lock(d) = l
        /\ pc[d] \in LockedSteps \cup {"undo"} \/ Forgot(d)
    BY <1>1, <2>1 DEF LeaksInv, LeasesUsed, Holds
  <2>3. ~Forgot(d)
    BY DEF Forgot, Step, UploadLock, AcquireLock, Retrieve, DropLock, Handle, Replace,
           Release, Undo, DeleteLock, DeleteSaga, DeleteBlobs, Create, Insert, Complete
  <2>4. Holds(d, Lock(d))'
    BY <2>2 DEF Holds
  <2>5. pc'[d] \notin LockedSteps \cup {"undo"}
    BY DEF Idle, LockedSteps
  <2> QED
    BY <1>1, <2>2, <2>3, <2>4, <2>5, HolderStep DEF LeaksInv
<1> QED
  BY <1>2, <1>3

\* The same of every step: no other attempt ends by it.
LEMMA LeaksOnlyAtInsert ==
    ASSUME IndInv, CommitsPaid, LeaksInv, [Next]_vars, mishaps' = 0, NEW l \in leased',
           pc[blob'[l]] \notin Idle, pc'[blob'[l]] \in Idle
    PROVE  RefusedInsert(blob'[l])
<1>0. TypeOK /\ LocalsOK /\ HostOK /\ mishaps \in Nat
  BY TypeParts, Settings DEF IndInv, LocalsOK
<1>1. \A kind : ~Mishap(kind)
  BY <1>0 DEF Mishap
<1>2. blob'[l] \in Deliveries
  BY LeaksNext DEF LeaksInv, LeasesUsed, Holds
<1>3. ASSUME NEW d \in Deliveries, Step(d) PROVE RefusedInsert(blob'[l])
  <2>1. \A e \in Deliveries \ {d} : pc'[e] = pc[e]
    BY <1>0, <1>3, StepOutcome, OutcomeMoves DEF Moves, Reads
  <2> QED
    BY <1>3, <1>2, <2>1, LeaksAtInsert
<1>4. ASSUME NEW r \in Messages, Receive(r) PROVE FALSE
  <2>1. PICK d \in Deliveries : d = <<r, dequeues[r] + 1>>
    BY <1>0, <1>4, Settings DEF Receive, HostOK
  <2>2. pc' = [pc EXCEPT ![d] = FirstStep(r)] /\ FirstStep(r) \notin Idle
    BY <1>4, <2>1 DEF Receive, FirstStep, Idle
  <2> QED
    BY <1>0, <2>2 DEF LocalsOK
<1>5. CASE UNCHANGED pc
  BY <1>5
<1> QED
  BY <1>1, <1>3, <1>4, <1>5
  DEF Next, Crash, VisibilityTimeout, Redeliver, Poison, Expire, LoseLease, Terminating,
      vars

\* InsertAsync is the only place that forgets a lock: until a process dies or a
\* call fails by itself, an attempt that ends with its lease ends at an Insert
\* refused because the saga exists.
THEOREM LeaksAreInserts == Spec => OnlyInsertLeaks
<1> DEFINE Kept ==
      mishaps' = 0 =>
         \A l \in leased' :
            LET owner == blob'[l] IN
            pc[owner] \notin Idle /\ pc'[owner] \in Idle =>
                pc[owner] = "insert" /\ ~InsertAllowed(Key(owner))
<1>1. IndInv /\ CommitsPaid /\ LeaksInv /\ [Next]_vars => [Kept]_vars
  BY LeaksOnlyAtInsert DEF RefusedInsert
<1>2. Spec => [](IndInv /\ CommitsPaid /\ LeaksInv)
  BY LeaksTracked
<1> QED
  BY <1>1, <1>2, PTL DEF Spec, OnlyInsertLeaks

\* Where every saga is started by one command, InsertAsync forgets none either:
\* its Insert is not refused, however often the command is tried again.
THEOREM LocksAreFreed == ASSUME SoleStarters PROVE Spec => []LockFreed
<1>1. IndInv /\ LeaksInv => LockFreed
  BY DEF LeaksInv, LeasesUsed, LockFreed, Forgot, Holds, LockedSteps, Idle
<1> QED
  BY <1>1, LeaksTracked, PTL
=============================================================================

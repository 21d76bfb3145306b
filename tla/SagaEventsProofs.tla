-------------------------- MODULE SagaEventsProofs --------------------------
(***************************************************************************)
(* Theorems about SagaEvents, for every set of events, commands, keys and  *)
(* lock names, every table order, every number of deliveries and mishaps.  *)
(***************************************************************************)
EXTENDS SagaEvents, TLAPS, FiniteSetTheorems, SequenceTheorems

\* The steps of an event's attempts, and what is between them.
Places == Turn \cup {"query", "undo", "done"} \cup Resting

\* What the attempts remember is well typed.
LocalsOK ==
    /\ pc \in [Events -> Places]
    /\ asked \in [Events -> 0..Len(KeyOrder)]
    /\ sagasData \in [Events -> Seq(Snapshot)]
    /\ entity \in [Messages -> Row \cup {NoRow}]

\* The deliveries, the commands and the histories are well typed.
RestOK ==
    /\ tries \in [Events -> 0..MaxTries]
    /\ pending \in SUBSET Commands
    /\ mishaps \in 0..MaxMishaps
    /\ kept \in [Keys -> Seq(Messages)]
    /\ waiting \in [Events -> SUBSET Keys]
    /\ served \in SUBSET (Events \X Keys)

\* A saga's turn has a saga.
SagaAtHand == \A e \in Events : pc[e] \in Turn \cup {"undo"} => sagasData[e] # <<>>

\* After the second read there is something to write.
EntityAtHand ==
    \A e \in Events :
        pc[e] \in {"handle", "replace", "release", "deleteLock", "deleteRow", "deleteBlobs"}
            => entity[e] # NoRow

TypeInv == StorageTypeOK /\ LocalsOK /\ RestOK /\ SagaAtHand /\ EntityAtHand

\* TypeOK by parts.
LEMMA TypeParts == TypeOK <=> StorageTypeOK /\ LocalsOK /\ RestOK
BY DEF TypeOK, LocalsOK, RestOK, Places

\* The saga whose turn it is has a key, a lock name and data.
LEMMA CurrentTyped ==
    ASSUME LocalsOK, NEW e \in Events, sagasData[e] # <<>>
    PROVE  /\ sagasData[e] \in Seq(Snapshot)
           /\ Head(sagasData[e]) \in Snapshot
           /\ Tail(sagasData[e]) \in Seq(Snapshot)
           /\ Current(e) \in Keys
           /\ Lock(e) = LockOf[Current(e)]
           /\ Lock(e) \in LockIds
           /\ e \in Leases /\ e \in Messages
<1>1. sagasData[e] \in Seq(Snapshot)
  BY DEF LocalsOK
<1>2. Head(sagasData[e]) \in Snapshot /\ Tail(sagasData[e]) \in Seq(Snapshot)
  BY <1>1, HeadTailProperties
<1>3. Current(e) \in Keys
  BY <1>2 DEF Current, Snapshot
<1> QED
  BY <1>1, <1>2, <1>3, KeysAndLocks, LeasePerEvent, MessageKinds DEF Lock

----------------------------------------------------------------------------
(* How one attempt moves *)

\* Only what the attempt of e remembers changes.
OnlyMine(e) ==
    /\ pc' = [pc EXCEPT ![e] = pc'[e]]
    /\ asked' = [asked EXCEPT ![e] = asked'[e]]
    /\ sagasData' = [sagasData EXCEPT ![e] = sagasData'[e]]
    /\ entity' = [entity EXCEPT ![e] = entity'[e]]

\* e goes to step and remembers what it did.
Moves(e, step) ==
    /\ OnlyMine(e)
    /\ pc'[e] = step
    /\ asked'[e] = asked[e] /\ sagasData'[e] = sagasData[e] /\ entity'[e] = entity[e]

\* The attempt is over.
Leaves(e) ==
    /\ OnlyMine(e)
    /\ pc'[e] = "queued" /\ asked'[e] = 0
    /\ sagasData'[e] = <<>> /\ entity'[e] = NoRow

\* The turn of one saga ends.
Turns(e) ==
    /\ OnlyMine(e)
    /\ pc'[e] = IF Len(sagasData[e]) > 1 THEN FirstStep ELSE "done"
    /\ asked'[e] = asked[e] /\ sagasData'[e] = Tail(sagasData[e]) /\ entity'[e] = NoRow

\* The query answers for the keys up to number hi.
Finds(e, hi, segment) ==
    /\ OnlyMine(e)
    /\ asked'[e] = hi
    /\ sagasData'[e] = sagasData[e] \o segment
    /\ entity'[e] = entity[e]
    /\ pc'[e] = IF hi < Len(KeyOrder) THEN "query"
                ELSE IF sagasData'[e] = <<>> THEN "done" ELSE FirstStep

\* The second read.
Reads(e) ==
    /\ OnlyMine(e)
    /\ pc'[e] = "handle"
    /\ row[Current(e)] # NoRow
    /\ asked'[e] = asked[e] /\ sagasData'[e] = sagasData[e]
    /\ entity'[e] = Refreshed(Head(sagasData[e]), row[Current(e)])

\* The others keep what they remember.
LEMMA OthersStay ==
    ASSUME LocalsOK, NEW e \in Events, OnlyMine(e)
    PROVE  /\ \A f \in Events \ {e} :
                 pc'[f] = pc[f] /\ asked'[f] = asked[f] /\ sagasData'[f] = sagasData[f]
           /\ \A m \in Messages \ {e} : entity'[m] = entity[m]
BY DEF LocalsOK, OnlyMine

\* An attempt that leaves well-typed values leaves the locals well typed.
LEMMA MineTyped ==
    ASSUME LocalsOK, NEW e \in Events, OnlyMine(e),
           pc'[e] \in Places, asked'[e] \in 0..Len(KeyOrder),
           sagasData'[e] \in Seq(Snapshot), entity'[e] \in Row \cup {NoRow}
    PROVE  LocalsOK'
BY DEF LocalsOK, OnlyMine

\* Goto moves the attempt it names and no other.
LEMMA GotoMoves ==
    ASSUME LocalsOK, NEW e \in Events, NEW step, Goto(e, step)
    PROVE  Moves(e, step)
BY MessageKinds DEF LocalsOK, Goto, Moves, OnlyMine, memory

\* GiveUp ends the attempt.
LEMMA GiveUpLeaves ==
    ASSUME LocalsOK, NEW e \in Events, GiveUp(e)
    PROVE  Leaves(e)
BY MessageKinds DEF LocalsOK, GiveUp, Leaves, OnlyMine

\* NextSaga ends a turn.
LEMMA NextSagaTurns ==
    ASSUME LocalsOK, NEW e \in Events, NextSaga(e)
    PROVE  Turns(e)
BY MessageKinds DEF LocalsOK, NextSaga, Turns, OnlyMine

\* What a step of an event's attempt does to the services, to its memory and
\* to the history: the next-state relation without mishaps.
Outcome(e) ==
    \/ pc[e] \in Turn /\ Moves(e, "undo") /\ UNCHANGED <<table, locks, history>>
    \/ Leaves(e) /\ UNCHANGED <<table, locks, history>>
    \/ /\ pc[e] = "query" /\ UNCHANGED <<table, locks, history>>
       /\ \E hi \in (asked[e] + 1)..Len(KeyOrder) : \E segment \in Segments(asked[e] + 1, hi) :
             Finds(e, hi, segment)
    \/ /\ pc[e] = "upload" /\ UploadAllowed(Lock(e)) /\ UploadText(Lock(e))
       /\ Moves(e, "acquire") \/ Moves(e, "undo")
       /\ UNCHANGED <<table, history>>
    \/ /\ pc[e] = "acquire" /\ AcquireAllowed(Lock(e)) /\ AcquireLease(Lock(e), e)
       /\ Moves(e, "retrieve") \/ Moves(e, "undo")
       /\ UNCHANGED <<table, history>>
    \/ /\ pc[e] = "retrieve" /\ UNCHANGED <<table, locks, history>>
       /\ \/ Reads(e)
          \/ LockSagas /\ Moves(e, "dropLock")
    \/ /\ pc[e] = "dropLock" /\ DeleteAllowed(Lock(e), e) /\ DeleteLockBlob(Lock(e))
       /\ Moves(e, "undo")
       /\ UNCHANGED <<table, history>>
    \/ pc[e] = "handle" /\ Moves(e, AfterHandler(e)) /\ UNCHANGED <<table, locks, history>>
    \/ /\ pc[e] = "replace" /\ MatchesETag(Current(e), entity[e])
       /\ ReplaceRow(Current(e), Append(entity[e].log, e)) /\ Changed(e)
       /\ \/ LockSagas /\ Moves(e, "release")
          \/ ~LockSagas /\ Turns(e)
          \/ Moves(e, "undo")
       /\ UNCHANGED locks
    \/ /\ pc[e] = "release" /\ ReleaseAllowed(Lock(e), e) /\ ReleaseLease(Lock(e))
       /\ Turns(e) \/ Moves(e, "undo")
       /\ UNCHANGED <<table, history>>
    \/ /\ pc[e] = "deleteLock" /\ DeleteAllowed(Lock(e), e) /\ DeleteLockBlob(Lock(e))
       /\ Moves(e, "deleteRow") \/ Moves(e, "undo")
       /\ UNCHANGED <<table, history>>
    \/ /\ pc[e] = "deleteRow" /\ MatchesETag(Current(e), entity[e])
       /\ DeleteRow(Current(e)) /\ Gone(Current(e)) /\ served' = served \cup {<<e, Current(e)>>}
       /\ Moves(e, "deleteBlobs") \/ Moves(e, "undo")
       /\ UNCHANGED locks
    \/ pc[e] = "deleteBlobs" /\ Turns(e) /\ UNCHANGED <<table, locks, history>>
    \/ /\ pc[e] = "undo" /\ Releasable(e) /\ ReleaseLease(Lock(e)) /\ Leaves(e)
       /\ UNCHANGED <<table, history>>
    \/ pc[e] = "done" /\ Moves(e, "deleted") /\ UNCHANGED <<table, locks, history>>

\* Every step of an attempt has one of these outcomes.
LEMMA StepOutcome ==
    ASSUME LocalsOK, NEW e \in Events, Step(e)
    PROVE  Outcome(e)
<1>1. \A step : Answered(e, step) => Moves(e, step) \/ Moves(e, "undo")
  BY GotoMoves DEF Answered, Raise
<1>2. \A allowed : Failed(e, allowed) => Moves(e, "undo") /\ UNCHANGED <<table, locks>>
  BY GotoMoves DEF Failed, Raise
<1>3. \A step : Goto(e, step) => Moves(e, step)
  BY GotoMoves
<1>4. Raise(e) => Moves(e, "undo")
  BY GotoMoves DEF Raise
<1>5. Finished(e) => Turns(e) \/ Moves(e, "undo")
  BY GotoMoves, NextSagaTurns DEF Finished, Raise
<1>6. GiveUp(e) => Leaves(e)
  BY GiveUpLeaves
<1>7. CASE Query(e)
  <2>1. CASE GiveUp(e)
    BY <1>6, <1>7, <2>1 DEF Query, Outcome
  <2>2. ASSUME NEW hi \in (asked[e] + 1)..Len(KeyOrder),
               NEW segment \in Segments(asked[e] + 1, hi),
               asked' = [asked EXCEPT ![e] = hi],
               sagasData' = [sagasData EXCEPT ![e] = sagasData[e] \o segment],
               pc' = [pc EXCEPT ![e] = IF hi < Len(KeyOrder) THEN "query"
                                       ELSE IF sagasData[e] \o segment = <<>> THEN "done"
                                       ELSE FirstStep],
               UNCHANGED entity
        PROVE  Finds(e, hi, segment)
    BY <2>2, MessageKinds DEF LocalsOK, Finds, OnlyMine
  <2> QED
    BY <1>7, <2>1, <2>2 DEF Query, Outcome
<1>8. CASE UploadLock(e)
  BY <1>8, <1>1, <1>2 DEF UploadLock, Outcome, Turn
<1>9. CASE AcquireLock(e)
  BY <1>9, <1>1, <1>2 DEF AcquireLock, Outcome, Turn
<1>10. CASE Retrieve(e)
  <2>1. ASSUME row[Current(e)] # NoRow,
               entity' = [entity EXCEPT ![e] = Refreshed(Head(sagasData[e]), row[Current(e)])],
               pc' = [pc EXCEPT ![e] = "handle"], UNCHANGED <<asked, sagasData>>
        PROVE  Reads(e)
    BY <2>1, MessageKinds DEF LocalsOK, Reads, OnlyMine
  <2> QED
    BY <1>10, <1>2, <1>3, <1>4, <2>1 DEF Retrieve, Outcome, Turn
<1>11. CASE DropLock(e)
  BY <1>11, <1>2, <1>4 DEF DropLock, Outcome, Turn
<1>12. CASE Handle(e)
  BY <1>12, <1>3, <1>4 DEF Handle, Outcome, Turn
<1>13. CASE Replace(e)
  BY <1>13, <1>1, <1>2, <1>5 DEF Replace, Outcome, Turn
<1>14. CASE Release(e)
  BY <1>14, <1>2, <1>5 DEF Release, Outcome, Turn
<1>15. CASE DeleteLock(e)
  BY <1>15, <1>1, <1>2 DEF DeleteLock, Outcome, Turn
<1>16. CASE DeleteSaga(e)
  BY <1>16, <1>1, <1>2 DEF DeleteSaga, Outcome, Turn
<1>17. CASE DeleteBlobs(e)
  BY <1>17, <1>2, NextSagaTurns DEF DeleteBlobs, Outcome, Turn
<1>18. CASE Undo(e)
  BY <1>18, <1>6 DEF Undo, Outcome
<1>19. CASE Complete(e)
  BY <1>19, <1>3 DEF Complete, Outcome
<1> QED
  BY <1>7, <1>8, <1>9, <1>10, <1>11, <1>12, <1>13, <1>14, <1>15, <1>16, <1>17, <1>18, <1>19
  DEF Step

\* So has a crash.
LEMMA CrashOutcome ==
    ASSUME LocalsOK, NEW e \in Events, Crash(e)
    PROVE  Outcome(e)
BY GiveUpLeaves DEF Crash, Outcome

----------------------------------------------------------------------------
(* Types *)

\* What follows in a sequence of more than one.
LEMMA RestFollows ==
    ASSUME NEW S, NEW s \in Seq(S), s # <<>>, Len(s) > 1
    PROVE  Tail(s) # <<>>
<1>1. Len(Tail(s)) = Len(s) - 1 /\ Len(s) \in Nat
  BY HeadTailProperties, LenProperties
<1>2. PICK n \in Nat : n = Len(s)
  BY <1>1
<1>3. n - 1 # 0
  BY <1>2
<1>4. Len(Tail(s)) # Len(<<>>)
  BY <1>1, <1>2, <1>3, EmptySeq
<1> QED
  BY <1>4

\* A segment lists the rows there are among the keys it covers, and no other.
LEMMA SegmentLists ==
    ASSUME StorageTypeOK, NEW lo \in Nat \ {0}, NEW hi \in lo..Len(KeyOrder),
           NEW segment \in Segments(lo, hi)
    PROVE  /\ segment \in Seq(Snapshot)
           /\ \A i \in 1..Len(segment) :
                 /\ row[segment[i].key] # NoRow
                 /\ segment[i].etag = row[segment[i].key].etag
                 /\ segment[i].log = row[segment[i].key].log
           /\ \A i \in lo..hi : row[KeyOrder[i]] # NoRow =>
                 \E j \in 1..Len(segment) : segment[j].key = KeyOrder[i]
<1> DEFINE found == {i \in lo..hi : row[KeyOrder[i]] # NoRow}
           n == Cardinality(found)
           Snap(k) == [key |-> k, etag |-> row[k].etag, log |-> row[k].log]
<1>1. Len(KeyOrder) \in Nat /\ hi \in Nat /\ \A i \in lo..hi : i \in DOMAIN KeyOrder /\ KeyOrder[i] \in Keys
  BY KeysAndLocks
<1>2. n \in Nat
  <2>1. IsFiniteSet(lo..hi)
    BY <1>1, FS_Interval
  <2>2. IsFiniteSet(found)
    BY <2>1, FS_Subset
  <2> QED
    BY <2>2, FS_CardinalityType
<1>3. PICK s \in [1..n -> found] :
          /\ segment = [i \in DOMAIN s |-> Snap(KeyOrder[s[i]])]
          /\ \A i \in found : \E j \in DOMAIN s : s[j] = i
  BY DEF Segments
<1>4. \A i \in found : /\ KeyOrder[i] \in Keys /\ row[KeyOrder[i]] # NoRow
                       /\ Snap(KeyOrder[i]) \in Snapshot
  BY <1>1 DEF StorageTypeOK, Row, Snapshot
<1>5. segment \in [1..n -> Snapshot]
  BY <1>3, <1>4
<1>6. segment \in Seq(Snapshot) /\ Len(segment) = n
  <2>1. segment \in Seq(Snapshot)
    BY <1>2, <1>5, SeqDef
  <2>2. DOMAIN segment = 1..n /\ DOMAIN segment = 1..Len(segment) /\ Len(segment) \in Nat
    BY <1>5, <2>1, LenProperties
  <2> QED
    BY <1>2, <2>1, <2>2
<1>7. \A i \in 1..n : s[i] \in found /\ segment[i] = Snap(KeyOrder[s[i]])
  BY <1>3
<1>8. \A i \in found : \E j \in 1..n : segment[j] = Snap(KeyOrder[i])
  BY <1>3, <1>7
<1>9. \A i \in 1..n : /\ row[segment[i].key] # NoRow
                      /\ segment[i].etag = row[segment[i].key].etag
                      /\ segment[i].log = row[segment[i].key].log
  <2> TAKE i \in 1..n
  <2>1. PICK k : k = KeyOrder[s[i]]
    OBVIOUS
  <2>2. segment[i] = [key |-> k, etag |-> row[k].etag, log |-> row[k].log] /\ row[k] # NoRow
    BY <1>4, <1>7, <2>1
  <2> QED
    BY <2>2
<1>10. \A i \in lo..hi : row[KeyOrder[i]] # NoRow => \E j \in 1..n : segment[j].key = KeyOrder[i]
  <2> SUFFICES ASSUME NEW i \in lo..hi, row[KeyOrder[i]] # NoRow
               PROVE  \E j \in 1..n : segment[j].key = KeyOrder[i]
    OBVIOUS
  <2>1. PICK k : k = KeyOrder[i]
    OBVIOUS
  <2>2. PICK j \in 1..n : segment[j] = [key |-> k, etag |-> row[k].etag, log |-> row[k].log]
    BY <1>8, <2>1
  <2>3. segment[j].key = k
    BY <2>2
  <2> QED
    BY <2>1, <2>3
<1> QED
  BY <1>6, <1>9, <1>10

\* What the services do to a lock blob is well typed.
LEMMA LocksTyped ==
    ASSUME StorageTypeOK, UNCHANGED table, NEW e \in Leases, NEW l \in LockIds,
           \/ UploadText(l) \/ AcquireLease(l, e) \/ ReleaseLease(l)
           \/ DeleteLockBlob(l) \/ ExpireLease(l)
    PROVE  StorageTypeOK'
BY DEF StorageTypeOK, table, UploadText, AcquireLease, ReleaseLease, DeleteLockBlob, ExpireLease

\* What the table service does to a row is well typed.
LEMMA TableTyped ==
    ASSUME StorageTypeOK, blob' \in [LockIds -> Leases \cup {Absent, Free}],
           leased' \in SUBSET LockIds, NEW k \in Keys, NEW log \in Seq(Messages),
           InsertRow(k, log) \/ ReplaceRow(k, log) \/ DeleteRow(k)
    PROVE  StorageTypeOK'
<1>1. version[k] + 1 \in Nat
  BY DEF StorageTypeOK
<1>2. [etag |-> version[k] + 1, log |-> log] \in Row
  BY <1>1 DEF Row
<1> QED
  BY <1>1, <1>2 DEF StorageTypeOK, InsertRow, ReplaceRow, DeleteRow

\* A change of a saga that is stored leaves the histories well typed.
LEMMA ChangedTyped ==
    ASSUME RestOK, NEW e \in Events, e \in Messages, Current(e) \in Keys,
           Changed(e) \/ (Gone(Current(e)) /\ served' = served \cup {<<e, Current(e)>>})
    PROVE  /\ kept' \in [Keys -> Seq(Messages)]
           /\ waiting' \in [Events -> SUBSET Keys]
           /\ served' \in SUBSET (Events \X Keys)
<1>1. Append(kept[Current(e)], e) \in Seq(Messages) /\ <<>> \in Seq(Messages)
  BY AppendProperties, EmptySeq DEF RestOK
<1>2. PICK k \in Keys : k = Current(e)
  OBVIOUS
<1>3. /\ kept' = [kept EXCEPT ![k] = Append(@, e)] \/ kept' = [kept EXCEPT ![k] = <<>>]
      /\ \/ waiting' = [waiting EXCEPT ![e] = @ \ {k}]
         \/ waiting' = [f \in Events |-> waiting[f] \ {k}]
      /\ served' = served \cup {<<e, k>>}
  BY <1>2 DEF Changed, Gone
<1>4. kept' \in [Keys -> Seq(Messages)]
  BY <1>1, <1>2, <1>3 DEF RestOK
<1>5. waiting' \in [Events -> SUBSET Keys]
  <2>1. \A f \in Events : waiting[f] \subseteq Keys
    BY DEF RestOK
  <2>2. CASE waiting' = [waiting EXCEPT ![e] = @ \ {k}]
    BY <2>1, <2>2 DEF RestOK
  <2>3. CASE waiting' = [f \in Events |-> waiting[f] \ {k}]
    BY <2>1, <2>3
  <2> QED
    BY <1>3, <2>2, <2>3
<1>6. served' \in SUBSET (Events \X Keys)
  BY <1>2, <1>3 DEF RestOK
<1> QED
  BY <1>4, <1>5, <1>6

\* Where an attempt goes, there is what it needs.
LEMMA OutcomeLocals ==
    ASSUME StorageTypeOK, LocalsOK, SagaAtHand, EntityAtHand, NEW e \in Events, Outcome(e)
    PROVE  LocalsOK' /\ SagaAtHand' /\ EntityAtHand'
<1> DEFINE Writing == {"handle", "replace", "release", "deleteLock", "deleteRow", "deleteBlobs"}
<1>0. /\ asked[e] \in 0..Len(KeyOrder) /\ sagasData[e] \in Seq(Snapshot)
      /\ entity[e] \in Row \cup {NoRow} /\ Len(KeyOrder) \in Nat
      /\ e \in Messages /\ <<>> \in Seq(Snapshot)
  BY MessageKinds, KeysAndLocks, EmptySeq DEF LocalsOK
<1>1. ASSUME OnlyMine(e), pc'[e] \in Places, asked'[e] \in 0..Len(KeyOrder),
             sagasData'[e] \in Seq(Snapshot), entity'[e] \in Row \cup {NoRow},
             pc'[e] \in Turn \cup {"undo"} => sagasData'[e] # <<>>,
             pc'[e] \in Writing => entity'[e] # NoRow
      PROVE  LocalsOK' /\ SagaAtHand' /\ EntityAtHand'
  <2>1. LocalsOK'
    BY <1>1, MineTyped
  <2>2. \A f \in Events \ {e} : /\ pc'[f] = pc[f] /\ sagasData'[f] = sagasData[f]
                               /\ entity'[f] = entity[f]
    BY <1>1, OthersStay, MessageKinds
  <2> QED
    BY <1>1, <2>1, <2>2 DEF SagaAtHand, EntityAtHand
<1>2. ASSUME NEW step \in Places, Moves(e, step), pc[e] \in Turn \/ step \notin Turn \cup {"undo"},
             pc[e] \in Writing \/ step \notin Writing
      PROVE  LocalsOK' /\ SagaAtHand' /\ EntityAtHand'
  BY <1>0, <1>1, <1>2 DEF Moves, SagaAtHand, EntityAtHand
<1>3. FirstStep \in {"upload", "retrieve"}
  BY DEF FirstStep
<1>4. CASE Turns(e) /\ pc[e] \in Turn
  <2>1. sagasData[e] # <<>>
    BY <1>4 DEF SagaAtHand
  <2>2. /\ Tail(sagasData[e]) \in Seq(Snapshot)
        /\ Len(Tail(sagasData[e])) = Len(sagasData[e]) - 1
    BY <1>0, <2>1, HeadTailProperties
  <2>3. Len(sagasData[e]) > 1 => Tail(sagasData[e]) # <<>>
    BY <1>0, <2>1, RestFollows
  <2> QED
    BY <1>0, <1>1, <1>3, <1>4, <2>2, <2>3 DEF Turns, Places, Turn, Resting
<1>5. CASE Leaves(e)
  BY <1>0, <1>1, <1>5 DEF Leaves, Places, Turn, Resting
<1>6. ASSUME NEW hi \in (asked[e] + 1)..Len(KeyOrder), NEW segment \in Segments(asked[e] + 1, hi),
             Finds(e, hi, segment)
      PROVE  LocalsOK' /\ SagaAtHand' /\ EntityAtHand'
  <2>1. segment \in Seq(Snapshot)
    <3>1. asked[e] + 1 \in Nat \ {0}
      BY <1>0
    <3> QED
      BY <3>1, SegmentLists
  <2>2. sagasData[e] \o segment \in Seq(Snapshot)
    BY <1>0, <2>1, ConcatProperties
  <2> QED
    BY <1>0, <1>1, <1>3, <1>6, <2>2 DEF Finds, Places, Turn, Resting
<1>7. CASE Reads(e) /\ pc[e] = "retrieve"
  <2>1. sagasData[e] # <<>>
    BY <1>7 DEF SagaAtHand, Turn
  <2>2. Head(sagasData[e]) \in Snapshot /\ Current(e) \in Keys
    BY <2>1, CurrentTyped
  <2>3. row[Current(e)] \in Row
    BY <1>7, <2>2 DEF Reads, StorageTypeOK
  <2>4. Refreshed(Head(sagasData[e]), row[Current(e)]) \in Row
    BY <2>2, <2>3 DEF Refreshed, Row, Snapshot
  <2>5. NoRow \notin Row
    BY DistinctValues
  <2> QED
    BY <1>0, <1>1, <1>7, <2>1, <2>4, <2>5 DEF Reads, Places, Turn, Resting
<1>8. AfterHandler(e) \in {"replace", "deleteLock", "deleteRow"}
  BY DEF AfterHandler
<1> QED
  BY <1>2, <1>4, <1>5, <1>6, <1>7, <1>8 DEF Outcome, Places, Turn, Resting

\* What an attempt does to the services and to the histories is well typed.
LEMMA OutcomeStorage ==
    ASSUME StorageTypeOK, LocalsOK, RestOK, SagaAtHand, EntityAtHand,
           NEW e \in Events, Outcome(e)
    PROVE  /\ StorageTypeOK'
           /\ kept' \in [Keys -> Seq(Messages)]
           /\ waiting' \in [Events -> SUBSET Keys]
           /\ served' \in SUBSET (Events \X Keys)
<1>1. pc[e] \in Turn \cup {"undo"} =>
          Current(e) \in Keys /\ Lock(e) \in LockIds /\ e \in Leases /\ e \in Messages
  BY CurrentTyped DEF SagaAtHand
<1>2. CASE UNCHANGED <<table, locks, history>>
  BY <1>2 DEF StorageTypeOK, RestOK, table, locks, history
<1>3. CASE /\ pc[e] \in Turn \cup {"undo"} /\ UNCHANGED <<table, history>>
           /\ \/ UploadText(Lock(e)) \/ AcquireLease(Lock(e), e)
              \/ ReleaseLease(Lock(e)) \/ DeleteLockBlob(Lock(e))
  BY <1>1, <1>3, LocksTyped DEF RestOK, history
<1>4. CASE /\ pc[e] = "replace" /\ UNCHANGED locks
           /\ ReplaceRow(Current(e), Append(entity[e].log, e)) /\ Changed(e)
  <2>1. entity[e] \in Row /\ e \in Messages /\ Current(e) \in Keys
    BY <1>1, <1>4 DEF EntityAtHand, LocalsOK, Turn
  <2>2. Append(entity[e].log, e) \in Seq(Messages)
    BY <2>1 DEF Row
  <2>3. StorageTypeOK'
    BY <1>4, <2>1, <2>2, TableTyped DEF StorageTypeOK, locks
  <2> QED
    BY <1>4, <2>1, <2>3, ChangedTyped
<1>5. CASE /\ pc[e] = "deleteRow" /\ UNCHANGED locks
           /\ DeleteRow(Current(e)) /\ Gone(Current(e))
           /\ served' = served \cup {<<e, Current(e)>>}
  <2>1. Current(e) \in Keys /\ e \in Messages
    BY <1>1, <1>5 DEF Turn
  <2>2. StorageTypeOK'
    BY <1>5, <2>1, TableTyped, EmptySeq DEF StorageTypeOK, locks
  <2> QED
    BY <1>5, <2>1, <2>2, ChangedTyped
<1> QED
  BY <1>2, <1>3, <1>4, <1>5 DEF Outcome, Turn

\* What a step of an attempt leaves alone, and what it counts.
LEMMA StepRest ==
    ASSUME RestOK, NEW e \in Events, Step(e) \/ Crash(e)
    PROVE  /\ UNCHANGED <<tries, pending>>
           /\ mishaps' = mishaps \/ (mishaps < MaxMishaps /\ mishaps' = mishaps + 1)
<1>1. \A step : Answered(e, step) => mishaps' = mishaps \/ Mishap("fault")
  BY DEF Answered
<1>2. \A allowed : Failed(e, allowed) => mishaps' = mishaps \/ Mishap("fault")
  BY DEF Failed
<1>3. Finished(e) => mishaps' = mishaps \/ Mishap("fault")
  BY DEF Finished
<1>4. \A kind : Mishap(kind) => mishaps < MaxMishaps /\ mishaps' = mishaps + 1
  BY DEF Mishap
<1>5. CASE Query(e) \/ Handle(e) \/ Undo(e) \/ Complete(e) \/ Crash(e)
  BY <1>4, <1>5 DEF Query, Handle, Undo, Complete, Crash
<1>6. CASE UploadLock(e) \/ AcquireLock(e) \/ Retrieve(e) \/ DropLock(e) \/ Release(e)
  BY <1>1, <1>2, <1>3, <1>4, <1>6 DEF UploadLock, AcquireLock, Retrieve, DropLock, Release
<1>7. CASE Replace(e) \/ DeleteLock(e) \/ DeleteSaga(e) \/ DeleteBlobs(e)
  BY <1>1, <1>2, <1>3, <1>4, <1>7 DEF Replace, DeleteLock, DeleteSaga, DeleteBlobs
<1> QED
  BY <1>5, <1>6, <1>7 DEF Step

\* Every value is of its type at the start.
LEMMA TypeInit == Init => TypeInv
<1> SUFFICES ASSUME Init PROVE TypeInv
  OBVIOUS
<1>1. StorageTypeOK
  BY DEF Init, StorageInit, StorageTypeOK
<1>2. <<>> \in Seq(Messages) /\ <<>> \in Seq(Snapshot) /\ Len(KeyOrder) \in Nat
  BY EmptySeq, KeysAndLocks
<1>3. "queued" \in Resting /\ "queued" \notin Turn \cup {"undo"}
  BY DEF Resting, Turn
<1>4. LocalsOK
  BY <1>2, <1>3 DEF Init, LocalsOK, Places
<1>5. RestOK
  BY <1>2, Settings DEF Init, RestOK
<1>6. SagaAtHand /\ EntityAtHand
  BY <1>3 DEF Init, SagaAtHand, EntityAtHand
<1> QED
  BY <1>1, <1>4, <1>5, <1>6 DEF TypeInv

\* A step of an attempt preserves the types.
LEMMA TypeOutcome ==
    ASSUME TypeInv, NEW e \in Events, Step(e) \/ Crash(e)
    PROVE  TypeInv'
<1>1. Outcome(e)
  BY StepOutcome, CrashOutcome DEF TypeInv
<1>2. LocalsOK' /\ SagaAtHand' /\ EntityAtHand'
  BY <1>1, OutcomeLocals DEF TypeInv
<1>3. /\ StorageTypeOK'
      /\ kept' \in [Keys -> Seq(Messages)]
      /\ waiting' \in [Events -> SUBSET Keys]
      /\ served' \in SUBSET (Events \X Keys)
  BY <1>1, OutcomeStorage DEF TypeInv
<1>4. mishaps' \in 0..MaxMishaps /\ UNCHANGED <<tries, pending>>
  BY StepRest, Settings DEF TypeInv, RestOK
<1>5. RestOK'
  BY <1>3, <1>4 DEF TypeInv, RestOK
<1> QED
  BY <1>2, <1>3, <1>5 DEF TypeInv

\* A command in one step: what it does to its saga and to the lock.
Writes(c) ==
    /\ c \in pending /\ LockFree(KeyOf[c])
    /\ \/ LeaveLock(KeyOf[c], Free)
       \/ LeaveLock(KeyOf[c], Absent)
    /\ UNCHANGED <<pc, tries, asked, sagasData, mishaps, waiting, served>>

\* What a command does to a lock blob is well typed.
LEMMA CommandLocks ==
    ASSUME StorageTypeOK, NEW c \in Commands, Writes(c)
    PROVE  /\ blob' \in [LockIds -> Leases \cup {Absent, Free}]
           /\ leased' = leased
BY KeysAndLocks DEF StorageTypeOK, Writes, LeaveLock, locks

\* A command preserves the types.
LEMMA TypeCommand ==
    ASSUME TypeInv, NEW c \in Commands,
           StartSaga(c) \/ UpdateSaga(c) \/ BeginFinish(c) \/ EndFinish(c)
    PROVE  TypeInv'
<1>1. c \in Messages /\ c \notin Events /\ KeyOf[c] \in Keys /\ <<c>> \in Seq(Messages)
      /\ <<>> \in Seq(Messages)
  BY MessageKinds, KeysAndLocks, EmptySeq
<1>2. SagaAtHand' /\ EntityAtHand'
  <2>1. UNCHANGED <<pc, sagasData>> /\ \A e \in Events : entity'[e] = entity[e]
    BY <1>1, MessageKinds
    DEF StartSaga, UpdateSaga, BeginFinish, EndFinish, memory, TypeInv, LocalsOK
  <2> QED
    BY <2>1 DEF TypeInv, SagaAtHand, EntityAtHand
<1>3. CASE StartSaga(c)
  <2>1. StorageTypeOK'
    BY <1>1, <1>3, CommandLocks, TableTyped DEF StartSaga, Writes, memory, TypeInv, StorageTypeOK
  <2>2. LocalsOK' /\ RestOK'
    BY <1>1, <1>3 DEF StartSaga, memory, TypeInv, LocalsOK, RestOK
  <2> QED
    BY <2>1, <2>2, <1>2 DEF TypeInv
<1>4. CASE UpdateSaga(c)
  <2>1. row[KeyOf[c]] \in Row
    BY <1>1, <1>4 DEF UpdateSaga, TypeInv, StorageTypeOK
  <2>2. Append(row[KeyOf[c]].log, c) \in Seq(Messages)
    BY <1>1, <2>1 DEF Row
  <2>3. StorageTypeOK'
    BY <1>1, <1>4, <2>2, CommandLocks, TableTyped
    DEF UpdateSaga, Writes, memory, TypeInv, StorageTypeOK
  <2>4. Append(kept[KeyOf[c]], c) \in Seq(Messages)
    BY <1>1, AppendProperties DEF TypeInv, RestOK
  <2>5. LocalsOK' /\ RestOK'
    BY <1>1, <1>4, <2>4 DEF UpdateSaga, memory, TypeInv, LocalsOK, RestOK
  <2> QED
    BY <2>3, <2>5, <1>2 DEF TypeInv
<1>5. CASE BeginFinish(c)
  <2>1. row[KeyOf[c]] \in Row
    BY <1>1, <1>5 DEF BeginFinish, TypeInv, StorageTypeOK
  <2>2. StorageTypeOK'
    BY <1>5, CommandLocks DEF BeginFinish, Writes, TypeInv, StorageTypeOK, table, history
  <2>3. LocalsOK' /\ RestOK'
    BY <1>1, <1>5, <2>1 DEF BeginFinish, TypeInv, LocalsOK, RestOK, history
  <2> QED
    BY <2>2, <2>3, <1>2 DEF TypeInv
<1>6. CASE EndFinish(c)
  <2>1. LocalsOK'
    BY <1>1, <1>6 DEF EndFinish, TypeInv, LocalsOK
  <2>2. StorageTypeOK'
    BY <1>1, <1>6, TableTyped DEF EndFinish, TypeInv, StorageTypeOK, locks, table
  <2>3. RestOK'
    <3>1. CASE /\ Gone(KeyOf[c]) /\ pending' = pending \ {c} /\ UNCHANGED served
               /\ UNCHANGED <<tries, mishaps>>
      <4>1. kept' \in [Keys -> Seq(Messages)]
        BY <1>1, <3>1 DEF Gone, TypeInv, RestOK
      <4>2. waiting' \in [Events -> SUBSET Keys]
        BY <3>1 DEF Gone, TypeInv, RestOK
      <4> QED
        BY <3>1, <4>1, <4>2 DEF TypeInv, RestOK
    <3>2. CASE UNCHANGED <<tries, mishaps, pending, history>>
      BY <3>2 DEF TypeInv, RestOK, history
    <3> QED
      BY <1>6, <3>1, <3>2 DEF EndFinish
  <2> QED
    BY <2>1, <2>2, <2>3, <1>2 DEF TypeInv
<1> QED
  BY <1>3, <1>4, <1>5, <1>6

\* Every step preserves the types.
LEMMA TypeStep ==
    ASSUME TypeInv, [Next]_vars
    PROVE  TypeInv'
<1>1. ASSUME UNCHANGED <<table, locks, pc, memory, pending, mishaps, kept, served>>,
             tries' \in [Events -> 0..MaxTries], waiting' \in [Events -> SUBSET Keys]
      PROVE  TypeInv'
  BY <1>1 DEF TypeInv, StorageTypeOK, LocalsOK, RestOK, SagaAtHand, EntityAtHand, table, locks, memory
<1>2. ASSUME NEW e \in Events, NEW step \in {"query", "poison"}, Moves(e, step),
             UNCHANGED <<table, locks, pending, mishaps, kept, served>>,
             tries' \in [Events -> 0..MaxTries], waiting' \in [Events -> SUBSET Keys]
      PROVE  TypeInv'
  <2>1. step \in Places /\ step \notin Turn \cup {"undo"} /\ e \in Messages
    BY MessageKinds DEF Places, Turn, Resting
  <2>2. LocalsOK'
    BY <1>2, <2>1, MineTyped DEF Moves, TypeInv, LocalsOK
  <2>3. SagaAtHand' /\ EntityAtHand'
    BY <1>2, <2>1, OthersStay, MessageKinds
    DEF Moves, TypeInv, SagaAtHand, EntityAtHand, Turn
  <2> QED
    BY <1>2, <2>2, <2>3 DEF TypeInv, StorageTypeOK, RestOK, table, locks
<1>3. ASSUME NEW e \in Events, Deliver(e) PROVE TypeInv'
  <2>1. tries' \in [Events -> 0..MaxTries]
    BY <1>3, Settings DEF Deliver, TypeInv, RestOK
  <2>2. Covered \subseteq Keys
    BY KeysAndLocks DEF Covered
  <2>3. waiting' \in [Events -> SUBSET Keys]
    BY <1>3, <2>2 DEF Deliver, TypeInv, RestOK
  <2> QED
    BY <1>2, <1>3, <2>1, <2>3, GotoMoves DEF Deliver, TypeInv
<1>4. ASSUME NEW e \in Events, Poison(e) PROVE TypeInv'
  BY <1>2, <1>4, GotoMoves DEF Poison, TypeInv, RestOK, history
<1>5. ASSUME NEW l \in LockIds, Expire(l) \/ LoseLease(l) PROVE TypeInv'
  <2>1. StorageTypeOK'
    BY <1>5 DEF Expire, LoseLease, ExpireLease, TypeInv, StorageTypeOK, table
  <2>2. mishaps' \in 0..MaxMishaps
    BY <1>5, Settings DEF Expire, LoseLease, Mishap, TypeInv, RestOK
  <2> QED
    BY <1>5, <2>1, <2>2
    DEF Expire, LoseLease, TypeInv, LocalsOK, RestOK, SagaAtHand, EntityAtHand, memory, history
<1>6. CASE UNCHANGED vars
  BY <1>1, <1>6 DEF vars, TypeInv, RestOK, history
<1> QED
  BY <1>3, <1>4, <1>5, <1>6, TypeOutcome, TypeCommand DEF Next, Terminating

\* Types, and that every step of a saga's turn finds what it works on, for
\* all constants: Head is never taken of an empty list of sagas, nor is an
\* entity written that was not read.
THEOREM TypeInvariance == Spec => []TypeInv
<1>1. TypeInv /\ [Next]_vars => TypeInv'
  BY TypeStep
<1> QED
  BY <1>1, TypeInit, PTL DEF Spec

\* Types alone.
THEOREM TypeCorrect == Spec => []TypeOK
<1>1. TypeInv => TypeOK
  BY TypeParts DEF TypeInv
<1> QED
  BY <1>1, TypeInvariance, PTL

----------------------------------------------------------------------------
(* The lock protects a saga's turn *)

\* Steps between AcquireLease and the call that gives the lease up.
Guarded == LockedSteps \ {"undo"}

\* Leases last as long as their owners: none has been lost so far, or none
\* can be.
LeasesLast == mishaps = 0 \/ "slow" \notin Mishaps

\* A turn between AcquireLease and the end of the lease owns it.
LeaseHeld ==
    LockSagas /\ LeasesLast =>
        \A e \in Events : pc[e] \in Guarded => Holds(e, Lock(e))

\* Deleting is for closing events and finishing commands, locking for LockSagas.
OnPath ==
    /\ \A e \in Events :
          /\ pc[e] \in {"deleteLock", "deleteRow", "deleteBlobs"} => e \in Closing
          /\ pc[e] \in {"upload", "acquire", "dropLock", "release", "deleteLock"} => LockSagas
    /\ \A c \in Commands : entity[c] # NoRow => c \in Finishing

\* What e is going to write matches the row, or the row is gone.
StillCurrent(e) ==
    \/ MatchesETag(Current(e), entity[e])
    \/ row[Current(e)] = NoRow /\ Finishing \cup Closing # {}

ETagCurrent ==
    LockSagas /\ "slow" \notin Mishaps =>
        \A e \in Events : pc[e] \in {"handle", "replace", "deleteLock"} => StillCurrent(e)

GuardInv == TypeInv /\ OnPath /\ LeaseHeld /\ ETagCurrent

\* What an outcome does to the lock blobs, and where it leads.
LEMMA LockOutcome ==
    ASSUME LockSagas, NEW e \in Events, Outcome(e)
    PROVE  /\ \/ UploadAllowed(Lock(e)) /\ UploadText(Lock(e))
              \/ AcquireAllowed(Lock(e)) /\ AcquireLease(Lock(e), e)
              \/ ReleaseAllowed(Lock(e), e) /\ ReleaseLease(Lock(e))
              \/ DeleteAllowed(Lock(e), e) /\ DeleteLockBlob(Lock(e))
              \/ UNCHANGED locks
           /\ \/ pc'[e] \notin Guarded
              \/ pc[e] \in Guarded /\ UNCHANGED locks /\ sagasData'[e] = sagasData[e]
              \/ /\ AcquireAllowed(Lock(e)) /\ AcquireLease(Lock(e), e)
                 /\ sagasData'[e] = sagasData[e]
<1>1. FirstStep = "upload" /\ AfterHandler(e) \in {"replace", "deleteLock"}
  BY DEF FirstStep, AfterHandler
<1>2. \A step \in {"undo", "acquire", "deleteRow", "deleteBlobs", "deleted"} :
          Moves(e, step) => pc'[e] \notin Guarded
  BY DEF Moves, Guarded, LockedSteps
<1>3. Turns(e) \/ Leaves(e) => pc'[e] \notin Guarded
  BY <1>1 DEF Turns, Leaves, Guarded, LockedSteps
<1>4. \A hi, segment : Finds(e, hi, segment) => pc'[e] \notin Guarded
  BY <1>1 DEF Finds, Guarded, LockedSteps
<1>5. CASE /\ pc[e] = "acquire" /\ AcquireAllowed(Lock(e)) /\ AcquireLease(Lock(e), e)
           /\ Moves(e, "retrieve") \/ Moves(e, "undo")
  BY <1>5 DEF Moves
<1>6. CASE pc[e] = "retrieve" /\ UNCHANGED locks /\ (Reads(e) \/ Moves(e, "dropLock"))
  BY <1>6 DEF Reads, Moves, Guarded, LockedSteps
<1>7. CASE pc[e] = "handle" /\ Moves(e, AfterHandler(e)) /\ UNCHANGED locks
  BY <1>7 DEF Moves, Guarded, LockedSteps
<1>8. CASE pc[e] = "replace" /\ UNCHANGED locks
           /\ (Moves(e, "release") \/ Moves(e, "undo"))
  BY <1>8 DEF Moves, Guarded, LockedSteps
<1> QED
  BY <1>2, <1>3, <1>4, <1>5, <1>6, <1>7, <1>8 DEF Outcome, locks, Releasable

\* A live lease survives what the others do to the lock blobs.
LEMMA OthersHold ==
    ASSUME StorageTypeOK, NEW e \in Events, NEW f \in Events \ {e},
           NEW k \in LockIds, NEW l \in LockIds, Holds(f, l),
           \/ UploadAllowed(k) /\ UploadText(k)
           \/ AcquireAllowed(k) /\ AcquireLease(k, e)
           \/ ReleaseAllowed(k, e) /\ ReleaseLease(k)
           \/ DeleteAllowed(k, e) /\ DeleteLockBlob(k)
           \/ UNCHANGED locks
    PROVE  Holds(f, l)'
BY DEF StorageTypeOK, Holds, UploadAllowed, UploadText, AcquireAllowed, AcquireLease,
       ReleaseAllowed, ReleaseLease, DeleteAllowed, DeleteLockBlob, locks

\* An attempt that is outside every turn touches no lock blob.
LEMMA LocksOfTurns ==
    ASSUME SagaAtHand, NEW e \in Events, Outcome(e)
    PROVE  UNCHANGED locks \/ sagasData[e] # <<>>
BY DEF Outcome, SagaAtHand, Turn, locks

\* An attempt moves alone.
LEMMA OutcomeMine ==
    ASSUME NEW e \in Events, Outcome(e)
    PROVE  OnlyMine(e)
BY DEF Outcome, Moves, Leaves, Turns, Finds, Reads

\* Every outcome leaves each turn the lease it needs.
LEMMA LeaseStep ==
    ASSUME TypeInv, LeaseHeld, LeasesLast' => LeasesLast, NEW e \in Events, Outcome(e)
    PROVE  LeaseHeld'
<1> SUFFICES ASSUME LockSagas, LeasesLast, NEW f \in Events, pc'[f] \in Guarded
             PROVE  Holds(f, Lock(f))'
  BY DEF LeaseHeld, Guarded, LockedSteps
<1>1. \A g \in Events : sagasData[g] # <<>> => Lock(g) \in LockIds
  BY CurrentTyped DEF TypeInv
<1>2. CASE f # e
  <2>1. pc'[f] = pc[f] /\ sagasData'[f] = sagasData[f]
    BY <1>2, OutcomeMine, OthersStay DEF TypeInv
  <2>2. Holds(f, Lock(f)) /\ Lock(f)' = Lock(f)
    BY <2>1 DEF LeaseHeld, Lock, Current
  <2>3. Lock(f) \in LockIds
    BY <1>1, <2>1 DEF TypeInv, SagaAtHand, Guarded, LockedSteps, Turn
  <2>4. CASE UNCHANGED locks
    BY <2>2, <2>4 DEF Holds, locks
  <2>5. CASE sagasData[e] # <<>>
    BY <1>1, <1>2, <2>2, <2>3, <2>5, LockOutcome, OthersHold DEF TypeInv
  <2> QED
    BY <2>4, <2>5, LocksOfTurns DEF TypeInv
<1>3. CASE f = e /\ pc[e] \in Guarded /\ UNCHANGED locks /\ sagasData'[e] = sagasData[e]
  BY <1>3 DEF LeaseHeld, Holds, locks, Lock, Current
<1>4. CASE f = e /\ AcquireLease(Lock(e), e) /\ sagasData'[e] = sagasData[e]
  <2>1. Lock(e)' = Lock(e)
    BY <1>4 DEF Lock, Current
  <2>2. CASE sagasData[e] # <<>>
    BY <1>1, <1>4, <2>1, <2>2 DEF AcquireLease, Holds, TypeInv, StorageTypeOK
  <2>3. CASE sagasData[e] = <<>>
    <3>1. sagasData'[e] # <<>>
      BY <1>4, OutcomeLocals DEF TypeInv, SagaAtHand, Guarded, LockedSteps, Turn
    <3> QED
      BY <1>4, <2>3, <3>1
  <2> QED
    BY <2>2, <2>3
<1> QED
  BY <1>2, <1>3, <1>4, LockOutcome

\* Attempts delete only for closing events, and lock only with LockSagas.
LEMMA PathStep ==
    ASSUME TypeInv, OnPath, NEW e \in Events, Outcome(e)
    PROVE  OnPath'
<1>1. \A f \in Events \ {e} : pc'[f] = pc[f]
  BY OutcomeMine, OthersStay DEF TypeInv
<1>2. \A c \in Commands : entity'[c] = entity[c]
  BY OutcomeMine, OthersStay, MessageKinds DEF TypeInv
<1>3. FirstStep = IF LockSagas THEN "upload" ELSE "retrieve"
  BY DEF FirstStep
<1>4. /\ pc'[e] \in {"deleteLock", "deleteRow", "deleteBlobs"} => e \in Closing
      /\ pc'[e] \in {"upload", "acquire", "dropLock", "release", "deleteLock"} => LockSagas
  <2>1. CASE \/ Moves(e, "undo") \/ Moves(e, "deleted") \/ Leaves(e) \/ Reads(e)
             \/ Turns(e) \/ \E hi, segment : Finds(e, hi, segment)
    BY <2>1, <1>3 DEF Moves, Leaves, Turns, Finds, Reads
  <2>2. CASE pc[e] = "handle" /\ Moves(e, AfterHandler(e))
    BY <2>2 DEF Moves, AfterHandler
  <2>3. CASE \/ pc[e] = "upload" /\ Moves(e, "acquire")
             \/ pc[e] = "acquire" /\ Moves(e, "retrieve")
             \/ LockSagas /\ (Moves(e, "dropLock") \/ Moves(e, "release"))
             \/ pc[e] = "deleteLock" /\ Moves(e, "deleteRow")
             \/ pc[e] = "deleteRow" /\ Moves(e, "deleteBlobs")
    BY <2>3 DEF Moves, OnPath
  <2> QED
    BY <2>1, <2>2, <2>3 DEF Outcome
<1> QED
  BY <1>1, <1>2, <1>4 DEF OnPath

\* Two turns that own leases of the same saga are one.
LEMMA OneTurn ==
    ASSUME NEW e \in Events, NEW f \in Events, Holds(e, Lock(e)), Holds(f, Lock(f)),
           Current(e) = Current(f)
    PROVE  e = f
BY DEF Holds, Lock

\* While a turn owns the lock of its saga, an event's attempt writes that row
\* only in that turn; another may delete it.
LEMMA ETagOutcome ==
    ASSUME TypeInv, OnPath, LeaseHeld, ETagCurrent, NEW e \in Events, Outcome(e)
    PROVE  ETagCurrent'
<1> DEFINE Writing == {"handle", "replace", "deleteLock"}
<1> SUFFICES ASSUME LockSagas, "slow" \notin Mishaps,
                    NEW f \in Events, pc'[f] \in Writing
             PROVE  StillCurrent(f)'
  BY DEF ETagCurrent
<1>0. LeasesLast /\ Writing \subseteq Guarded /\ Writing \subseteq Turn
  BY DEF LeasesLast, Guarded, LockedSteps, Turn
<1>1. CASE f = e /\ Reads(e) /\ UNCHANGED table
  <2>1. sagasData'[e] = sagasData[e] /\ row'[Current(e)] = row[Current(e)]
        /\ entity'[e].etag = row[Current(e)].etag /\ row[Current(e)] # NoRow
    BY <1>1 DEF Reads, table, Refreshed
  <2> QED
    BY <1>1, <2>1 DEF StillCurrent, MatchesETag, Current
<1>2. ASSUME ~(f = e /\ Reads(e))
      PROVE  pc[f] \in Writing /\ sagasData'[f] = sagasData[f] /\ entity'[f] = entity[f]
  <2>1. CASE f # e
    BY <2>1, OutcomeMine, OthersStay, MessageKinds DEF TypeInv
  <2>2. CASE f = e
    <3>1. FirstStep \notin Writing
      BY DEF FirstStep
    <3>2. ~Turns(e) /\ ~Leaves(e) /\ ~\E hi, segment : Finds(e, hi, segment)
      BY <2>2, <3>1 DEF Turns, Leaves, Finds
    <3>3. pc[e] = "handle" /\ Moves(e, AfterHandler(e))
      BY <1>2, <2>2, <3>2 DEF Outcome, Moves
    <3> QED
      BY <2>2, <3>3 DEF Moves
  <2> QED
    BY <2>1, <2>2
<1>3. ASSUME ~(f = e /\ Reads(e))
      PROVE  /\ Current(f)' = Current(f) /\ Current(f) \in Keys
             /\ StillCurrent(f) /\ Holds(f, Lock(f))
  <2>1. StillCurrent(f) /\ Holds(f, Lock(f)) /\ sagasData[f] # <<>>
    BY <1>0, <1>2, <1>3 DEF ETagCurrent, LeaseHeld, TypeInv, SagaAtHand
  <2> QED
    BY <1>2, <1>3, <2>1, CurrentTyped DEF TypeInv, Current
<1>4. ASSUME ~(f = e /\ Reads(e)), row'[Current(f)] = row[Current(f)] PROVE StillCurrent(f)'
  BY <1>2, <1>3, <1>4 DEF StillCurrent, MatchesETag
<1>5. CASE UNCHANGED table
  BY <1>1, <1>4, <1>5 DEF table
<1>6. CASE /\ pc[e] = "replace" /\ ReplaceRow(Current(e), Append(entity[e].log, e))
           /\ \/ Moves(e, "release") \/ Turns(e) \/ Moves(e, "undo")
  <2>1. f # e
    BY <1>6 DEF Moves, Turns, FirstStep
  <2>2. Holds(e, Lock(e))
    BY <1>0, <1>6 DEF LeaseHeld, Guarded, LockedSteps
  <2>3. Current(e) # Current(f)
    BY <1>3, <2>1, <2>2, OneTurn
  <2>4. row'[Current(f)] = row[Current(f)]
    BY <1>3, <1>6, <2>1, <2>3 DEF ReplaceRow, TypeInv, StorageTypeOK
  <2> QED
    BY <1>4, <2>1, <2>4
<1>7. CASE /\ pc[e] = "deleteRow" /\ DeleteRow(Current(e))
           /\ Moves(e, "deleteBlobs") \/ Moves(e, "undo")
  <2>1. f # e /\ Finishing \cup Closing # {}
    BY <1>7 DEF Moves, OnPath
  <2>2. row'[Current(f)] \in {row[Current(f)], NoRow}
    BY <1>3, <1>7, <2>1 DEF DeleteRow, TypeInv, StorageTypeOK
  <2>3. CASE row'[Current(f)] = NoRow
    BY <1>3, <2>1, <2>3 DEF StillCurrent
  <2> QED
    BY <1>4, <2>1, <2>2, <2>3
<1> QED
  BY <1>5, <1>6, <1>7 DEF Outcome, table

\* A step of an attempt, or its crash, preserves the invariant.
LEMMA GuardOutcome ==
    ASSUME GuardInv, NEW e \in Events, Step(e) \/ Crash(e)
    PROVE  GuardInv'
<1>1. Outcome(e)
  BY StepOutcome, CrashOutcome DEF GuardInv, TypeInv
<1>2. LeasesLast' => LeasesLast
  <2>1. mishaps \in Nat
    BY Settings DEF GuardInv, TypeInv, RestOK
  <2> QED
    BY <2>1, StepRest DEF GuardInv, TypeInv, LeasesLast
<1>3. LeaseHeld'
  BY <1>1, <1>2, LeaseStep DEF GuardInv
<1> QED
  BY <1>1, <1>3, TypeOutcome, PathStep, ETagOutcome DEF GuardInv

\* A command finds the lock of its saga free, so no turn that owns a lease is
\* disturbed; except by the deletion of a row.
LEMMA GuardCommand ==
    ASSUME GuardInv, NEW c \in Commands,
           StartSaga(c) \/ UpdateSaga(c) \/ BeginFinish(c) \/ EndFinish(c)
    PROVE  GuardInv'
<1>1. c \in Messages /\ c \notin Events /\ KeyOf[c] \in Keys /\ LockOf[KeyOf[c]] \in LockIds
  BY MessageKinds, KeysAndLocks
<1>2. /\ UNCHANGED <<pc, sagasData, mishaps>>
      /\ \A m \in Messages \ {c} : entity'[m] = entity[m]
  BY <1>1 DEF StartSaga, UpdateSaga, BeginFinish, EndFinish, memory, GuardInv, TypeInv, LocalsOK
<1>3. \A e \in Events : /\ entity'[e] = entity[e]
                       /\ Current(e)' = Current(e) /\ Lock(e)' = Lock(e)
  BY <1>1, <1>2, MessageKinds DEF Current, Lock
<1>4. \/ UNCHANGED locks
      \/ /\ LockFree(KeyOf[c]) /\ leased' = leased
         /\ \A l \in LockIds \ {LockOf[KeyOf[c]]} : blob'[l] = blob[l]
  BY <1>1 DEF StartSaga, UpdateSaga, BeginFinish, EndFinish, LeaveLock, locks,
              GuardInv, TypeInv, StorageTypeOK
<1>5. TypeInv'
  BY TypeCommand DEF GuardInv
<1>6. OnPath'
  <2>1. entity'[c] = entity[c] \/ c \in Finishing \/ entity'[c] = NoRow
    BY <1>1 DEF StartSaga, UpdateSaga, BeginFinish, EndFinish, memory, GuardInv, TypeInv, LocalsOK
  <2>2. \A d \in Commands : entity'[d] # NoRow => d \in Finishing
    BY <1>2, <2>1, MessageKinds DEF GuardInv, OnPath
  <2> QED
    BY <1>2, <2>2 DEF GuardInv, OnPath
<1>7. \A e \in Events : pc[e] \in Guarded =>
          sagasData[e] # <<>> /\ Current(e) \in Keys /\ Lock(e) \in LockIds
  BY CurrentTyped DEF GuardInv, TypeInv, SagaAtHand, Guarded, LockedSteps, Turn
<1>8. LeaseHeld'
  <2> SUFFICES ASSUME LockSagas, LeasesLast, NEW e \in Events, pc[e] \in Guarded
               PROVE  Holds(e, Lock(e))'
    BY <1>2 DEF LeaseHeld, LeasesLast
  <2>1. Holds(e, Lock(e)) /\ Lock(e) \in LockIds
    BY <1>7 DEF GuardInv, LeaseHeld
  <2> QED
    BY <1>3, <1>4, <2>1 DEF Holds, LockFree, UploadAllowed, locks
<1>9. ETagCurrent'
  <2> SUFFICES ASSUME LockSagas, "slow" \notin Mishaps,
                      NEW e \in Events, pc[e] \in {"handle", "replace", "deleteLock"}
               PROVE  StillCurrent(e)'
    BY <1>2 DEF ETagCurrent
  <2>1. pc[e] \in Guarded /\ StillCurrent(e)
    BY DEF GuardInv, ETagCurrent, Guarded, LockedSteps
  <2>2. Holds(e, Lock(e)) /\ Current(e) \in Keys
    BY <1>7, <2>1 DEF GuardInv, LeaseHeld, LeasesLast
  <2>3. CASE row'[Current(e)] = row[Current(e)]
    BY <1>3, <2>1, <2>3 DEF StillCurrent, MatchesETag
  <2>4. CASE LockFree(KeyOf[c]) /\ \A k \in Keys \ {KeyOf[c]} : row'[k] = row[k]
    <3>1. Current(e) # KeyOf[c]
      BY <2>2, <2>4 DEF LockFree, UploadAllowed, Holds, Lock
    <3> QED
      BY <2>2, <2>3, <2>4, <3>1
  <2>5. CASE entity[c] # NoRow /\ DeleteRow(KeyOf[c])
    <3>1. Finishing # {}
      BY <2>5 DEF GuardInv, OnPath
    <3>2. row'[Current(e)] \in {row[Current(e)], NoRow}
      BY <2>2, <2>5 DEF DeleteRow, GuardInv, TypeInv, StorageTypeOK
    <3>3. CASE row'[Current(e)] = NoRow
      BY <1>3, <3>1, <3>3 DEF StillCurrent
    <3> QED
      BY <2>3, <3>2, <3>3
  <2>6. CASE UNCHANGED table
    BY <2>3, <2>6 DEF table
  <2>7. ASSUME StartSaga(c) \/ UpdateSaga(c)
        PROVE  LockFree(KeyOf[c]) /\ \A k \in Keys \ {KeyOf[c]} : row'[k] = row[k]
    BY <1>1, <2>7 DEF StartSaga, UpdateSaga, InsertRow, ReplaceRow, GuardInv, TypeInv, StorageTypeOK
  <2> QED
    BY <2>4, <2>5, <2>6, <2>7 DEF BeginFinish, EndFinish
<1> QED
  BY <1>5, <1>6, <1>8, <1>9 DEF GuardInv

\* A lease that expires is nobody's, or its owner was too slow.
LEMMA GuardExpire ==
    ASSUME GuardInv, NEW l \in LockIds, Expire(l) \/ LoseLease(l)
    PROVE  GuardInv'
<1>1. UNCHANGED <<table, pc, sagasData, entity, blob>> /\ leased' = leased \ {l}
  BY DEF Expire, LoseLease, ExpireLease, memory
<1>2. TypeInv'
  BY TypeStep DEF GuardInv, Next
<1>3. OnPath' /\ ETagCurrent'
  BY <1>1 DEF GuardInv, OnPath, ETagCurrent, StillCurrent, MatchesETag, Current, table
<1>4. mishaps \in Nat
  BY Settings DEF GuardInv, TypeInv, RestOK
<1>5. LeasesLast' => LeasesLast /\ ~InUse(l)
  BY <1>4 DEF Expire, LoseLease, Mishap, LeasesLast
<1>6. LeaseHeld'
  BY <1>1, <1>5 DEF GuardInv, LeaseHeld, Holds, Guarded, LockedSteps, InUse, Lock, Current
<1> QED
  BY <1>2, <1>3, <1>6 DEF GuardInv

\* Every step preserves the invariant.
LEMMA GuardStep ==
    ASSUME GuardInv, [Next]_vars
    PROVE  GuardInv'
<1>1. ASSUME NEW e \in Events, Deliver(e) \/ Poison(e) PROVE GuardInv'
  <2>1. TypeInv'
    BY <1>1, TypeStep DEF GuardInv, Next
  <2>2. /\ Moves(e, "query") \/ Moves(e, "poison")
        /\ UNCHANGED <<table, locks, sagasData, entity, mishaps>>
    BY <1>1, GotoMoves DEF Deliver, Poison, Goto, memory, GuardInv, TypeInv
  <2>3. \A f \in Events : pc'[f] = pc[f] \/ pc'[f] \in {"query", "poison"}
    BY <2>2, OthersStay DEF Moves, GuardInv, TypeInv
  <2>4. OnPath'
    BY <2>2, <2>3 DEF GuardInv, OnPath
  <2>5. LeaseHeld'
    BY <2>2, <2>3 DEF GuardInv, LeaseHeld, LeasesLast, Guarded, LockedSteps, Holds, locks, Lock, Current
  <2>6. ETagCurrent'
    BY <2>2, <2>3 DEF GuardInv, ETagCurrent, StillCurrent, MatchesETag, table, Current
  <2> QED
    BY <2>1, <2>4, <2>5, <2>6 DEF GuardInv
<1>2. CASE UNCHANGED vars
  <2>1. TypeInv'
    BY <1>2, TypeStep DEF GuardInv
  <2> QED
    BY <1>2, <2>1 DEF vars, memory, table, locks, GuardInv, OnPath, LeaseHeld, LeasesLast, Holds,
                      ETagCurrent, StillCurrent, MatchesETag, Lock, Current
<1> QED
  BY <1>1, <1>2, GuardOutcome, GuardCommand, GuardExpire DEF Next, Terminating

\* At the start nobody holds or writes anything.
LEMMA GuardInit == Init => GuardInv
<1> SUFFICES ASSUME Init PROVE GuardInv
  OBVIOUS
<1>1. \A m \in Messages : entity[m] = NoRow
  BY DEF Init
<1> QED
  BY <1>1, TypeInit, MessageKinds
  DEF Init, GuardInv, OnPath, LeaseHeld, ETagCurrent, Guarded, LockedSteps

\* With LockSagas and handlers faster than the lease, the turn of a saga owns
\* its lock from the second read to the write, and the ETag it copied onto
\* the snapshot stays the row's, unless the row is deleted: for any number of
\* events, commands, sagas that share a lock, crashes and failed calls.
THEOREM LockProtection == Spec => []LockProtects
<1>1. Init => GuardInv
  BY GuardInit
<1>2. GuardInv /\ [Next]_vars => GuardInv'
  BY GuardStep
<1>3. GuardInv => LockProtects
  BY DEF GuardInv, LockProtects, LeaseHeld, LeasesLast, ETagCurrent, StillCurrent,
         Guarded, LockedSteps
<1> QED
  BY <1>1, <1>2, <1>3, PTL DEF Spec

----------------------------------------------------------------------------
(* Without mishaps no lease is left behind *)

\* The lease of l is used by a turn that will give it up, the catch block
\* included: there it must know the entity to release what its turn acquired.
Used(l) ==
    /\ LockSagas
    /\ blob[l] \in Events
    /\ InUse(l)
    /\ pc[blob[l]] = "undo" => entity[blob[l]] # NoRow

LeasesUsed == mishaps = 0 => \A l \in leased : Used(l)

\* A call that is not disturbed does what it should, or was refused.
LEMMA CalmCall ==
    ASSUME LocalsOK, mishaps \in Nat, mishaps' = 0, NEW e \in Events
    PROVE  /\ \A step : Answered(e, step) => Moves(e, step)
           /\ \A allowed : Failed(e, allowed) =>
                 ~allowed /\ Moves(e, "undo") /\ UNCHANGED <<table, locks>>
           /\ Finished(e) => Turns(e)
           /\ \A kind : ~Mishap(kind)
<1>1. \A kind : ~Mishap(kind)
  BY DEF Mishap
<1> QED
  BY <1>1, GotoMoves, NextSagaTurns DEF Answered, Failed, Finished, Raise

\* A step of an attempt leaves no lease behind, unless it is disturbed.
LEMMA CalmStep ==
    ASSUME GuardInv, LeasesUsed, NEW e \in Events, Step(e)
    PROVE  LeasesUsed'
<1> SUFFICES ASSUME mishaps' = 0, NEW l \in leased' PROVE Used(l)'
  BY DEF LeasesUsed
<1>0. /\ LocalsOK /\ mishaps \in Nat /\ mishaps = 0 /\ LeasesLast /\ OnlyMine(e)
      /\ e \in Messages /\ leased \subseteq LockIds
  BY StepRest, StepOutcome, OutcomeMine, MessageKinds, Settings
  DEF GuardInv, TypeInv, RestOK, LeasesLast, StorageTypeOK
<1>1. /\ \A step : Answered(e, step) => Moves(e, step)
      /\ \A allowed : Failed(e, allowed) =>
            ~allowed /\ Moves(e, "undo") /\ UNCHANGED <<table, locks>>
      /\ Finished(e) => Turns(e)
      /\ \A kind : ~Mishap(kind)
  BY <1>0, CalmCall
<1>2. pc[e] \in Turn \cup {"undo"} => Lock(e) \in LockIds
  BY CurrentTyped DEF GuardInv, TypeInv, SagaAtHand
<1>3. l \in leased => Used(l)
  BY <1>0 DEF LeasesUsed
<1>4. ASSUME l \in leased, blob'[l] = blob[l],
             blob[l] = e => /\ pc'[e] \in LockedSteps /\ sagasData'[e] = sagasData[e]
                            /\ pc'[e] = "undo" => entity'[e] # NoRow
      PROVE  Used(l)'
  <2>1. Used(l)
    BY <1>3, <1>4
  <2>2. \A f \in Events \ {e} : /\ pc'[f] = pc[f] /\ sagasData'[f] = sagasData[f]
                               /\ entity'[f] = entity[f]
    BY <1>0, OthersStay, MessageKinds
  <2>3. CASE blob[l] = e
    BY <1>4, <2>1, <2>3 DEF Used, InUse, Lock, Current
  <2>4. CASE blob[l] # e
    BY <1>4, <2>1, <2>2, <2>4 DEF Used, InUse, Lock, Current
  <2> QED
    BY <2>3, <2>4
<1>5. ASSUME l \in leased, blob'[l] = blob[l], pc[e] \notin LockedSteps \/ Lock(e) # l
      PROVE  Used(l)'
  BY <1>3, <1>4, <1>5 DEF Used, InUse
<1>6. UNCHANGED locks => l \in leased /\ blob'[l] = blob[l]
  BY DEF locks
<1>7. ASSUME pc[e] \in Turn \cup {"undo"},
             UploadText(Lock(e)) \/ ReleaseLease(Lock(e)) \/ DeleteLockBlob(Lock(e)),
             l # Lock(e)
      PROVE  Used(l)'
  <2>1. l \in leased /\ blob'[l] = blob[l]
    BY <1>0, <1>2, <1>7 DEF UploadText, ReleaseLease, DeleteLockBlob, GuardInv, TypeInv, StorageTypeOK
  <2> QED
    BY <1>5, <1>7, <2>1
<1>8. pc[e] \in Turn \cup {"undo"} /\ (ReleaseLease(Lock(e)) \/ DeleteLockBlob(Lock(e)))
          => l # Lock(e)
  BY <1>0, <1>2 DEF ReleaseLease, DeleteLockBlob, GuardInv, TypeInv, StorageTypeOK
<1>9. CASE Query(e) \/ DeleteSaga(e) \/ DeleteBlobs(e) \/ Complete(e)
  <2>1. UNCHANGED locks /\ pc[e] \notin LockedSteps
    BY <1>9, <1>1 DEF Query, DeleteSaga, DeleteBlobs, Complete, LockedSteps
  <2> QED
    BY <1>5, <1>6, <2>1
<1>10. CASE UploadLock(e)
  <2>1. CASE UNCHANGED locks
    BY <1>10, <1>5, <1>6, <2>1 DEF UploadLock, LockedSteps
  <2>2. CASE UploadAllowed(Lock(e)) /\ UploadText(Lock(e))
    <3>1. l # Lock(e)
      BY <2>2 DEF UploadAllowed, UploadText
    <3> QED
      BY <1>10, <2>2, <3>1, <1>7 DEF UploadLock, Turn
  <2> QED
    BY <1>10, <1>1, <2>1, <2>2 DEF UploadLock
<1>11. CASE AcquireLock(e)
  <2>1. CASE UNCHANGED locks
    BY <1>11, <1>5, <1>6, <2>1 DEF AcquireLock, LockedSteps
  <2>2. CASE AcquireLease(Lock(e), e) /\ Moves(e, "retrieve")
    <3>1. CASE l = Lock(e)
      <4>1. blob'[l] = e /\ Lock(e)' = l /\ LockSagas
        BY <1>2, <1>11, <2>2, <3>1
        DEF AcquireLock, AcquireLease, Moves, Lock, Current, GuardInv, OnPath, TypeInv, StorageTypeOK, Turn
      <4> QED
        BY <4>1, <2>2 DEF Used, InUse, Moves, LockedSteps
    <3>2. CASE l # Lock(e)
      <4>1. l \in leased /\ blob'[l] = blob[l]
        BY <1>0, <1>2, <1>11, <2>2, <3>2
        DEF AcquireLock, AcquireLease, GuardInv, TypeInv, StorageTypeOK, Turn
      <4> QED
        BY <1>5, <3>2, <4>1
    <3> QED
      BY <3>1, <3>2
  <2> QED
    BY <1>11, <1>1, <2>1, <2>2 DEF AcquireLock
<1>12. CASE Retrieve(e)
  <2>0. UNCHANGED locks /\ pc[e] = "retrieve"
    BY <1>12, <1>1 DEF Retrieve
  <2>1. CASE ~LockSagas
    BY <1>3, <1>6, <2>0, <2>1 DEF Used
  <2>2. CASE LockSagas
    <3>1. pc'[e] \in {"handle", "dropLock"} /\ sagasData'[e] = sagasData[e]
      BY <1>0, <1>1, <1>12, <2>2, GotoMoves DEF Retrieve, Moves, LocalsOK
    <3> QED
      BY <1>4, <1>6, <2>0, <3>1 DEF LockedSteps
  <2> QED
    BY <2>1, <2>2
<1>13. CASE DropLock(e)
  <2>1. Holds(e, Lock(e)) /\ pc[e] \in Turn
    BY <1>0, <1>13 DEF DropLock, GuardInv, OnPath, LeaseHeld, Guarded, LockedSteps, Turn
  <2> QED
    BY <1>1, <1>7, <1>8, <1>13, <2>1 DEF DropLock, DeleteAllowed
<1>14. CASE Handle(e) \/ Replace(e)
  <2>0. UNCHANGED locks /\ pc[e] \in {"handle", "replace"} /\ entity[e] # NoRow
    BY <1>14, <1>1 DEF Handle, Replace, GuardInv, TypeInv, EntityAtHand
  <2>1. CASE ~LockSagas
    BY <1>3, <1>6, <2>0, <2>1 DEF Used
  <2>2. CASE LockSagas
    <3>1. PICK step \in {"replace", "deleteLock", "release", "undo"} : Moves(e, step)
      BY <1>0, <1>1, <1>14, <2>2, GotoMoves DEF Handle, Replace, AfterHandler, Raise
    <3> QED
      BY <1>4, <1>6, <2>0, <3>1 DEF LockedSteps, Moves
  <2> QED
    BY <2>1, <2>2
<1>15. CASE Release(e) \/ DeleteLock(e)
  <2>0. pc[e] \in {"release", "deleteLock"} /\ entity[e] # NoRow /\ pc[e] \in Turn
    BY <1>15 DEF Release, DeleteLock, GuardInv, TypeInv, EntityAtHand, Turn
  <2>1. CASE UNCHANGED locks /\ Moves(e, "undo")
    BY <1>4, <1>6, <2>0, <2>1 DEF LockedSteps, Moves
  <2>2. CASE ReleaseLease(Lock(e)) \/ DeleteLockBlob(Lock(e))
    BY <1>7, <1>8, <2>0, <2>2
  <2> QED
    BY <1>1, <1>15, <2>1, <2>2 DEF Release, DeleteLock
<1>16. CASE Undo(e)
  <2>1. CASE Releasable(e)
    BY <1>1, <1>7, <1>8, <1>16, <2>1 DEF Undo
  <2>2. CASE ~Releasable(e)
    <3>1. UNCHANGED locks /\ pc[e] = "undo"
      BY <1>16, <2>2 DEF Undo
    <3>2. Used(l)
      BY <1>3, <1>6, <3>1
    <3>3. blob[l] # e
      BY <2>2, <3>1, <3>2 DEF Used, InUse, Releasable, ReleaseAllowed
    <3> QED
      BY <1>4, <1>6, <3>1, <3>3
  <2> QED
    BY <2>1, <2>2
<1> QED
  BY <1>9, <1>10, <1>11, <1>12, <1>13, <1>14, <1>15, <1>16 DEF Step

\* Every step preserves the invariant.
LEMMA LeasesUsedStep ==
    ASSUME GuardInv, LeasesUsed, [Next]_vars
    PROVE  LeasesUsed'
<1>0. mishaps \in Nat /\ LocalsOK /\ leased \subseteq LockIds
  BY Settings DEF GuardInv, TypeInv, RestOK, StorageTypeOK
<1>1. ASSUME NEW e \in Events, Crash(e) PROVE LeasesUsed'
  BY <1>0, <1>1 DEF Crash, Mishap, LeasesUsed
<1>2. ASSUME NEW e \in Events, Deliver(e) \/ Poison(e) PROVE LeasesUsed'
  <2>1. /\ UNCHANGED <<locks, sagasData, entity, mishaps>> /\ pc[e] = "queued"
        /\ \A f \in Events \ {e} : pc'[f] = pc[f]
    BY <1>0, <1>2 DEF Deliver, Poison, Goto, memory, LocalsOK
  <2>2. \A l \in leased : Used(l) => blob[l] # e
    BY <2>1 DEF Used, InUse, LockedSteps
  <2> QED
    BY <2>1, <2>2 DEF LeasesUsed, Used, InUse, Lock, Current, locks
<1>3. ASSUME NEW l \in LockIds, Expire(l) \/ LoseLease(l) PROVE LeasesUsed'
  <2>1. \/ mishaps' # 0
        \/ UNCHANGED <<blob, pc, sagasData, entity, mishaps>> /\ leased' \subseteq leased
    BY <1>0, <1>3 DEF Expire, LoseLease, ExpireLease, Mishap, memory
  <2> QED
    BY <2>1 DEF LeasesUsed, Used, InUse, Lock, Current
<1>4. ASSUME NEW c \in Commands,
             StartSaga(c) \/ UpdateSaga(c) \/ BeginFinish(c) \/ EndFinish(c)
      PROVE  LeasesUsed'
  <2>1. c \in Messages /\ c \notin Events /\ KeyOf[c] \in Keys /\ LockOf[KeyOf[c]] \in LockIds
    BY MessageKinds, KeysAndLocks
  <2>2. /\ UNCHANGED <<pc, sagasData, mishaps>>
        /\ \A e \in Events : entity'[e] = entity[e]
    BY <1>0, <1>4, <2>1, MessageKinds
    DEF StartSaga, UpdateSaga, BeginFinish, EndFinish, memory, LocalsOK
  <2>3. leased' = leased /\ \A l \in leased : LockSagas => blob'[l] = blob[l]
    BY <1>0, <1>4, <2>1 DEF StartSaga, UpdateSaga, BeginFinish, EndFinish, LeaveLock, locks, LockFree,
       UploadAllowed, GuardInv, TypeInv, StorageTypeOK
  <2> QED
    BY <2>2, <2>3 DEF LeasesUsed, Used, InUse, Lock, Current
<1>5. CASE UNCHANGED vars
  BY <1>5 DEF vars, memory, locks, LeasesUsed, Used, InUse, Lock, Current
<1> QED
  BY <1>1, <1>2, <1>3, <1>4, <1>5, CalmStep DEF Next, Terminating

\* As long as no process dies and no call fails by itself, whatever the
\* handlers throw and however attempts meet, every live lease is one that a
\* running turn will give up: no exception path forgets the lock.
THEOREM LocksAreFreed == Spec => []LockFreed
<1>1. Init => GuardInv /\ LeasesUsed
  <2> SUFFICES ASSUME Init PROVE GuardInv /\ LeasesUsed
    OBVIOUS
  <2>1. GuardInv
    BY GuardInit
  <2> QED
    BY <2>1 DEF Init, StorageInit, LeasesUsed
<1>2. GuardInv /\ LeasesUsed /\ [Next]_vars => GuardInv' /\ LeasesUsed'
  BY GuardStep, LeasesUsedStep
<1>3. LeasesUsed => LockFreed
  BY DEF LeasesUsed, LockFreed, Used
<1> QED
  BY <1>1, <1>2, <1>3, PTL DEF Spec

----------------------------------------------------------------------------
(* No saga is missed *)

\* The sagas that wait for an event are alive, and its query covers them.
WaitingAlive == \A e \in Events : \A k \in waiting[e] : row[k] # NoRow /\ k \in Covered

\* Saga k is among those e has yet to handle, from place first on.
Listed(e, k, first) == \E i \in first..Len(sagasData[e]) : sagasData[e][i].key = k

\* Saga k is one of those the query has yet to answer for.
Unasked(e, k) == \E i \in (asked[e] + 1)..Len(KeyOrder) : KeyOrder[i] = k

\* Every saga that waits for e is still ahead of e's attempt; the current one
\* has been changed when its turn is at its last call.
Pursues(e) ==
    /\ pc[e] = "queued" => asked[e] = 0 /\ sagasData[e] = <<>>
    /\ pc[e] = "query" => \A k \in waiting[e] : Listed(e, k, 1) \/ Unasked(e, k)
    /\ pc[e] \in Turn => \A k \in waiting[e] : Listed(e, k, 1)
    /\ pc[e] \in {"release", "deleteBlobs"} => \A k \in waiting[e] : Listed(e, k, 2)
    /\ pc[e] \in {"done", "deleted"} => waiting[e] = {}

MissInv == TypeInv /\ WaitingAlive /\ \A e \in Events : Pursues(e)

\* An attempt that stays where it is keeps pursuing the sagas left to it.
LEMMA PursuesOn ==
    ASSUME NEW f \in Events, Pursues(f), waiting'[f] \subseteq waiting[f],
           pc'[f] = pc[f], asked'[f] = asked[f], sagasData'[f] = sagasData[f]
    PROVE  Pursues(f)'
BY DEF Pursues, Listed, Unasked

\* The first saga of the list is the current one.
LEMMA ListedLater ==
    ASSUME LocalsOK, NEW e \in Events, NEW k, Listed(e, k, 1)
    PROVE  k = Current(e) \/ Listed(e, k, 2)
<1>1. sagasData[e] \in Seq(Snapshot) /\ Len(sagasData[e]) \in Nat
  BY LenProperties DEF LocalsOK
<1>2. PICK i \in 1..Len(sagasData[e]) : sagasData[e][i].key = k
  BY DEF Listed
<1>3. CASE i = 1
  BY <1>1, <1>2, <1>3 DEF Current
<1>4. CASE i # 1
  <2>1. i \in 2..Len(sagasData[e])
    BY <1>1, <1>4
  <2> QED
    BY <1>2, <2>1 DEF Listed
<1> QED
  BY <1>3, <1>4

\* At the end of a turn the sagas listed after the current one are what is left.
LEMMA TurnsPursue ==
    ASSUME TypeInv, NEW e \in Events, Turns(e), sagasData[e] # <<>>,
           \A k \in waiting'[e] : Listed(e, k, 2)
    PROVE  Pursues(e)'
<1>1. /\ sagasData[e] \in Seq(Snapshot) /\ Len(sagasData[e]) \in Nat
      /\ Tail(sagasData[e]) \in Seq(Snapshot)
      /\ Len(Tail(sagasData[e])) = Len(sagasData[e]) - 1
      /\ \A i \in 1..Len(Tail(sagasData[e])) : Tail(sagasData[e])[i] = sagasData[e][i + 1]
  BY HeadTailProperties, LenProperties DEF TypeInv, LocalsOK
<1>2. ASSUME NEW k \in waiting'[e]
      PROVE  Listed(e, k, 1)' /\ Len(sagasData[e]) > 1
  <2>1. PICK i \in 2..Len(sagasData[e]) : sagasData[e][i].key = k
    BY <1>2 DEF Listed
  <2>2. PICK j \in 1..Len(Tail(sagasData[e])) : j + 1 = i
    <3>1. i - 1 \in 1..Len(Tail(sagasData[e])) /\ (i - 1) + 1 = i
      BY <1>1, <2>1
    <3> QED
      BY <3>1
  <2>3. Tail(sagasData[e])[j].key = k
    BY <1>1, <2>1, <2>2
  <2>4. Len(sagasData[e]) > 1
    BY <1>1, <2>1
  <2> QED
    BY <2>3, <2>4 DEF Listed, Turns
<1>3. /\ pc'[e] \in {"upload", "retrieve", "done"}
      /\ pc'[e] = "done" => ~(Len(sagasData[e]) > 1)
  BY DEF Turns, FirstStep
<1> QED
  BY <1>2, <1>3 DEF Pursues

\* The query lists every saga that waits among the keys it answers for.
LEMMA FindsPursue ==
    ASSUME MissInv, NEW e \in Events, pc[e] = "query", UNCHANGED <<table, history>>,
           NEW hi \in (asked[e] + 1)..Len(KeyOrder), NEW segment \in Segments(asked[e] + 1, hi),
           Finds(e, hi, segment)
    PROVE  Pursues(e)'
<1> DEFINE n == Len(sagasData[e])
           found == sagasData[e] \o segment
<1>1. asked[e] + 1 \in Nat \ {0} /\ Len(KeyOrder) \in Nat
  BY KeysAndLocks DEF MissInv, TypeInv, LocalsOK
<1>2. /\ segment \in Seq(Snapshot)
      /\ \A i \in (asked[e] + 1)..hi : row[KeyOrder[i]] # NoRow =>
            \E j \in 1..Len(segment) : segment[j].key = KeyOrder[i]
  BY <1>1, SegmentLists DEF MissInv, TypeInv
<1>3. /\ sagasData[e] \in Seq(Snapshot) /\ n \in Nat /\ Len(segment) \in Nat
      /\ found \in Seq(Snapshot) /\ Len(found) = n + Len(segment)
      /\ \A i \in 1..(n + Len(segment)) :
            found[i] = IF i <= n THEN sagasData[e][i] ELSE segment[i - n]
  BY <1>2, ConcatProperties, LenProperties DEF MissInv, TypeInv, LocalsOK
<1>4. /\ \A i \in 1..n : i \in 1..Len(found) /\ found[i] = sagasData[e][i]
      /\ \A j \in 1..Len(segment) : n + j \in 1..Len(found) /\ found[n + j] = segment[j]
  <2>1. ASSUME NEW i \in 1..n PROVE i \in 1..Len(found) /\ found[i] = sagasData[e][i]
    BY <1>3
  <2>2. ASSUME NEW j \in 1..Len(segment) PROVE n + j \in 1..Len(found) /\ found[n + j] = segment[j]
    <3>1. n + j \in 1..(n + Len(segment)) /\ ~(n + j <= n) /\ (n + j) - n = j
      BY <1>3
    <3> QED
      BY <1>3, <3>1
  <2> QED
    BY <2>1, <2>2
<1> HIDE DEF n, found
<1>5. sagasData'[e] = found /\ asked'[e] = hi
  BY DEF Finds, found
<1>6. ASSUME NEW k \in waiting[e] PROVE Listed(e, k, 1)' \/ Unasked(e, k)'
  <2>1. CASE Listed(e, k, 1)
    BY <1>4, <1>5, <2>1 DEF Listed, n
  <2>2. ASSUME NEW i \in (asked[e] + 1)..Len(KeyOrder), KeyOrder[i] = k
        PROVE  Listed(e, k, 1)' \/ Unasked(e, k)'
    <3>1. CASE i \in (asked[e] + 1)..hi
      <4>1. row[k] # NoRow
        BY <1>6 DEF MissInv, WaitingAlive
      <4>2. PICK j \in 1..Len(segment) : segment[j].key = k
        BY <1>2, <2>2, <3>1, <4>1
      <4> QED
        BY <1>4, <1>5, <4>2 DEF Listed
    <3>2. CASE i \notin (asked[e] + 1)..hi
      <4>1. i \in (hi + 1)..Len(KeyOrder)
        BY <1>1, <3>2
      <4> QED
        BY <1>5, <2>2, <4>1 DEF Unasked
    <3> QED
      BY <3>1, <3>2
  <2>3. pc[e] = "query" => Listed(e, k, 1) \/ Unasked(e, k)
    BY <1>6 DEF MissInv, Pursues
  <2> QED
    BY <2>1, <2>2, <2>3 DEF Unasked
<1>7. waiting' = waiting
  BY DEF history
<1>8. CASE hi < Len(KeyOrder)
  BY <1>6, <1>7, <1>8 DEF Finds, Pursues, Turn
<1>9. CASE ~(hi < Len(KeyOrder))
  <2>1. \A k : ~Unasked(e, k)'
    BY <1>1, <1>5, <1>9 DEF Unasked
  <2>2. \A k \in waiting'[e] : Listed(e, k, 1)'
    BY <1>6, <1>7, <2>1
  <2>3. CASE found = <<>>
    <3>1. \A k : ~Listed(e, k, 1)'
      <4>1. Len(found) = 0
        BY <2>3
      <4> QED
        BY <1>5, <4>1 DEF Listed
    <3>2. pc'[e] = "done"
      BY <1>5, <1>9, <2>3 DEF Finds
    <3> QED
      BY <2>2, <3>1, <3>2 DEF Pursues, Turn
  <2>4. CASE found # <<>>
    <3>1. pc'[e] \in {"upload", "retrieve"}
      BY <1>5, <1>9, <2>4 DEF Finds, FirstStep
    <3> QED
      BY <2>2, <3>1 DEF Pursues
  <2> QED
    BY <2>3, <2>4
<1> QED
  BY <1>8, <1>9

\* What an outcome does to the sagas that wait: an attempt that changes or
\* deletes its saga takes it off its own list, a deleted saga is on no list.
LEMMA WaitingShrinks ==
    ASSUME TypeInv, NEW e \in Events, Outcome(e)
    PROVE  /\ \A f \in Events : waiting'[f] \subseteq waiting[f]
           /\ \A k \in Keys : \/ row[k] = NoRow
                              \/ row'[k] # NoRow
                              \/ \A f \in Events : k \notin waiting'[f]
           /\ pc[e] \in {"replace", "deleteRow"} =>
                 \/ Current(e) \notin waiting'[e]
                 \/ Moves(e, "undo") \/ Leaves(e)
<1>1. CASE UNCHANGED <<table, history>> /\ (pc[e] \notin {"replace", "deleteRow"}
                                             \/ Moves(e, "undo") \/ Leaves(e))
  BY <1>1 DEF table, history
<1>2. CASE /\ pc[e] = "replace" /\ ReplaceRow(Current(e), Append(entity[e].log, e))
           /\ Changed(e)
  <2>1. Current(e) \in Keys /\ NoRow \notin Row /\ entity[e] \in Row /\ e \in Messages
    BY <1>2, CurrentTyped, DistinctValues, MessageKinds
    DEF TypeInv, SagaAtHand, EntityAtHand, LocalsOK, Turn
  <2>2. [etag |-> version[Current(e)] + 1, log |-> Append(entity[e].log, e)] \in Row
    BY <2>1 DEF Row, TypeInv, StorageTypeOK
  <2>3. \A k \in Keys : row[k] = NoRow \/ row'[k] # NoRow
    BY <1>2, <2>1, <2>2 DEF ReplaceRow, TypeInv, StorageTypeOK
  <2>4. /\ \A f \in Events : waiting'[f] \subseteq waiting[f]
        /\ Current(e) \notin waiting'[e]
    BY <1>2 DEF Changed, TypeInv, RestOK
  <2> QED
    BY <2>3, <2>4
<1>3. CASE pc[e] = "deleteRow" /\ DeleteRow(Current(e)) /\ Gone(Current(e))
  <2>1. \A k \in Keys \ {Current(e)} : row'[k] = row[k]
    BY <1>3 DEF DeleteRow, TypeInv, StorageTypeOK
  <2>2. \A f \in Events : waiting'[f] = waiting[f] \ {Current(e)}
    BY <1>3 DEF Gone
  <2> QED
    BY <2>1, <2>2
<1> QED
  BY <1>1, <1>2, <1>3 DEF Outcome

\* A step of an attempt preserves the invariant.
LEMMA MissOutcome ==
    ASSUME MissInv, NEW e \in Events, Step(e) \/ Crash(e)
    PROVE  MissInv'
<1>1. Outcome(e) /\ TypeInv'
  BY StepOutcome, CrashOutcome, TypeOutcome DEF MissInv, TypeInv
<1>2. /\ \A f \in Events : waiting'[f] \subseteq waiting[f]
      /\ \A k \in Keys : \/ row[k] = NoRow
                         \/ row'[k] # NoRow
                         \/ \A f \in Events : k \notin waiting'[f]
      /\ pc[e] \in {"replace", "deleteRow"} =>
            \/ Current(e) \notin waiting'[e]
            \/ Moves(e, "undo") \/ Leaves(e)
  BY <1>1, WaitingShrinks DEF MissInv
<1>3. WaitingAlive'
  <2> SUFFICES ASSUME NEW f \in Events, NEW k \in waiting'[f] PROVE row'[k] # NoRow /\ k \in Covered
    BY DEF WaitingAlive, Covered
  <2>1. k \in waiting[f] /\ k \in Keys
    BY <1>2 DEF MissInv, TypeInv, RestOK
  <2> QED
    BY <1>2, <2>1 DEF MissInv, WaitingAlive
<1>4. ASSUME NEW f \in Events \ {e} PROVE Pursues(f)'
  BY <1>1, <1>2, OutcomeMine, OthersStay, PursuesOn DEF MissInv, TypeInv
<1>5. Pursues(e)'
  <2>0. /\ waiting'[e] \subseteq waiting[e] /\ Pursues(e)
        /\ pc[e] \in Turn => sagasData[e] # <<>>
    BY <1>2 DEF MissInv, TypeInv, SagaAtHand
  <2>1. CASE Moves(e, "undo")
    BY <2>1 DEF Moves, Pursues, Turn
  <2>2. CASE Leaves(e)
    BY <2>2 DEF Leaves, Pursues, Turn
  <2>3. CASE /\ pc[e] = "query" /\ UNCHANGED <<table, history>>
             /\ \E hi \in (asked[e] + 1)..Len(KeyOrder) :
                   \E segment \in Segments(asked[e] + 1, hi) : Finds(e, hi, segment)
    BY <2>3, FindsPursue DEF MissInv
  <2>4. CASE \/ pc[e] = "upload" /\ Moves(e, "acquire")
             \/ pc[e] = "acquire" /\ Moves(e, "retrieve")
             \/ pc[e] = "retrieve" /\ (Reads(e) \/ Moves(e, "dropLock"))
             \/ pc[e] = "handle" /\ Moves(e, AfterHandler(e))
             \/ pc[e] = "deleteLock" /\ Moves(e, "deleteRow")
    <3>1. /\ pc[e] \in Turn /\ sagasData'[e] = sagasData[e]
          /\ pc'[e] \in {"acquire", "retrieve", "handle", "dropLock", "replace",
                         "deleteLock", "deleteRow"}
      BY <2>4 DEF Moves, Reads, AfterHandler, Turn
    <3>2. \A k \in waiting'[e] : Listed(e, k, 1)'
      BY <2>0, <3>1 DEF Pursues, Listed
    <3> QED
      BY <3>1, <3>2 DEF Pursues
  <2>5. ASSUME pc[e] \in {"replace", "deleteRow"}, Current(e) \notin waiting'[e]
        PROVE  \A k \in waiting'[e] : Listed(e, k, 2) /\ Listed(e, k, 1)
    BY <2>0, <2>5, ListedLater DEF MissInv, TypeInv, Pursues, Turn
  <2>6. CASE \/ pc[e] = "replace" /\ Moves(e, "release")
             \/ pc[e] = "deleteRow" /\ Moves(e, "deleteBlobs")
    <3>1. Current(e) \notin waiting'[e]
      BY <1>2, <2>6 DEF Moves, Leaves
    <3>2. \A k \in waiting'[e] : Listed(e, k, 2)' /\ Listed(e, k, 1)'
      BY <2>5, <2>6, <3>1 DEF Moves, Listed
    <3> QED
      BY <2>6, <3>2 DEF Moves, Pursues
  <2>7. CASE pc[e] = "replace" /\ Turns(e)
    <3>1. ~Moves(e, "undo") /\ ~Leaves(e)
      BY <2>7 DEF Turns, Moves, Leaves, FirstStep
    <3>2. \A k \in waiting'[e] : Listed(e, k, 2)
      BY <1>2, <2>5, <2>7, <3>1
    <3> QED
      BY <2>0, <2>7, <3>2, TurnsPursue DEF MissInv, Turn
  <2>8. CASE pc[e] \in {"release", "deleteBlobs"} /\ Turns(e)
    <3>1. \A k \in waiting'[e] : Listed(e, k, 2)
      BY <2>0, <2>8 DEF Pursues
    <3> QED
      BY <2>0, <2>8, <3>1, TurnsPursue DEF MissInv, Turn
  <2>9. CASE pc[e] = "done" /\ Moves(e, "deleted")
    BY <2>0, <2>9 DEF Moves, Pursues, Turn
  <2> QED
    BY <1>1, <2>1, <2>2, <2>3, <2>4, <2>6, <2>7, <2>8, <2>9 DEF Outcome
<1> QED
  BY <1>1, <1>3, <1>4, <1>5 DEF MissInv

\* Every step preserves the invariant.
LEMMA MissStep ==
    ASSUME MissInv, [Next]_vars
    PROVE  MissInv'
<1>0. TypeInv' /\ LocalsOK
  BY TypeStep DEF MissInv, TypeInv
<1>1. ASSUME NEW e \in Events, Deliver(e) PROVE MissInv'
  <2>1. Moves(e, "query") /\ pc[e] = "queued" /\ UNCHANGED table
    BY <1>0, <1>1, GotoMoves DEF Deliver
  <2>2. /\ waiting'[e] = {k \in Covered : row[k] # NoRow /\ <<e, k>> \notin served}
        /\ \A f \in Events \ {e} : waiting'[f] = waiting[f]
    BY <1>1 DEF Deliver, MissInv, TypeInv, RestOK
  <2>3. WaitingAlive'
    BY <2>1, <2>2 DEF MissInv, WaitingAlive, table, Covered
  <2>4. \A f \in Events \ {e} : Pursues(f)'
    BY <1>0, <2>1, <2>2, OthersStay, PursuesOn DEF MissInv, Moves
  <2>5. asked'[e] = 0
    BY <2>1 DEF Moves, MissInv, Pursues
  <2>6. \A k \in waiting'[e] : Unasked(e, k)'
    <3> SUFFICES ASSUME NEW k \in Covered PROVE Unasked(e, k)'
      BY <2>2
    <3>1. PICK i \in DOMAIN KeyOrder : KeyOrder[i] = k
      BY DEF Covered
    <3>2. i \in (0 + 1)..Len(KeyOrder)
      BY KeysAndLocks, LenProperties
    <3> QED
      BY <2>5, <3>1, <3>2 DEF Unasked
  <2>7. Pursues(e)'
    BY <2>1, <2>6 DEF Moves, Pursues, Turn
  <2> QED
    BY <1>0, <2>3, <2>4, <2>7 DEF MissInv
<1>2. ASSUME NEW e \in Events, Poison(e) PROVE MissInv'
  <2>1. Moves(e, "poison") /\ UNCHANGED <<table, history>>
    BY <1>0, <1>2, GotoMoves DEF Poison
  <2>2. \A f \in Events \ {e} : Pursues(f)'
    BY <1>0, <2>1, OthersStay, PursuesOn DEF MissInv, Moves, history
  <2>3. Pursues(e)'
    BY <2>1 DEF Moves, Pursues, Turn
  <2> QED
    BY <1>0, <2>1, <2>2, <2>3 DEF MissInv, WaitingAlive, table, history, Covered
<1>3. ASSUME NEW c \in Commands,
             StartSaga(c) \/ UpdateSaga(c) \/ BeginFinish(c) \/ EndFinish(c)
      PROVE  MissInv'
  <2>1. KeyOf[c] \in Keys /\ <<c>> \in Seq(Messages) /\ c \in Messages /\ NoRow \notin Row
    BY KeysAndLocks, MessageKinds, DistinctValues
  <2>2. UNCHANGED <<pc, asked, sagasData>>
    BY <1>3 DEF StartSaga, UpdateSaga, BeginFinish, EndFinish, memory
  <2>3. /\ \A f \in Events : waiting'[f] \subseteq waiting[f]
        /\ \A k \in Keys : \/ row[k] = NoRow
                           \/ row'[k] # NoRow
                           \/ \A f \in Events : k \notin waiting'[f]
    <3>1. CASE DeleteRow(KeyOf[c]) /\ Gone(KeyOf[c])
      BY <2>1, <3>1 DEF DeleteRow, Gone, MissInv, TypeInv, StorageTypeOK
    <3>2. CASE UNCHANGED <<row, waiting>>
      BY <3>2
    <3>3. CASE InsertRow(KeyOf[c], <<c>>) /\ UNCHANGED waiting
      <4>1. \A k \in Keys : row'[k] = row[k] \/ (k = KeyOf[c] /\ row'[k] \in Row)
        BY <2>1, <3>3 DEF InsertRow, MissInv, TypeInv, StorageTypeOK, Row
      <4> QED
        BY <2>1, <3>3, <4>1
    <3>4. CASE UpdateSaga(c)
      <4>1. row[KeyOf[c]] \in Row
        BY <2>1, <3>4 DEF UpdateSaga, MissInv, TypeInv, StorageTypeOK
      <4>2. Append(row[KeyOf[c]].log, c) \in Seq(Messages)
        BY <2>1, <4>1 DEF Row
      <4>3. \A k \in Keys : row'[k] = row[k] \/ (k = KeyOf[c] /\ row'[k] \in Row)
        BY <2>1, <3>4, <4>2 DEF UpdateSaga, ReplaceRow, MissInv, TypeInv, StorageTypeOK, Row
      <4> QED
        BY <2>1, <3>4, <4>3 DEF UpdateSaga
    <3> QED
      BY <1>3, <3>1, <3>2, <3>3, <3>4 DEF StartSaga, BeginFinish, EndFinish, table, history
  <2>4. WaitingAlive'
    <3> SUFFICES ASSUME NEW f \in Events, NEW k \in waiting'[f] PROVE row'[k] # NoRow /\ k \in Covered
      BY DEF WaitingAlive, Covered
    <3>1. k \in waiting[f] /\ k \in Keys
      BY <2>3 DEF MissInv, TypeInv, RestOK
    <3> QED
      BY <2>3, <3>1 DEF MissInv, WaitingAlive
  <2> QED
    BY <1>0, <2>2, <2>3, <2>4, PursuesOn DEF MissInv
<1>4. ASSUME UNCHANGED <<table, pc, memory, history>> PROVE MissInv'
  <2>1. \A f \in Events : Pursues(f)'
    BY <1>4, PursuesOn DEF MissInv, memory, history
  <2> QED
    BY <1>0, <1>4, <2>1 DEF MissInv, WaitingAlive, table, history, Covered
<1>5. ASSUME NEW l \in LockIds, Expire(l) \/ LoseLease(l) PROVE MissInv'
  BY <1>4, <1>5 DEF Expire, LoseLease
<1>6. CASE UNCHANGED vars
  BY <1>4, <1>6 DEF vars
<1> QED
  BY <1>1, <1>2, <1>3, <1>5, <1>6, MissOutcome DEF Next, Terminating

\* An event is consumed only when every saga that has lived since its last
\* delivery, and was found by no earlier attempt, has been changed by it or
\* deleted: for any segments, exceptions, crashes and changes in between.
THEOREM NoneMissed == Spec => []NoSagaMissed
<1>1. Init => MissInv
  <2> SUFFICES ASSUME Init PROVE MissInv
    OBVIOUS
  <2>1. \A e \in Events : pc[e] = "queued" /\ asked[e] = 0 /\ sagasData[e] = <<>> /\ waiting[e] = {}
    BY DEF Init
  <2> QED
    BY <2>1, TypeInit DEF MissInv, WaitingAlive, Pursues, Turn
<1>2. MissInv /\ [Next]_vars => MissInv'
  BY MissStep
<1>3. MissInv => NoSagaMissed
  BY DEF MissInv, Pursues, NoSagaMissed
<1> QED
  BY <1>1, <1>2, <1>3, PTL DEF Spec

----------------------------------------------------------------------------
(* How updates may be lost *)

\* What a query found: the ETag was given to the row once, and as long as it
\* is the row's the data is the row's too.
Faithful(s) ==
    /\ s.etag <= version[s.key]
    /\ row[s.key] # NoRow /\ row[s.key].etag = s.etag => row[s.key].log = s.log

\* The data that is written is that of the query, not of the second read.
WritesSnapshot(e) ==
    pc[e] \in {"handle", "replace"} => entity[e].log = Head(sagasData[e]).log

\* s is in the list of e.
Has(e, s) == \E i \in 1..Len(sagasData[e]) : sagasData[e][i] = s

SnapshotInv ==
    /\ TypeInv
    /\ \A k \in Keys : row[k] # NoRow => row[k].etag <= version[k]
    /\ \A e \in Events :
          /\ WritesSnapshot(e)
          /\ \A s \in Snapshot : Has(e, s) => Faithful(s)

\* ETags only grow: a row that is not as it was has an ETag never given before.
ETagsGrow ==
    /\ \A k \in Keys : version[k] <= version'[k]
    /\ \A k \in Keys : \/ row'[k] = row[k]
                       \/ row'[k] = NoRow
                       \/ row'[k].etag = version[k] + 1 /\ version'[k] = version[k] + 1

\* Every call of the table service that is executed makes them grow.
LEMMA TableGrows ==
    ASSUME StorageTypeOK, NEW k \in Keys, NEW log,
           InsertRow(k, log) \/ ReplaceRow(k, log) \/ DeleteRow(k) \/ UNCHANGED table
    PROVE  ETagsGrow
<1>1. \A j \in Keys : version[j] \in Nat
  BY DEF StorageTypeOK
<1> QED
  BY <1>1 DEF StorageTypeOK, InsertRow, ReplaceRow, DeleteRow, table, ETagsGrow

\* A snapshot and the rows stay as faithful as they were.
LEMMA FaithfulKept ==
    ASSUME StorageTypeOK, StorageTypeOK', ETagsGrow
    PROVE  /\ \A s \in Snapshot : Faithful(s) => Faithful(s)'
           /\ (\A k \in Keys : row[k] # NoRow => row[k].etag <= version[k])
                 => \A k \in Keys : row'[k] # NoRow => row'[k].etag <= version'[k]
<1>1. \A k \in Keys : /\ version[k] \in Nat /\ version'[k] \in Nat /\ version[k] <= version'[k]
                      /\ row[k] # NoRow => row[k].etag \in Nat
                      /\ row'[k] # NoRow => row'[k].etag \in Nat
  BY DEF StorageTypeOK, ETagsGrow, Row
<1>2. ASSUME NEW s \in Snapshot, Faithful(s) PROVE Faithful(s)'
  <2>1. s.key \in Keys /\ s.etag \in Nat /\ s.etag <= version[s.key]
    BY <1>2 DEF Snapshot, Faithful
  <2>2. s.etag <= version'[s.key] /\ s.etag # version[s.key] + 1
    BY <1>1, <2>1
  <2>3. \/ row'[s.key] = row[s.key]
        \/ row'[s.key] = NoRow
        \/ row'[s.key].etag = version[s.key] + 1
    BY <2>1 DEF ETagsGrow
  <2> QED
    BY <1>2, <2>2, <2>3 DEF Faithful
<1>3. ASSUME \A k \in Keys : row[k] # NoRow => row[k].etag <= version[k],
             NEW k \in Keys, row'[k] # NoRow
      PROVE  row'[k].etag <= version'[k]
  <2>1. CASE row'[k] = row[k]
    BY <1>1, <1>3, <2>1
  <2>2. CASE row'[k].etag = version[k] + 1 /\ version'[k] = version[k] + 1
    BY <1>1, <2>2
  <2> QED
    BY <1>3, <2>1, <2>2 DEF ETagsGrow
<1> QED
  BY <1>2, <1>3

\* An outcome's calls of the table make the ETags grow.
LEMMA OutcomeGrows ==
    ASSUME TypeInv, NEW e \in Events, Outcome(e)
    PROVE  ETagsGrow
<1>1. pc[e] \in Turn => Current(e) \in Keys
  BY CurrentTyped DEF TypeInv, SagaAtHand
<1>2. CASE UNCHANGED table
  BY <1>2 DEF table, ETagsGrow, TypeInv, StorageTypeOK
<1>3. CASE pc[e] \in Turn /\ \E log : ReplaceRow(Current(e), log) \/ DeleteRow(Current(e))
  BY <1>1, <1>3, TableGrows DEF TypeInv
<1> QED
  BY <1>2, <1>3 DEF Outcome, Turn, table

\* A step of an attempt preserves the invariant.
LEMMA SnapshotOutcome ==
    ASSUME SnapshotInv, NEW e \in Events, Step(e) \/ Crash(e)
    PROVE  SnapshotInv'
<1>1. Outcome(e) /\ TypeInv'
  BY StepOutcome, CrashOutcome, TypeOutcome DEF SnapshotInv, TypeInv
<1>2. ETagsGrow
  BY <1>1, OutcomeGrows DEF SnapshotInv
<1>3. /\ \A s \in Snapshot : Faithful(s) => Faithful(s)'
      /\ \A k \in Keys : row'[k] # NoRow => row'[k].etag <= version'[k]
  BY <1>1, <1>2, FaithfulKept DEF SnapshotInv, TypeInv
<1>4. /\ sagasData[e] \in Seq(Snapshot) /\ Len(sagasData[e]) \in Nat
      /\ \A f \in Events : \A s \in Snapshot : Has(f, s) => Faithful(s)'
  BY <1>3, LenProperties DEF SnapshotInv, TypeInv, LocalsOK
<1>5. ASSUME NEW f \in Events, sagasData'[f] = sagasData[f]
      PROVE  \A s \in Snapshot : Has(f, s)' => Faithful(s)'
  BY <1>4, <1>5 DEF Has
<1>6. ASSUME NEW f \in Events \ {e}
      PROVE  WritesSnapshot(f)' /\ \A s \in Snapshot : Has(f, s)' => Faithful(s)'
  <2>1. pc'[f] = pc[f] /\ sagasData'[f] = sagasData[f] /\ entity'[f] = entity[f]
    BY <1>1, OutcomeMine, OthersStay, MessageKinds DEF SnapshotInv, TypeInv
  <2>2. WritesSnapshot(f)'
    BY <2>1 DEF SnapshotInv, WritesSnapshot
  <2> QED
    BY <1>5, <2>1, <2>2
<1>7. \A s \in Snapshot : Has(e, s)' => Faithful(s)'
  <2>1. CASE Reads(e) \/ \E step : Moves(e, step)
    BY <1>5, <2>1 DEF Reads, Moves
  <2>2. CASE Leaves(e)
    <3>1. Len(sagasData'[e]) = 0
      BY <2>2, EmptySeq DEF Leaves
    <3> QED
      BY <3>1 DEF Has
  <2>3. CASE Turns(e) /\ pc[e] \in Turn
    <3>1. sagasData[e] # <<>>
      BY <2>3 DEF SnapshotInv, TypeInv, SagaAtHand
    <3>2. /\ Len(sagasData'[e]) = Len(sagasData[e]) - 1
          /\ \A i \in 1..Len(sagasData'[e]) : sagasData'[e][i] = sagasData[e][i + 1]
      BY <1>4, <2>3, <3>1, HeadTailProperties DEF Turns
    <3>3. ASSUME NEW i \in 1..Len(sagasData'[e]) PROVE i + 1 \in 1..Len(sagasData[e])
      BY <1>4, <3>2
    <3>4. \A s \in Snapshot : Has(e, s)' => Has(e, s)
      BY <3>2, <3>3 DEF Has
    <3> QED
      BY <1>4, <3>4
  <2>4. ASSUME UNCHANGED table, NEW hi \in (asked[e] + 1)..Len(KeyOrder),
               NEW segment \in Segments(asked[e] + 1, hi), Finds(e, hi, segment)
        PROVE  \A s \in Snapshot : Has(e, s)' => Faithful(s)'
    <3>1. asked[e] + 1 \in Nat \ {0} /\ Len(KeyOrder) \in Nat
      BY KeysAndLocks DEF SnapshotInv, TypeInv, LocalsOK
    <3>2. /\ segment \in Seq(Snapshot)
          /\ \A i \in 1..Len(segment) :
                /\ row[segment[i].key] # NoRow
                /\ segment[i].etag = row[segment[i].key].etag
                /\ segment[i].log = row[segment[i].key].log
      BY <3>1, SegmentLists DEF SnapshotInv, TypeInv
    <3>3. ASSUME NEW i \in 1..Len(segment), NEW s \in Snapshot, segment[i] = s
          PROVE  Faithful(s)
      <4>1. s.key \in Keys
        BY DEF Snapshot
      <4> QED
        BY <3>2, <3>3, <4>1 DEF SnapshotInv, Faithful
    <3>4. /\ Len(segment) \in Nat
          /\ Len(sagasData'[e]) = Len(sagasData[e]) + Len(segment)
          /\ \A i \in 1..(Len(sagasData[e]) + Len(segment)) : sagasData'[e][i] =
                IF i <= Len(sagasData[e]) THEN sagasData[e][i] ELSE segment[i - Len(sagasData[e])]
      BY <1>4, <2>4, <3>2, ConcatProperties, LenProperties DEF Finds
    <3>5. ASSUME NEW i \in 1..Len(sagasData'[e])
          PROVE  \/ \E j \in 1..Len(sagasData[e]) : sagasData'[e][i] = sagasData[e][j]
                 \/ \E j \in 1..Len(segment) : sagasData'[e][i] = segment[j]
      <4>1. CASE i <= Len(sagasData[e])
        <5>1. i \in 1..Len(sagasData[e]) /\ sagasData'[e][i] = sagasData[e][i]
          BY <1>4, <3>4, <4>1
        <5> QED
          BY <5>1
      <4>2. CASE ~(i <= Len(sagasData[e]))
        <5>1. /\ i - Len(sagasData[e]) \in 1..Len(segment)
              /\ sagasData'[e][i] = segment[i - Len(sagasData[e])]
          BY <1>4, <3>4, <4>2
        <5> QED
          BY <5>1
      <4> QED
        BY <4>1, <4>2
    <3> QED
      BY <1>3, <1>4, <3>3, <3>5 DEF Has
  <2> QED
    BY <1>1, <2>1, <2>2, <2>3, <2>4 DEF Outcome, Turn, table
<1>8. WritesSnapshot(e)'
  <2>1. CASE Reads(e)
    BY <2>1 DEF Reads, WritesSnapshot, Refreshed
  <2>2. CASE pc'[e] \notin {"handle", "replace"}
    BY <2>2 DEF WritesSnapshot
  <2>3. CASE pc[e] = "handle" /\ Moves(e, AfterHandler(e))
    BY <2>3 DEF Moves, WritesSnapshot, SnapshotInv
  <2>4. Turns(e) \/ Leaves(e) \/ (\E hi, segment : Finds(e, hi, segment))
           => pc'[e] \notin {"handle", "replace"}
    BY DEF Turns, Leaves, Finds, FirstStep
  <2> QED
    BY <1>1, <2>1, <2>2, <2>3, <2>4 DEF Outcome, Moves
<1> QED
  BY <1>1, <1>3, <1>6, <1>7, <1>8 DEF SnapshotInv

\* Every step preserves the invariant.
LEMMA SnapshotStep ==
    ASSUME SnapshotInv, [Next]_vars
    PROVE  SnapshotInv'
<1>0. TypeInv' /\ LocalsOK
  BY TypeStep DEF SnapshotInv, TypeInv
<1>1. ASSUME ETagsGrow, UNCHANGED sagasData,
             \A e \in Events : /\ entity'[e] = entity[e]
                               /\ pc'[e] = pc[e] \/ pc'[e] \in {"query", "poison"}
      PROVE  SnapshotInv'
  <2>1. /\ \A s \in Snapshot : Faithful(s) => Faithful(s)'
        /\ \A k \in Keys : row'[k] # NoRow => row'[k].etag <= version'[k]
    BY <1>0, <1>1, FaithfulKept DEF SnapshotInv, TypeInv
  <2>2. \A e \in Events : \A s \in Snapshot : Has(e, s)' => Faithful(s)'
    BY <1>1, <2>1 DEF SnapshotInv, Has
  <2>3. \A e \in Events : WritesSnapshot(e)'
    BY <1>1 DEF SnapshotInv, WritesSnapshot
  <2> QED
    BY <1>0, <1>1, <2>1, <2>2, <2>3 DEF SnapshotInv
<1>2. UNCHANGED table => ETagsGrow
  BY DEF table, ETagsGrow, SnapshotInv, TypeInv, StorageTypeOK
<1>3. ASSUME NEW e \in Events, Deliver(e) \/ Poison(e) PROVE SnapshotInv'
  <2>1. /\ UNCHANGED <<table, sagasData, entity>>
        /\ \A f \in Events : pc'[f] = pc[f] \/ pc'[f] \in {"query", "poison"}
    BY <1>0, <1>3 DEF Deliver, Poison, Goto, memory, LocalsOK
  <2> QED
    BY <1>1, <1>2, <2>1
<1>4. ASSUME NEW c \in Commands,
             StartSaga(c) \/ UpdateSaga(c) \/ BeginFinish(c) \/ EndFinish(c)
      PROVE  SnapshotInv'
  <2>1. c \notin Events /\ c \in Messages /\ KeyOf[c] \in Keys
    BY MessageKinds, KeysAndLocks
  <2>2. UNCHANGED <<pc, sagasData>> /\ \A e \in Events : entity'[e] = entity[e]
    BY <1>0, <1>4, <2>1, MessageKinds
    DEF StartSaga, UpdateSaga, BeginFinish, EndFinish, memory, LocalsOK
  <2>3. \/ UNCHANGED table
        \/ \E log : InsertRow(KeyOf[c], log) \/ ReplaceRow(KeyOf[c], log) \/ DeleteRow(KeyOf[c])
    BY <1>4 DEF StartSaga, UpdateSaga, BeginFinish, EndFinish, table
  <2>4. ETagsGrow
    BY <1>2, <2>1, <2>3, TableGrows DEF SnapshotInv, TypeInv
  <2> QED
    BY <1>1, <2>2, <2>4
<1>5. ASSUME UNCHANGED <<table, pc, memory>> PROVE SnapshotInv'
  BY <1>1, <1>2, <1>5 DEF memory
<1>6. ASSUME NEW l \in LockIds, Expire(l) \/ LoseLease(l) PROVE SnapshotInv'
  BY <1>5, <1>6 DEF Expire, LoseLease
<1>7. CASE UNCHANGED vars
  BY <1>5, <1>7 DEF vars
<1> QED
  BY <1>3, <1>4, <1>6, <1>7, SnapshotOutcome DEF Next, Terminating

\* The action that LossNeedsOverlap allows.
SeesOrOverlaps ==
    \A k \in Keys : row[k] # row'[k] /\ row[k] # NoRow /\ row'[k] # NoRow =>
        \/ \E m \in Messages : row'[k].log = Append(row[k].log, m)
        \/ \E e \in Events :
              /\ pc[e] = "replace" /\ Current(e) = k
              /\ Head(sagasData[e]).etag # row[k].etag

\* Only Replace changes a row into another, and it appends to the data of the
\* snapshot, which is the row's if the ETags agree.
LEMMA OverlapStep ==
    ASSUME SnapshotInv, [Next]_vars
    PROVE  SeesOrOverlaps
<1>1. SUFFICES ASSUME NEW k \in Keys, row[k] # row'[k], row[k] # NoRow, row'[k] # NoRow
               PROVE  \/ \E m \in Messages : row'[k].log = Append(row[k].log, m)
                      \/ \E e \in Events :
                            /\ pc[e] = "replace" /\ Current(e) = k
                            /\ Head(sagasData[e]).etag # row[k].etag
  BY DEF SeesOrOverlaps
<1>2. ~UNCHANGED table
  BY <1>1 DEF table
<1>3. \A j \in Keys : ~DeleteRow(j)
  BY <1>1 DEF DeleteRow, SnapshotInv, TypeInv, StorageTypeOK
<1>4. ASSUME NEW e \in Events, Step(e) \/ Crash(e)
      PROVE  \/ \E m \in Messages : row'[k].log = Append(row[k].log, m)
             \/ pc[e] = "replace" /\ Current(e) = k /\ Head(sagasData[e]).etag # row[k].etag
  <2>1. Outcome(e)
    BY <1>4, StepOutcome, CrashOutcome DEF SnapshotInv, TypeInv
  <2>2. pc[e] \in Turn => Current(e) \in Keys /\ sagasData[e] # <<>>
    BY CurrentTyped DEF SnapshotInv, TypeInv, SagaAtHand
  <2>3. /\ pc[e] = "replace" /\ MatchesETag(Current(e), entity[e])
        /\ ReplaceRow(Current(e), Append(entity[e].log, e))
    BY <1>2, <1>3, <2>1, <2>2 DEF Outcome, Turn
  <2>4. Current(e) \in Keys /\ sagasData[e] # <<>>
    BY <2>2, <2>3 DEF Turn
  <2>5. k = Current(e) /\ row'[k].log = Append(entity[e].log, e)
    BY <1>1, <2>3, <2>4 DEF ReplaceRow, SnapshotInv, TypeInv, StorageTypeOK
  <2>6. entity[e].log = Head(sagasData[e]).log
    BY <2>3 DEF SnapshotInv, WritesSnapshot
  <2>7. CASE Head(sagasData[e]).etag = row[k].etag
    <3>1. Faithful(Head(sagasData[e]))
      <4>1. 1 \in 1..Len(sagasData[e]) /\ Head(sagasData[e]) = sagasData[e][1]
        BY <2>4, EmptySeq DEF SnapshotInv, TypeInv, LocalsOK
      <4>2. Head(sagasData[e]) \in Snapshot
        BY <2>4, HeadTailProperties DEF SnapshotInv, TypeInv, LocalsOK
      <4> QED
        BY <4>1, <4>2 DEF SnapshotInv, Has
    <3>2. row[k].log = Head(sagasData[e]).log
      BY <1>1, <2>5, <2>7, <3>1 DEF Faithful, Current
    <3> QED
      BY <2>5, <2>6, <3>2, MessageKinds
  <2> QED
    BY <2>3, <2>5, <2>7
<1>5. ASSUME NEW c \in Commands,
             StartSaga(c) \/ UpdateSaga(c) \/ BeginFinish(c) \/ EndFinish(c)
      PROVE  \E m \in Messages : row'[k].log = Append(row[k].log, m)
  <2>1. KeyOf[c] \in Keys /\ c \in Messages
    BY KeysAndLocks, MessageKinds
  <2>2. CASE StartSaga(c)
    BY <1>1, <2>1, <2>2 DEF StartSaga, InsertAllowed, InsertRow, SnapshotInv, TypeInv, StorageTypeOK
  <2>3. CASE UpdateSaga(c)
    <3>1. k = KeyOf[c] /\ row'[k].log = Append(row[k].log, c)
      BY <1>1, <2>1, <2>3 DEF UpdateSaga, ReplaceRow, SnapshotInv, TypeInv, StorageTypeOK
    <3> QED
      BY <2>1, <3>1
  <2> QED
    BY <1>2, <1>3, <1>5, <2>1, <2>2, <2>3 DEF BeginFinish, EndFinish, table
<1>6. ~\E l \in LockIds : Expire(l) \/ LoseLease(l)
  BY <1>2 DEF Expire, LoseLease
<1>7. ~\E e \in Events : Deliver(e) \/ Poison(e)
  BY <1>2 DEF Deliver, Poison
<1>8. ~UNCHANGED vars
  BY <1>2 DEF vars
<1> QED
  BY <1>4, <1>5, <1>6, <1>7, <1>8 DEF Next, Terminating

\* Data that somebody stored is overwritten only by an event whose saga was
\* changed between the query and the second read: with or without LockSagas,
\* with leases that are lost, for any crashes and failed calls.
THEOREM LossIsBounded == Spec => LossNeedsOverlap
<1>1. Init => SnapshotInv
  <2> SUFFICES ASSUME Init PROVE SnapshotInv
    OBVIOUS
  <2>1. /\ \A k \in Keys : row[k] = NoRow
        /\ \A e \in Events : pc[e] = "queued" /\ Len(sagasData[e]) = 0
    BY DEF Init, StorageInit
  <2> QED
    BY <2>1, TypeInit DEF SnapshotInv, WritesSnapshot, Has
<1>2. SnapshotInv /\ [Next]_vars => SnapshotInv' /\ SeesOrOverlaps
  BY SnapshotStep, OverlapStep
<1> QED
  BY <1>1, <1>2, PTL DEF Spec, LossNeedsOverlap, SeesOrOverlaps

----------------------------------------------------------------------------
(* Events and commands implement SagaSnapshots *)

\* Saga data is no NoRow, so that Data tells the live sagas.
LEMMA DataTells ==
    ASSUME StorageTypeOK, NEW k \in Keys
    PROVE  /\ Data[k] = NoRow <=> row[k] = NoRow
           /\ row[k] # NoRow => Data[k] = row[k].log /\ row[k].log \in Seq(Messages)
BY DistinctValues DEF StorageTypeOK, Data, Row

\* A row that is written changes its saga and no other.
LEMMA DataWritten ==
    ASSUME StorageTypeOK, NEW k \in Keys, NEW log \in Seq(Messages),
           InsertRow(k, log) \/ ReplaceRow(k, log)
    PROVE  Data' = [Data EXCEPT ![k] = log]
<1>1. [etag |-> version[k] + 1, log |-> log] # NoRow
  BY DistinctValues DEF StorageTypeOK, Row
<1>2. row' = [row EXCEPT ![k] = [etag |-> version[k] + 1, log |-> log]]
  BY DEF InsertRow, ReplaceRow
<1> QED
  BY <1>1, <1>2 DEF StorageTypeOK, Data

\* So does one that is deleted.
LEMMA DataDeleted ==
    ASSUME StorageTypeOK, NEW k \in Keys, DeleteRow(k)
    PROVE  Data' = [Data EXCEPT ![k] = NoRow]
BY DEF StorageTypeOK, DeleteRow, Data

\* The view of a list has a pair for each of its snapshots.
LEMMA ViewTyped ==
    ASSUME NEW s \in Seq(Snapshot)
    PROVE  /\ View(s) \in Seq(Keys \X Seq(Messages))
           /\ Len(View(s)) = Len(s) /\ Len(s) \in Nat
           /\ \A i \in 1..Len(s) : View(s)[i] = <<s[i].key, s[i].log>>
           /\ View(s) = <<>> <=> s = <<>>
<1>1. Len(s) \in Nat /\ DOMAIN s = 1..Len(s) /\ s \in [1..Len(s) -> Snapshot]
  BY LenProperties
<1>2. View(s) \in [1..Len(s) -> Keys \X Seq(Messages)]
  BY <1>1 DEF View, Snapshot
<1>3. View(s) \in Seq(Keys \X Seq(Messages))
  BY <1>1, <1>2, SeqDef
<1>4. Len(View(s)) = Len(s)
  <2>1. DOMAIN View(s) = 1..Len(s)
    BY <1>2
  <2> QED
    BY <1>1, <1>3, <2>1, LenProperties
<1>5. \A i \in 1..Len(s) : View(s)[i] = <<s[i].key, s[i].log>>
  BY <1>1 DEF View
<1>6. View(s) = <<>> <=> s = <<>>
  BY <1>3, <1>4, EmptySeq
<1> QED
  BY <1>1, <1>3, <1>4, <1>5, <1>6

\* Going on in the list is going on in the view.
LEMMA ViewTail ==
    ASSUME NEW s \in Seq(Snapshot), s # <<>>
    PROVE  /\ View(s) # <<>>
           /\ Head(View(s)) = <<Head(s).key, Head(s).log>>
           /\ Tail(View(s)) = View(Tail(s))
<1>1. View(s) \in Seq(Keys \X Seq(Messages)) /\ View(s) # <<>> /\ Len(View(s)) = Len(s)
  BY ViewTyped
<1>2. Tail(s) \in Seq(Snapshot) /\ Len(Tail(s)) = Len(s) - 1 /\ Len(s) \in Nat \ {0}
      /\ \A i \in 1..Len(Tail(s)) : Tail(s)[i] = s[i + 1]
  BY HeadTailProperties, EmptySeq
<1>3. Head(View(s)) = View(s)[1] /\ Head(s) = s[1] /\ 1 \in 1..Len(s)
  BY <1>2
<1>4. /\ View(Tail(s)) \in Seq(Keys \X Seq(Messages)) /\ Len(View(Tail(s))) = Len(Tail(s))
      /\ \A i \in 1..Len(Tail(s)) : View(Tail(s))[i] = <<Tail(s)[i].key, Tail(s)[i].log>>
  BY <1>2, ViewTyped
<1>5. /\ Tail(View(s)) \in Seq(Keys \X Seq(Messages)) /\ Len(Tail(View(s))) = Len(s) - 1
      /\ \A i \in 1..Len(Tail(View(s))) : Tail(View(s))[i] = View(s)[i + 1]
  BY <1>1, HeadTailProperties
<1>6. ASSUME NEW i \in 1..Len(Tail(s)) PROVE Tail(View(s))[i] = View(Tail(s))[i]
  <2>1. i + 1 \in 1..Len(s) /\ i \in 1..Len(Tail(View(s)))
    BY <1>2, <1>5
  <2>2. Tail(View(s))[i] = <<s[i + 1].key, s[i + 1].log>>
    BY <1>5, <2>1, ViewTyped
  <2> QED
    BY <1>2, <1>4, <2>2
<1>7. Tail(View(s)) = View(Tail(s))
  <2>1. Len(Tail(View(s))) = Len(View(Tail(s))) /\ Len(Tail(View(s))) = Len(Tail(s))
    BY <1>2, <1>4, <1>5
  <2> QED
    BY <1>4, <1>5, <1>6, <2>1, SeqEqual
<1> QED
  BY <1>1, <1>3, <1>7, ViewTyped

\* What a query adds to the list it adds to the view.
LEMMA ViewLonger ==
    ASSUME NEW s \in Seq(Snapshot), NEW t \in Seq(Snapshot)
    PROVE  /\ Len(View(s \o t)) = Len(s) + Len(t)
           /\ \A i \in 1..Len(s) : View(s \o t)[i] = View(s)[i]
           /\ \A i \in (Len(s) + 1)..(Len(s) + Len(t)) : \E j \in 1..Len(t) :
                 View(s \o t)[i] = <<t[j].key, t[j].log>>
<1>1. /\ s \o t \in Seq(Snapshot) /\ Len(s \o t) = Len(s) + Len(t)
      /\ \A i \in 1..Len(s) + Len(t) :
            (s \o t)[i] = IF i <= Len(s) THEN s[i] ELSE t[i - Len(s)]
      /\ Len(s) \in Nat /\ Len(t) \in Nat
  BY ConcatProperties, LenProperties
<1>2. \A i \in 1..Len(s) + Len(t) : View(s \o t)[i] = <<(s \o t)[i].key, (s \o t)[i].log>>
  BY <1>1, ViewTyped
<1>3. ASSUME NEW i \in 1..Len(s) PROVE View(s \o t)[i] = View(s)[i]
  <2>1. i \in 1..Len(s) + Len(t) /\ i <= Len(s)
    BY <1>1
  <2>2. (s \o t)[i] = s[i]
    BY <1>1, <2>1
  <2> QED
    BY <1>2, <2>1, <2>2, ViewTyped
<1>4. ASSUME NEW i \in (Len(s) + 1)..(Len(s) + Len(t))
      PROVE  \E j \in 1..Len(t) : View(s \o t)[i] = <<t[j].key, t[j].log>>
  <2>1. i \in 1..Len(s) + Len(t) /\ ~(i <= Len(s)) /\ i - Len(s) \in 1..Len(t)
    BY <1>1
  <2>2. (s \o t)[i] = t[i - Len(s)]
    BY <1>1, <2>1
  <2> QED
    BY <1>2, <2>1, <2>2
<1> QED
  BY <1>1, <1>3, <1>4, ViewTyped

\* A step of e changes the phase and the list of e alone.
LEMMA MineAlone ==
    ASSUME LocalsOK, NEW e \in Events, OnlyMine(e)
    PROVE  /\ Phases' = [Phases EXCEPT ![e] = Phase(e)']
           /\ Seen' = [Seen EXCEPT ![e] = View(Ahead(e))']
<1>1. \A f \in Events \ {e} : pc'[f] = pc[f] /\ sagasData'[f] = sagasData[f]
  BY OthersStay
<1>2. \A f \in Events \ {e} : Phase(f)' = Phase(f) /\ View(Ahead(f))' = View(Ahead(f))
  BY <1>1 DEF Phase, View, Ahead
<1> QED
  BY <1>2 DEF Phases, Seen

\* A pass has come to its end when nothing is left of its list.
EndsEmpty == \A e \in Events : pc[e] = "done" => sagasData[e] = <<>>

\* Updates are not for closing events.
UpdatesOnly == \A e \in Events : pc[e] = "replace" => e \notin Closing

\* What m has read was the row's ETag at that time.
ReadBefore == \A m \in Messages : \A k \in Keys : HasRead(m, k) => entity[m].etag <= version[k]

PassInv == GuardInv /\ SnapshotInv /\ EndsEmpty /\ UpdatesOnly /\ ReadBefore

\* Who has read a row has an entity.
LEMMA ReaderTyped ==
    ASSUME TypeInv, NEW m \in Messages, NEW k \in Keys, HasRead(m, k)
    PROVE  entity[m] \in Row /\ entity[m].etag \in Nat
<1>1. entity[m] # NoRow
  BY DEF HasRead, TypeInv, EntityAtHand
<1> QED
  BY <1>1 DEF TypeInv, LocalsOK, Row

\* A step of e leaves the others what they have read.
LEMMA OthersRead ==
    ASSUME LocalsOK, NEW e \in Events, OnlyMine(e), NEW m \in Messages \ {e}
    PROVE  entity'[m] = entity[m] /\ \A k : HasRead(m, k)' <=> HasRead(m, k)
<1>1. /\ \A f \in Events \ {e} : pc'[f] = pc[f] /\ sagasData'[f] = sagasData[f]
      /\ entity'[m] = entity[m]
  BY OthersStay
<1> QED
  BY <1>1 DEF HasRead, Current

\* Fresh is the same as long as the rows and their readers are.
LEMMA FreshSame ==
    ASSUME UNCHANGED row,
           \A m \in Messages : \A k \in Keys :
              /\ HasRead(m, k)' <=> HasRead(m, k)
              /\ HasRead(m, k) => entity'[m] = entity[m]
    PROVE  Fresh' = Fresh
BY DEF Fresh, MatchesETag

\* One who has read a row is in Fresh; one who forgets it is not.
LEMMA FreshRead ==
    ASSUME UNCHANGED row, NEW m \in Messages, NEW k \in Keys, MatchesETag(k, entity'[m]),
           \A j \in Keys : ~HasRead(m, j) /\ (HasRead(m, j)' <=> j = k),
           \A n \in Messages \ {m} :
              entity'[n] = entity[n] /\ \A j \in Keys : HasRead(n, j)' <=> HasRead(n, j)
    PROVE  Fresh' = Fresh \cup {<<m, k>>}
BY DEF Fresh, MatchesETag

LEMMA FreshForgotten ==
    ASSUME UNCHANGED row, NEW m \in Messages, \A j \in Keys : ~HasRead(m, j)',
           \A n \in Messages \ {m} :
              entity'[n] = entity[n] /\ \A j \in Keys : HasRead(n, j)' <=> HasRead(n, j)
    PROVE  Fresh' = {p \in Fresh : p[1] # m}
BY DEF Fresh, MatchesETag

\* Nobody's reading of a row outlives a change of it.
LEMMA FreshWritten ==
    ASSUME TypeInv, ReadBefore, NEW k \in Keys, NEW new, row' = [row EXCEPT ![k] = new],
           new = NoRow \/ new.etag = version[k] + 1,
           \A m \in Messages : \A j \in Keys :
              /\ HasRead(m, j)' => HasRead(m, j) /\ entity'[m] = entity[m]
              /\ HasRead(m, j) /\ j # k => HasRead(m, j)'
    PROVE  Fresh' = {p \in Fresh : p[2] # k}
<1>1. \A j \in Keys \ {k} : row'[j] = row[j]
  BY DEF TypeInv, StorageTypeOK
<1>2. row'[k] = new
  BY DEF TypeInv, StorageTypeOK
<1>3. ASSUME NEW m \in Messages, HasRead(m, k)' PROVE ~MatchesETag(k, entity[m])'
  <2>1. HasRead(m, k) /\ entity'[m] = entity[m]
    BY <1>3
  <2>2. entity[m].etag \in Nat /\ entity[m].etag <= version[k] /\ version[k] \in Nat
    BY <2>1, ReaderTyped DEF ReadBefore, TypeInv, StorageTypeOK
  <2> QED
    BY <1>2, <2>1, <2>2 DEF MatchesETag
<1>4. ASSUME NEW m \in Messages, NEW j \in Keys \ {k}
      PROVE  HasRead(m, j)' /\ MatchesETag(j, entity[m])' <=> HasRead(m, j) /\ MatchesETag(j, entity[m])
  BY <1>1 DEF MatchesETag
<1> QED
  BY <1>3, <1>4 DEF Fresh

\* Only these steps have read a row in order to write it.
Writing == {"handle", "replace", "deleteLock", "deleteRow"}

\* An event has read no row but the current one, and that in its turn.
LEMMA EventReads ==
    ASSUME NEW e \in Events, NEW k
    PROVE  HasRead(e, k) <=> pc[e] \in Writing /\ Current(e) = k
BY MessageKinds DEF HasRead, Writing

\* A step of e that neither SagaSnapshots nor the sagas can tell.
LEMMA StutterStep ==
    ASSUME TypeInv, NEW e \in Events, OnlyMine(e), UNCHANGED table,
           Phase(e)' = Phase(e), View(Ahead(e))' = View(Ahead(e)),
           \/ pc[e] \notin Writing /\ pc'[e] \notin Writing
           \/ /\ pc[e] \in Writing /\ pc'[e] \in Writing
              /\ sagasData'[e] = sagasData[e] /\ entity'[e] = entity[e]
    PROVE  UNCHANGED Snapshots!vars
<1>1. Phases' = Phases /\ Seen' = Seen
  <2>1. /\ Phases' = [Phases EXCEPT ![e] = Phase(e)]
        /\ Seen' = [Seen EXCEPT ![e] = View(Ahead(e))]
    BY MineAlone DEF TypeInv
  <2> QED
    BY <2>1 DEF Phases, Seen
<1>2. Data' = Data
  BY DEF Data, table
<1>3. Fresh' = Fresh
  <2>1. ASSUME NEW k \in Keys
        PROVE  (HasRead(e, k)' <=> HasRead(e, k)) /\ (HasRead(e, k) => entity'[e] = entity[e])
    BY MessageKinds DEF HasRead, Writing, Current
  <2> QED
    BY <2>1, OthersRead, FreshSame, MessageKinds DEF TypeInv, table
<1> QED
  BY <1>1, <1>2, <1>3 DEF Snapshots!vars

\* An exception or a crash ends the pass.
LEMMA AbandonStep ==
    ASSUME TypeInv, NEW e \in Events, UNCHANGED table, pc[e] \notin Resting \cup {"undo"},
           Moves(e, "undo") \/ Leaves(e)
    PROVE  Snapshots!Abandon(e)
<1>1. OnlyMine(e) /\ pc'[e] \in {"undo", "queued"} /\ (pc'[e] = "queued" => sagasData'[e] = <<>>)
  BY DEF Moves, Leaves
<1>2. Phases[e] \in {"asking", "visiting"} /\ Phase(e)' = "idle"
  BY <1>1 DEF Phases, Phase, Resting
<1>3. View(Ahead(e))' = <<>>
  <2>1. Ahead(e)' = <<>>
    BY <1>1 DEF Ahead
  <2> QED
    BY <2>1, ViewTyped, EmptySeq
<1>4. Fresh' = {p \in Fresh : p[1] # e}
  <2>1. \A k \in Keys : ~HasRead(e, k)'
    BY <1>1, MessageKinds DEF HasRead
  <2> QED
    BY <1>1, <2>1, OthersRead, FreshForgotten, MessageKinds DEF TypeInv, table
<1>5. Data' = Data
  BY DEF Data, table
<1> QED
  BY <1>1, <1>2, <1>3, <1>4, <1>5, MineAlone DEF Snapshots!Abandon, TypeInv

\* The second read of a saga.
LEMMA LookStep ==
    ASSUME TypeInv, NEW e \in Events, UNCHANGED table, pc[e] = "retrieve", Reads(e)
    PROVE  Snapshots!LookAgain(e)
<1>0. /\ OnlyMine(e) /\ pc'[e] = "handle" /\ sagasData'[e] = sagasData[e] /\ e \in Messages
      /\ sagasData[e] # <<>> /\ sagasData[e] \in Seq(Snapshot) /\ Current(e) \in Keys
      /\ row[Current(e)] # NoRow /\ entity'[e].etag = row[Current(e)].etag
  BY CurrentTyped DEF Reads, Refreshed, TypeInv, SagaAtHand, Turn
<1>1. Ahead(e) = sagasData[e] /\ Ahead(e)' = sagasData[e]
  BY <1>0 DEF Ahead
<1>2. Phases' = Phases /\ Seen' = Seen
  <2>1. Phase(e)' = Phase(e) /\ View(Ahead(e))' = View(Ahead(e))
    BY <1>0, <1>1 DEF Phase, View
  <2> QED
    BY <1>0, <2>1, MineAlone DEF TypeInv, Phases, Seen
<1>3. Snapshots!Visiting(e) /\ Head(Seen[e])[1] = Current(e)
  <2>1. Seen[e] = View(sagasData[e]) /\ Phases[e] = "visiting"
    BY <1>1 DEF Seen, Phases, Phase
  <2> QED
    BY <1>0, <2>1, ViewTail DEF Snapshots!Visiting, Current
<1>4. Fresh' = Fresh \cup {<<e, Current(e)>>}
  <2>1. \A k \in Keys : ~HasRead(e, k) /\ (HasRead(e, k)' <=> k = Current(e))
    BY <1>0, MessageKinds DEF HasRead, Current
  <2>2. MatchesETag(Current(e), entity'[e])
    BY <1>0 DEF MatchesETag
  <2> QED
    BY <1>0, <2>1, <2>2, OthersRead, FreshRead DEF TypeInv, table
<1>5. Data' = Data /\ Data[Current(e)] # NoRow
  BY <1>0, DataTells DEF Data, table, TypeInv
<1> QED
  BY <1>2, <1>3, <1>4, <1>5 DEF Snapshots!LookAgain, Snapshots!Reread

\* A segment of the query.
LEMMA FindStep ==
    ASSUME TypeInv, NEW e \in Events, UNCHANGED table, pc[e] = "query",
           NEW hi \in (asked[e] + 1)..Len(KeyOrder),
           NEW segment \in Segments(asked[e] + 1, hi), Finds(e, hi, segment)
    PROVE  Snapshots!Find(e)
<1>1. asked[e] + 1 \in Nat \ {0} /\ Len(KeyOrder) \in Nat /\ sagasData[e] \in Seq(Snapshot)
  BY KeysAndLocks DEF TypeInv, LocalsOK
<1>2. /\ segment \in Seq(Snapshot)
      /\ \A i \in 1..Len(segment) :
            row[segment[i].key] # NoRow /\ segment[i].log = row[segment[i].key].log
  BY <1>1, SegmentLists DEF TypeInv
<1>3. /\ OnlyMine(e) /\ sagasData'[e] = sagasData[e] \o segment
      /\ pc'[e] \in {"query", "done", "upload", "retrieve"}
  BY DEF Finds, FirstStep
<1>4. Phases[e] = "asking" /\ \E next \in {"asking", "visiting"} : Phase(e)' = next
  BY <1>3 DEF Phases, Phase
<1>5. Ahead(e) = sagasData[e] /\ Ahead(e)' = sagasData[e] \o segment
  BY <1>3 DEF Ahead
<1>6. Seen[e] = View(sagasData[e]) /\ Seen'[e] = View(sagasData[e] \o segment)
  BY <1>5 DEF Seen, View
<1>7. /\ Len(Seen[e]) = Len(sagasData[e]) /\ Len(sagasData[e]) \in Nat /\ Len(segment) \in Nat
      /\ Len(Seen'[e]) = Len(sagasData[e]) + Len(segment)
      /\ \A i \in 1..Len(sagasData[e]) : Seen'[e][i] = Seen[e][i]
      /\ \A i \in (Len(sagasData[e]) + 1)..(Len(sagasData[e]) + Len(segment)) :
            \E j \in 1..Len(segment) : Seen'[e][i] = <<segment[j].key, segment[j].log>>
  <2>1. /\ Len(View(sagasData[e])) = Len(sagasData[e]) /\ Len(sagasData[e]) \in Nat
        /\ Len(segment) \in Nat
    BY <1>1, <1>2, ViewTyped
  <2>2. /\ Len(View(sagasData[e] \o segment)) = Len(sagasData[e]) + Len(segment)
        /\ \A i \in 1..Len(sagasData[e]) :
              View(sagasData[e] \o segment)[i] = View(sagasData[e])[i]
        /\ \A i \in (Len(sagasData[e]) + 1)..(Len(sagasData[e]) + Len(segment)) :
              \E j \in 1..Len(segment) :
                 View(sagasData[e] \o segment)[i] = <<segment[j].key, segment[j].log>>
    BY <1>1, <1>2, ViewLonger
  <2>3. PICK longer : longer = View(sagasData[e] \o segment)
    OBVIOUS
  <2> QED
    BY <1>6, <2>1, <2>2, <2>3
<1>8. ASSUME NEW j \in 1..Len(segment)
      PROVE  \E k \in Keys : Data[k] # NoRow /\ <<segment[j].key, segment[j].log>> = <<k, Data[k]>>
  <2>1. segment[j] \in Snapshot
    BY <1>2, ElementOfSeq
  <2>2. segment[j].key \in Keys
    BY <2>1 DEF Snapshot
  <2> QED
    BY <1>2, <2>2, DataTells DEF TypeInv
<1>9. Data' = Data
  BY DEF Data, table
<1>10. Fresh' = Fresh
  <2>1. \A k \in Keys : ~HasRead(e, k) /\ ~HasRead(e, k)'
    BY <1>3, MessageKinds DEF HasRead
  <2> QED
    BY <1>3, <2>1, OthersRead, FreshSame, MessageKinds DEF TypeInv, table
<1>11. Phases' = [Phases EXCEPT ![e] = Phase(e)'] /\ Seen' = [Seen EXCEPT ![e] = Seen'[e]]
  BY <1>3, MineAlone DEF TypeInv, Seen
<1>12. \A i \in (Len(Seen[e]) + 1)..Len(Seen'[e]) :
          \E k \in Keys : Data[k] # NoRow /\ Seen'[e][i] = <<k, Data[k]>>
  <2> TAKE i \in (Len(Seen[e]) + 1)..Len(Seen'[e])
  <2>1. PICK j \in 1..Len(segment) : Seen'[e][i] = <<segment[j].key, segment[j].log>>
    BY <1>7
  <2> QED
    BY <1>8, <2>1
<1>13. /\ \E next \in {"asking", "visiting"} : Phases' = [Phases EXCEPT ![e] = next]
       /\ Len(Seen[e]) <= Len(Seen'[e])
       /\ \A i \in 1..Len(Seen[e]) : Seen'[e][i] = Seen[e][i]
  <2>1. Len(Seen[e]) <= Len(Seen'[e])
    BY <1>7
  <2> QED
    BY <1>4, <1>7, <1>11, <2>1
<1> QED
  BY <1>4, <1>9, <1>10, <1>11, <1>12, <1>13 DEF Snapshots!Find

\* A row that is written is no longer fresh for anybody, which it was for e.
LEMMA WrittenStep ==
    ASSUME TypeInv, ReadBefore, NEW e \in Events, OnlyMine(e),
           pc[e] \in Writing, pc'[e] \notin Writing, MatchesETag(Current(e), entity[e]),
           NEW new, row' = [row EXCEPT ![Current(e)] = new],
           new = NoRow \/ new.etag = version[Current(e)] + 1
    PROVE  /\ <<e, Current(e)>> \in Fresh
           /\ Fresh' = {p \in Fresh : p[2] # Current(e)}
<1>1. e \in Messages /\ Current(e) \in Keys
  BY CurrentTyped DEF TypeInv, SagaAtHand, Turn, Writing
<1>2. \A j \in Keys : ~HasRead(e, j)' /\ (HasRead(e, j) => j = Current(e))
  BY MessageKinds DEF HasRead, Writing
<1>3. HasRead(e, Current(e))
  BY EventReads
<1>4. \A m \in Messages : \A j \in Keys :
         /\ HasRead(m, j)' => HasRead(m, j) /\ entity'[m] = entity[m]
         /\ HasRead(m, j) /\ j # Current(e) => HasRead(m, j)'
  BY <1>1, <1>2, OthersRead DEF TypeInv
<1> QED
  BY <1>1, <1>3, <1>4, FreshWritten DEF Fresh

\* With its saga written, e goes on to the next one or abandons the pass.
LEMMA LeaveStep ==
    ASSUME TypeInv, NEW e \in Events, pc[e] \in {"replace", "deleteRow"},
           Moves(e, "release") \/ Moves(e, "deleteBlobs") \/ Turns(e) \/ Moves(e, "undo")
    PROVE  /\ OnlyMine(e) /\ pc'[e] \notin Writing
           /\ Snapshots!Visiting(e) /\ Snapshots!Leave(e)
           /\ Head(Seen[e])[1] = Current(e) /\ Head(Seen[e])[2] = Head(sagasData[e]).log
<1>1. sagasData[e] # <<>> /\ sagasData[e] \in Seq(Snapshot)
  BY CurrentTyped DEF TypeInv, SagaAtHand, Turn
<1>2. Seen[e] = View(sagasData[e]) /\ Phases[e] = "visiting"
  BY DEF Seen, Phases, Phase, Ahead
<1>3. /\ Seen[e] # <<>> /\ Head(Seen[e])[1] = Current(e) /\ Head(Seen[e])[2] = Head(sagasData[e]).log
      /\ Tail(Seen[e]) = View(Tail(sagasData[e]))
  BY <1>1, <1>2, ViewTail DEF Current
<1>4. OnlyMine(e) /\ pc'[e] \in {"release", "deleteBlobs", "undo", "done", "upload", "retrieve"}
  BY DEF Moves, Turns, FirstStep
<1>5. /\ Phases' = [Phases EXCEPT ![e] = Phase(e)']
      /\ Seen' = [Seen EXCEPT ![e] = View(Ahead(e))']
  BY <1>4, MineAlone DEF TypeInv
<1>6. CASE pc'[e] = "undo"
  <2>1. Phase(e)' = "idle" /\ Ahead(e)' = <<>>
    BY <1>6 DEF Phase, Ahead
  <2>2. View(Ahead(e))' = <<>>
    BY <2>1, ViewTyped, EmptySeq
  <2> QED
    BY <1>2, <1>3, <1>4, <1>5, <1>6, <2>1, <2>2 DEF Snapshots!Leave, Snapshots!Visiting, Writing
<1>7. CASE pc'[e] # "undo"
  <2>1. Phase(e)' = "visiting" /\ Ahead(e)' = Tail(sagasData[e])
    BY <1>4, <1>7 DEF Phase, Ahead, Moves, Turns, FirstStep
  <2>2. Phases' = Phases
    BY <1>2, <1>5, <2>1 DEF Phases
  <2>3. View(Ahead(e))' = Tail(Seen[e])
    BY <1>3, <2>1 DEF View
  <2> QED
    BY <1>2, <1>3, <1>4, <1>5, <2>2, <2>3 DEF Snapshots!Leave, Snapshots!Visiting, Writing
<1> QED
  BY <1>6, <1>7

\* UpdateAsync: the data of the query, and e.
LEMMA ApplyStep ==
    ASSUME TypeInv, ReadBefore, UpdatesOnly, NEW e \in Events, WritesSnapshot(e),
           pc[e] = "replace", MatchesETag(Current(e), entity[e]),
           ReplaceRow(Current(e), Append(entity[e].log, e)),
           Moves(e, "release") \/ Turns(e) \/ Moves(e, "undo")
    PROVE  Snapshots!Apply(e)
<1>1. e \in Messages /\ Current(e) \in Keys /\ entity[e] \in Row /\ e \notin Closing
  BY CurrentTyped DEF TypeInv, SagaAtHand, EntityAtHand, LocalsOK, Turn, UpdatesOnly
<1>2. Append(entity[e].log, e) \in Seq(Messages)
  BY <1>1, AppendProperties DEF Row
<1>3. /\ OnlyMine(e) /\ pc'[e] \notin Writing
      /\ Snapshots!Visiting(e) /\ Snapshots!Leave(e)
      /\ Head(Seen[e])[1] = Current(e) /\ Head(Seen[e])[2] = entity[e].log
  BY LeaveStep DEF WritesSnapshot
<1>4. Data' = [Data EXCEPT ![Current(e)] = Append(entity[e].log, e)]
  BY <1>1, <1>2, DataWritten DEF TypeInv
<1>5. <<e, Current(e)>> \in Fresh /\ Fresh' = {p \in Fresh : p[2] # Current(e)}
  <2> DEFINE new == [etag |-> version[Current(e)] + 1, log |-> Append(entity[e].log, e)]
  <2>1. row' = [row EXCEPT ![Current(e)] = new] /\ new.etag = version[Current(e)] + 1
    BY DEF ReplaceRow
  <2>2. pc[e] \in Writing
    BY DEF Writing
  <2> HIDE DEF new
  <2> QED
    BY <1>3, <2>1, <2>2, WrittenStep
<1> QED
  BY <1>1, <1>3, <1>4, <1>5 DEF Snapshots!Apply, Snapshots!Write

\* DeleteSagaAsync.
LEMMA CloseStep ==
    ASSUME TypeInv, OnPath, ReadBefore, NEW e \in Events, pc[e] = "deleteRow",
           MatchesETag(Current(e), entity[e]), DeleteRow(Current(e)),
           Moves(e, "deleteBlobs") \/ Moves(e, "undo")
    PROVE  Snapshots!Close(e)
<1>1. Current(e) \in Keys /\ e \in Closing /\ pc[e] \in Writing
  BY CurrentTyped DEF TypeInv, SagaAtHand, Turn, OnPath, Writing
<1>2. /\ OnlyMine(e) /\ pc'[e] \notin Writing
      /\ Snapshots!Visiting(e) /\ Snapshots!Leave(e) /\ Head(Seen[e])[1] = Current(e)
  BY LeaveStep
<1>3. Data' = [Data EXCEPT ![Current(e)] = NoRow]
  BY <1>1, DataDeleted DEF TypeInv
<1>4. <<e, Current(e)>> \in Fresh /\ Fresh' = {p \in Fresh : p[2] # Current(e)}
  BY <1>1, <1>2, WrittenStep DEF DeleteRow
<1> QED
  BY <1>1, <1>2, <1>3, <1>4 DEF Snapshots!Close, Snapshots!Write

\* The event is consumed.
LEMMA ConsumeStep ==
    ASSUME TypeInv, EndsEmpty, NEW e \in Events, UNCHANGED table, pc[e] = "done",
           Moves(e, "deleted")
    PROVE  Snapshots!Consume(e)
<1>1. OnlyMine(e) /\ pc'[e] = "deleted" /\ sagasData[e] = <<>> /\ sagasData'[e] = sagasData[e]
  BY DEF Moves, EndsEmpty
<1>2. /\ Phases[e] = "visiting" /\ Phase(e)' = "consumed"
      /\ Ahead(e) = <<>> /\ Ahead(e)' = <<>> /\ <<>> \in Seq(Snapshot)
  BY <1>1, EmptySeq DEF Phases, Phase, Ahead
<1>3. Seen[e] = <<>> /\ View(Ahead(e))' = <<>>
  BY <1>2, ViewTyped DEF Seen
<1>4. Fresh' = Fresh
  <2>1. \A k \in Keys : ~HasRead(e, k) /\ ~HasRead(e, k)'
    BY <1>1, MessageKinds DEF HasRead
  <2> QED
    BY <1>1, <2>1, OthersRead, FreshSame, MessageKinds DEF TypeInv, table
<1>5. Data' = Data
  BY DEF Data, table
<1>6. Phases' = [Phases EXCEPT ![e] = "consumed"] /\ Seen' = [Seen EXCEPT ![e] = <<>>]
  BY <1>1, <1>2, <1>3, MineAlone DEF TypeInv
<1>7. Seen' = Seen
  BY <1>3, <1>6 DEF Seen
<1> QED
  BY <1>2, <1>3, <1>4, <1>5, <1>6, <1>7 DEF Snapshots!Consume

\* Between the calls that others notice, an attempt goes on for itself.
LEMMA MoveStutters ==
    ASSUME TypeInv, NEW e \in Events, NEW step, Moves(e, step), UNCHANGED table,
           \/ pc[e] \in {"upload", "acquire", "retrieve"} /\ step \in {"acquire", "retrieve", "dropLock"}
           \/ pc[e] \in Writing /\ step \in Writing
    PROVE  UNCHANGED Snapshots!vars
<1>1. OnlyMine(e) /\ pc'[e] = step /\ sagasData'[e] = sagasData[e] /\ entity'[e] = entity[e]
  BY DEF Moves
<1>2. /\ pc[e] \in {"upload", "acquire", "retrieve"} \cup Writing
      /\ pc'[e] \in {"acquire", "retrieve", "dropLock"} \cup Writing
  BY <1>1
<1>3. Phase(e) = "visiting" /\ Phase(e)' = "visiting"
  BY <1>2 DEF Phase, Writing
<1>4. Ahead(e) = sagasData[e] /\ Ahead(e)' = sagasData[e]
  BY <1>1, <1>2 DEF Ahead, Writing
<1>5. View(Ahead(e))' = View(Ahead(e))
  BY <1>4 DEF View
<1> QED
  BY <1>1, <1>3, <1>5, StutterStep DEF Writing

\* The last call of a turn: e has left the saga before.
LEMMA TurnStutters ==
    ASSUME TypeInv, NEW e \in Events, Turns(e), UNCHANGED table,
           pc[e] \in {"release", "deleteBlobs"}
    PROVE  UNCHANGED Snapshots!vars
<1>1. OnlyMine(e) /\ pc'[e] \in {"upload", "retrieve", "done"} /\ sagasData'[e] = Tail(sagasData[e])
  BY DEF Turns, FirstStep
<1>2. Phase(e) = "visiting" /\ Phase(e)' = "visiting"
  BY <1>1 DEF Phase
<1>3. Ahead(e) = Tail(sagasData[e]) /\ Ahead(e)' = Tail(sagasData[e])
  BY <1>1 DEF Ahead
<1>4. View(Ahead(e))' = View(Ahead(e))
  BY <1>3 DEF View
<1> QED
  BY <1>1, <1>2, <1>4, StutterStep DEF Writing

\* After the catch block there is no pass to abandon.
LEMMA UndoStutters ==
    ASSUME TypeInv, NEW e \in Events, Leaves(e), UNCHANGED table, pc[e] = "undo"
    PROVE  UNCHANGED Snapshots!vars
<1>1. OnlyMine(e) /\ pc'[e] = "queued" /\ sagasData'[e] = <<>>
  BY DEF Leaves
<1>2. Phase(e) = "idle" /\ Phase(e)' = "idle"
  BY <1>1 DEF Phase
<1>3. Ahead(e) = <<>> /\ Ahead(e)' = <<>>
  BY <1>1 DEF Ahead
<1>4. View(Ahead(e))' = View(Ahead(e))
  BY <1>3 DEF View
<1> QED
  BY <1>1, <1>2, <1>4, StutterStep DEF Writing

\* Every step of an attempt is one of an event, or nobody's.
LEMMA AttemptPasses ==
    ASSUME PassInv, NEW e \in Events, Step(e) \/ Crash(e)
    PROVE  Snapshots!Next \/ UNCHANGED Snapshots!vars
<1>0. /\ TypeInv /\ OnPath /\ EndsEmpty /\ UpdatesOnly /\ ReadBefore /\ WritesSnapshot(e)
      /\ Outcome(e)
  BY StepOutcome, CrashOutcome DEF PassInv, GuardInv, SnapshotInv, TypeInv
<1>1. pc[e] \notin Resting
  BY DEF Crash, Step, Query, UploadLock, AcquireLock, Retrieve, DropLock, Handle, Replace,
         Release, DeleteLock, DeleteSaga, DeleteBlobs, Undo, Complete, Resting
<1>2. ASSUME Snapshots!LookAgain(e) \/ Snapshots!Find(e) \/ Snapshots!Apply(e)
             \/ Snapshots!Close(e) \/ Snapshots!Abandon(e) \/ Snapshots!Consume(e)
      PROVE  Snapshots!Next
  BY <1>2 DEF Snapshots!Next
<1>3. ASSUME UNCHANGED table, Moves(e, "undo"), pc[e] \in Turn
      PROVE  Snapshots!Abandon(e)
  BY <1>0, <1>1, <1>3, AbandonStep DEF Turn
<1>4. CASE Leaves(e) /\ UNCHANGED table
  BY <1>0, <1>1, <1>2, <1>4, AbandonStep, UndoStutters
<1>5. CASE pc[e] = "query" /\ UNCHANGED table
           /\ \E hi \in (asked[e] + 1)..Len(KeyOrder) :
                 \E segment \in Segments(asked[e] + 1, hi) : Finds(e, hi, segment)
  BY <1>0, <1>2, <1>5, FindStep
<1>6. CASE pc[e] \in Turn /\ UNCHANGED table /\ Moves(e, "undo")
  BY <1>2, <1>3, <1>6
<1>7. CASE UNCHANGED table /\ \/ pc[e] = "upload" /\ Moves(e, "acquire")
                              \/ pc[e] = "acquire" /\ Moves(e, "retrieve")
                              \/ pc[e] = "retrieve" /\ Moves(e, "dropLock")
                              \/ pc[e] = "deleteLock" /\ Moves(e, "deleteRow")
                              \/ pc[e] = "handle" /\ Moves(e, AfterHandler(e))
  <2>1. AfterHandler(e) \in Writing
    BY DEF AfterHandler, Writing
  <2> QED
    BY <1>0, <1>7, <2>1, MoveStutters DEF Writing
<1>8. CASE pc[e] = "retrieve" /\ UNCHANGED table /\ Reads(e)
  BY <1>0, <1>2, <1>8, LookStep
<1>9. CASE /\ pc[e] = "replace" /\ MatchesETag(Current(e), entity[e])
           /\ ReplaceRow(Current(e), Append(entity[e].log, e))
           /\ Moves(e, "release") \/ Turns(e) \/ Moves(e, "undo")
  BY <1>0, <1>2, <1>9, ApplyStep
<1>10. CASE /\ pc[e] = "deleteRow" /\ MatchesETag(Current(e), entity[e])
            /\ DeleteRow(Current(e))
            /\ Moves(e, "deleteBlobs") \/ Moves(e, "undo")
  BY <1>0, <1>2, <1>10, CloseStep
<1>11. CASE pc[e] \in {"release", "deleteBlobs"} /\ Turns(e) /\ UNCHANGED table
  BY <1>0, <1>11, TurnStutters
<1>12. CASE pc[e] = "done" /\ Moves(e, "deleted") /\ UNCHANGED table
  BY <1>0, <1>2, <1>12, ConsumeStep
<1> QED
  BY <1>0, <1>4, <1>5, <1>6, <1>7, <1>8, <1>9, <1>10, <1>11, <1>12 DEF Outcome, Turn

\* Every step of a command is one of SagaSnapshots, or nobody's.
LEMMA CommandPasses ==
    ASSUME PassInv, NEW c \in Commands,
           StartSaga(c) \/ UpdateSaga(c) \/ BeginFinish(c) \/ EndFinish(c)
    PROVE  Snapshots!Next \/ UNCHANGED Snapshots!vars
<1> DEFINE k == KeyOf[c]
<1>0. TypeInv /\ StorageTypeOK /\ LocalsOK /\ ReadBefore
  BY DEF PassInv, GuardInv, TypeInv
<1>1. k \in Keys /\ c \in Messages /\ c \notin Events /\ <<c>> \in Seq(Messages)
  BY KeysAndLocks, MessageKinds
<1>2. UNCHANGED <<pc, sagasData>> /\ Phases' = Phases /\ Seen' = Seen
  BY DEF StartSaga, UpdateSaga, BeginFinish, EndFinish, memory,
         Phases, Phase, Seen, View, Ahead
<1>3. \A m \in Messages \ {c} : entity'[m] = entity[m]
  BY <1>0 DEF StartSaga, UpdateSaga, BeginFinish, EndFinish, memory, LocalsOK
<1>4. \A m \in Messages \ {c} : \A j \in Keys : HasRead(m, j)' <=> HasRead(m, j)
  BY <1>2, <1>3 DEF HasRead, Current
<1> HIDE DEF k
<1>5. ASSUME UNCHANGED entity, NEW new, row' = [row EXCEPT ![k] = new],
             new = NoRow \/ new.etag = version[k] + 1
      PROVE  Fresh' = {p \in Fresh : p[2] # k}
  <2>1. \A j \in Keys : HasRead(c, j)' <=> HasRead(c, j)
    BY <1>1, <1>5 DEF HasRead
  <2>2. \A m \in Messages : \A j \in Keys : (HasRead(m, j)' <=> HasRead(m, j)) /\ entity'[m] = entity[m]
    BY <1>3, <1>4, <1>5, <2>1
  <2> QED
    BY <1>0, <1>1, <1>5, <2>2, FreshWritten
<1>6. CASE StartSaga(c)
  <2>1. /\ c \in Starting /\ row[k] = NoRow /\ InsertRow(k, <<c>>) /\ UNCHANGED entity
        /\ row' = [row EXCEPT ![k] = [etag |-> version[k] + 1, log |-> <<c>>]]
    BY <1>6 DEF StartSaga, InsertAllowed, InsertRow, memory, k
  <2>2. Data' = [Data EXCEPT ![k] = <<c>>] /\ Data[k] = NoRow
    BY <1>0, <1>1, <2>1, DataWritten, DataTells
  <2>3. Fresh' = {p \in Fresh : p[2] # k}
    BY <1>5, <2>1
  <2>4. Snapshots!Start(c)
    BY <1>2, <2>1, <2>2, <2>3 DEF Snapshots!Start, Snapshots!Write, k
  <2> QED
    BY <2>4 DEF Snapshots!Next
<1>7. CASE UpdateSaga(c)
  <2>1. /\ c \notin Starting \cup Finishing /\ row[k] # NoRow /\ UNCHANGED entity
        /\ ReplaceRow(k, Append(row[k].log, c))
    BY <1>7 DEF UpdateSaga, memory, k
  <2>2. Data[k] = row[k].log /\ Data[k] # NoRow /\ Append(row[k].log, c) \in Seq(Messages)
    BY <1>0, <1>1, <2>1, DataTells, AppendProperties
  <2>3. Data' = [Data EXCEPT ![k] = Append(Data[k], c)]
    BY <1>0, <1>1, <2>1, <2>2, DataWritten
  <2>4. row' = [row EXCEPT ![k] = [etag |-> version[k] + 1, log |-> Append(row[k].log, c)]]
    BY <2>1 DEF ReplaceRow
  <2>5. Fresh' = {p \in Fresh : p[2] # k}
    BY <1>5, <2>1, <2>4
  <2>6. Snapshots!Update(c)
    BY <1>2, <2>1, <2>2, <2>3, <2>5 DEF Snapshots!Update, Snapshots!Write, k
  <2> QED
    BY <2>6 DEF Snapshots!Next
<1>8. CASE BeginFinish(c)
  <2>1. /\ c \in Finishing /\ entity[c] = NoRow /\ row[k] # NoRow /\ UNCHANGED table
        /\ entity' = [entity EXCEPT ![c] = row[k]]
    BY <1>8 DEF BeginFinish, k
  <2>2. entity'[c] = row[k]
    BY <1>0, <1>1, <2>1 DEF LocalsOK
  <2>3. \A j \in Keys : ~HasRead(c, j) /\ (HasRead(c, j)' <=> j = k)
    BY <1>1, <2>1, <2>2 DEF HasRead, k
  <2>4. MatchesETag(k, entity'[c])
    BY <2>1, <2>2 DEF MatchesETag
  <2>5. Fresh' = Fresh \cup {<<c, k>>}
    BY <1>1, <1>3, <1>4, <2>1, <2>3, <2>4, FreshRead DEF table
  <2>6. Data' = Data /\ Data[k] # NoRow
    BY <1>0, <1>1, <2>1, DataTells DEF Data, table
  <2>7. Snapshots!Reread(c, KeyOf[c])
    BY <1>2, <2>5, <2>6 DEF Snapshots!Reread, k
  <2> QED
    BY <2>1, <2>7 DEF Snapshots!Next
<1>9. CASE EndFinish(c)
  <2>1. entity[c] # NoRow /\ entity'[c] = NoRow /\ c \in Finishing
    BY <1>0, <1>1, <1>9 DEF EndFinish, LocalsOK, PassInv, GuardInv, OnPath
  <2>2. \A j \in Keys : ~HasRead(c, j)' /\ (HasRead(c, j) <=> j = k)
    BY <1>1, <2>1 DEF HasRead, k
  <2>3. CASE MatchesETag(k, entity[c]) /\ DeleteRow(k)
    <3>1. Data' = [Data EXCEPT ![k] = NoRow]
      BY <1>0, <1>1, <2>3, DataDeleted
    <3>2. <<c, k>> \in Fresh
      BY <1>1, <2>2, <2>3 DEF Fresh
    <3>3. \A m \in Messages : \A j \in Keys :
             /\ HasRead(m, j)' => HasRead(m, j) /\ entity'[m] = entity[m]
             /\ HasRead(m, j) /\ j # k => HasRead(m, j)'
      BY <1>3, <1>4, <2>2
    <3>4. Fresh' = {p \in Fresh : p[2] # k}
      BY <1>0, <1>1, <2>3, <3>3, FreshWritten DEF DeleteRow
    <3>5. Snapshots!Finish(c)
      BY <1>2, <2>1, <3>1, <3>2, <3>4 DEF Snapshots!Finish, Snapshots!Write, k
    <3> QED
      BY <3>5 DEF Snapshots!Next
  <2>4. CASE ~MatchesETag(k, entity[c]) /\ UNCHANGED table
    <3>1. Fresh' = Fresh
      BY <1>1, <1>3, <1>4, <2>2, <2>4 DEF Fresh, MatchesETag, table
    <3>2. Data' = Data
      BY <2>4 DEF Data, table
    <3> QED
      BY <1>2, <3>1, <3>2 DEF Snapshots!vars
  <2> QED
    BY <1>9, <2>3, <2>4 DEF EndFinish, k
<1> QED
  BY <1>6, <1>7, <1>8, <1>9

\* A step of an attempt preserves the invariant.
LEMMA PassOutcome ==
    ASSUME PassInv, NEW e \in Events, Step(e) \/ Crash(e)
    PROVE  PassInv'
<1>0. TypeInv /\ LocalsOK /\ Outcome(e) /\ OnlyMine(e) /\ e \in Messages /\ ETagsGrow
  BY StepOutcome, CrashOutcome, OutcomeMine, OutcomeGrows, MessageKinds
  DEF PassInv, GuardInv, TypeInv
<1>1. GuardInv' /\ SnapshotInv'
  BY GuardOutcome, SnapshotOutcome DEF PassInv
<1>2. \A f \in Events \ {e} : pc'[f] = pc[f] /\ sagasData'[f] = sagasData[f]
  BY <1>0, OthersStay
<1>3. EndsEmpty'
  <2>1. CASE Turns(e) /\ pc[e] \in Turn
    <3>1. sagasData[e] # <<>> /\ sagasData[e] \in Seq(Snapshot)
      BY <1>0, <2>1 DEF TypeInv, SagaAtHand, LocalsOK
    <3>2. /\ Len(sagasData[e]) \in Nat \ {0} /\ Len(Tail(sagasData[e])) = Len(sagasData[e]) - 1
          /\ Tail(sagasData[e]) \in Seq(Snapshot)
      BY <3>1, HeadTailProperties, EmptySeq
    <3>3. Len(sagasData[e]) > 1 \/ Len(Tail(sagasData[e])) = 0
      <4>1. PICK n \in Nat \ {0} : n = Len(sagasData[e])
        BY <3>2
      <4>2. n > 1 \/ n - 1 = 0
        OBVIOUS
      <4> QED
        BY <3>2, <4>1, <4>2
    <3>4. Len(sagasData[e]) > 1 \/ Tail(sagasData[e]) = <<>>
      BY <3>2, <3>3, EmptySeq
    <3>5. pc'[e] = "done" => sagasData'[e] = <<>>
      BY <2>1, <3>4 DEF Turns, FirstStep
    <3> QED
      BY <1>2, <3>5 DEF EndsEmpty, PassInv
  <2>2. CASE \E hi, segment : Finds(e, hi, segment)
    <3>1. pc'[e] = "done" => sagasData'[e] = <<>>
      BY <2>2 DEF Finds, FirstStep
    <3> QED
      BY <1>2, <3>1 DEF EndsEmpty, PassInv
  <2>3. CASE pc'[e] # "done"
    BY <1>2, <2>3 DEF EndsEmpty, PassInv
  <2> QED
    BY <1>0, <2>1, <2>2, <2>3 DEF Outcome, Moves, Leaves, Reads, AfterHandler, Turn
<1>4. UpdatesOnly'
  <2>1. pc'[e] = "replace" => e \notin Closing
    BY <1>0 DEF Outcome, Moves, Leaves, Turns, Finds, Reads, AfterHandler, FirstStep
  <2> QED
    BY <1>2, <2>1 DEF UpdatesOnly, PassInv
<1>5. ReadBefore'
  <2>1. SUFFICES ASSUME NEW m \in Messages, NEW k \in Keys, HasRead(m, k)'
                 PROVE  entity'[m].etag <= version'[k]
    BY DEF ReadBefore
  <2>2. version[k] \in Nat /\ version'[k] \in Nat /\ version[k] <= version'[k]
    BY <1>0, <1>1 DEF ETagsGrow, TypeInv, GuardInv, StorageTypeOK
  <2>3. CASE HasRead(m, k) /\ entity'[m] = entity[m]
    <3>1. entity[m].etag \in Nat /\ entity[m].etag <= version[k]
      BY <1>0, <2>3, ReaderTyped DEF PassInv, ReadBefore
    <3> QED
      BY <2>2, <2>3, <3>1
  <2>4. CASE m = e /\ Reads(e)
    <3>1. k = Current(e) /\ entity'[e].etag = row[k].etag /\ row[k] # NoRow
      BY <2>1, <2>4, MessageKinds DEF HasRead, Reads, Current, Refreshed
    <3>2. row[k].etag <= version[k] /\ row[k].etag \in Nat
      BY <1>0, <3>1 DEF PassInv, SnapshotInv, TypeInv, StorageTypeOK, Row
    <3> QED
      BY <2>2, <2>4, <3>1, <3>2
  <2>5. CASE m = e /\ ~Reads(e)
    <3>1. pc'[e] \in Writing /\ Current(e)' = k
      BY <2>1, <2>5, MessageKinds DEF HasRead, Writing
    <3>2. pc[e] \in Writing /\ sagasData'[e] = sagasData[e] /\ entity'[e] = entity[e]
      BY <1>0, <2>5, <3>1
      DEF Outcome, Moves, Leaves, Turns, Finds, FirstStep, Writing
    <3>3. HasRead(e, k)
      BY <3>1, <3>2, EventReads DEF Current
    <3> QED
      BY <2>3, <2>5, <3>2, <3>3
  <2>6. CASE m # e
    BY <1>0, <2>1, <2>3, <2>6, OthersRead
  <2> QED
    BY <2>4, <2>5, <2>6
<1> QED
  BY <1>1, <1>3, <1>4, <1>5 DEF PassInv

\* So does a command.
LEMMA PassCommand ==
    ASSUME PassInv, NEW c \in Commands,
           StartSaga(c) \/ UpdateSaga(c) \/ BeginFinish(c) \/ EndFinish(c)
    PROVE  PassInv'
<1>0. /\ TypeInv /\ LocalsOK /\ StorageTypeOK /\ c \in Messages /\ c \notin Events
      /\ KeyOf[c] \in Keys
  BY KeysAndLocks, MessageKinds DEF PassInv, GuardInv, TypeInv
<1>1. GuardInv'
  BY GuardCommand DEF PassInv
<1>2. SnapshotInv'
  BY SnapshotStep DEF PassInv, Next
<1>3. UNCHANGED <<pc, sagasData>> /\ \A m \in Messages \ {c} : entity'[m] = entity[m]
  BY <1>0 DEF StartSaga, UpdateSaga, BeginFinish, EndFinish, memory, LocalsOK
<1>4. EndsEmpty' /\ UpdatesOnly'
  BY <1>3 DEF PassInv, EndsEmpty, UpdatesOnly
<1>5. ETagsGrow
  <2>1. \/ UNCHANGED table
        \/ \E log : InsertRow(KeyOf[c], log) \/ ReplaceRow(KeyOf[c], log) \/ DeleteRow(KeyOf[c])
    BY DEF StartSaga, UpdateSaga, BeginFinish, EndFinish, table
  <2>2. UNCHANGED table => ETagsGrow
    BY <1>0 DEF table, ETagsGrow, StorageTypeOK
  <2> QED
    BY <1>0, <2>1, <2>2, TableGrows
<1>6. ReadBefore'
  <2>1. SUFFICES ASSUME NEW m \in Messages, NEW k \in Keys, HasRead(m, k)'
                 PROVE  entity'[m].etag <= version'[k]
    BY DEF ReadBefore
  <2>2. version[k] \in Nat /\ version'[k] \in Nat /\ version[k] <= version'[k]
    BY <1>0, <1>1, <1>5 DEF ETagsGrow, TypeInv, GuardInv, StorageTypeOK
  <2>3. CASE HasRead(m, k) /\ entity'[m] = entity[m]
    <3>1. entity[m].etag \in Nat /\ entity[m].etag <= version[k]
      BY <1>0, <2>3, ReaderTyped DEF PassInv, ReadBefore
    <3> QED
      BY <2>2, <2>3, <3>1
  <2>4. CASE m # c
    BY <1>3, <2>1, <2>3, <2>4 DEF HasRead, Current
  <2>5. CASE m = c
    <3>1. k = KeyOf[c] /\ entity'[c] # NoRow
      BY <1>0, <2>1, <2>5 DEF HasRead
    <3>2. CASE BeginFinish(c)
      <4>1. entity'[c] = row[k] /\ row[k] # NoRow
        BY <1>0, <3>1, <3>2 DEF BeginFinish, LocalsOK
      <4>2. row[k].etag <= version[k] /\ row[k].etag \in Nat
        BY <1>0, <4>1 DEF PassInv, SnapshotInv, StorageTypeOK, Row
      <4> QED
        BY <2>2, <2>5, <4>1, <4>2
    <3>3. CASE entity' = entity
      BY <2>3, <2>5, <3>1, <3>3 DEF HasRead
    <3>4. ~EndFinish(c)
      BY <1>0, <3>1 DEF EndFinish, LocalsOK
    <3> QED
      BY <3>2, <3>3, <3>4 DEF StartSaga, UpdateSaga, memory
  <2> QED
    BY <2>4, <2>5
<1> QED
  BY <1>1, <1>2, <1>4, <1>6 DEF PassInv

\* The delivery of an event starts a pass; giving it up changes nothing.
LEMMA DeliveryPasses ==
    ASSUME PassInv, NEW e \in Events, Deliver(e) \/ Poison(e)
    PROVE  PassInv' /\ (Snapshots!Next \/ UNCHANGED Snapshots!vars)
<1>0. TypeInv /\ LocalsOK /\ UNCHANGED table /\ UNCHANGED <<sagasData, entity>> /\ pc[e] = "queued"
  BY DEF PassInv, GuardInv, TypeInv, Deliver, Poison, Goto, memory
<1>1. \/ Deliver(e) /\ Moves(e, "query")
      \/ Poison(e) /\ Moves(e, "poison")
  BY <1>0, GotoMoves DEF Deliver, Poison
<1>2. OnlyMine(e) /\ pc'[e] \in {"query", "poison"}
  BY <1>1 DEF Moves
<1>3. \A f \in Events \ {e} : pc'[f] = pc[f]
  BY <1>0, <1>2, OthersStay
<1>4. \A m \in Messages : \A k : (HasRead(m, k)' <=> HasRead(m, k)) /\ entity'[m] = entity[m]
  BY <1>0, <1>2, <1>3, MessageKinds DEF HasRead, Current
<1>5. PassInv'
  <2>1. GuardInv' /\ SnapshotInv'
    BY GuardStep, SnapshotStep DEF PassInv, Next
  <2>2. EndsEmpty' /\ UpdatesOnly'
    BY <1>0, <1>2, <1>3 DEF PassInv, EndsEmpty, UpdatesOnly
  <2>3. ReadBefore'
    BY <1>0, <1>4 DEF PassInv, ReadBefore, table
  <2> QED
    BY <2>1, <2>2, <2>3 DEF PassInv
<1>6. Data' = Data /\ Fresh' = Fresh
  BY <1>0, <1>4, FreshSame DEF Data, table
<1>7. Ahead(e) = sagasData[e] /\ Ahead(e)' = sagasData[e]
  BY <1>0, <1>2 DEF Ahead
<1>8. Seen' = Seen
  <2>1. View(Ahead(e))' = View(Ahead(e))
    BY <1>7 DEF View
  <2> QED
    BY <1>0, <1>2, <2>1, MineAlone DEF Seen
<1>9. Phases' = [Phases EXCEPT ![e] = Phase(e)'] /\ Phases[e] = "idle"
  BY <1>0, <1>2, MineAlone DEF Phases, Phase
<1>10. CASE pc'[e] = "query"
  <2>1. Phase(e)' = "asking"
    BY <1>10 DEF Phase
  <2>2. Snapshots!Deliver(e)
    BY <1>6, <1>8, <1>9, <2>1 DEF Snapshots!Deliver
  <2> QED
    BY <1>5, <2>2 DEF Snapshots!Next
<1>11. CASE pc'[e] = "poison"
  <2>1. Phase(e)' = "idle"
    BY <1>11 DEF Phase
  <2>2. Phases' = Phases
    BY <1>9, <2>1 DEF Phases
  <2> QED
    BY <1>5, <1>6, <1>8, <2>2 DEF Snapshots!vars
<1> QED
  BY <1>2, <1>10, <1>11

\* Leases are nothing that SagaSnapshots knows of.
LEMMA LeaseStutters ==
    ASSUME PassInv, UNCHANGED <<table, pc, memory>>, GuardInv'
    PROVE  PassInv' /\ UNCHANGED Snapshots!vars
<1>1. SnapshotInv'
  <2>1. UNCHANGED <<table, pc, sagasData, entity>> /\ TypeInv'
    BY DEF memory, GuardInv
  <2> QED
    BY <2>1 DEF PassInv, SnapshotInv, WritesSnapshot, Has, Faithful, table
<1>2. EndsEmpty' /\ UpdatesOnly' /\ ReadBefore'
  BY DEF PassInv, EndsEmpty, UpdatesOnly, ReadBefore, HasRead, Current, memory, table
<1>3. UNCHANGED Snapshots!vars
  BY DEF Snapshots!vars, Data, Phases, Phase, Seen, View, Ahead, Fresh, HasRead, Current,
         MatchesETag, memory, table
<1> QED
  BY <1>1, <1>2, <1>3 DEF PassInv

\* Events and commands do nothing to the sagas that SagaSnapshots does not
\* allow, with or without LockSagas, with leases that are lost, for any
\* crashes, failed calls and deliveries: an event visits all that its query
\* found, in order, before it is consumed, and changes only what is still as
\* it was at the second read.
THEOREM Refinement == Spec => SnapshotSpec
<1>1. Init => PassInv /\ Snapshots!Init
  <2> SUFFICES ASSUME Init PROVE PassInv /\ Snapshots!Init
    OBVIOUS
  <2>1. /\ \A k \in Keys : row[k] = NoRow
        /\ \A m \in Messages : entity[m] = NoRow
        /\ \A e \in Events : pc[e] = "queued" /\ sagasData[e] = <<>> /\ Len(sagasData[e]) = 0
    BY DEF Init, StorageInit
  <2>2. \A m \in Messages : \A k \in Keys : ~HasRead(m, k)
    BY <2>1 DEF HasRead
  <2>3. PassInv
    BY <2>1, <2>2, TypeInit, GuardInit
    DEF PassInv, SnapshotInv, WritesSnapshot, Has, EndsEmpty, UpdatesOnly, ReadBefore
  <2>4. \A e \in Events : Phase(e) = "idle" /\ Ahead(e) = <<>> /\ View(Ahead(e)) = <<>>
    <3>1. View(<<>>) = <<>>
      BY ViewTyped, EmptySeq
    <3>2. \A e \in Events : Phase(e) = "idle" /\ Ahead(e) = <<>>
      BY <2>1 DEF Phase, Ahead
    <3> QED
      BY <3>1, <3>2
  <2>5. Fresh = {}
    BY <2>2 DEF Fresh
  <2>6. Data = [k \in Keys |-> NoRow]
    BY <2>1 DEF Data
  <2> QED
    BY <2>3, <2>4, <2>5, <2>6 DEF Snapshots!Init, Phases, Seen
<1>2. PassInv /\ [Next]_vars => PassInv' /\ [Snapshots!Next]_(Snapshots!vars)
  <2> SUFFICES ASSUME PassInv, [Next]_vars
               PROVE  PassInv' /\ (Snapshots!Next \/ UNCHANGED Snapshots!vars)
    OBVIOUS
  <2>0. GuardInv'
    BY GuardStep DEF PassInv
  <2>1. ASSUME NEW e \in Events, Step(e) \/ Crash(e)
        PROVE  PassInv' /\ (Snapshots!Next \/ UNCHANGED Snapshots!vars)
    BY <2>1, PassOutcome, AttemptPasses
  <2>2. ASSUME NEW e \in Events, Deliver(e) \/ Poison(e)
        PROVE  PassInv' /\ (Snapshots!Next \/ UNCHANGED Snapshots!vars)
    BY <2>2, DeliveryPasses
  <2>3. ASSUME NEW c \in Commands,
               StartSaga(c) \/ UpdateSaga(c) \/ BeginFinish(c) \/ EndFinish(c)
        PROVE  PassInv' /\ (Snapshots!Next \/ UNCHANGED Snapshots!vars)
    BY <2>3, PassCommand, CommandPasses
  <2>4. ASSUME NEW l \in LockIds, Expire(l) \/ LoseLease(l)
        PROVE  PassInv' /\ (Snapshots!Next \/ UNCHANGED Snapshots!vars)
    BY <2>0, <2>4, LeaseStutters DEF Expire, LoseLease
  <2>5. CASE UNCHANGED vars
    BY <2>0, <2>5, LeaseStutters DEF vars
  <2> QED
    BY <2>1, <2>2, <2>3, <2>4, <2>5 DEF Next, Terminating
<1> QED
  BY <1>1, <1>2, PTL DEF Spec, SnapshotSpec, Snapshots!Spec
=============================================================================

---------------------------- MODULE SagaStorage ----------------------------
(***************************************************************************)
(* The two Azure services the saga persistence is built on, as the code    *)
(* uses them:                                                              *)
(*   - the saga table: one row per saga key, every row with an ETag that   *)
(*     Insert and Replace renew and that Replace and Delete must match;    *)
(*   - the lock container "afblocks": one blob per lock name, on which at  *)
(*     most one lease is live.  A lease outlives a process that dies until *)
(*     its duration is over (LOCK_DURATION).                               *)
(* Both services are external: these operators state what a call that the  *)
(* service accepts does, and the ...Allowed operators when it accepts it.  *)
(***************************************************************************)
EXTENDS Naturals, Sequences

CONSTANTS
    Messages,   \* the commands; a saga's data is the sequence of those it handled
    Keys,       \* saga keys: (PartitionKey, RowKey)
    LockIds,    \* names of lock blobs
    Leases,     \* lease ids
    NoRow,      \* what Retrieve answers for a key without a row
    Absent,     \* a lock blob that does not exist
    Free        \* a lock blob without a lease id

VARIABLES
    row,        \* row[k]: the table's row for k, or NoRow
    version,    \* version[k]: the last ETag given to a row of k
    blob,       \* blob[l]: Absent, Free or the lease id last acquired
    leased      \* names of the blobs whose lease is live

table == <<row, version>>
locks == <<blob, leased>>

\* A stored saga: its ETag and the user data, which is whatever the handlers
\* made of the data they were given; as a free function of the history it is
\* the sequence of messages applied to it.
Row == [etag : Nat, log : Seq(Messages)]

ASSUME DistinctValues ==
    /\ NoRow \notin Row \cup Seq(Messages)
    /\ Absent # Free
    /\ {Absent, Free} \cap Leases = {}

StorageTypeOK ==
    /\ row \in [Keys -> Row \cup {NoRow}]
    /\ version \in [Keys -> Nat]
    /\ blob \in [LockIds -> Leases \cup {Absent, Free}]
    /\ leased \in SUBSET LockIds

StorageInit ==
    /\ row = [k \in Keys |-> NoRow]
    /\ version = [k \in Keys |-> 0]
    /\ blob = [l \in LockIds |-> Absent]
    /\ leased = {}

----------------------------------------------------------------------------
(* The lock blobs *)

Holds(id, l) == l \in leased /\ blob[l] = id

\* A write without a lease id is refused while a lease is live; otherwise it
\* creates the blob or overwrites it, and clears an expired lease.
UploadAllowed(l) == l \notin leased
UploadText(l) ==
    /\ blob' = [blob EXCEPT ![l] = Free]
    /\ UNCHANGED leased

\* Mutant of AcquireAllowed: a live lease is taken over.
AcquireSteals(l) == blob[l] # Absent
AcquireAllowed(l) == l \notin leased /\ blob[l] # Absent
AcquireLease(l, id) ==
    /\ blob' = [blob EXCEPT ![l] = id]
    /\ leased' = leased \cup {l}

\* Mutant of ReleaseAllowed: the lease id is not checked.
ReleaseAny(l, id) == blob[l] # Absent
\* Releasing asks for the lease id last acquired, live or expired.
ReleaseAllowed(l, id) == blob[l] = id
ReleaseLease(l) ==
    /\ blob' = [blob EXCEPT ![l] = Free]
    /\ leased' = leased \ {l}

\* A delete that names a lease id is refused unless that lease is live.
DeleteAllowed(l, id) == Holds(id, l)
DeleteLockBlob(l) ==
    /\ blob' = [blob EXCEPT ![l] = Absent]
    /\ leased' = leased \ {l}

\* Mutant of ExpireLease: the lease is infinite.
ExpireNever(l) == UNCHANGED locks
ExpireLease(l) ==
    /\ leased' = leased \ {l}
    /\ UNCHANGED blob

----------------------------------------------------------------------------
(* The saga table *)

\* Mutant of InsertAllowed: insert or replace.
UpsertAllowed(k) == TRUE
InsertAllowed(k) == row[k] = NoRow
InsertRow(k, log) ==
    /\ row' = [row EXCEPT ![k] = [etag |-> version[k] + 1, log |-> log]]
    /\ version' = [version EXCEPT ![k] = @ + 1]

\* Mutant of MatchesETag: ETag "*".
MatchesAny(k, entity) == row[k] # NoRow
\* Replace and Delete are refused when the row is gone or has another ETag
\* than the entity that was read.
MatchesETag(k, entity) == row[k] # NoRow /\ row[k].etag = entity.etag

\* Mutants of ReplaceRow: the row has no ETag; its ETag is not renewed.
ReplaceWithoutETag(k, log) ==
    /\ row' = [row EXCEPT ![k] = [log |-> log]]
    /\ UNCHANGED version
ReplaceKeepingETag(k, log) ==
    /\ row' = [row EXCEPT ![k] = [etag |-> @.etag, log |-> log]]
    /\ UNCHANGED version
ReplaceRow(k, log) ==
    /\ row' = [row EXCEPT ![k] = [etag |-> version[k] + 1, log |-> log]]
    /\ version' = [version EXCEPT ![k] = @ + 1]

DeleteRow(k) ==
    /\ row' = [row EXCEPT ![k] = NoRow]
    /\ UNCHANGED version

=============================================================================

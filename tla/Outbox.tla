------------------------------- MODULE Outbox -------------------------------
(***************************************************************************)
(* The durable SQLite outbox of the gateway simulator                      *)
(* (src/src/internal/gatewaysim/outbox.go): one file, bound to one         *)
(* gateway/sensor identity, guarded by an exclusive file lock, holding the *)
(* telemetry batches that no application ACK has retired yet and one       *)
(* sequence counter per boot stream.                                       *)
(*                                                                         *)
(* A batch is named by the AUTOINCREMENT id of its row, so that m < n says *)
(* that m was enqueued first; its message UUID is the same name (a fresh   *)
(* UUID per Enqueue, UNIQUE in the table).  Every operation of the outbox  *)
(* is one immediate-mode transaction of a single-connection database, so   *)
(* each one is one step here; an operation whose commit is reported as     *)
(* unknown (ErrOutboxCommitUnknown) either takes that step or none.        *)
(*                                                                         *)
(* A definition named Mut... is a faulty variant of the definition after   *)
(* it.  Nothing uses it; README.md says which property tells them apart.   *)
(***************************************************************************)
EXTENDS Integers, FiniteSets, FiniteSetsExt, Functions

CONSTANTS
    MaxBatches,     \* bound: batches enqueued in one behaviour
    MaxBoots,       \* bound: simulator processes started in one behaviour
    MaxRows,        \* OutboxConfig.MaxRows
    MaxBytes,       \* OutboxConfig.MaxBytes
    Sizes,          \* the byte sizes a built batch may have
    SampleCount,    \* samples per batch
    MaxSequence,    \* the largest integer of the counter's width (2^63 - 1)
    Identities,     \* the gateway/sensor identities a process may configure
    NoIdentity      \* the file has no schema and no binding yet

ASSUME OutboxAssumption ==
    /\ MaxBatches \in Nat
    /\ MaxBoots \in Nat
    /\ MaxRows \in Nat \ {0}
    /\ MaxBytes \in Nat \ {0}
    /\ Sizes \subseteq Nat \ {0}
    /\ SampleCount \in Nat \ {0}
    /\ MaxSequence \in Nat
    /\ SampleCount <= MaxSequence
    /\ NoIdentity \notin Identities
    /\ {"none", "admin"} \cap Identities = {}

VARIABLES
    status,         \* [Batches -> RowStatus]
    bootOf,         \* boot_id column
    firstOf,        \* first_sequence column
    sizeOf,         \* byte_size column
    nextSequence,   \* outbox_streams.next_sequence; 0 when there is no row
    bound,          \* outbox_meta: the identity of the file
    holder,         \* who holds the sidecar lock: "none", "admin", or the
                    \* identity the running simulator was configured with
    boot            \* boot id of the simulator process that opened the file

rowVars == <<status, bootOf, firstOf, sizeOf, nextSequence>>
outboxVars == <<rowVars, bound, holder, boot>>

Batches == 1..MaxBatches
BootIDs == 1..MaxBoots

(* "none": never enqueued; "deleted": enqueued, acknowledged and removed.   *)
(* The table distinguishes neither; the history does.                       *)
RowStatus == {"none", "pending", "quarantined", "deleted"}

-----------------------------------------------------------------------------
(* Reads. *)

Enqueued == {m \in Batches : status[m] # "none"}
Pending  == {m \in Batches : status[m] = "pending"}
Retained == {m \in Batches : status[m] \in {"pending", "quarantined"}}

(* outboxUsage: quarantined rows and bytes count against the quota.         *)
MutUsedRows == Cardinality(Pending)
UsedRows == Cardinality(Retained)
UsedBytes == SumFunctionOnSet(sizeOf, Retained)

(* ORDER BY id LIMIT k: the k oldest rows of S.                             *)
Oldest(S, k) == {m \in S : Cardinality({n \in S : n < m}) < k}

(* PendingAfter: the limit oldest pending rows after the cursor.            *)
MutPendingAfter(cursor, limit) ==
    Oldest({m \in Pending : m > cursor /\ bootOf[m] = boot}, limit)
PendingAfter(cursor, limit) == Oldest({m \in Pending : m > cursor}, limit)

LastOf(m) == firstOf[m] + SampleCount - 1

-----------------------------------------------------------------------------
(* Enqueue. *)

(* BuildSyntheticBatch validates the allocated range with the server's own  *)
(* validateRange, written there so that the test itself cannot overflow.    *)
RangeFits(first) == SampleCount - 1 <= MaxSequence - first

(* The counter is a signed machine integer and first + count wraps.         *)
MutWrappedAddShares(first) == first + SampleCount - 1
WrappedAdd(first) ==
    IF first + SampleCount > MaxSequence
    THEN first + SampleCount - 2 * (MaxSequence + 1)
    ELSE first + SampleCount

(* How Enqueue ends short of its commit: the checks in the code's order.    *)
EnqueueOutcome(size) ==
    LET first == nextSequence[boot] IN
    IF first < 0 THEN "error"
    ELSE IF UsedRows >= MaxRows THEN "full"
    ELSE IF ~RangeFits(first) THEN "error"
    ELSE IF UsedBytes + size > MaxBytes THEN "full"
    ELSE "ok"

(* The committed effect of Enqueue: the new row and its counter together.   *)
Enqueue(m, size) ==
    /\ m \in Batches
    /\ status[m] = "none"
    /\ \A n \in Batches : n < m => status[n] # "none"
    /\ EnqueueOutcome(size) = "ok"
    /\ status' = [status EXCEPT ![m] = "pending"]
    /\ bootOf' = [bootOf EXCEPT ![m] = boot]
    /\ firstOf' = [firstOf EXCEPT ![m] = nextSequence[boot]]
    /\ sizeOf' = [sizeOf EXCEPT ![m] = size]
    /\ nextSequence' =
           [nextSequence EXCEPT ![boot] = WrappedAdd(nextSequence[boot])]
    /\ UNCHANGED <<bound, holder, boot>>

Deletable(m) == status[m] = "pending"

(* DeletePending: a missing or quarantined row is a committed no-op.        *)
DeletePending(m) ==
    /\ status' = IF Deletable(m)
                 THEN [status EXCEPT ![m] = "deleted"]
                 ELSE status
    /\ UNCHANGED <<bootOf, firstOf, sizeOf, nextSequence, bound, holder, boot>>

(* Quarantine: only a pending row moves; identity, bytes and quota stay.    *)
Quarantine(m) ==
    /\ holder = "admin"
    /\ status[m] = "pending"
    /\ status' = [status EXCEPT ![m] = "quarantined"]
    /\ UNCHANGED <<bootOf, firstOf, sizeOf, nextSequence, bound, holder, boot>>

-----------------------------------------------------------------------------
(* Opening and closing the file. *)

(* verifyBinding: a file that is bound must carry the same identity.        *)
BindingAccepts(id) == bound \in {NoIdentity, id}

(* OpenOutbox by a simulator configured as id, in a new process with a new  *)
(* boot id: the lock is exclusive, a fresh file is created and bound.       *)
OpenOutbox(id) ==
    /\ holder = "none"
    /\ boot < MaxBoots
    /\ BindingAccepts(id)
    /\ bound' = IF bound = NoIdentity THEN id ELSE bound
    /\ holder' = id
    /\ boot' = boot + 1
    /\ UNCHANGED rowVars

(* createSchema whose commit outcome is unknown: the open fails, the schema *)
(* and the binding are there or not.                                        *)
OpenOutboxUnknown(id) ==
    /\ holder = "none"
    /\ bound = NoIdentity
    /\ bound' = id
    /\ UNCHANGED <<rowVars, holder, boot>>

(* OpenOutboxAdmin never creates a file: a missing file or schema fails.    *)
OpenOutboxAdmin ==
    /\ holder = "none"
    /\ bound # NoIdentity
    /\ holder' = "admin"
    /\ UNCHANGED <<rowVars, bound, boot>>

(* Close, or the death of the process: the kernel drops the lock.           *)
CloseOutbox ==
    /\ holder # "none"
    /\ holder' = "none"
    /\ UNCHANGED <<rowVars, bound, boot>>

-----------------------------------------------------------------------------
OutboxInit ==
    /\ status = [m \in Batches |-> "none"]
    /\ bootOf = [m \in Batches |-> 0]
    /\ firstOf = [m \in Batches |-> 0]
    /\ sizeOf = [m \in Batches |-> 0]
    /\ nextSequence = [b \in BootIDs |-> 0]
    /\ bound = NoIdentity
    /\ holder = "none"
    /\ boot = 0

(* The simulator holding the lock enqueues and deletes; which ACKs reach    *)
(* DeletePending is the business of the modules that use this one.          *)
OutboxNext ==
    \/ \E m \in Batches, size \in Sizes :
           holder \in Identities /\ Enqueue(m, size)
    \/ \E m \in Batches : holder \in Identities /\ DeletePending(m)
    \/ \E m \in Batches : Quarantine(m)
    \/ \E id \in Identities : OpenOutbox(id) \/ OpenOutboxUnknown(id)
    \/ OpenOutboxAdmin
    \/ CloseOutbox

OutboxSpec == OutboxInit /\ [][OutboxNext]_outboxVars

-----------------------------------------------------------------------------
(* Properties. *)

(* The type of the outbox state.                                            *)
OutboxTypeOK ==
    /\ status \in [Batches -> RowStatus]
    /\ bootOf \in [Batches -> 0..MaxBoots]
    /\ firstOf \in [Batches -> 0..MaxSequence]
    /\ sizeOf \in [Batches -> Sizes \cup {0}]
    /\ nextSequence \in [BootIDs -> (-MaxSequence - 1)..MaxSequence]
    /\ bound \in Identities \cup {NoIdentity}
    /\ holder \in Identities \cup {"none", "admin"}
    /\ boot \in 0..MaxBoots
    /\ holder \in Identities => boot \in BootIDs

(* Enqueue never lets the retained rows or bytes, quarantined ones included,*)
(* exceed the configured quota ("isolation never exceeds the configured     *)
(* quota"), whatever order of enqueues, deletes, restarts and quarantines.  *)
QuotaHeld ==
    /\ Cardinality(Retained) <= MaxRows
    /\ SumFunctionOnSet(sizeOf, Retained) <= MaxBytes

(* Two batches of one boot stream never share a sequence number, whatever   *)
(* was deleted, quarantined or restarted in between and even when the       *)
(* counter of the stream reaches the end of its integer range and wraps:    *)
(* the server would answer the second one with sequence_overlap for ever.   *)
RangesDisjoint ==
    \A m, n \in Enqueued :
        m < n /\ bootOf[m] = bootOf[n] => LastOf(m) < firstOf[n]

(* Row and counter commit together: rows are named in the order of their    *)
(* enqueue, without a gap, and the counter of a stream that has not wrapped *)
(* is past every row of the stream, retained or deleted.                    *)
CounterPastRows ==
    \A m \in Enqueued :
        /\ \A n \in Batches : n < m => n \in Enqueued
        /\ bootOf[m] \in 1..boot
        /\ nextSequence[bootOf[m]] >= 0 => LastOf(m) < nextSequence[bootOf[m]]

(* A simulator only ever works on a file bound to its own identity, so that *)
(* rows of one gateway are never published or acknowledged under another    *)
(* (verifyBinding).                                                         *)
HolderIsBound == holder \in Identities => bound = holder

(* A row an operator set aside stays set aside: no late ACK of any boot     *)
(* deletes it and no restart replays it.                                    *)
QuarantineIsFinal ==
    [][\A m \in Batches :
          status[m] = "quarantined" => status'[m] = "quarantined"]_outboxVars
=============================================================================

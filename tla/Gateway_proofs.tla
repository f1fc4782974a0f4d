--------------------------- MODULE Gateway_proofs ---------------------------
(***************************************************************************)
(* Proofs about the outbox, for every quota, width of the counter, number  *)
(* of batches and of processes, and about the gateway, for every number of *)
(* slots and queue capacity and over every interleaving of the scheduler,  *)
(* the publish goroutines, the ACK worker, the network and crashes.        *)
(***************************************************************************)
EXTENDS Gateway, FiniteSetTheorems, WellFoundedInduction, SequenceTheorems,
        TLAPS

-----------------------------------------------------------------------------
(* The oldest rows of a set. *)

(* Every set of batches is finite.                                          *)
LEMMA BatchSetFinite ==
    ASSUME NEW S \in SUBSET Batches
    PROVE  IsFiniteSet(S) /\ Cardinality(S) \in Nat
  <1>1. IsFiniteSet(Batches)
    BY FS_Interval, OutboxAssumption DEF Batches
  <1> QED
    BY <1>1, FS_Subset, FS_CardinalityType

(* A non-empty set of numbers has a least one.                              *)
LEMMA LeastNumber ==
    ASSUME NEW N \in SUBSET Nat, N # {}
    PROVE  \E n \in N : \A k \in N : n <= k
  <1>1. PICK n \in N : \A k \in N : ~(<<k, n>> \in OpToRel(<, Nat))
    BY NatLessThanWellFounded, WFMin
  <1>2. \A k \in N : ~(k < n)
    BY <1>1 DEF OpToRel
  <1> QED
    BY <1>2

(* A non-empty set of batches has an oldest one ...                         *)
LEMMA OldestExists ==
    ASSUME NEW S \in SUBSET Batches, S # {}
    PROVE  \E m \in S : \A n \in S : m <= n
  <1>1. S \subseteq Nat
    BY DEF Batches
  <1> QED
    BY <1>1, LeastNumber

(* ... and a newest one.                                                    *)
LEMMA NewestExists ==
    ASSUME NEW S \in SUBSET Batches, S # {}
    PROVE  \E m \in S : \A n \in S : n <= m
  <1> DEFINE T == {k \in Nat : MaxBatches - k \in S}
  <1>1. MaxBatches \in Nat /\ \A m \in S : m \in Nat /\ m <= MaxBatches
    BY OutboxAssumption DEF Batches
  <1>2. \A m \in S : MaxBatches - m \in T
    BY <1>1
  <1>3. T # {} /\ T \subseteq Nat
    BY <1>2
  <1>4. PICK k \in T : \A l \in T : k <= l
    BY <1>3, LeastNumber
  <1>5. \A l \in T : ~(l < k)
    BY <1>3, <1>4
  <1>6. \A n \in S : n <= MaxBatches - k
    BY <1>1, <1>2, <1>5
  <1> QED
    BY <1>6

(* Taking the k oldest of a set takes all of it, or at least k.             *)
LEMMA OldestTakesAll ==
    ASSUME NEW S \in SUBSET Batches, NEW k \in Int,
           Cardinality(Oldest(S, k)) < k
    PROVE  Oldest(S, k) = S
  <1> DEFINE Rest == S \ Oldest(S, k)
  <1> SUFFICES ASSUME Rest # {} PROVE FALSE
    BY DEF Oldest
  <1>1. PICK m \in Rest : \A n \in Rest : m <= n
    BY OldestExists DEF Oldest
  <1>2. {n \in S : n < m} \subseteq Oldest(S, k)
    <2> SUFFICES ASSUME NEW n \in S, n < m, n \in Rest PROVE FALSE
      OBVIOUS
    <2>1. m \in Int /\ n \in Int /\ m <= n
      BY <1>1 DEF Batches
    <2> QED
      BY <2>1
  <1>3. Cardinality({n \in S : n < m}) <= Cardinality(Oldest(S, k))
    <2>1. IsFiniteSet(Oldest(S, k))
      BY BatchSetFinite DEF Oldest
    <2> QED
      BY <1>2, <2>1, FS_Subset
  <1>4. /\ Cardinality({n \in S : n < m}) \in Nat
        /\ Cardinality(Oldest(S, k)) \in Nat
    BY BatchSetFinite DEF Oldest
  <1>5. ~(Cardinality({n \in S : n < m}) < k)
    BY <1>1 DEF Oldest
  <1> QED
    BY <1>3, <1>4, <1>5

(* The k oldest of a set are at most k.                                     *)
LEMMA OldestBounded ==
    ASSUME NEW S \in SUBSET Batches, NEW k \in Nat
    PROVE  Cardinality(Oldest(S, k)) <= k
  <1>1. CASE Oldest(S, k) = {}
    BY <1>1, FS_EmptySet
  <1>2. CASE Oldest(S, k) # {}
    <2>1. PICK m \in Oldest(S, k) : \A n \in Oldest(S, k) : n <= m
      BY <1>2, NewestExists DEF Oldest
    <2> DEFINE B == {n \in S : n < m}
    <2>2. Oldest(S, k) \subseteq B \cup {m}
      <3> SUFFICES ASSUME NEW n \in Oldest(S, k), n # m PROVE n \in B
        OBVIOUS
      <3>1. n \in S /\ n \in Int /\ m \in Int /\ n <= m
        BY <2>1 DEF Oldest, Batches
      <3> QED
        BY <3>1
    <2>3. Cardinality(B) < k /\ m \notin B
      BY <2>1 DEF Oldest, Batches
    <2>4. IsFiniteSet(B) /\ Cardinality(B) \in Nat
      BY BatchSetFinite
    <2>5. IsFiniteSet(B \cup {m}) /\ Cardinality(B \cup {m}) = Cardinality(B) + 1
      BY <2>3, <2>4, FS_AddElement
    <2>6. Cardinality(Oldest(S, k)) <= Cardinality(B) + 1
      BY <2>2, <2>5, FS_Subset
    <2>7. Cardinality(Oldest(S, k)) \in Nat
      BY BatchSetFinite DEF Oldest
    <2> QED
      BY <2>3, <2>4, <2>6, <2>7
  <1> QED
    BY <1>1, <1>2
-----------------------------------------------------------------------------
(* What a committed Enqueue found: the checks it passed, in one formula.    *)
LEMMA EnqueueOutcomeOK ==
    ASSUME NEW size, EnqueueOutcome(size) = "ok"
    PROVE  /\ ~(nextSequence[boot] < 0)
           /\ ~(UsedRows >= MaxRows)
           /\ RangeFits(nextSequence[boot])
           /\ ~(UsedBytes + size > MaxBytes)
  BY Zenon DEF EnqueueOutcome

(* A committed Enqueue keeps the types: the range check of the batch bounds *)
(* its first sequence, and the counter stays within its width.              *)
LEMMA EnqueueType ==
    ASSUME OutboxTypeOK, boot \in BootIDs,
           NEW m \in Batches, NEW size \in Sizes, Enqueue(m, size)
    PROVE  OutboxTypeOK'
  <1>1. /\ nextSequence[boot] \in 0..MaxSequence
        /\ RangeFits(nextSequence[boot])
    BY EnqueueOutcomeOK, OutboxAssumption DEF OutboxTypeOK, Enqueue
  <1>2. WrappedAdd(nextSequence[boot]) \in (-MaxSequence - 1)..MaxSequence
    BY <1>1, OutboxAssumption DEF WrappedAdd, RangeFits
  <1>3. boot \in 0..MaxBoots
    BY DEF OutboxTypeOK
  <1> QED
    BY <1>1, <1>2, <1>3 DEF OutboxTypeOK, Enqueue, RowStatus

(* Every other operation keeps the types as well.                           *)
LEMMA OutboxTypeStep ==
    ASSUME OutboxTypeOK, [OutboxNext]_outboxVars
    PROVE  OutboxTypeOK'
  <1>1. CASE \E m \in Batches, size \in Sizes :
                 holder \in Identities /\ Enqueue(m, size)
    BY <1>1, EnqueueType DEF OutboxTypeOK
  <1>2. CASE \E m \in Batches : holder \in Identities /\ DeletePending(m)
    BY <1>2 DEF OutboxTypeOK, DeletePending, RowStatus
  <1>3. CASE \E m \in Batches : Quarantine(m)
    BY <1>3 DEF OutboxTypeOK, Quarantine, RowStatus
  <1>4. CASE \E id \in Identities : OpenOutbox(id)
    BY <1>4, OutboxAssumption DEF OutboxTypeOK, OpenOutbox, rowVars, BootIDs
  <1>5. CASE \E id \in Identities : OpenOutboxUnknown(id)
    BY <1>5 DEF OutboxTypeOK, OpenOutboxUnknown, rowVars
  <1>6. CASE OpenOutboxAdmin
    BY <1>6, OutboxAssumption DEF OutboxTypeOK, OpenOutboxAdmin, rowVars
  <1>7. CASE CloseOutbox
    BY <1>7, OutboxAssumption DEF OutboxTypeOK, CloseOutbox, rowVars
  <1>8. CASE UNCHANGED outboxVars
    BY <1>8 DEF OutboxTypeOK, outboxVars, rowVars
  <1> QED
    BY <1>1, <1>2, <1>3, <1>4, <1>5, <1>6, <1>7, <1>8 DEF OutboxNext

(* Every state of the outbox has its type, in particular a counter that     *)
(* wraps still fits its width and no stored first_sequence is negative.     *)
THEOREM OutboxTypeCorrect == OutboxSpec => []OutboxTypeOK
  <1>1. OutboxInit => OutboxTypeOK
    BY OutboxAssumption DEF OutboxInit, OutboxTypeOK, RowStatus
  <1>2. OutboxTypeOK /\ [OutboxNext]_outboxVars => OutboxTypeOK'
    BY OutboxTypeStep
  <1> QED
    BY <1>1, <1>2, PTL DEF OutboxSpec
-----------------------------------------------------------------------------
(* Sequence ranges. *)

(* CounterPastRows is the strengthening that makes RangesDisjoint           *)
(* inductive: a new row starts where the counter of its stream stands, past *)
(* every older row of that stream, and every other row is an older one.     *)
StreamInv == OutboxTypeOK /\ CounterPastRows /\ RangesDisjoint

(* A committed Enqueue adds one row, after all the others.                  *)
LEMMA EnqueueRows ==
    ASSUME StreamInv, NEW m \in Batches, NEW size, Enqueue(m, size)
    PROVE  /\ Enqueued' = Enqueued \cup {m}
           /\ m \notin Enqueued
           /\ \A n \in Enqueued : n < m
           /\ \A n \in Batches : n < m => n \in Enqueued
  <1>1. Enqueued' = Enqueued \cup {m}
    BY DEF StreamInv, OutboxTypeOK, Enqueue, Enqueued
  <1>2. m \notin Enqueued /\ \A n \in Batches : n < m => n \in Enqueued
    BY DEF Enqueue, Enqueued
  <1>3. \A n \in Enqueued : n < m
    BY <1>2, OutboxAssumption DEF StreamInv, CounterPastRows, Enqueued, Batches
  <1> QED
    BY <1>1, <1>2, <1>3

(* Where the ranges of the rows lie after a committed Enqueue.              *)
LEMMA EnqueueRanges ==
    ASSUME StreamInv, boot \in BootIDs,
           NEW m \in Batches, NEW size, Enqueue(m, size)
    PROVE  /\ \A n \in Enqueued :
                  LastOf(n)' = LastOf(n) /\ firstOf'[n] = firstOf[n]
                                         /\ bootOf'[n] = bootOf[n]
           /\ firstOf'[m] = nextSequence[boot] /\ bootOf'[m] = boot
           /\ nextSequence[boot] \in 0..MaxSequence
           /\ nextSequence'[boot] >= 0 =>
                  nextSequence'[boot] = nextSequence[boot] + SampleCount
           /\ \A b \in BootIDs : b # boot => nextSequence'[b] = nextSequence[b]
  <1>1. \A n \in Enqueued : n # m /\ n \in Batches
    BY EnqueueRows DEF Enqueued
  <1>2. nextSequence[boot] \in 0..MaxSequence
    BY EnqueueOutcomeOK, OutboxAssumption DEF StreamInv, OutboxTypeOK, Enqueue
  <1>3. RangeFits(nextSequence[boot])
    BY EnqueueOutcomeOK DEF Enqueue
  <1>4. nextSequence'[boot] = WrappedAdd(nextSequence[boot])
    BY DEF StreamInv, OutboxTypeOK, Enqueue
  <1>5. nextSequence'[boot] >= 0 =>
            nextSequence'[boot] = nextSequence[boot] + SampleCount
    BY <1>2, <1>3, <1>4, OutboxAssumption DEF WrappedAdd, RangeFits
  <1> QED
    BY <1>1, <1>2, <1>5 DEF StreamInv, OutboxTypeOK, Enqueue, LastOf

(* Enqueue keeps the stream invariant.                                      *)
LEMMA EnqueueStream ==
    ASSUME StreamInv, boot \in BootIDs,
           NEW m \in Batches, NEW size \in Sizes, Enqueue(m, size)
    PROVE  StreamInv'
  <1>1. OutboxTypeOK'
    BY EnqueueType DEF StreamInv
  <1>2. \A n \in Enqueued :
            /\ bootOf[n] \in 1..boot
            /\ bootOf[n] \in BootIDs
            /\ firstOf[n] \in Nat
            /\ nextSequence[bootOf[n]] \in Int
            /\ nextSequence[bootOf[n]] >= 0 => LastOf(n) < nextSequence[bootOf[n]]
    BY OutboxAssumption
    DEF StreamInv, OutboxTypeOK, CounterPastRows, Enqueued, BootIDs
  <1>3. LastOf(m)' = nextSequence[boot] + SampleCount - 1
    BY EnqueueRanges DEF LastOf
  <1>4. boot' = boot
    BY DEF Enqueue
  <1>5. CounterPastRows'
    <2> SUFFICES ASSUME NEW n \in Enqueued'
                 PROVE  /\ \A k \in Batches : k < n => k \in Enqueued'
                        /\ bootOf'[n] \in 1..boot
                        /\ nextSequence'[bootOf'[n]] >= 0 =>
                               LastOf(n)' < nextSequence'[bootOf'[n]]
      BY <1>4 DEF CounterPastRows, Batches
    <2>1. CASE n = m
      BY <2>1, <1>3, <1>1, EnqueueRows, EnqueueRanges, OutboxAssumption
      DEF BootIDs
    <2>2. CASE n \in Enqueued
      <3>1. \A k \in Batches : k < n => k \in Enqueued
        BY <2>2 DEF StreamInv, CounterPastRows
      <3>2. LastOf(n) \in Int
        BY <1>2, <2>2, OutboxAssumption DEF LastOf
      <3>3. CASE bootOf[n] = boot
        BY <2>2, <3>1, <3>2, <3>3, <1>2, EnqueueRows, EnqueueRanges,
           OutboxAssumption
      <3>4. CASE bootOf[n] # boot
        BY <2>2, <3>1, <3>2, <3>4, <1>2, EnqueueRows, EnqueueRanges
      <3> QED
        BY <3>3, <3>4
    <2> QED
      BY <2>1, <2>2, EnqueueRows
  <1>6. RangesDisjoint'
    <2> SUFFICES ASSUME NEW n \in Enqueued', NEW k \in Enqueued',
                        n < k, bootOf'[n] = bootOf'[k]
                 PROVE  LastOf(n)' < firstOf'[k]
      BY DEF RangesDisjoint
    <2>1. CASE n \in Enqueued /\ k \in Enqueued
      BY <2>1, EnqueueRanges DEF StreamInv, RangesDisjoint
    <2>2. CASE n \in Enqueued /\ k = m
      <3>1. bootOf[n] = boot /\ nextSequence[boot] >= 0
        BY <2>2, EnqueueRanges, OutboxAssumption
      <3> QED
        BY <2>2, <3>1, <1>2, EnqueueRanges
    <2>3. CASE n = m
      <3>1. k \in Enqueued \/ k = m
        BY EnqueueRows
      <3>2. m \in Int /\ (k \in Enqueued => k \in Int)
        BY DEF Batches, Enqueued
      <3> QED
        BY <2>3, <3>1, <3>2, EnqueueRows
    <2> QED
      BY <2>1, <2>2, <2>3, EnqueueRows
  <1> QED
    BY <1>1, <1>5, <1>6 DEF StreamInv

(* A step that neither enqueues nor loses a row keeps the stream invariant. *)
LEMMA QuietStream ==
    ASSUME StreamInv, OutboxTypeOK', Enqueued' = Enqueued,
           boot' \in boot..MaxBoots,
           UNCHANGED <<bootOf, firstOf, nextSequence>>
    PROVE  StreamInv'
  <1>1. \A m : LastOf(m)' = LastOf(m)
    BY DEF LastOf
  <1>2. boot \in Int /\ boot' \in Int /\ boot <= boot' /\ MaxBoots \in Int
    BY OutboxAssumption DEF StreamInv, OutboxTypeOK
  <1>3. CounterPastRows'
    BY <1>1, <1>2 DEF StreamInv, CounterPastRows
  <1>4. RangesDisjoint'
    BY <1>1 DEF StreamInv, RangesDisjoint
  <1> QED
    BY <1>3, <1>4 DEF StreamInv

(* Two batches of one boot stream never share a sequence number: whatever   *)
(* is deleted, quarantined, restarted or wrapped, the server never answers  *)
(* a batch of this gateway with sequence_overlap.                           *)
THEOREM SequencesNeverOverlap ==
    OutboxSpec => [](CounterPastRows /\ RangesDisjoint)
  <1>1. OutboxInit => StreamInv
    BY OutboxAssumption
    DEF OutboxInit, OutboxTypeOK, RowStatus, StreamInv, CounterPastRows,
        RangesDisjoint, Enqueued
  <1>2. StreamInv /\ [OutboxNext]_outboxVars => StreamInv'
    <2> SUFFICES ASSUME StreamInv, [OutboxNext]_outboxVars
                 PROVE  StreamInv'
      OBVIOUS
    <2>1. OutboxTypeOK'
      BY OutboxTypeStep DEF StreamInv
    <2>2. boot \in 0..MaxBoots /\ MaxBoots \in Nat
      BY OutboxAssumption DEF StreamInv, OutboxTypeOK
    <2>3. CASE \E m \in Batches, size \in Sizes :
                   holder \in Identities /\ Enqueue(m, size)
      BY <2>3, EnqueueStream DEF StreamInv, OutboxTypeOK
    <2>4. CASE \E m \in Batches : holder \in Identities /\ DeletePending(m)
      <3>1. Enqueued' = Enqueued
        BY <2>4 DEF StreamInv, OutboxTypeOK, DeletePending, Deletable, Enqueued
      <3> QED
        BY <2>4, <3>1, <2>1, <2>2, QuietStream DEF DeletePending
    <2>5. CASE \E m \in Batches : Quarantine(m)
      <3>1. Enqueued' = Enqueued
        BY <2>5 DEF StreamInv, OutboxTypeOK, Quarantine, Enqueued
      <3> QED
        BY <2>5, <3>1, <2>1, <2>2, QuietStream DEF Quarantine
    <2>6. CASE /\ UNCHANGED rowVars
               /\ boot' \in boot..MaxBoots
      <3>1. Enqueued' = Enqueued
        BY <2>6 DEF rowVars, Enqueued
      <3> QED
        BY <2>6, <3>1, <2>1, QuietStream DEF rowVars
    <2>7. CASE \E id \in Identities : OpenOutbox(id)
      BY <2>7, <2>6, <2>2 DEF OpenOutbox
    <2>8. CASE \/ \E id \in Identities : OpenOutboxUnknown(id)
               \/ OpenOutboxAdmin \/ CloseOutbox \/ UNCHANGED outboxVars
      BY <2>8, <2>6, <2>2
      DEF OpenOutboxUnknown, OpenOutboxAdmin, CloseOutbox, outboxVars
    <2> QED
      BY <2>3, <2>4, <2>5, <2>7, <2>8 DEF OutboxNext
  <1>3. StreamInv => CounterPastRows /\ RangesDisjoint
    BY DEF StreamInv
  <1> QED
    BY <1>1, <1>2, <1>3, PTL DEF OutboxSpec
-----------------------------------------------------------------------------
(* The sum of a function over a finite set.  Each fact is proved from a     *)
(* smallest set for which it would fail.                                    *)

(* The unfolding of SumFunctionOnSet.                                       *)
Picked(s) == CHOOSE x \in s : TRUE
SolvesSum(f, S, g) ==
    g = [s \in SUBSET S |-> IF s = {} THEN 0 ELSE f[Picked(s)] + g[s \ {Picked(s)}]]

(* SumFunctionOnSet is a solution of this recursion, if there is one.       *)
LEMMA SumUnfolds ==
    ASSUME NEW f, NEW S
    PROVE  SumFunctionOnSet(f, S) = (CHOOSE g : SolvesSum(f, S, g))[S]
  BY DEF SumFunctionOnSet, FoldFunctionOnSet, MapThenFoldSet, Picked, SolvesSum

(* A set of numbers that has 0 and every successor has them all.            *)
LEMMA AllReached ==
    ASSUME NEW R \in SUBSET Nat, 0 \in R, \A n \in R : n + 1 \in R
    PROVE  R = Nat
  <1> SUFFICES ASSUME Nat \ R # {}
               PROVE  FALSE
    OBVIOUS
  <1>1. PICK n \in Nat \ R : \A k \in Nat \ R : n <= k
    BY LeastNumber
  <1>2. n # 0
    OBVIOUS
  <1>3. n - 1 \in Nat /\ (n - 1) + 1 = n
    BY <1>2
  <1>4. n - 1 \in R
    BY <1>1, <1>3
  <1> QED
    BY <1>3, <1>4

(* Taking one element out of a finite set.                                  *)
LEMMA RemoveCounts ==
    ASSUME NEW s, IsFiniteSet(s), NEW x \in s
    PROVE  /\ IsFiniteSet(s \ {x})
           /\ Cardinality(s \ {x}) \in Nat /\ Cardinality(s) \in Nat
           /\ Cardinality(s) = Cardinality(s \ {x}) + 1
  <1>1. IsFiniteSet(s \ {x}) /\ Cardinality(s \ {x}) = Cardinality(s) - 1
    BY FS_RemoveElement
  <1>2. Cardinality(s \ {x}) \in Nat /\ Cardinality(s) \in Nat
    BY <1>1, FS_CardinalityType
  <1> QED
    BY <1>1, <1>2

(* A non-empty collection of subsets of a finite set has a minimal member.  *)
LEMMA MinimalSubset ==
    ASSUME NEW S, IsFiniteSet(S), NEW C \in SUBSET (SUBSET S), C # {}
    PROVE  \E s \in C : IsFiniteSet(s) /\ \A x \in s : s \ {x} \notin C
  <1> DEFINE N == {Cardinality(t) : t \in C}
  <1>1. \A t \in C : IsFiniteSet(t) /\ Cardinality(t) \in Nat
    BY FS_Subset, FS_CardinalityType
  <1>2. N \subseteq Nat /\ N # {}
    BY <1>1
  <1>3. PICK n \in N : \A k \in N : n <= k
    BY <1>2, LeastNumber
  <1>5. PICK s \in C : \A t \in C : Cardinality(s) <= Cardinality(t)
    BY <1>3
  <1>6. ASSUME NEW x \in s, s \ {x} \in C
        PROVE  FALSE
    BY <1>1, <1>5, <1>6, RemoveCounts
  <1> QED
    BY <1>1, <1>6

(* The recursion has a solution ...                                         *)
LEMMA SumExists ==
    ASSUME NEW f, NEW S, IsFiniteSet(S)
    PROVE  \E g : SolvesSum(f, S, g)
  <1> DEFINE Below(n) == {s \in SUBSET S : Cardinality(s) < n}
             Solves(h, n) == h = [s \in Below(n) |->
                                   IF s = {} THEN 0 ELSE f[Picked(s)] + h[s \ {Picked(s)}]]
             Reached == {n \in Nat : \E h : Solves(h, n)}
  <1>1. \A s \in SUBSET S : IsFiniteSet(s) /\ Cardinality(s) \in Nat /\ Cardinality(s) <= Cardinality(S)
    BY FS_Subset, FS_CardinalityType
  <1>2. 0 \in Reached
    <2>1. Below(0) = {}
      BY <1>1
    <2> DEFINE h == [s \in Below(0) |-> 0]
    <2>2. Solves(h, 0)
      BY <2>1
    <2> QED
      BY <2>2
  <1>3. ASSUME NEW n \in Nat, NEW h, Solves(h, n)
        PROVE  \E k : Solves(k, n + 1)
    <2> DEFINE k == [s \in Below(n + 1) |->
                       IF s = {} THEN 0 ELSE f[Picked(s)] + h[s \ {Picked(s)}]]
    <2>1. ASSUME NEW s \in Below(n + 1), s # {}
          PROVE  k[s \ {Picked(s)}] = h[s \ {Picked(s)}]
      <3>1. Picked(s) \in s
        BY <2>1 DEF Picked
      <3>2. s \ {Picked(s)} \in Below(n) /\ s \ {Picked(s)} \in Below(n + 1)
        BY <1>1, <3>1, RemoveCounts
      <3>3. h[s \ {Picked(s)}] = IF s \ {Picked(s)} = {} THEN 0 ELSE
                f[Picked(s \ {Picked(s)})] + h[(s \ {Picked(s)}) \ {Picked(s \ {Picked(s)})}]
        BY <1>3, <3>2
      <3> QED
        BY <3>2, <3>3
    <2>2. Solves(k, n + 1)
      BY <2>1
    <2> QED
      BY <2>2
  <1>4. ASSUME NEW n \in Reached
        PROVE  n + 1 \in Reached
    <2> HIDE DEF Solves
    <2>1. n \in Nat /\ n + 1 \in Nat /\ \E h : Solves(h, n)
      OBVIOUS
    <2>2. \E k : Solves(k, n + 1)
      BY <1>3, <2>1
    <2> QED
      BY <2>1, <2>2
  <1>5. Cardinality(S) + 1 \in Reached
    <2>1. Reached \in SUBSET Nat
      OBVIOUS
    <2>2. Reached = Nat
      <3> HIDE DEF Reached
      <3> QED
        BY <1>2, <1>4, <2>1, AllReached
    <2>3. Cardinality(S) + 1 \in Nat
      BY <1>1
    <2> HIDE DEF Reached
    <2> QED
      BY <2>2, <2>3
  <1>6. Below(Cardinality(S) + 1) = SUBSET S
    BY <1>1
  <1>7. PICK g : Solves(g, Cardinality(S) + 1)
    BY <1>5
  <1> QED
    BY <1>6, <1>7 DEF SolvesSum

(* ... and only one, which depends on f at the elements alone.              *)
LEMMA SumAgree ==
    ASSUME NEW f, NEW S, NEW g, SolvesSum(f, S, g), IsFiniteSet(S),
           NEW e, NEW T \in SUBSET S, NEW h, SolvesSum(e, T, h),
           \A x \in T : e[x] = f[x]
    PROVE  h[T] = g[T]
  <1> DEFINE Bad == {s \in SUBSET T : h[s] # g[s]}
  <1> SUFFICES ASSUME Bad # {}
               PROVE  FALSE
    OBVIOUS
  <1>1. IsFiniteSet(T)
    BY FS_Subset
  <1>2. PICK s \in Bad : \A x \in s : s \ {x} \notin Bad
    BY <1>1, MinimalSubset
  <1>3. s # {}
    BY <1>2 DEF SolvesSum
  <1>4. Picked(s) \in s /\ IsFiniteSet(s)
    BY <1>1, <1>3, FS_Subset DEF Picked
  <1>5. s \ {Picked(s)} \in SUBSET T /\ s \ {Picked(s)} \notin Bad
    BY <1>2, <1>4
  <1>6. h[s] = e[Picked(s)] + h[s \ {Picked(s)}] /\ g[s] = f[Picked(s)] + g[s \ {Picked(s)}]
    BY <1>3 DEF SolvesSum
  <1> QED
    BY <1>4, <1>5, <1>6

(* The sum of a finite set, one element at a time.                          *)
LEMMA SumStep ==
    ASSUME NEW f, NEW S, IsFiniteSet(S), S # {}
    PROVE  /\ Picked(S) \in S
           /\ SumFunctionOnSet(f, S) = f[Picked(S)] + SumFunctionOnSet(f, S \ {Picked(S)})
  <1>1. Picked(S) \in S
    BY DEF Picked
  <1> DEFINE R == S \ {Picked(S)}
  <1>2. PICK g : SolvesSum(f, S, g) /\ SumFunctionOnSet(f, S) = g[S]
    BY SumExists, SumUnfolds
  <1>3. PICK h : SolvesSum(f, R, h) /\ SumFunctionOnSet(f, R) = h[R]
    BY SumExists, SumUnfolds, FS_Subset
  <1>4. h[R] = g[R]
    BY <1>2, <1>3, SumAgree
  <1>5. g[S] = f[Picked(S)] + g[R]
    BY <1>2 DEF SolvesSum
  <1> QED
    BY <1>1, <1>2, <1>3, <1>4, <1>5

(* The sum over no element.                                                 *)
LEMMA SumEmpty ==
    ASSUME NEW f
    PROVE  SumFunctionOnSet(f, {}) = 0
  <1>1. PICK g : SolvesSum(f, {}, g) /\ SumFunctionOnSet(f, {}) = g[{}]
    BY SumExists, SumUnfolds, FS_EmptySet
  <1> QED
    BY <1>1 DEF SolvesSum

(* A sum depends on the function at the elements alone.                     *)
LEMMA SumSame ==
    ASSUME NEW f, NEW e, NEW S, IsFiniteSet(S), \A x \in S : e[x] = f[x]
    PROVE  SumFunctionOnSet(e, S) = SumFunctionOnSet(f, S)
  <1>1. PICK g : SolvesSum(f, S, g) /\ SumFunctionOnSet(f, S) = g[S]
    BY SumExists, SumUnfolds
  <1>2. PICK h : SolvesSum(e, S, h) /\ SumFunctionOnSet(e, S) = h[S]
    BY SumExists, SumUnfolds
  <1> QED
    BY <1>1, <1>2, SumAgree

(* A sum of natural numbers is one.                                         *)
LEMMA SumNat ==
    ASSUME NEW f, NEW S, IsFiniteSet(S), \A x \in S : f[x] \in Nat
    PROVE  SumFunctionOnSet(f, S) \in Nat
  <1> DEFINE Bad == {s \in SUBSET S : SumFunctionOnSet(f, s) \notin Nat}
  <1> SUFFICES ASSUME Bad # {}
               PROVE  FALSE
    OBVIOUS
  <1>1. PICK s \in Bad : \A x \in s : s \ {x} \notin Bad
    BY MinimalSubset
  <1>2. s # {} /\ IsFiniteSet(s)
    <2>1. SumFunctionOnSet(f, {}) \in Nat
      BY SumEmpty
    <2> QED
      BY <2>1, FS_Subset
  <1>3. Picked(s) \in s /\ SumFunctionOnSet(f, s) = f[Picked(s)] + SumFunctionOnSet(f, s \ {Picked(s)})
    BY <1>2, SumStep
  <1>4. s \ {Picked(s)} \in SUBSET S /\ s \ {Picked(s)} \notin Bad
    BY <1>1, <1>2, <1>3
  <1> QED
    BY <1>1, <1>3, <1>4

(* Any element may be taken out first.                                      *)
LEMMA SumRemoves ==
    ASSUME NEW f, NEW S, IsFiniteSet(S), \A x \in S : f[x] \in Nat, NEW x \in S
    PROVE  SumFunctionOnSet(f, S) = f[x] + SumFunctionOnSet(f, S \ {x})
  <1> DEFINE Bad == {s \in SUBSET S :
                       \E y \in s :
                           SumFunctionOnSet(f, s)
                               # f[y] + SumFunctionOnSet(f, s \ {y})}
  <1> SUFFICES ASSUME Bad # {}
               PROVE  FALSE
    OBVIOUS
  <1>1. PICK s \in Bad : \A w \in s : s \ {w} \notin Bad
    BY MinimalSubset
  <1>2. PICK y \in s : SumFunctionOnSet(f, s) # f[y] + SumFunctionOnSet(f, s \ {y})
    BY <1>1
  <1>3. IsFiniteSet(s)
    BY <1>1, FS_Subset
  <1>4. PICK z \in s : SumFunctionOnSet(f, s) = f[z] + SumFunctionOnSet(f, s \ {z})
    BY <1>2, <1>3, SumStep
  <1>5. y # z
    BY <1>2, <1>4
  <1> DEFINE r == (s \ {y}) \ {z}
  <1>6. r = (s \ {z}) \ {y}
    OBVIOUS
  <1>7. /\ s \ {y} \in SUBSET S /\ s \ {y} \notin Bad
        /\ s \ {z} \in SUBSET S /\ s \ {z} \notin Bad
    BY <1>1, <1>2, <1>3, <1>4
  <1>8. SumFunctionOnSet(f, s \ {y}) = f[z] + SumFunctionOnSet(f, r)
    BY <1>4, <1>5, <1>7
  <1>9. SumFunctionOnSet(f, s \ {z}) = f[y] + SumFunctionOnSet(f, r)
    BY <1>2, <1>5, <1>6, <1>7
  <1>10. SumFunctionOnSet(f, r) \in Nat /\ f[y] \in Nat /\ f[z] \in Nat
    BY <1>1, <1>3, SumNat, FS_Subset
  <1> QED
    BY <1>2, <1>4, <1>8, <1>9, <1>10
-----------------------------------------------------------------------------
(* Quota, binding and quarantine. *)

(* The table is finite and its rows have sizes.                             *)
LEMMA RetainedFinite ==
    ASSUME OutboxTypeOK
    PROVE  /\ IsFiniteSet(Retained) /\ Cardinality(Retained) \in Nat
           /\ \A m \in Batches : sizeOf[m] \in Nat
           /\ UsedBytes \in Nat
  <1>1. IsFiniteSet(Retained) /\ Cardinality(Retained) \in Nat
    BY BatchSetFinite DEF Retained
  <1>2. \A m \in Batches : sizeOf[m] \in Nat
    <2>1. \A m \in Batches : sizeOf[m] \in Sizes \cup {0}
      BY Zenon DEF OutboxTypeOK
    <2>2. Sizes \cup {0} \subseteq Nat
      BY OutboxAssumption
    <2> QED
      BY <2>1, <2>2, Zenon
  <1>3. \A m \in Retained : sizeOf[m] \in Nat
    BY <1>2 DEF Retained
  <1> QED
    BY <1>1, <1>2, <1>3, SumNat DEF UsedBytes

(* A committed Enqueue adds one row, of the size it checked the quota for.  *)
LEMMA EnqueueQuota ==
    ASSUME OutboxTypeOK, NEW m \in Batches, NEW size \in Sizes, Enqueue(m, size)
    PROVE  QuotaHeld'
  <1>1. Retained' = Retained \cup {m} /\ m \notin Retained
    BY DEF OutboxTypeOK, Enqueue, Retained
  <1>2. sizeOf'[m] = size /\ \A n \in Retained : sizeOf'[n] = sizeOf[n]
    BY <1>1 DEF OutboxTypeOK, Enqueue, Retained
  <1>3. /\ IsFiniteSet(Retained) /\ Cardinality(Retained) \in Nat
        /\ UsedBytes \in Nat /\ size \in Nat
        /\ \A n \in Retained : sizeOf[n] \in Nat
    BY RetainedFinite, OutboxAssumption DEF Retained
  <1>4. ~(Cardinality(Retained) >= MaxRows) /\ ~(UsedBytes + size > MaxBytes)
    BY EnqueueOutcomeOK DEF Enqueue, UsedRows
  <1>5. /\ IsFiniteSet(Retained')
        /\ Cardinality(Retained') = Cardinality(Retained) + 1
    BY <1>1, <1>3, FS_AddElement
  <1>6. SumFunctionOnSet(sizeOf', Retained') = size + UsedBytes
    <2>1. \A n \in Retained' : sizeOf'[n] \in Nat
      BY <1>1, <1>2, <1>3
    <2>2. m \in Retained' /\ Retained' \ {m} = Retained
      BY <1>1
    <2>3. SumFunctionOnSet(sizeOf', Retained')
              = sizeOf'[m] + SumFunctionOnSet(sizeOf', Retained)
      BY <1>5, <2>1, <2>2, SumRemoves
    <2>4. SumFunctionOnSet(sizeOf', Retained) = UsedBytes
      BY <1>2, <1>3, SumSame DEF UsedBytes
    <2> QED
      BY <1>2, <2>3, <2>4
  <1> QED
    BY <1>3, <1>4, <1>5, <1>6, OutboxAssumption DEF QuotaHeld

(* A step that takes a row out, or none, stays within the quota.            *)
LEMMA ShrinkQuota ==
    ASSUME OutboxTypeOK, QuotaHeld, NEW m, sizeOf' = sizeOf,
           Retained' = Retained \/ (m \in Retained /\ Retained' = Retained \ {m})
    PROVE  QuotaHeld'
  <1>1. CASE Retained' = Retained
    BY <1>1 DEF QuotaHeld
  <1>2. CASE m \in Retained /\ Retained' = Retained \ {m}
    <2>1. /\ IsFiniteSet(Retained) /\ UsedBytes \in Nat
          /\ \A n \in Retained : sizeOf[n] \in Nat
      BY RetainedFinite DEF Retained
    <2>2. /\ Cardinality(Retained') \in Nat
          /\ Cardinality(Retained) = Cardinality(Retained') + 1
          /\ IsFiniteSet(Retained')
      BY <1>2, <2>1, RemoveCounts
    <2>3. UsedBytes = sizeOf[m] + SumFunctionOnSet(sizeOf, Retained')
      BY <1>2, <2>1, SumRemoves DEF UsedBytes
    <2>4. SumFunctionOnSet(sizeOf, Retained') \in Nat /\ sizeOf[m] \in Nat
      BY <1>2, <2>1, <2>2, SumNat
    <2> QED
      BY <2>1, <2>2, <2>3, <2>4, OutboxAssumption DEF QuotaHeld, UsedBytes
  <1> QED
    BY <1>1, <1>2

(* Every retained row, quarantined or not, counts against the quota of rows *)
(* and of bytes, so no order of enqueues, deletes, quarantines and restarts *)
(* exceeds it.                                                              *)
THEOREM QuotaRespected == OutboxSpec => []QuotaHeld
  <1> DEFINE Inv == OutboxTypeOK /\ QuotaHeld
  <1>1. OutboxInit => Inv
    <2>1. OutboxInit => OutboxTypeOK
      BY OutboxAssumption DEF OutboxInit, OutboxTypeOK, RowStatus
    <2>2. OutboxInit => Retained = {}
      BY DEF OutboxInit, Retained
    <2> QED
      BY <2>1, <2>2, FS_EmptySet, SumEmpty, OutboxAssumption DEF QuotaHeld
  <1>2. Inv /\ [OutboxNext]_outboxVars => Inv'
    <2> SUFFICES ASSUME OutboxTypeOK, QuotaHeld, [OutboxNext]_outboxVars
                 PROVE  QuotaHeld'
      BY OutboxTypeStep
    <2>1. ASSUME NEW m \in Batches, DeletePending(m) \/ Quarantine(m)
          PROVE  QuotaHeld'
      <3>1. /\ sizeOf' = sizeOf
            /\ Retained' = Retained \/ (m \in Retained /\ Retained' = Retained \ {m})
        BY <2>1 DEF OutboxTypeOK, DeletePending, Deletable, Quarantine, Retained
      <3> QED
        BY <3>1, ShrinkQuota
    <2>2. CASE UNCHANGED rowVars
      <3>1. sizeOf' = sizeOf /\ Retained' = Retained
        BY <2>2 DEF rowVars, Retained
      <3> QED
        BY <3>1, ShrinkQuota
    <2> QED
      BY <2>1, <2>2, EnqueueQuota
      DEF OutboxNext, OpenOutbox, OpenOutboxUnknown, OpenOutboxAdmin,
          CloseOutbox, outboxVars
  <1> QED
    BY <1>1, <1>2, PTL DEF OutboxSpec

(* A simulator that holds the lock works on a file of its own identity,     *)
(* even after an open whose schema commit was ambiguous (verifyBinding).    *)
THEOREM BindingRespected == OutboxSpec => []HolderIsBound
  <1>1. OutboxInit => HolderIsBound
    BY OutboxAssumption DEF OutboxInit, HolderIsBound
  <1>2. HolderIsBound /\ [OutboxNext]_outboxVars => HolderIsBound'
    BY OutboxAssumption
    DEF HolderIsBound, OutboxNext, outboxVars, Enqueue, DeletePending,
        Quarantine, OpenOutbox, BindingAccepts, OpenOutboxUnknown,
        OpenOutboxAdmin, CloseOutbox
  <1> QED
    BY <1>1, <1>2, PTL DEF OutboxSpec

(* A quarantined row stays quarantined: no ACK deletes it, no restart       *)
(* replays it.                                                              *)
THEOREM QuarantineKept == OutboxSpec => QuarantineIsFinal
  <1>1. OutboxTypeOK /\ [OutboxNext]_outboxVars =>
            [\A m \in Batches :
                status[m] = "quarantined" => status'[m] = "quarantined"]_outboxVars
    BY DEF OutboxTypeOK, OutboxNext, Enqueue, DeletePending, Deletable,
           Quarantine, OpenOutbox, OpenOutboxUnknown, OpenOutboxAdmin,
           CloseOutbox, rowVars
  <1> QED
    BY <1>1, OutboxTypeCorrect, PTL DEF OutboxSpec, QuarantineIsFinal
-----------------------------------------------------------------------------
(* The type of the gateway. *)

(* The inductive form of the type: paging never leaves the first page, and  *)
(* nothing of a process is left when there is none.                         *)
TypeInv ==
    /\ GatewayTypeOK
    /\ cursor = 0 /\ page = 0
    /\ pc = "down" => admissions = <<>> /\ ~ready

-----------------------------------------------------------------------------
(* The gateway's use of the outbox. *)

(* Every step of the gateway is a step of the outbox, or leaves it alone.   *)
LEMMA GatewayStepsOutbox ==
    ASSUME TypeInv, [Next]_vars
    PROVE  [OutboxNext]_outboxVars
  <1>1. pc # "down" => holder \in Identities
    BY DEF TypeInv, GatewayTypeOK, ProcessTypeOK
  <1>2. CASE Loop
    <2>1. CASE \E m \in Batches : Generate(m)
      BY <2>1, <1>1 DEF Generate, OutboxNext
    <2>2. CASE UNCHANGED outboxVars
      BY <2>2
    <2> QED
      BY <1>2, <2>1, <2>2
      DEF Loop, LoopStop, LoopTop, AdmitPending, GenerateFull, Completed,
          Expired, NotCompleted, ArmTimer, CheckReady, SyncDone,
          ProcessDueRetry, SyncInflight
  <1>3. CASE Select \/ Drain
    BY <1>3
    DEF Select, SelectStop, SelectAckFatal, SelectTimer, SelectReady,
        SelectNotify, SelectResult, Drain, DrainEnd, DrainResult
  <1>4. CASE Failures
    <2>1. CASE HandleAdmissionFails
      <3>1. pc # "down" /\ AckedRow \in Batches
        BY <2>1, HeadTailProperties
        DEF TypeInv, GatewayTypeOK, ProcessTypeOK, HandleAdmissionFails,
            AckedRow
      <3> QED
        BY <2>1, <3>1, <1>1 DEF HandleAdmissionFails, OutboxNext
    <2>2. CASE GenerateFails
      BY <2>2, <1>1 DEF GenerateFails, OutboxNext
    <2>3. CASE LoopFails \/ SelectPubFatal
      BY <2>3 DEF LoopFails, SelectPubFatal
    <2> QED
      BY <1>4, <2>1, <2>2, <2>3 DEF Failures
  <1>5. CASE AckWorker
    <2>1. CASE HandleAdmission
      <3>1. pc # "down" /\ AckedRow \in Batches
        BY <2>1, HeadTailProperties
        DEF TypeInv, GatewayTypeOK, ProcessTypeOK, HandleAdmission, AckedRow
      <3> QED
        BY <2>1, <3>1, <1>1 DEF HandleAdmission, OutboxNext
    <2>2. CASE SignalScheduler
      BY <2>2 DEF SignalScheduler
    <2> QED
      BY <1>5, <2>1, <2>2 DEF AckWorker
  <1>6. CASE Network \/ Clock
    BY <1>6
    DEF Network, ConnUp, ConnDown, BrokerAccepts, ServerCommits, Admit,
        PublishReturns, PublishDropped, Clock, GenTick, DeadlinePass, Elapse
  <1>7. CASE Process
    BY <1>7
    DEF Process, RunScheduler, RequestStop, EndProcess, Administer,
        StartProcess, OutboxNext
  <1>8. CASE UNCHANGED vars
    BY <1>8 DEF vars
  <1> QED
    BY <1>2, <1>3, <1>4, <1>5, <1>6, <1>7, <1>8 DEF Next
-----------------------------------------------------------------------------
(* Admission. *)

(* A page that leaves a slot free was not full, held every pending row and  *)
(* put all of them in flight: so admitPending stops on its first page, and  *)
(* generation follows only when no older row is left behind.                *)
LEMMA AdmitOnePage ==
    ASSUME TypeInv, AdmitPending
    PROVE  /\ cursor' = 0 /\ page' = 0
           /\ genReady' \in BOOLEAN
           /\ pc' \in {"generate", "complete"}
           /\ \E new \in SUBSET (Pending \ Inflight) :
                 /\ StartPublish(new)
                 /\ Free \in Nat => Cardinality(new) <= Free
                 /\ pc' = "generate" =>
                       /\ Pending \subseteq Inflight \cup new
                       /\ Cardinality(Inflight) + Cardinality(new) < maxInflight
  <1> DEFINE items == PendingAfter(0, maxInflight)
             rest  == items \ Inflight
             new   == Oldest(rest, Free)
             left  == Free - Cardinality(new)
             end   == left <= 0 \/ Cardinality(items) < maxInflight
             more  == ~end /\ 0 + 1 = MaxAdmissionPages
  <1>1. maxInflight \in Nat
    BY GatewayAssumption, OutboxAssumption
    DEF TypeInv, GatewayTypeOK, ProcessTypeOK
  <1>2. /\ Inflight \in SUBSET Batches /\ IsFiniteSet(Inflight)
        /\ Cardinality(Inflight) \in Nat
    BY BatchSetFinite DEF Inflight
  <1>3. Free \in Int
    BY <1>1, <1>2 DEF Free
  <1>4. {m \in Pending : m > 0} = Pending
    BY DEF Pending, Batches
  <1>5. items = Oldest(Pending, maxInflight)
    BY <1>4 DEF PendingAfter
  <1>6. /\ items \subseteq Pending /\ Pending \in SUBSET Batches
        /\ rest \in SUBSET Batches
    BY <1>5 DEF Oldest, Pending
  <1>7. new \subseteq rest /\ new \in SUBSET (Pending \ Inflight)
    BY <1>6 DEF Oldest
  <1>8. /\ IsFiniteSet(new) /\ Cardinality(new) \in Nat
        /\ IsFiniteSet(items) /\ Cardinality(items) \in Nat
    BY <1>6, <1>7, BatchSetFinite
  <1>9. ASSUME left > 0
        PROVE  /\ new = rest
               /\ Cardinality(items) < maxInflight
               /\ Cardinality(Inflight) + Cardinality(new) < maxInflight
    <2>1. Cardinality(new) < Free
      BY <1>9, <1>3, <1>8
    <2>2. new = rest
      BY <2>1, <1>3, <1>6, OldestTakesAll
    <2>3. Inflight \cap new = {}
      BY <1>7
    <2>4. Cardinality(Inflight \cup new) = Cardinality(Inflight) + Cardinality(new)
      <3>1. Cardinality(Inflight \cup new)
                = Cardinality(Inflight) + Cardinality(new)
                      - Cardinality(Inflight \cap new)
        BY <1>2, <1>8, FS_Union
      <3>2. Cardinality(Inflight \cap new) = 0
        BY <2>3, FS_EmptySet
      <3> HIDE DEF new
      <3> QED
        BY <3>1, <3>2, <1>2, <1>8
    <2>5. items \subseteq Inflight \cup new
      BY <2>2
    <2>6. Cardinality(items) <= Cardinality(Inflight \cup new)
      BY <2>5, <1>2, <1>8, FS_Union, FS_Subset
    <2>7. Cardinality(Inflight) + Cardinality(new) < maxInflight
      <3> HIDE DEF new
      <3> QED
        BY <2>1, <1>1, <1>2, <1>8 DEF Free
    <2> HIDE DEF new, items, rest
    <2> QED
      BY <2>2, <2>4, <2>6, <2>7, <1>1, <1>2, <1>8
  <1>10. end
    BY <1>9, <1>3, <1>8
  <1>11. /\ StartPublish(new)
         /\ genReady' = Eligible(left, more)
         /\ pc' = IF genReady' /\ GenDue THEN "generate" ELSE "complete"
         /\ cursor' = 0 /\ page' = 0
    <2>1. cursor = 0 /\ page = 0
      BY DEF TypeInv
    <2> QED
      BY <2>1, <1>10 DEF AdmitPending, PageSize, NotInflight
  <1>12. genReady' \in BOOLEAN
    BY <1>11 DEF Eligible
  <1>13. pc' = "generate" => left > 0
    BY <1>11 DEF Eligible
  <1>14. ASSUME Cardinality(items) < maxInflight
         PROVE  items = Pending
    BY <1>14, <1>1, <1>5, <1>6, OldestTakesAll
  <1>15. pc' = "generate" =>
             /\ Pending \subseteq Inflight \cup new
             /\ Cardinality(Inflight) + Cardinality(new) < maxInflight
    BY <1>13, <1>9, <1>14
  <1>16. Free \in Nat => Cardinality(new) <= Free
    BY <1>6, OldestBounded
  <1> QED
    BY <1>7, <1>11, <1>12, <1>15, <1>16

(* What StartPublish does to the sets the properties are about.             *)
LEMMA StartPublishSets ==
    ASSUME ProcessTypeOK, NEW S \in SUBSET Batches, StartPublish(S)
    PROVE  /\ entry' \in [Batches -> EntryStates]
           /\ pub' \in [Batches -> PubStates]
           /\ Inflight' = Inflight \cup S
           /\ Results' \subseteq Results
  BY DEF ProcessTypeOK, StartPublish, EntryStates, PubStates, Inflight, Results
-----------------------------------------------------------------------------
(* The type invariant. *)

(* TypeInv in two parts that the provers take one at a time: the flags ...  *)
FlagsInv ==
    /\ stopRequested \in BOOLEAN /\ genReady \in BOOLEAN
    /\ readyObserved \in BOOLEAN /\ timerArmed \in BOOLEAN
    /\ stateChClosed \in BOOLEAN /\ genDue \in BOOLEAN /\ genDone \in BOOLEAN
    /\ generationPaused \in BOOLEAN /\ notify \in BOOLEAN /\ ready \in BOOLEAN
    /\ pc = "down" => ~ready

(* ... and the rest, but for the outbox and the result channel.             *)
DataInv ==
    /\ maxInflight \in InflightLimits \cup {0}
    /\ pc \in Steps /\ outcome \in Outcomes
    /\ todo \subseteq Batches /\ cursor = 0 /\ page = 0
    /\ uniqueEnqueued \in Nat
    /\ completionDeadline \in {"unset", "running", "passed"}
    /\ entry \in [Batches -> EntryStates]
    /\ pub \in [Batches -> PubStates]
    /\ admissions \in Seq(Batches) /\ Len(admissions) <= AdmissionCapacity
    /\ worker \in {"idle", "signal", "dead"}
    /\ losses \in 0..MaxLosses
    /\ server \in [Batches -> {"unknown", "sent", "committed"}]
    /\ pc = "down" <=> holder \notin Identities
    /\ pc = "down" <=> maxInflight = 0
    /\ pc = "down" => admissions = <<>>

LEMMA TypeParts ==
    TypeInv <=> /\ OutboxTypeOK /\ FlagsInv /\ DataInv
                /\ Cardinality(Results) <= maxInflight
  BY OutboxAssumption
  DEF TypeInv, GatewayTypeOK, ProcessTypeOK, FlagsInv, DataInv

LEMMA FlagsStep ==
    ASSUME TypeInv, FlagsInv, [Next]_vars
    PROVE  FlagsInv'
  <1> USE DEF FlagsInv, outboxVars, loopVars, ctlVars, runVars, passVars,
          waitVars, genVars, entryVars, ackVars, netVars
  <1>1. CASE Loop
    <2>1. CASE AdmitPending
      <3>1. genReady' \in BOOLEAN /\ pc' # "down"
        BY <2>1, AdmitOnePage
      <3> QED
        BY <2>1, <3>1 DEF AdmitPending
    <2>2. CASE ArmTimer \/ CheckReady
      BY <2>2, ZenonT(60) DEF ArmTimer, CheckReady
    <2>3. ASSUME NEW m \in Batches,
                 ProcessDueRetry(m) \/ Generate(m) \/ SyncInflight(m)
          PROVE  FlagsInv'
      <3>1. CASE ProcessDueRetry(m)
        BY <3>1 DEF ProcessDueRetry
      <3>2. CASE Generate(m)
        BY <3>2 DEF Generate
      <3>3. CASE SyncInflight(m)
        BY <3>3 DEF SyncInflight
      <3> QED
        BY <2>3, <3>1, <3>2, <3>3
    <2>4. CASE LoopStop \/ LoopTop \/ Completed \/ Expired
      BY <2>4 DEF LoopStop, LoopTop, Completed, Expired, LeaveLoop, Fail
    <2>5. CASE GenerateFull \/ NotCompleted \/ SyncDone
      BY <2>5, ZenonT(60) DEF GenerateFull, NotCompleted, SyncDone
    <2> QED
      BY <1>1, <2>1, <2>2, <2>3, <2>4, <2>5 DEF Loop
  <1>2. CASE Select
    <2>1. ASSUME NEW m \in Batches, SelectResult(m)
          PROVE  FlagsInv'
      BY <2>1 DEF SelectResult, WakeTo
    <2>2. CASE SelectTimer \/ SelectReady \/ SelectNotify
      BY <2>2 DEF SelectTimer, SelectReady, SelectNotify, WakeTo
    <2>3. CASE SelectStop \/ SelectAckFatal
      BY <2>3 DEF SelectStop, SelectAckFatal, LeaveLoop
    <2> QED
      BY <1>2, <2>1, <2>2, <2>3 DEF Select
  <1>3. CASE Failures
    <2>1. CASE LoopFails \/ SelectPubFatal
      BY <2>1 DEF LoopFails, SelectPubFatal, LeaveLoop, Fail
    <2>2. CASE GenerateFails
      BY <2>2 DEF GenerateFails, LeaveLoop, Fail
    <2>3. CASE HandleAdmissionFails
      BY <2>3 DEF HandleAdmissionFails
    <2> QED
      BY <1>3, <2>1, <2>2, <2>3 DEF Failures
  <1>4. CASE Drain \/ AckWorker
    <2>1. CASE DrainEnd
      BY <2>1 DEF DrainEnd
    <2>2. ASSUME NEW m \in Batches, DrainResult(m)
          PROVE  FlagsInv'
      BY <2>2 DEF DrainResult
    <2>3. CASE HandleAdmission
      BY <2>3 DEF HandleAdmission
    <2>4. CASE SignalScheduler
      BY <2>4 DEF SignalScheduler
    <2> QED
      BY <1>4, <2>1, <2>2, <2>3, <2>4 DEF Drain, AckWorker
  <1>5. CASE Network
    <2>1. CASE ConnUp \/ ConnDown
      BY <2>1 DEF ConnUp, ConnDown
    <2>2. CASE UNCHANGED loopVars /\ UNCHANGED <<notify, ready>>
      BY <2>2
    <2> QED
      BY <1>5, <2>1, <2>2 DEF Network, BrokerAccepts, ServerCommits, Admit,
         PublishReturns, PublishDropped
  <1>6. CASE Clock
    <2>1. CASE GenTick
      BY <2>1 DEF GenTick
    <2>2. CASE DeadlinePass
      BY <2>2 DEF DeadlinePass
    <2>3. ASSUME NEW m \in Batches, Elapse(m)
          PROVE  FlagsInv'
      BY <2>3 DEF Elapse
    <2> QED
      BY <1>6, <2>1, <2>2, <2>3 DEF Clock
  <1>7. CASE Process
    <2>1. CASE EndProcess
      BY <2>1 DEF EndProcess
    <2>2. CASE RunScheduler \/ RequestStop
      BY <2>2, ZenonT(60) DEF RunScheduler, RequestStop, Running
    <2>4. CASE Administer
      BY <2>4 DEF Administer
    <2>3. CASE \E id \in Identities : StartProcess(id)
      BY <2>3 DEF StartProcess
    <2> QED
      BY <1>7, <2>1, <2>2, <2>3, <2>4 DEF Process
  <1>8. CASE UNCHANGED vars
    BY <1>8 DEF vars
  <1> QED
    BY <1>1, <1>2, <1>3, <1>4, <1>5, <1>6, <1>7, <1>8 DEF Next

(* What the ACK admission queue is after a send, after a receive, and in a  *)
(* new process.                                                             *)
LEMMA AdmissionQueue ==
    ASSUME admissions \in Seq(Batches), Len(admissions) <= AdmissionCapacity
    PROVE  /\ admissions # <<>> => /\ Tail(admissions) \in Seq(Batches)
                                  /\ Len(Tail(admissions)) <= AdmissionCapacity
           /\ <<>> \in Seq(Batches) /\ Len(<<>>) <= AdmissionCapacity
           /\ RoomInQueue => \A m \in Batches :
                  /\ Append(admissions, m) \in Seq(Batches)
                  /\ Len(Append(admissions, m)) <= AdmissionCapacity
  BY HeadTailProperties, GatewayAssumption DEF RoomInQueue

LEMMA AfterLoss ==
    ASSUME losses \in 0..MaxLosses, losses < MaxLosses
    PROVE  losses + 1 \in 0..MaxLosses
  BY GatewayAssumption

LEMMA ElapseSets ==
    ASSUME entry \in [Batches -> EntryStates], NEW m \in Batches, Elapse(m)
    PROVE  entry' \in [Batches -> EntryStates]
  BY DEF Elapse, EntryStates

LEMMA DataStep ==
    ASSUME TypeInv, FlagsInv, DataInv, [Next]_vars
    PROVE  DataInv'
  <1> USE DEF DataInv, Steps, Outcomes, outboxVars, loopVars, ctlVars, runVars,
          passVars, waitVars, genVars, entryVars, ackVars, netVars
  <1>1. CASE Loop
    <2>1. CASE LoopStop \/ Completed \/ Expired
      BY <2>1 DEF LoopStop, Completed, Expired, LeaveLoop, Fail
    <2>2. CASE LoopTop
      BY <2>2 DEF LoopTop, Due
    <2>3. CASE AdmitPending
      <3>1. PICK new \in SUBSET (Pending \ Inflight) : StartPublish(new)
        BY <2>3, AdmitOnePage
      <3>2. entry' \in [Batches -> EntryStates] /\ pub' \in [Batches -> PubStates]
        BY <3>1, StartPublishSets DEF TypeInv, GatewayTypeOK, Pending
      <3>3. cursor' = 0 /\ page' = 0 /\ pc' \in {"generate", "complete"}
        BY <2>3, AdmitOnePage
      <3>4. pc = "reconcile"
            /\ UNCHANGED <<outboxVars, runVars, todo, genVars, ackVars, netVars>>
        BY <2>3 DEF AdmitPending
      <3> QED
        BY <3>2, <3>3, <3>4
    <2>4. CASE GenerateFull
      BY <2>4 DEF GenerateFull
    <2>5. CASE NotCompleted
      BY <2>5 DEF NotCompleted
    <2>6. CASE SyncDone
      BY <2>6 DEF SyncDone
    <2>7. CASE ArmTimer
      BY <2>7 DEF ArmTimer
    <2>8. CASE CheckReady
      BY <2>8 DEF CheckReady
    <2>9. ASSUME NEW m \in Batches, ProcessDueRetry(m)
          PROVE  DataInv'
      <3>1. entry' \in [Batches -> EntryStates] /\ pub' \in [Batches -> PubStates]
        <4>1. CASE StartPublish({m})
          BY <4>1, StartPublishSets DEF TypeInv, GatewayTypeOK
        <4> QED
          BY <2>9, <4>1 DEF ProcessDueRetry, AfterAckTimeout, EntryStates
      <3> QED
        BY <2>9, <3>1 DEF ProcessDueRetry
    <2>10. ASSUME NEW m \in Batches, Generate(m)
           PROVE  DataInv'
      <3>1. entry' \in [Batches -> EntryStates] /\ pub' \in [Batches -> PubStates]
        BY <2>10, StartPublishSets DEF Generate, TypeInv, GatewayTypeOK
      <3>2. holder' = holder
        BY <2>10 DEF Generate, Enqueue
      <3>3. /\ pc = "generate" /\ pc' = "complete"
            /\ uniqueEnqueued' = uniqueEnqueued + 1
            /\ completionDeadline' \in {completionDeadline, "running"}
        BY <2>10 DEF Generate
      <3>4. UNCHANGED <<maxInflight, outcome, todo, cursor, page, admissions,
                        worker, losses, server>>
        BY <2>10, Zenon DEF Generate
      <3> QED
        BY <3>1, <3>2, <3>3, <3>4
    <2>11. ASSUME NEW m \in Batches, SyncInflight(m)
           PROVE  DataInv'
      BY <2>11 DEF SyncInflight, EntryStates
    <2> QED
      BY <1>1, <2>1, <2>2, <2>3, <2>4, <2>5, <2>6, <2>7, <2>8, <2>9, <2>10,
         <2>11 DEF Loop
  <1>2. CASE Select \/ Drain
    <2>1. CASE SelectStop \/ SelectAckFatal
      BY <2>1 DEF SelectStop, SelectAckFatal, LeaveLoop
    <2>2. CASE SelectTimer \/ SelectReady
      BY <2>2 DEF SelectTimer, SelectReady, WakeTo
    <2>3. CASE SelectNotify
      BY <2>3 DEF SelectNotify, WakeTo, Inflight
    <2>4. ASSUME NEW m \in Batches, OnPublishResult(m)
          PROVE  /\ entry' \in [Batches -> EntryStates]
                 /\ pub' \in [Batches -> PubStates]
      BY <2>4 DEF OnPublishResult, EntryStates, PubStates
    <2>5. ASSUME NEW m \in Batches, SelectResult(m)
          PROVE  DataInv'
      BY <2>4, <2>5 DEF SelectResult, WakeTo
    <2>6. ASSUME NEW m \in Batches, DrainResult(m)
          PROVE  DataInv'
      BY <2>4, <2>6 DEF DrainResult
    <2>7. CASE DrainEnd
      BY <2>7 DEF DrainEnd
    <2> QED
      BY <1>2, <2>1, <2>2, <2>3, <2>5, <2>6, <2>7 DEF Select, Drain
  <1>3. CASE Failures
    <2>1. CASE LoopFails \/ SelectPubFatal
      BY <2>1 DEF LoopFails, SelectPubFatal, LeaveLoop, Fail
    <2>2. CASE GenerateFails
      <3>1. holder' = holder
        BY <2>2 DEF GenerateFails, Enqueue
      <3> QED
        BY <2>2, <3>1 DEF GenerateFails, LeaveLoop, Fail
    <2>3. CASE HandleAdmissionFails
      <3>1. holder' = holder
        BY <2>3 DEF HandleAdmissionFails, DeletePending
      <3>2. admissions' \in Seq(Batches) /\ Len(admissions') <= AdmissionCapacity
        BY <2>3, AdmissionQueue, Zenon DEF HandleAdmissionFails
      <3> QED
        BY <2>3, <3>1, <3>2 DEF HandleAdmissionFails
    <2> QED
      BY <1>3, <2>1, <2>2, <2>3 DEF Failures
  <1>4. CASE AckWorker
    <2>1. CASE HandleAdmission
      <3>1. holder' = holder
        BY <2>1 DEF HandleAdmission, DeletePending
      <3>2. admissions' \in Seq(Batches) /\ Len(admissions') <= AdmissionCapacity
        BY <2>1, AdmissionQueue, Zenon DEF HandleAdmission
      <3> QED
        BY <2>1, <3>1, <3>2 DEF HandleAdmission, AfterDelete
    <2>2. CASE SignalScheduler
      BY <2>2 DEF SignalScheduler
    <2> QED
      BY <1>4, <2>1, <2>2 DEF AckWorker
  <1>5. CASE Network
    <2>1. CASE ConnUp
      BY <2>1 DEF ConnUp
    <2>2. CASE ConnDown
      <3>1. losses' \in 0..MaxLosses
        BY <2>2, AfterLoss, Zenon DEF ConnDown
      <3>2. UNCHANGED <<outboxVars, ctlVars, passVars, genVars, entryVars, ackVars,
                        server>>
        BY <2>2, Zenon DEF ConnDown
      <3> QED
        BY <3>1, <3>2, Zenon
    <2>3. ASSUME NEW m \in Batches, BrokerAccepts(m) \/ ServerCommits(m)
          PROVE  DataInv'
      BY <2>3, ZenonT(60) DEF BrokerAccepts, ServerCommits
    <2>4. ASSUME NEW m \in Batches, Admit(m)
          PROVE  DataInv'
      <3>1. pc # "down"
        BY <2>4 DEF Admit, FlagsInv
      <3>2. admissions' \in Seq(Batches) /\ Len(admissions') <= AdmissionCapacity
        BY <2>4, AdmissionQueue, Zenon DEF Admit
      <3> QED
        BY <2>4, <3>1, <3>2 DEF Admit
    <2>5. ASSUME NEW m \in Batches, NEW result \in {"ok", "failed"},
                 PublishReturns(m, result)
          PROVE  DataInv'
      BY <2>5 DEF PublishReturns, PubStates
    <2>6. ASSUME NEW m \in Batches, PublishDropped(m)
          PROVE  DataInv'
      BY <2>6 DEF PublishDropped, PubStates
    <2> QED
      BY <1>5, <2>1, <2>2, <2>3, <2>4, <2>5, <2>6 DEF Network
  <1>6. CASE Clock
    <2>1. CASE GenTick \/ DeadlinePass
      BY <2>1, ZenonT(60) DEF GenTick, DeadlinePass
    <2>2. ASSUME NEW m \in Batches, Elapse(m)
          PROVE  DataInv'
      <3>1. entry' \in [Batches -> EntryStates]
        BY <2>2, ElapseSets, Zenon
      <3>2. UNCHANGED <<outboxVars, loopVars, pub, ackVars, netVars>>
        BY <2>2, Zenon DEF Elapse
      <3> QED
        BY <3>1, <3>2, Zenon
    <2> QED
      BY <1>6, <2>1, <2>2 DEF Clock
  <1>7. CASE Process
    <2>1. CASE EndProcess
      <3>1. entry' \in [Batches -> EntryStates] /\ pub' \in [Batches -> PubStates]
        BY <2>1 DEF EndProcess, EntryStates, PubStates
      <3>2. admissions' \in Seq(Batches) /\ Len(admissions') <= AdmissionCapacity
        BY <2>1, AdmissionQueue, Zenon DEF EndProcess
      <3>3. holder' \notin Identities
        BY <2>1, OutboxAssumption DEF EndProcess, CloseOutbox
      <3>4. losses' = losses /\ server' = server
        BY <2>1 DEF EndProcess
      <3>5. /\ maxInflight' = 0 /\ pc' = "down" /\ outcome' = "none"
            /\ todo' = {} /\ cursor' = 0 /\ page' = 0 /\ uniqueEnqueued' = 0
            /\ completionDeadline' = "unset" /\ admissions' = <<>>
            /\ worker' = "idle"
        BY <2>1 DEF EndProcess
      <3> QED
        BY <3>1, <3>2, <3>3, <3>4, <3>5
    <2>2. CASE RunScheduler
      BY <2>2 DEF RunScheduler
    <2>3. CASE RequestStop
      BY <2>3 DEF RequestStop
    <2>4. CASE Administer
      <3>1. holder' \notin Identities /\ pc = "down"
        BY <2>4, OutboxAssumption
        DEF Administer, OpenOutboxAdmin, Quarantine, CloseOutbox
      <3> QED
        BY <2>4, <3>1 DEF Administer
    <2>5. ASSUME NEW id \in Identities, StartProcess(id)
          PROVE  DataInv'
      <3>1. holder' \in Identities
        BY <2>5 DEF StartProcess, OpenOutbox
      <3>2. maxInflight' \in InflightLimits /\ maxInflight' # 0
        BY <2>5, GatewayAssumption DEF StartProcess
      <3>3. pc = "down" /\ pc' = "waitReady"
        BY <2>5, Zenon DEF StartProcess
      <3>4. UNCHANGED <<outcome, passVars, genVars, entryVars, ackVars, netVars>>
        BY <2>5, Zenon DEF StartProcess
      <3> QED
        BY <3>1, <3>2, <3>3, <3>4
    <2> QED
      BY <1>7, <2>1, <2>2, <2>3, <2>4, <2>5 DEF Process
  <1>8. CASE UNCHANGED vars
    BY <1>8 DEF vars
  <1> QED
    BY <1>1, <1>2, <1>3, <1>4, <1>5, <1>6, <1>7, <1>8 DEF Next

(* The result channel: only a Publish that returns adds to it, and it waits *)
(* for room.                                                                *)
LEMMA ResultsStep ==
    ASSUME TypeInv, [Next]_vars
    PROVE  Cardinality(Results') <= maxInflight'
  <1>0. /\ ProcessTypeOK /\ Cardinality(Results) <= maxInflight
        /\ DataInv
    BY TypeParts, Zenon DEF TypeInv, GatewayTypeOK
  <1>1. maxInflight \in Nat /\ entry \in [Batches -> EntryStates]
            /\ pub \in [Batches -> PubStates] /\ Cardinality(Results) <= maxInflight
            /\ ProcessTypeOK
    <2>1. maxInflight \in InflightLimits \cup {0}
      BY <1>0, Zenon DEF DataInv
    <2>2. maxInflight \in Nat
      BY <2>1, GatewayAssumption, OutboxAssumption
    <2> QED
      BY <1>0, <2>2, Zenon DEF DataInv
  <1>2. Results \in SUBSET Batches
    BY DEF Results
  <1>3. ASSUME Results' \subseteq Results, maxInflight' = maxInflight
        PROVE  Cardinality(Results') <= maxInflight'
    <2>1. Cardinality(Results') <= Cardinality(Results)
      BY <1>2, <1>3, BatchSetFinite, FS_Subset
    <2>2. Cardinality(Results') \in Nat /\ Cardinality(Results) \in Nat
      BY <1>2, <1>3, BatchSetFinite
    <2> QED
      BY <2>1, <2>2, <1>1, <1>3
  <1>4. ASSUME Results' = {}, maxInflight' \in Nat
        PROVE  Cardinality(Results') <= maxInflight'
    BY <1>4, FS_EmptySet
  <1>5. CASE AdmitPending
    <2>1. PICK new \in SUBSET (Pending \ Inflight) : StartPublish(new)
      BY <1>5, AdmitOnePage
    <2> QED
      BY <2>1, <1>1, <1>3, <1>5, StartPublishSets
      DEF Pending, AdmitPending, runVars
  <1>6. ASSUME NEW m \in Batches, ProcessDueRetry(m) \/ Generate(m)
        PROVE  Cardinality(Results') <= maxInflight'
    <2>1. CASE StartPublish({m})
      BY <2>1, <1>1, <1>3, <1>6, StartPublishSets
      DEF ProcessDueRetry, Generate, ctlVars, runVars
    <2>2. CASE pub' = pub
      BY <2>2, <1>3, <1>6 DEF Results, ProcessDueRetry, Generate, ctlVars, runVars
    <2> QED
      BY <2>1, <2>2, <1>6 DEF ProcessDueRetry, Generate
  <1>7. ASSUME NEW m \in Batches, SelectResult(m) \/ DrainResult(m)
        PROVE  Cardinality(Results') <= maxInflight'
    <2>1. Results' \subseteq Results
      BY <1>1, <1>7 DEF SelectResult, DrainResult, OnPublishResult, Results
    <2> QED
      BY <2>1, <1>3, <1>7
      DEF SelectResult, DrainResult, WakeTo, loopVars, ctlVars, runVars
  <1>8. ASSUME NEW m \in Batches, NEW result \in {"ok", "failed"},
               PublishReturns(m, result)
        PROVE  Cardinality(Results') <= maxInflight'
    <2>1. Results' = Results \cup {m}
      BY <1>1, <1>8 DEF PublishReturns, Results
    <2>2. Cardinality(Results) < maxInflight /\ maxInflight' = maxInflight
      BY <1>8 DEF PublishReturns, loopVars, ctlVars, runVars
    <2>3. Cardinality(Results') <= Cardinality(Results) + 1
      BY <2>1, <1>2, BatchSetFinite, FS_AddElement
    <2>4. Cardinality(Results) \in Nat /\ Cardinality(Results') \in Nat
      BY <2>1, <1>2, BatchSetFinite
    <2> QED
      BY <2>2, <2>3, <2>4, <1>1
  <1>9. ASSUME NEW m \in Batches, PublishDropped(m)
        PROVE  Cardinality(Results') <= maxInflight'
    <2>1. Results' \subseteq Results
      BY <1>1, <1>9 DEF PublishDropped, Results
    <2> QED
      BY <2>1, <1>3, <1>9 DEF PublishDropped, loopVars, ctlVars, runVars
  <1>10. CASE EndProcess
    <2>1. Results' = {}
      BY <1>10 DEF EndProcess, Results
    <2> QED
      BY <2>1, <1>4, <1>10 DEF EndProcess
  <1>11. ASSUME NEW id \in Identities, StartProcess(id)
         PROVE  Cardinality(Results') <= maxInflight'
    <2>1. maxInflight = 0 /\ maxInflight' \in Nat /\ Results' = Results
      <3>1. maxInflight = 0
        BY <1>0, <1>11, Zenon DEF DataInv, StartProcess
      <3>2. maxInflight' \in InflightLimits /\ pub' = pub
        BY <1>11, Zenon DEF StartProcess, entryVars
      <3>3. maxInflight' \in Nat
        BY <3>2, GatewayAssumption, OutboxAssumption
      <3> QED
        BY <3>1, <3>2, <3>3 DEF Results
    <2> QED
      BY <2>1, <1>1, <1>2, BatchSetFinite
  <1>12. CASE pub' = pub /\ maxInflight' = maxInflight
    BY <1>12, <1>3 DEF Results
  <1>13. CASE UNCHANGED vars
    BY <1>12, <1>13 DEF vars, loopVars, ctlVars, runVars, entryVars
  <1>14. CASE Loop
    <2>1. CASE \E m \in Batches : SyncInflight(m)
      BY <2>1, <1>12 DEF SyncInflight, ctlVars, runVars
    <2>2. CASE LoopStop \/ Completed \/ Expired
      BY <2>2, <1>12 DEF LoopStop, Completed, Expired, Fail, LeaveLoop, entryVars
    <2>3. CASE LoopTop \/ GenerateFull \/ NotCompleted \/ ArmTimer \/ CheckReady
               \/ SyncDone
      BY <2>3, <1>12 DEF LoopTop, GenerateFull, NotCompleted, ArmTimer,
         CheckReady, SyncDone, runVars, entryVars
    <2> QED
      BY <1>14, <1>5, <1>6, <2>1, <2>2, <2>3 DEF Loop
  <1>15. CASE Select \/ Drain
    BY <1>15, <1>7, <1>12
    DEF Select, Drain, SelectStop, SelectAckFatal, SelectTimer, SelectReady,
        SelectNotify, DrainEnd, LeaveLoop, WakeTo, runVars, entryVars
  <1>16. CASE Failures \/ AckWorker
    BY <1>16, <1>12
    DEF Failures, AckWorker, LoopFails, GenerateFails, SelectPubFatal,
        HandleAdmissionFails, HandleAdmission, SignalScheduler, LeaveLoop, Fail,
        loopVars, ctlVars, runVars, entryVars
  <1>17. CASE Network \/ Clock
    BY <1>17, <1>8, <1>9, <1>12
    DEF Network, Clock, ConnUp, ConnDown, BrokerAccepts, ServerCommits, Admit,
        GenTick, DeadlinePass, Elapse, loopVars, ctlVars, runVars, entryVars
  <1>18. CASE Process
    BY <1>18, <1>10, <1>11, <1>12
    DEF Process, RunScheduler, RequestStop, Administer, loopVars, ctlVars,
        runVars, entryVars
  <1> QED
    BY <1>13, <1>14, <1>15, <1>16, <1>17, <1>18 DEF Next

LEMMA TypeStep ==
    ASSUME TypeInv, [Next]_vars
    PROVE  TypeInv'
  <1>1. OutboxTypeOK /\ FlagsInv /\ DataInv
    BY TypeParts
  <1>2. OutboxTypeOK'
    BY <1>1, GatewayStepsOutbox, OutboxTypeStep
  <1>3. FlagsInv' /\ DataInv'
    BY <1>1, FlagsStep, DataStep
  <1>4. Cardinality(Results') <= maxInflight'
    BY ResultsStep
  <1> QED
    BY <1>2, <1>3, <1>4, OutboxAssumption
    DEF TypeInv, GatewayTypeOK, ProcessTypeOK, FlagsInv, DataInv

LEMMA TypeInit ==
    ASSUME Init
    PROVE  TypeInv
  <1>1. OutboxTypeOK
    <2>1. OutboxInit
      BY Zenon DEF Init
    <2> QED
      BY <2>1, OutboxAssumption DEF OutboxInit, OutboxTypeOK, RowStatus
  <1>2. FlagsInv
    BY DEF Init, FlagsInv
  <1>3. DataInv
    <2>1. /\ maxInflight = 0 /\ pc = "down" /\ holder \notin Identities
          /\ outcome \in Outcomes /\ todo = {} /\ cursor = 0 /\ page = 0
          /\ uniqueEnqueued = 0 /\ completionDeadline = "unset"
      BY OutboxAssumption DEF Init, OutboxInit, Outcomes
    <2>2. /\ entry \in [Batches -> EntryStates] /\ pub \in [Batches -> PubStates]
          /\ server \in [Batches -> {"unknown", "sent", "committed"}]
      BY DEF Init, EntryStates, PubStates
    <2>3. admissions = <<>> /\ worker = "idle" /\ losses = 0
      BY Zenon DEF Init
    <2>4. /\ admissions \in Seq(Batches) /\ Len(admissions) <= AdmissionCapacity
          /\ losses \in 0..MaxLosses /\ uniqueEnqueued \in Nat
      BY <2>1, <2>3, GatewayAssumption
    <2>5. pc \in Steps
      BY <2>1 DEF Steps
    <2> QED
      BY <2>1, <2>2, <2>3, <2>4, <2>5, Zenon DEF DataInv
  <1>4. Results = {} /\ maxInflight = 0
    BY DEF Init, Results
  <1> QED
    BY <1>1, <1>2, <1>3, <1>4, TypeParts, FS_EmptySet

LEMMA TypeAlways == Spec => []TypeInv
  BY TypeInit, TypeStep, PTL DEF Spec

(* The state of the gateway keeps its type, and neither of the two bounded  *)
(* channels, pubResults and the ACK admission queue, ever holds more than   *)
(* its capacity, for every configuration and every interleaving.            *)
THEOREM GatewayTypeCorrect == Spec => []GatewayTypeOK
  <1>1. TypeInv => GatewayTypeOK
    BY DEF TypeInv
  <1> QED
    BY <1>1, TypeAlways, PTL

(* admitPending never asks for a second page, for every number of slots,    *)
(* rows and pages: the page holds as many rows as there are slots.          *)
THEOREM OnePageAlwaysSuffices == Spec => []OnePageSuffices
  <1>1. TypeInv => OnePageSuffices
    BY DEF TypeInv, OnePageSuffices
  <1> QED
    BY <1>1, TypeAlways, PTL
=============================================================================

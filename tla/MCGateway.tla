----------------------------- MODULE MCGateway -----------------------------
(***************************************************************************)
(* Instances of Gateway for TLC.                                           *)
(***************************************************************************)
EXTENDS Gateway

MCSizes == {1, 2}
MCOneSize == {1}
MCIdentities == {"gateway_001"}
OneSlot == {1}
TwoSlots == {2}
OneOrTwoSlots == {1, 2}

(* A process that ran with two slots crashed and left two rows behind.  The *)
(* next one, with one slot, has to replay both.                             *)
BacklogInit ==
    /\ status = [m \in Batches |-> IF m <= 2 THEN "pending" ELSE "none"]
    /\ bootOf = [m \in Batches |-> IF m <= 2 THEN 1 ELSE 0]
    /\ firstOf = [m \in Batches |-> IF m = 2 THEN SampleCount ELSE 0]
    /\ sizeOf = [m \in Batches |-> IF m <= 2 THEN 1 ELSE 0]
    /\ nextSequence = [b \in BootIDs |-> IF b = 1 THEN 2 * SampleCount ELSE 0]
    /\ bound \in Identities
    /\ holder = "none"
    /\ boot = 1
    /\ maxInflight = 0
    /\ pc = "down" /\ outcome = "none" /\ stopRequested = FALSE
    /\ todo = {} /\ cursor = 0 /\ page = 0
    /\ genReady = FALSE /\ readyObserved = FALSE
    /\ timerArmed = FALSE /\ stateChClosed = FALSE
    /\ genDue = TRUE /\ genDone = FALSE /\ generationPaused = FALSE
    /\ uniqueEnqueued = 0 /\ completionDeadline = "unset"
    /\ entry = [m \in Batches |-> "absent"]
    /\ pub = [m \in Batches |-> "none"]
    /\ notify = FALSE /\ admissions = <<>> /\ worker = "idle"
    /\ ready = FALSE /\ losses = 0
    /\ server = [m \in Batches |-> "unknown"]

BacklogFairSpec ==
    BacklogInit /\ [][Next]_vars /\ LocalFairness /\ FairNetwork
=============================================================================

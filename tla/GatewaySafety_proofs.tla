------------------------ MODULE GatewaySafety_proofs ------------------------
(***************************************************************************)
(* The promises of the gateway, proved from its type invariant: nothing is *)
(* lost, what is released was delivered, publishes and slots are bounded,  *)
(* no deletion goes unnoticed by a scheduler that blocks, and generation   *)
(* does not stay paused without a reason.                                  *)
(***************************************************************************)
EXTENDS Gateway_proofs

-----------------------------------------------------------------------------
(* Kinds of steps. *)

(* Batches the process still has to do with.                                *)
Live == {m \in Batches : entry[m] # "absent" \/ pub[m] # "none"}

Quiet == UNCHANGED <<status, server, admissions>>

(* What a step does to the rows, to the server and to the ACK queue: seven  *)
(* kinds.  Only an admitted or a new row joins the live ones.               *)
Kinds ==
    \/ Quiet /\ Live' \subseteq Live \cup Pending
    \/ \E m \in Batches, size \in Sizes :
           /\ Enqueue(m, size) /\ Live' \subseteq Live \cup {m}
           /\ UNCHANGED <<server, admissions>>
    \/ (HandleAdmission \/ HandleAdmissionFails) /\ Live' = Live
    \/ \E m \in Batches : (BrokerAccepts(m) \/ ServerCommits(m)) /\ Live' = Live
    \/ \E m \in Batches : Admit(m) /\ Live' = Live
    \/ admissions' = <<>> /\ Live' = {} /\ UNCHANGED <<status, server>>
    \/ /\ \E m \in Batches : Quarantine(m)
       /\ Live' = Live /\ UNCHANGED <<server, admissions>>

LEMMA StepKinds ==
    ASSUME TypeInv, [Next]_vars
    PROVE  Kinds
  <1> USE DEF outboxVars, rowVars, ackVars, netVars
  <1>1. /\ ProcessTypeOK
        /\ entry \in [Batches -> EntryStates] /\ pub \in [Batches -> PubStates]
    BY DEF TypeInv, GatewayTypeOK, ProcessTypeOK
  <1>2. ASSUME NEW S \in SUBSET Batches, StartPublish(S)
        PROVE  Live' = Live \cup S
    BY <1>1, <1>2 DEF StartPublish, Live
  <1>3. ASSUME UNCHANGED entryVars
        PROVE  Live' = Live
    BY <1>3 DEF Live, entryVars
  <1>4. CASE Loop
    <2>1. CASE AdmitPending
      <3>1. PICK new \in SUBSET (Pending \ Inflight) : StartPublish(new)
        BY <2>1, AdmitOnePage
      <3>2. Live' \subseteq Live \cup Pending
        BY <3>1, <1>2 DEF Pending
      <3>3. Quiet
        BY <2>1 DEF AdmitPending, Quiet
      <3> QED
        BY <3>2, <3>3 DEF Kinds
    <2>2. ASSUME NEW m \in Batches, ProcessDueRetry(m)
          PROVE  Kinds
      <3>1. Live' \subseteq Live
        <4>1. CASE StartPublish({m}) /\ entry[m] = "backoffDue"
          BY <4>1, <1>2 DEF Live
        <4> QED
          BY <2>2, <4>1, <1>1 DEF ProcessDueRetry, Live
      <3>2. Quiet
        BY <2>2 DEF ProcessDueRetry, Quiet
      <3> QED
        BY <3>1, <3>2 DEF Kinds
    <2>3. ASSUME NEW m \in Batches, Generate(m)
          PROVE  Kinds
      <3>1. PICK size \in Sizes : Enqueue(m, size)
        BY <2>3 DEF Generate
      <3>2. Live' = Live \cup {m} /\ UNCHANGED <<server, admissions>>
        BY <2>3, <1>2 DEF Generate
      <3> QED
        BY <3>1, <3>2 DEF Kinds
    <2>4. ASSUME NEW m \in Batches, SyncInflight(m)
          PROVE  Kinds
      <3>1. Live' \subseteq Live
        BY <2>4, <1>1 DEF SyncInflight, Live
      <3>2. Quiet
        BY <2>4 DEF SyncInflight, Quiet
      <3> QED
        BY <3>1, <3>2 DEF Kinds
    <2>5. CASE Quiet /\ UNCHANGED entryVars
      BY <2>5, <1>3 DEF Kinds
    <2> QED
      BY <1>4, <2>1, <2>2, <2>3, <2>4, <2>5
      DEF Loop, LoopStop, LoopTop, GenerateFull, Completed, Expired,
          NotCompleted, ArmTimer, CheckReady, SyncDone, Quiet
  <1>5. CASE Select \/ Drain
    <2>1. ASSUME NEW m \in Batches, SelectResult(m) \/ DrainResult(m)
          PROVE  Kinds
      <3>1. Live' \subseteq Live
        BY <2>1, <1>1 DEF SelectResult, DrainResult, OnPublishResult, Live
      <3>2. Quiet
        BY <2>1 DEF SelectResult, DrainResult, Quiet
      <3> QED
        BY <3>1, <3>2 DEF Kinds
    <2>2. CASE Quiet /\ UNCHANGED entryVars
      BY <2>2, <1>3 DEF Kinds
    <2> QED
      BY <1>5, <2>1, <2>2
      DEF Select, Drain, SelectStop, SelectAckFatal, SelectTimer, SelectReady,
          SelectNotify, DrainEnd, Quiet
  <1>6. CASE Failures \/ AckWorker
    <2>1. CASE LoopFails \/ SelectPubFatal \/ SignalScheduler
      BY <2>1, <1>3 DEF Kinds, LoopFails, SelectPubFatal, SignalScheduler, Quiet
    <2>2. CASE GenerateFails
      <3>1. Live' = Live /\ UNCHANGED <<server, admissions>>
        BY <2>2, <1>3 DEF GenerateFails
      <3> QED
        BY <2>2, <3>1 DEF GenerateFails, Kinds, Quiet
    <2>3. CASE HandleAdmission \/ HandleAdmissionFails
      <3>1. Live' = Live
        BY <2>3, <1>3 DEF HandleAdmission, HandleAdmissionFails
      <3> QED
        BY <2>3, <3>1 DEF Kinds
    <2> QED
      BY <1>6, <2>1, <2>2, <2>3 DEF Failures, AckWorker
  <1>7. CASE Network
    <2>1. CASE ConnUp \/ ConnDown
      BY <2>1, <1>3 DEF ConnUp, ConnDown, Kinds, Quiet
    <2>2. ASSUME NEW m \in Batches, BrokerAccepts(m) \/ ServerCommits(m) \/ Admit(m)
          PROVE  Kinds
      BY <2>2, <1>3 DEF BrokerAccepts, ServerCommits, Admit, Kinds
    <2>3. ASSUME NEW m \in Batches,
                 \/ \E result \in {"ok", "failed"} : PublishReturns(m, result)
                 \/ PublishDropped(m)
          PROVE  Kinds
      <3>1. Live' \subseteq Live
        BY <2>3, <1>1 DEF PublishReturns, PublishDropped, Live
      <3> QED
        BY <2>3, <3>1 DEF PublishReturns, PublishDropped, Kinds, Quiet
    <2> QED
      BY <1>7, <2>1, <2>2, <2>3 DEF Network
  <1>8. CASE Clock
    <2>1. CASE GenTick \/ DeadlinePass
      BY <2>1, <1>3 DEF GenTick, DeadlinePass, Kinds, Quiet
    <2>2. ASSUME NEW m \in Batches, Elapse(m)
          PROVE  Kinds
      <3>1. Live' \subseteq Live
        BY <2>2, <1>1 DEF Elapse, Live
      <3> QED
        BY <2>2, <3>1 DEF Elapse, Kinds, Quiet
    <2> QED
      BY <1>8, <2>1, <2>2 DEF Clock
  <1>9. CASE Process
    <2>1. CASE EndProcess
      <3>1. Live' = {}
        BY <2>1 DEF EndProcess, Live
      <3> QED
        BY <2>1, <3>1 DEF EndProcess, CloseOutbox, Kinds
    <2>2. CASE RunScheduler \/ RequestStop
      BY <2>2, <1>3 DEF RunScheduler, RequestStop, Kinds, Quiet
    <2>3. CASE \E id \in Identities : StartProcess(id)
      BY <2>3, <1>3 DEF StartProcess, OpenOutbox, Kinds, Quiet
    <2>4. CASE Administer
      <3>1. Live' = Live /\ UNCHANGED <<server, admissions>>
        BY <2>4, <1>3 DEF Administer
      <3> QED
        BY <2>4, <3>1 DEF Administer, OpenOutboxAdmin, CloseOutbox, Kinds, Quiet
    <2> QED
      BY <1>9, <2>1, <2>2, <2>3, <2>4 DEF Process
  <1>10. CASE UNCHANGED vars
    BY <1>10, <1>3 DEF vars, Kinds, Quiet
  <1> QED
    BY <1>4, <1>5, <1>6, <1>7, <1>8, <1>9, <1>10 DEF Next
-----------------------------------------------------------------------------
(* Nothing is lost. *)

(* The process, the broker and the server know only batches that were       *)
(* enqueued, and an ACK in the queue is that of a committed batch.          *)
SafeInv ==
    /\ TypeInv
    /\ Live \subseteq Enqueued
    /\ \A m \in Batches : server[m] # "unknown" => m \in Enqueued
    /\ \A i \in 1..Len(admissions) : admissions[i] \in Committed
    /\ NoLoss

(* The ACK the worker takes is one of a committed batch, and so are those   *)
(* it leaves.                                                               *)
LEMMA AckTaken ==
    ASSUME SafeInv, admissions # <<>>, admissions' = Tail(admissions)
    PROVE  /\ AckedRow \in Committed
           /\ \A i \in 1..Len(admissions') : admissions'[i] \in Committed
  <1>1. admissions \in Seq(Batches)
    BY DEF SafeInv, TypeInv, GatewayTypeOK, ProcessTypeOK
  <1>2. /\ Len(admissions) \in Nat /\ Len(admissions) > 0
        /\ Head(admissions) = admissions[1]
        /\ Len(admissions') = Len(admissions) - 1
        /\ \A i \in 1..Len(admissions') : admissions'[i] = admissions[i + 1]
    BY <1>1, HeadTailProperties, EmptySeq
  <1>3. \A i \in 1..Len(admissions) : admissions[i] \in Committed
    BY DEF SafeInv
  <1> QED
    BY <1>2, <1>3 DEF AckedRow

LEMMA SafeStep ==
    ASSUME SafeInv, [Next]_vars
    PROVE  SafeInv'
  <1>1. TypeInv /\ TypeInv'
    BY TypeStep DEF SafeInv
  <1>2. /\ status \in [Batches -> RowStatus]
        /\ server \in [Batches -> {"unknown", "sent", "committed"}]
        /\ admissions \in Seq(Batches)
    BY <1>1 DEF TypeInv, GatewayTypeOK, OutboxTypeOK, ProcessTypeOK
  <1> DEFINE Rest == /\ Live \subseteq Enqueued
                     /\ \A m \in Batches : server[m] # "unknown" => m \in Enqueued
                     /\ \A i \in 1..Len(admissions) : admissions[i] \in Committed
                     /\ NoLoss
  <1> SUFFICES Rest'
    BY <1>1 DEF SafeInv
  <1>3. Rest
    BY DEF SafeInv
  <1>4. CASE Quiet /\ Live' \subseteq Live \cup Pending
    BY <1>3, <1>4 DEF Quiet, Enqueued, Pending, Committed, NoLoss
  <1>5. ASSUME NEW m \in Batches, NEW size \in Sizes, Enqueue(m, size),
               Live' \subseteq Live \cup {m}, UNCHANGED <<server, admissions>>
        PROVE  Rest'
    <2>1. Enqueued' = Enqueued \cup {m} /\ \A n \in Batches :
              status'[n] = "deleted" => status[n] = "deleted"
      BY <1>2, <1>5 DEF Enqueue, Enqueued
    <2> QED
      BY <1>3, <1>5, <2>1 DEF Committed, NoLoss
  <1>6. CASE (HandleAdmission \/ HandleAdmissionFails) /\ Live' = Live
    <2>1. /\ admissions # <<>> /\ admissions' = Tail(admissions)
          /\ server' = server
          /\ DeletePending(AckedRow) \/ UNCHANGED outboxVars
      BY <1>6 DEF HandleAdmission, HandleAdmissionFails, netVars
    <2>2. /\ AckedRow \in Committed
          /\ \A i \in 1..Len(admissions') : admissions'[i] \in Committed
      BY <2>1, AckTaken
    <2>3. Enqueued' = Enqueued /\ \A n \in Batches :
              status'[n] = "deleted" => status[n] = "deleted" \/ n = AckedRow
      BY <1>2, <2>1 DEF DeletePending, Deletable, Enqueued, outboxVars, rowVars
    <2>4. Committed' = Committed
      BY <2>1 DEF Committed
    <2>5. NoLoss'
      BY <1>3, <2>1, <2>2, <2>3 DEF NoLoss, Committed
    <2> QED
      BY <1>3, <1>6, <2>1, <2>2, <2>3, <2>4, <2>5
  <1>7. ASSUME NEW m \in Batches, BrokerAccepts(m) \/ ServerCommits(m), Live' = Live
        PROVE  Rest'
    <2>1. UNCHANGED <<status, admissions>>
      BY <1>7 DEF BrokerAccepts, ServerCommits, outboxVars, rowVars, ackVars
    <2>2. /\ Committed \subseteq Committed'
          /\ \A n \in Batches : server[n] = "committed" => server'[n] = "committed"
          /\ \A n \in Batches : server'[n] # "unknown" =>
                 server[n] # "unknown" \/ n \in Live
      BY <1>2, <1>7 DEF BrokerAccepts, ServerCommits, Committed, Live
    <2> QED
      BY <1>3, <1>7, <2>1, <2>2 DEF Enqueued, NoLoss
  <1>8. ASSUME NEW m \in Batches, Admit(m), Live' = Live
        PROVE  Rest'
    <2>1. UNCHANGED <<status, server>> /\ m \in Committed
              /\ admissions' = Append(admissions, m)
      BY <1>8 DEF Admit, outboxVars, rowVars, netVars
    <2>2. \A i \in 1..Len(admissions') : admissions'[i] \in Committed
      BY <1>2, <1>3, <2>1
    <2> QED
      BY <1>3, <1>8, <2>1, <2>2 DEF Enqueued, Committed, NoLoss
  <1>9. CASE admissions' = <<>> /\ Live' = {} /\ UNCHANGED <<status, server>>
    BY <1>3, <1>9 DEF Enqueued, Committed, NoLoss
  <1>10. ASSUME NEW m \in Batches, Quarantine(m), Live' = Live,
                UNCHANGED <<server, admissions>>
         PROVE  Rest'
    <2>1. Enqueued' = Enqueued /\ \A n \in Batches :
              status'[n] = "deleted" => status[n] = "deleted"
      BY <1>2, <1>10 DEF Quarantine, Enqueued
    <2> QED
      BY <1>3, <1>10, <2>1 DEF Committed, NoLoss
  <1> QED
    BY <1>1, <1>4, <1>5, <1>6, <1>7, <1>8, <1>9, <1>10, StepKinds DEF Kinds

LEMMA SafeAlways == Spec => []SafeInv
  <1>1. Init => SafeInv
    <2> SUFFICES ASSUME Init PROVE SafeInv
      OBVIOUS
    <2>1. TypeInv
      BY TypeInit
    <2>2. Live = {} /\ admissions = <<>>
      BY DEF Init, Live
    <2>3. /\ \A m \in Batches : server[m] = "unknown" /\ status[m] = "none"
      BY DEF Init, OutboxInit
    <2> QED
      BY <2>1, <2>2, <2>3 DEF SafeInv, NoLoss
  <1> QED
    BY <1>1, SafeStep, PTL DEF Spec

(* A row leaves the outbox only when the server has committed its batch,    *)
(* for any number of batches, crashes, retries, late and repeated ACKs.     *)
THEOREM NothingIsLost == Spec => []NoLoss
  <1>1. SafeInv => NoLoss
    BY DEF SafeInv
  <1> QED
    BY <1>1, SafeAlways, PTL

(* The gateway implements Delivery: an enqueue accepts, a commit at the     *)
(* server delivers, the deletion of a row releases, and every other step of *)
(* the process, the network or the operator changes nothing a client of the *)
(* outbox could see.                                                        *)
THEOREM GatewayImplementsDelivery == Spec => ImplementsDelivery
  <1>1. Init => Abstract!DeliveryInit
    BY DEF Init, OutboxInit, Abstract!DeliveryInit, Enqueued, Retained, Committed
  <1>2. SafeInv /\ [Next]_vars
            => [Abstract!DeliveryNext]_<<Enqueued, Retained, Committed>>
    <2> SUFFICES ASSUME SafeInv, [Next]_vars
                 PROVE  \/ Abstract!DeliveryNext
                        \/ UNCHANGED <<Enqueued, Retained, Committed>>
      OBVIOUS
    <2>1. /\ status \in [Batches -> RowStatus]
          /\ server \in [Batches -> {"unknown", "sent", "committed"}]
          /\ TypeInv
      BY DEF SafeInv, TypeInv, GatewayTypeOK, OutboxTypeOK, ProcessTypeOK
    <2>2. ASSUME UNCHANGED <<status, server>>
          PROVE  UNCHANGED <<Enqueued, Retained, Committed>>
      BY <2>2 DEF Enqueued, Retained, Committed
    <2>3. ASSUME NEW m \in Batches, NEW size \in Sizes, Enqueue(m, size),
                 server' = server
          PROVE  Abstract!DeliveryNext
      <3>1. /\ m \notin Enqueued /\ Enqueued' = Enqueued \cup {m}
            /\ Retained' = Retained \cup {m} /\ Committed' = Committed
        BY <2>1, <2>3 DEF Enqueue, Enqueued, Retained, Committed
      <3> QED
        BY <3>1 DEF Abstract!DeliveryNext, Abstract!Accept
    <2>4. CASE HandleAdmission \/ HandleAdmissionFails
      <3>1. /\ admissions # <<>> /\ admissions' = Tail(admissions)
            /\ server' = server
            /\ DeletePending(AckedRow) \/ UNCHANGED outboxVars
        BY <2>4 DEF HandleAdmission, HandleAdmissionFails, netVars
      <3>2. AckedRow \in Committed /\ Committed' = Committed
        BY <3>1, AckTaken DEF Committed
      <3>3. CASE status' = status
        BY <3>1, <3>3, <2>2
      <3>4. CASE Deletable(AckedRow) /\ DeletePending(AckedRow)
        <4>1. /\ AckedRow \in Retained /\ Retained' = Retained \ {AckedRow}
              /\ Enqueued' = Enqueued /\ AckedRow \in Batches
          BY <2>1, <3>2, <3>4
          DEF Deletable, DeletePending, Retained, Enqueued, Committed
        <4> QED
          BY <3>2, <4>1 DEF Abstract!DeliveryNext, Abstract!Release
      <3> QED
        BY <3>1, <3>3, <3>4 DEF DeletePending, outboxVars, rowVars
    <2>5. ASSUME NEW m \in Batches, BrokerAccepts(m) \/ ServerCommits(m)
          PROVE  \/ Abstract!DeliveryNext
                 \/ UNCHANGED <<Enqueued, Retained, Committed>>
      <3>1. UNCHANGED <<Enqueued, Retained>>
        BY <2>5 DEF BrokerAccepts, ServerCommits, outboxVars, rowVars, Enqueued,
           Retained
      <3>2. CASE BrokerAccepts(m)
        <4>1. Committed' = Committed
          BY <2>1, <3>2 DEF BrokerAccepts, Committed
        <4> QED
          BY <3>1, <4>1
      <3>3. CASE ServerCommits(m)
        <4>1. m \in Enqueued /\ Committed' = Committed \cup {m}
          BY <2>1, <3>3 DEF ServerCommits, Committed, SafeInv
        <4> QED
          BY <3>1, <4>1 DEF Abstract!DeliveryNext, Abstract!Deliver
      <3> QED
        BY <2>5, <3>2, <3>3
    <2>6. ASSUME NEW m \in Batches, Admit(m)
          PROVE  UNCHANGED <<status, server>>
      BY <2>6 DEF Admit, outboxVars, rowVars, netVars
    <2>7. ASSUME NEW m \in Batches, Quarantine(m), server' = server
          PROVE  UNCHANGED <<Enqueued, Retained, Committed>>
      BY <2>1, <2>7 DEF Quarantine, Enqueued, Retained, Committed
    <2> QED
      BY <2>1, <2>2, <2>3, <2>4, <2>5, <2>6, <2>7, StepKinds DEF Kinds, Quiet
  <1> QED
    BY <1>1, <1>2, SafeAlways, PTL
    DEF Spec, ImplementsDelivery, Abstract!DeliverySpec, Abstract!deliveryVars

(* Every behaviour of the gateway is one of the outbox, so what is proved   *)
(* of the outbox alone holds of it under the gateway's use: the sequence    *)
(* ranges of one boot stream never overlap, the quotas hold, a process     *)
(* works only on its own file and an isolated row stays isolated.           *)
THEOREM GatewayKeepsOutbox ==
    Spec => /\ [](CounterPastRows /\ RangesDisjoint)
            /\ []QuotaHeld
            /\ []HolderIsBound
            /\ QuarantineIsFinal
  <1>1. Init => OutboxInit
    BY DEF Init
  <1>2. TypeInv /\ [Next]_vars => [OutboxNext]_outboxVars
    BY GatewayStepsOutbox
  <1>3. Spec => OutboxSpec
    BY <1>1, <1>2, TypeAlways, PTL DEF Spec, OutboxSpec
  <1> QED
    BY <1>3, SequencesNeverOverlap, QuotaRespected, BindingRespected, QuarantineKept,
       PTL
-----------------------------------------------------------------------------
(* Publish invocations. *)

LEMMA PublishStep ==
    ASSUME SafeInv, SinglePublish, [Next]_vars
    PROVE  SinglePublish'
  <1> USE DEF entryVars, outboxVars, rowVars, loopVars, ctlVars, runVars
  <1>1. /\ ProcessTypeOK /\ TypeInv
        /\ entry \in [Batches -> EntryStates] /\ pub \in [Batches -> PubStates]
        /\ status \in [Batches -> RowStatus]
        /\ \A m \in Batches : pub[m] # "none" => status[m] # "none"
    BY DEF SafeInv, TypeInv, GatewayTypeOK, ProcessTypeOK, OutboxTypeOK, Live,
       Enqueued
  <1>2. ASSUME UNCHANGED entryVars, Pending' \subseteq Pending,
               stopRequested' = stopRequested \/ stopRequested' = TRUE
        PROVE  SinglePublish'
    BY <1>2 DEF SinglePublish, Inflight
  <1>3. ASSUME NEW S \in SUBSET Batches, StartPublish(S),
               Pending' \subseteq Pending \cup S, stopRequested' = stopRequested
        PROVE  SinglePublish'
    BY <1>1, <1>3 DEF StartPublish, SinglePublish, Inflight
  <1>4. CASE Loop
    <2>1. CASE AdmitPending
      <3>1. PICK new \in SUBSET (Pending \ Inflight) : StartPublish(new)
        BY <2>1, <1>1, AdmitOnePage
      <3> QED
        BY <2>1, <3>1, <1>3 DEF AdmitPending, Pending
    <2>2. ASSUME NEW m \in Batches, ProcessDueRetry(m)
          PROVE  SinglePublish'
      <3>1. UNCHANGED <<Pending, stopRequested>>
        BY <2>2 DEF ProcessDueRetry, Pending
      <3>2. CASE StartPublish({m})
        BY <3>1, <3>2, <1>3
      <3>3. CASE /\ entry[m] = "awaitAckDue"
                 /\ entry' = [entry EXCEPT ![m] = AfterAckTimeout(m)]
                 /\ UNCHANGED pub
        BY <3>1, <3>3, <1>1 DEF SinglePublish, AfterAckTimeout, Inflight
      <3> QED
        BY <2>2, <3>2, <3>3 DEF ProcessDueRetry
    <2>3. ASSUME NEW m \in Batches, Generate(m)
          PROVE  SinglePublish'
      <3>1. Pending' \subseteq Pending \cup {m}
        BY <2>3, <1>1 DEF Generate, Enqueue, Pending
      <3> QED
        BY <2>3, <3>1, <1>3 DEF Generate
    <2>4. ASSUME NEW m \in Batches, SyncInflight(m)
          PROVE  SinglePublish'
      <3>1. UNCHANGED <<Pending, stopRequested, pub>>
        BY <2>4 DEF SyncInflight, Pending
      <3> QED
        BY <2>4, <3>1, <1>1
        DEF SyncInflight, RowStillPending, SinglePublish, Inflight, Pending
    <2>5. CASE LoopStop \/ Completed \/ Expired
      BY <2>5, <1>2 DEF LoopStop, Completed, Expired, Fail, LeaveLoop, Pending
    <2>6. CASE LoopTop \/ GenerateFull \/ NotCompleted \/ ArmTimer \/ CheckReady
               \/ SyncDone
      BY <2>6, <1>2 DEF LoopTop, GenerateFull, NotCompleted, ArmTimer,
         CheckReady, SyncDone, Pending
    <2> QED
      BY <1>4, <2>1, <2>2, <2>3, <2>4, <2>5, <2>6 DEF Loop
  <1>5. CASE Select \/ Drain
    <2>1. ASSUME NEW m \in Batches, SelectResult(m) \/ DrainResult(m)
          PROVE  SinglePublish'
      <3>1. UNCHANGED <<Pending, stopRequested>> /\ OnPublishResult(m)
        BY <2>1 DEF SelectResult, DrainResult, WakeTo, Pending
      <3> QED
        BY <3>1, <1>1 DEF OnPublishResult, Results, SinglePublish, Inflight
    <2>2. CASE SelectStop \/ SelectAckFatal
      BY <2>2, <1>2 DEF SelectStop, SelectAckFatal, LeaveLoop, Pending
    <2>3. CASE SelectTimer \/ SelectReady \/ SelectNotify \/ DrainEnd
      BY <2>3, <1>2 DEF SelectTimer, SelectReady, SelectNotify, DrainEnd,
         WakeTo, Pending
    <2> QED
      BY <1>5, <2>1, <2>2, <2>3 DEF Select, Drain
  <1>6. CASE Failures \/ AckWorker
    <2>1. CASE LoopFails \/ SelectPubFatal \/ SignalScheduler
      BY <2>1, <1>2
      DEF LoopFails, SelectPubFatal, SignalScheduler, Fail, LeaveLoop, Pending
    <2>2. CASE GenerateFails
      <3>1. UNCHANGED entryVars /\ stopRequested' = stopRequested
        BY <2>2 DEF GenerateFails, Fail, LeaveLoop
      <3>2. CASE UNCHANGED outboxVars
        BY <3>1, <3>2, <1>2 DEF Pending
      <3>3. ASSUME NEW m \in Batches, NEW size \in Sizes, Enqueue(m, size)
            PROVE  SinglePublish'
        <4>1. Pending' \subseteq Pending \cup {m} /\ pub[m] = "none"
          BY <3>3, <1>1 DEF Enqueue, Pending
        <4> QED
          BY <3>1, <4>1 DEF SinglePublish, Inflight
      <3> QED
        BY <2>2, <3>2, <3>3 DEF GenerateFails
    <2>3. CASE HandleAdmission \/ HandleAdmissionFails
      <3>1. UNCHANGED entryVars /\ stopRequested' = stopRequested
        BY <2>3 DEF HandleAdmission, HandleAdmissionFails
      <3>2. Pending' \subseteq Pending
        BY <2>3, <1>1 DEF HandleAdmission, HandleAdmissionFails, DeletePending,
           Deletable, Pending
      <3> QED
        BY <3>1, <3>2, <1>2
    <2> QED
      BY <1>6, <2>1, <2>2, <2>3 DEF Failures, AckWorker
  <1>7. CASE Network
    <2>1. ASSUME NEW m \in Batches,
                 \/ \E result \in {"ok", "failed"} : PublishReturns(m, result)
                 \/ PublishDropped(m)
          PROVE  SinglePublish'
      <3>1. UNCHANGED <<entry, Pending, stopRequested>>
        BY <2>1 DEF PublishReturns, PublishDropped, Pending
      <3> QED
        BY <2>1, <3>1, <1>1
        DEF PublishReturns, PublishDropped, SinglePublish, Inflight
    <2>2. CASE UNCHANGED <<entryVars, Pending, stopRequested>>
      BY <2>2, <1>2
    <2> QED
      BY <1>7, <2>1, <2>2 DEF Network, ConnUp, ConnDown, BrokerAccepts,
         ServerCommits, Admit, Pending
  <1>8. CASE Clock
    <2>1. ASSUME NEW m \in Batches, Elapse(m)
          PROVE  SinglePublish'
      <3>1. UNCHANGED <<pub, Pending, stopRequested>>
        BY <2>1 DEF Elapse, Pending
      <3> QED
        BY <2>1, <3>1, <1>1 DEF Elapse, SinglePublish, Inflight
    <2>2. CASE GenTick \/ DeadlinePass
      BY <2>2, <1>2 DEF GenTick, DeadlinePass, Pending
    <2> QED
      BY <1>8, <2>1, <2>2 DEF Clock
  <1>9. CASE Process
    <2>1. CASE EndProcess
      BY <2>1 DEF EndProcess, SinglePublish, Inflight
    <2>2. CASE RunScheduler \/ RequestStop
      BY <2>2, <1>2 DEF RunScheduler, RequestStop, Pending
    <2>3. CASE \E id \in Identities : StartProcess(id)
      BY <2>3, <1>2 DEF StartProcess, OpenOutbox, Pending
    <2>4. CASE Administer
      <3>1. Pending' \subseteq Pending
        BY <2>4, <1>1 DEF Administer, OpenOutboxAdmin, CloseOutbox, Quarantine,
           Pending
      <3> QED
        BY <2>4, <3>1, <1>2 DEF Administer
    <2> QED
      BY <1>9, <2>1, <2>2, <2>3, <2>4 DEF Process
  <1>10. CASE UNCHANGED vars
    BY <1>10, <1>2 DEF vars, Pending
  <1> QED
    BY <1>4, <1>5, <1>6, <1>7, <1>8, <1>9, <1>10 DEF Next

(* No row is ever published by two invocations at once, whatever order of   *)
(* deletes, results, retries and admissions.                                *)
THEOREM PublishedOnce == Spec => []SinglePublish
  <1>1. Init => SinglePublish
    BY DEF Init, SinglePublish, Inflight
  <1> QED
    BY <1>1, SafeAlways, PublishStep, PTL DEF Spec
-----------------------------------------------------------------------------
(* Slots and backlog. *)

(* The scheduler reaches generate only with every pending row in flight and *)
(* a slot to spare, and a process that has not run its loop has no entry.   *)
BoundInv ==
    /\ Cardinality(Inflight) <= maxInflight
    /\ \E limit \in InflightLimits : Cardinality(Pending) <= limit
    /\ pc = "generate" => /\ Pending \subseteq Inflight
                          /\ Cardinality(Inflight) < maxInflight
    /\ pc \in {"down", "waitReady"} => Inflight = {}

(* A step that neither admits nor generates nor starts or ends a process.   *)
Shrinks ==
    /\ maxInflight' = maxInflight
    /\ Inflight' \subseteq Inflight /\ Pending' \subseteq Pending
    /\ Enqueued' = Enqueued
    /\ pc' = "generate" => pc = "generate" /\ Inflight' = Inflight
    /\ pc' \in {"down", "waitReady"} => pc' = pc

Moves ==
    \/ Shrinks
    \/ AdmitPending
    \/ \E m \in Batches : Generate(m)
    \/ /\ pc = "generate" /\ pc' = "drain"
       /\ \E m \in Batches, size \in Sizes : Enqueue(m, size)
       /\ UNCHANGED <<entry, maxInflight>>
    \/ EndProcess
    \/ \E id \in Identities : StartProcess(id)

LEMMA StepMoves ==
    ASSUME TypeInv, [Next]_vars
    PROVE  Moves
  <1> USE DEF entryVars, outboxVars, rowVars, loopVars, ctlVars, runVars
  <1>1. /\ entry \in [Batches -> EntryStates] /\ status \in [Batches -> RowStatus]
        /\ pc \in Steps
    BY DEF TypeInv, GatewayTypeOK, ProcessTypeOK, OutboxTypeOK
  <1>2. ASSUME UNCHANGED <<entry, status, maxInflight>>, pc' # "generate",
               pc' \notin {"down", "waitReady"}
        PROVE  Moves
    BY <1>2 DEF Moves, Shrinks, Inflight, Pending, Enqueued
  <1>3. ASSUME UNCHANGED <<entry, status, maxInflight, pc>>
        PROVE  Moves
    BY <1>3 DEF Moves, Shrinks, Inflight, Pending, Enqueued
  <1>4. CASE Loop
    <2>1. ASSUME NEW m \in Batches, ProcessDueRetry(m) \/ SyncInflight(m)
          PROVE  Moves
      <3>1. UNCHANGED <<status, maxInflight, pc>> /\ pc # "generate"
        BY <2>1 DEF ProcessDueRetry, SyncInflight
      <3>2. Inflight' \subseteq Inflight
        BY <2>1, <1>1 DEF ProcessDueRetry, StartPublish, SyncInflight, Inflight
      <3> QED
        BY <3>1, <3>2 DEF Moves, Shrinks, Pending, Enqueued
    <2>2. CASE LoopStop \/ Completed \/ Expired
      BY <2>2, <1>2 DEF LoopStop, Completed, Expired, Fail, LeaveLoop
    <2>3. CASE LoopTop \/ GenerateFull \/ NotCompleted \/ ArmTimer \/ CheckReady
               \/ SyncDone
      BY <2>3, <1>2 DEF LoopTop, GenerateFull, NotCompleted, ArmTimer,
         CheckReady, SyncDone
    <2> QED
      BY <1>4, <2>1, <2>2, <2>3 DEF Loop, Moves
  <1>5. CASE Select \/ Drain
    <2>1. ASSUME NEW m \in Batches, SelectResult(m) \/ DrainResult(m)
          PROVE  Moves
      <3>1. /\ UNCHANGED <<status, maxInflight>> /\ OnPublishResult(m)
            /\ pc' \in {"top", "drain"}
        BY <2>1 DEF SelectResult, DrainResult, WakeTo
      <3>2. Inflight' \subseteq Inflight
        BY <3>1, <1>1 DEF OnPublishResult, Inflight
      <3> QED
        BY <3>1, <3>2 DEF Moves, Shrinks, Pending, Enqueued
    <2>2. CASE SelectStop \/ SelectAckFatal
      BY <2>2, <1>2 DEF SelectStop, SelectAckFatal, LeaveLoop
    <2>3. CASE SelectTimer \/ SelectReady \/ SelectNotify \/ DrainEnd
      BY <2>3, <1>2 DEF SelectTimer, SelectReady, SelectNotify, DrainEnd, WakeTo
    <2> QED
      BY <1>5, <2>1, <2>2, <2>3 DEF Select, Drain
  <1>6. CASE Failures \/ AckWorker
    <2>1. CASE LoopFails \/ SelectPubFatal
      BY <2>1, <1>2 DEF LoopFails, SelectPubFatal, Fail, LeaveLoop
    <2>2. CASE GenerateFails
      <3>1. UNCHANGED <<entry, maxInflight>> /\ pc = "generate" /\ pc' = "drain"
        BY <2>2 DEF GenerateFails, Fail, LeaveLoop
      <3> QED
        BY <2>2, <3>1, <1>2 DEF GenerateFails, Moves
    <2>3. CASE HandleAdmission \/ HandleAdmissionFails
      <3>1. UNCHANGED <<entry, maxInflight, pc>>
        BY <2>3 DEF HandleAdmission, HandleAdmissionFails
      <3>2. Pending' \subseteq Pending /\ Enqueued' = Enqueued
        BY <2>3, <1>1 DEF HandleAdmission, HandleAdmissionFails, DeletePending,
           Deletable, Pending, Enqueued
      <3> QED
        BY <3>1, <3>2 DEF Moves, Shrinks, Inflight
    <2>4. CASE SignalScheduler
      BY <2>4, <1>3 DEF SignalScheduler
    <2> QED
      BY <1>6, <2>1, <2>2, <2>3, <2>4 DEF Failures, AckWorker
  <1>7. CASE Network
    BY <1>7, <1>3 DEF Network, ConnUp, ConnDown, BrokerAccepts, ServerCommits,
       Admit, PublishReturns, PublishDropped
  <1>8. CASE Clock
    <2>1. ASSUME NEW m \in Batches, Elapse(m)
          PROVE  Moves
      <3>1. UNCHANGED <<status, maxInflight, pc>>
        BY <2>1 DEF Elapse
      <3>2. Inflight' = Inflight
        BY <2>1, <1>1 DEF Elapse, Inflight
      <3> QED
        BY <3>1, <3>2 DEF Moves, Shrinks, Pending, Enqueued
    <2>2. CASE GenTick \/ DeadlinePass
      BY <2>2, <1>3 DEF GenTick, DeadlinePass
    <2> QED
      BY <1>8, <2>1, <2>2 DEF Clock
  <1>9. CASE Process
    <2>1. CASE RunScheduler
      BY <2>1, <1>2 DEF RunScheduler
    <2>2. CASE RequestStop
      BY <2>2, <1>3 DEF RequestStop
    <2>3. CASE Administer
      <3>1. UNCHANGED <<entry, maxInflight, pc>> /\ pc = "down"
        BY <2>3 DEF Administer
      <3>2. Pending' \subseteq Pending /\ Enqueued' = Enqueued
        BY <2>3, <1>1 DEF Administer, OpenOutboxAdmin, CloseOutbox, Quarantine,
           Pending, Enqueued
      <3> QED
        BY <3>1, <3>2 DEF Moves, Shrinks, Inflight
    <2> QED
      BY <1>9, <2>1, <2>2, <2>3 DEF Process, Moves
  <1>10. CASE UNCHANGED vars
    BY <1>10, <1>3 DEF vars
  <1> QED
    BY <1>4, <1>5, <1>6, <1>7, <1>8, <1>9, <1>10 DEF Next

LEMMA SetCounts ==
    ASSUME NEW S \in SUBSET Batches, NEW T \in SUBSET Batches, T \subseteq S
    PROVE  /\ Cardinality(S) \in Nat /\ Cardinality(T) \in Nat
           /\ Cardinality(T) <= Cardinality(S)
  BY BatchSetFinite, FS_Subset

LEMMA JoinCounts ==
    ASSUME NEW S \in SUBSET Batches, NEW T \in SUBSET Batches
    PROVE  /\ Cardinality(S) \in Nat /\ Cardinality(T) \in Nat
           /\ Cardinality(S \cup T) \in Nat
           /\ Cardinality(S \cup T) <= Cardinality(S) + Cardinality(T)
  <1>1. IsFiniteSet(S) /\ IsFiniteSet(T) /\ S \cap T \in SUBSET Batches
    BY BatchSetFinite
  <1>2. Cardinality(S \cup T)
            = Cardinality(S) + Cardinality(T) - Cardinality(S \cap T)
    BY <1>1, FS_Union
  <1>3. /\ Cardinality(S) \in Nat /\ Cardinality(T) \in Nat
        /\ Cardinality(S \cap T) \in Nat
    BY <1>1, BatchSetFinite
  <1>4. Cardinality(S \cup T) \in Nat
    BY BatchSetFinite
  <1> QED
    BY <1>2, <1>3, <1>4

(* The in-flight bound of a process that runs is one it was configured with. *)
LEMMA InflightBound ==
    ASSUME TypeInv
    PROVE  /\ maxInflight \in Nat /\ entry \in [Batches -> EntryStates]
           /\ status \in [Batches -> RowStatus] /\ ProcessTypeOK
           /\ pc # "down" => maxInflight \in InflightLimits
           /\ \A limit \in InflightLimits : limit \in Nat
  <1>1. OutboxTypeOK /\ ProcessTypeOK /\ DataInv
    BY TypeParts, Zenon DEF TypeInv, GatewayTypeOK
  <1>2. status \in [Batches -> RowStatus]
    BY <1>1, Zenon DEF OutboxTypeOK
  <1>3. /\ entry \in [Batches -> EntryStates]
        /\ maxInflight \in InflightLimits \cup {0}
        /\ pc = "down" <=> maxInflight = 0
    BY <1>1, Zenon DEF DataInv
  <1>4. \A limit \in InflightLimits : limit \in Nat
    BY GatewayAssumption, OutboxAssumption
  <1> QED
    BY <1>1, <1>2, <1>3, <1>4

(* A new row, into a free slot, with no older row waiting: the backlog      *)
(* stays within the in-flight bound of this process.                        *)
LEMMA NewRow ==
    ASSUME TypeInv, BoundInv, pc = "generate",
           NEW m \in Batches, NEW size \in Sizes, Enqueue(m, size)
    PROVE  /\ Pending' = Pending \cup {m}
           /\ \E limit \in InflightLimits : Cardinality(Pending') <= limit
           /\ Cardinality(Inflight \cup {m}) <= maxInflight
           /\ Pending \subseteq Inflight
  <1>1. /\ status \in [Batches -> RowStatus]
        /\ maxInflight \in InflightLimits /\ maxInflight \in Nat
    BY InflightBound
  <1>2. Pending' = Pending \cup {m}
    BY <1>1 DEF Enqueue, Pending
  <1>3. Pending \subseteq Inflight /\ Cardinality(Inflight) < maxInflight
    BY DEF BoundInv
  <1>4. /\ Pending \in SUBSET Batches /\ Inflight \in SUBSET Batches
        /\ {m} \in SUBSET Batches
    BY DEF Pending, Inflight
  <1>5. Cardinality({m}) = 1
    BY FS_Singleton
  <1>6. /\ Cardinality(Inflight \cup {m}) <= Cardinality(Inflight) + 1
        /\ Cardinality(Inflight \cup {m}) \in Nat /\ Cardinality(Inflight) \in Nat
    BY <1>4, <1>5, JoinCounts
  <1>7. /\ Cardinality(Pending \cup {m}) <= Cardinality(Inflight \cup {m})
        /\ Cardinality(Pending \cup {m}) \in Nat
    BY <1>3, <1>4, SetCounts
  <1>8. Cardinality(Pending') <= maxInflight
    BY <1>1, <1>2, <1>3, <1>6, <1>7
  <1> QED
    BY <1>1, <1>2, <1>3, <1>6, <1>8

LEMMA BoundStep ==
    ASSUME TypeInv, BoundInv, [Next]_vars
    PROVE  BoundInv'
  <1>1. /\ maxInflight \in Nat /\ entry \in [Batches -> EntryStates]
        /\ ProcessTypeOK
        /\ \A limit \in InflightLimits : limit \in Nat
    BY InflightBound, Zenon
  <1>2. Pending \in SUBSET Batches /\ Inflight \in SUBSET Batches
    BY DEF Pending, Inflight
  <1>3. ASSUME Pending' \subseteq Pending
        PROVE  \E limit \in InflightLimits : Cardinality(Pending') <= limit
    <2>1. PICK limit \in InflightLimits : Cardinality(Pending) <= limit
      BY DEF BoundInv
    <2>2. /\ Cardinality(Pending) \in Nat /\ Cardinality(Pending') \in Nat
          /\ Cardinality(Pending') <= Cardinality(Pending)
      BY <1>2, <1>3, SetCounts
    <2> QED
      BY <2>1, <2>2, <1>1
  <1>4. CASE Shrinks
    <2>1. /\ Cardinality(Inflight) \in Nat /\ Cardinality(Inflight') \in Nat
          /\ Cardinality(Inflight') <= Cardinality(Inflight)
      BY <1>2, <1>4, SetCounts DEF Shrinks
    <2>2. Cardinality(Inflight') <= maxInflight'
      BY <2>1, <1>1, <1>4 DEF Shrinks, BoundInv
    <2>3. pc' = "generate" => /\ Pending' \subseteq Inflight'
                              /\ Cardinality(Inflight') < maxInflight'
      BY <1>4 DEF Shrinks, BoundInv
    <2>4. pc' \in {"down", "waitReady"} => Inflight' = {}
      BY <1>4 DEF Shrinks, BoundInv
    <2>5. \E limit \in InflightLimits : Cardinality(Pending') <= limit
      BY <1>3, <1>4 DEF Shrinks
    <2> QED
      BY <2>2, <2>3, <2>4, <2>5 DEF BoundInv
  <1>5. CASE AdmitPending
    <2>1. PICK new \in SUBSET (Pending \ Inflight) :
              /\ StartPublish(new)
              /\ Free \in Nat => Cardinality(new) <= Free
              /\ pc' = "generate" =>
                    /\ Pending \subseteq Inflight \cup new
                    /\ Cardinality(Inflight) + Cardinality(new) < maxInflight
      BY <1>5, AdmitOnePage
    <2>2. new \in SUBSET Batches
      BY <1>2
    <2>3. Inflight' = Inflight \cup new
      BY <2>1, <2>2, <1>1, StartPublishSets
    <2>4. /\ Cardinality(Inflight \cup new) <= Cardinality(Inflight) + Cardinality(new)
          /\ Cardinality(Inflight) \in Nat /\ Cardinality(new) \in Nat
          /\ Cardinality(Inflight \cup new) \in Nat
      BY <2>2, <1>2, JoinCounts
    <2>5. Free \in Nat
      BY <2>4, <1>1 DEF BoundInv, Free
    <2>6. /\ Pending' = Pending /\ maxInflight' = maxInflight
          /\ pc' \in {"generate", "complete"}
      BY <1>5, AdmitOnePage DEF AdmitPending, Pending, outboxVars, rowVars, runVars
    <2>7. Cardinality(Inflight') <= maxInflight'
      BY <2>1, <2>3, <2>4, <2>5, <2>6, <1>1 DEF Free
    <2>8. pc' = "generate" => /\ Pending' \subseteq Inflight'
                              /\ Cardinality(Inflight') < maxInflight'
      BY <2>1, <2>3, <2>4, <2>6, <1>1
    <2> QED
      BY <2>6, <2>7, <2>8, <1>3 DEF BoundInv
  <1>6. ASSUME NEW m \in Batches, Generate(m)
        PROVE  BoundInv'
    <2>1. /\ pc = "generate" /\ pc' = "complete" /\ maxInflight' = maxInflight
          /\ StartPublish({m})
          /\ \E size \in Sizes : Enqueue(m, size)
      BY <1>6 DEF Generate, runVars
    <2>2. Inflight' = Inflight \cup {m}
      BY <2>1, <1>1, StartPublishSets
    <2> QED
      BY <2>1, <2>2, NewRow DEF BoundInv
  <1>7. CASE /\ pc = "generate" /\ pc' = "drain"
             /\ \E m \in Batches, size \in Sizes : Enqueue(m, size)
             /\ UNCHANGED <<entry, maxInflight>>
    <2>1. Inflight' = Inflight
      BY <1>7 DEF Inflight
    <2> QED
      BY <1>7, <2>1, NewRow DEF BoundInv
  <1>8. CASE EndProcess
    <2>1. Inflight' = {} /\ maxInflight' = 0 /\ pc' = "down" /\ Pending' = Pending
      BY <1>8 DEF EndProcess, CloseOutbox, Inflight, Pending, rowVars
    <2> QED
      BY <2>1, <1>3, FS_EmptySet DEF BoundInv
  <1>9. ASSUME NEW id \in Identities, StartProcess(id)
        PROVE  BoundInv'
    <2>1. /\ Inflight' = Inflight /\ Pending' = Pending /\ pc' = "waitReady"
          /\ maxInflight' \in InflightLimits /\ Inflight = {}
      BY <1>9 DEF StartProcess, OpenOutbox, Inflight, Pending, rowVars,
         entryVars, BoundInv
    <2> QED
      BY <2>1, <1>1, <1>3, FS_EmptySet DEF BoundInv
  <1> QED
    BY <1>4, <1>5, <1>6, <1>7, <1>8, <1>9, StepMoves DEF Moves

LEMMA BoundAlways == Spec => []BoundInv
  <1>1. Init => BoundInv
    <2> SUFFICES ASSUME Init PROVE BoundInv
      OBVIOUS
    <2>1. Inflight = {} /\ Pending = {} /\ pc = "down" /\ maxInflight = 0
      BY DEF Init, OutboxInit, Inflight, Pending
    <2>2. \E limit \in InflightLimits : 0 <= limit
      <3>1. PICK limit \in InflightLimits : TRUE
        BY GatewayAssumption
      <3>2. limit \in Nat
        BY GatewayAssumption, OutboxAssumption
      <3> QED
        BY <3>2
    <2>3. Cardinality({}) = 0
      BY FS_EmptySet
    <2> QED
      BY <2>1, <2>2, <2>3 DEF BoundInv
  <1> QED
    BY <1>1, BoundStep, TypeAlways, PTL DEF Spec

(* For every configuration: no more entries than GATEWAY_MAX_INFLIGHT, and  *)
(* a durable backlog that no sequence of restarts and lost connections lets *)
(* grow past the largest bound a process ran with.                          *)
THEOREM SlotsBounded == Spec => []InflightBounded
  <1>1. BoundInv => InflightBounded
    BY DEF BoundInv, InflightBounded
  <1> QED
    BY <1>1, BoundAlways, PTL

(* No batch is generated while an older row of any boot waits for a slot.   *)
THEOREM ReplayComesFirst == Spec => ReplayBeforeGeneration
  <1>1. TypeInv /\ BoundInv /\ [Next]_vars =>
            [(\E m \in Batches : status[m] = "none" /\ status'[m] # "none")
                 => Pending \subseteq Inflight]_vars
    <2> SUFFICES ASSUME TypeInv, BoundInv, [Next]_vars,
                        NEW m \in Batches,
                        status[m] = "none", status'[m] # "none"
                 PROVE  Pending \subseteq Inflight
      OBVIOUS
    <2>1. Enqueued' # Enqueued
      BY DEF Enqueued
    <2>2. pc = "generate"
      BY <2>1, StepMoves
      DEF Moves, Shrinks, AdmitPending, Generate, EndProcess, CloseOutbox,
          StartProcess, OpenOutbox, outboxVars, rowVars, Enqueued
    <2> QED
      BY <2>2 DEF BoundInv
  <1> QED
    BY <1>1, TypeAlways, BoundAlways, PTL DEF Spec, ReplayBeforeGeneration
-----------------------------------------------------------------------------
(* The completed run. *)

(* Between checkCompletion's read and the end of the process nothing is     *)
(* generated any more.                                                      *)
DoneInv ==
    outcome = "completed" => pc \in {"drain", "stopped"} /\ Pending = {}

LEMMA DoneStep ==
    ASSUME TypeInv, DoneInv, [Next]_vars
    PROVE  DoneInv'
  <1> USE DEF loopVars, ctlVars, runVars
  <1>1. CASE UNCHANGED <<outcome, pc>> /\ Pending' \subseteq Pending
    BY <1>1 DEF DoneInv
  <1>2. CASE outcome' = outcome /\ Running
    BY <1>2 DEF DoneInv, Running
  <1>3. CASE outcome' # "completed"
    BY <1>3 DEF DoneInv
  <1>4. CASE Completed
    BY <1>4 DEF Completed, LeaveLoop, NoneLeft, DoneInv, Pending, outboxVars,
       rowVars
  <1>5. CASE Loop
    <2>1. CASE LoopStop \/ Expired
      BY <2>1, <1>3 DEF LoopStop, Expired, Fail, LeaveLoop
    <2> QED
      BY <1>5, <1>2, <1>4, <2>1
      DEF Loop, Running, LoopTop, AdmitPending, GenerateFull, NotCompleted,
          ArmTimer, CheckReady, SyncDone, ProcessDueRetry, Generate, SyncInflight
  <1>6. CASE Select \/ LoopFails \/ GenerateFails \/ SelectPubFatal
    <2>1. CASE SelectStop \/ SelectAckFatal \/ LoopFails \/ GenerateFails
               \/ SelectPubFatal
      BY <2>1, <1>3 DEF SelectStop, SelectAckFatal, LoopFails, GenerateFails,
         SelectPubFatal, Fail, LeaveLoop
    <2> QED
      BY <1>6, <1>2, <2>1 DEF Select, Running, SelectTimer, SelectReady,
         SelectNotify, SelectResult, WakeTo
  <1>7. CASE DrainEnd
    BY <1>7 DEF DrainEnd, DoneInv, Pending, outboxVars, rowVars
  <1>8. CASE EndProcess
    BY <1>8, <1>3 DEF EndProcess
  <1>9. CASE RunScheduler \/ \E id \in Identities : StartProcess(id)
    BY <1>9, <1>3 DEF RunScheduler, StartProcess, DoneInv
  <1>10. CASE Moves /\ UNCHANGED <<outcome, pc>>
    BY <1>10, <1>1
    DEF Moves, Shrinks, AdmitPending, Generate, EndProcess, StartProcess,
        Pending, outboxVars, rowVars
  <1>11. CASE \/ HandleAdmissionFails \/ AckWorker \/ Network \/ Clock
              \/ RequestStop \/ Administer \/ UNCHANGED vars
              \/ \E m \in Batches : DrainResult(m)
    <2>1. UNCHANGED <<outcome, pc>>
      BY <1>11
      DEF HandleAdmissionFails, AckWorker, HandleAdmission, SignalScheduler,
          Network, ConnUp, ConnDown, BrokerAccepts, ServerCommits, Admit,
          PublishReturns, PublishDropped, Clock, GenTick, DeadlinePass, Elapse,
          RequestStop, Administer, DrainResult, vars
    <2> QED
      BY <2>1, <1>10, StepMoves
  <1> QED
    BY <1>5, <1>6, <1>7, <1>8, <1>9, <1>11 DEF Next, Failures, Drain, Process

(* A finite run that ends as completed has every batch of every boot        *)
(* committed at the server, but for those an operator set aside.            *)
THEOREM CompletedRunDelivered == Spec => []CompletedIsDelivered
  <1>1. Init => DoneInv
    BY DEF Init, DoneInv
  <1>2. SafeInv /\ DoneInv => CompletedIsDelivered
    BY DEF SafeInv, TypeInv, GatewayTypeOK, OutboxTypeOK, RowStatus, DoneInv,
       CompletedIsDelivered, NoLoss, Enqueued, Pending, Committed
  <1> QED
    BY <1>1, <1>2, DoneStep, TypeAlways, SafeAlways, PTL DEF Spec
-----------------------------------------------------------------------------
(* The noticed deletion. *)

(* An in-flight row the ACK worker has deleted is on its way to be noticed: *)
(* the worker has still to signal it, the signal is in the channel, or the  *)
(* syncInflight that took the signal has still to re-read that row.         *)
OnItsWay(m) == notify \/ worker # "idle" \/ (pc = "sync" /\ m \in todo)

NoticeInv == Running => \A m \in Inflight : status[m] = "pending" \/ OnItsWay(m)

LEMMA NoticeStep ==
    ASSUME TypeInv, BoundInv, NoticeInv, [Next]_vars
    PROVE  NoticeInv'
  <1> USE DEF entryVars, outboxVars, rowVars, loopVars, ctlVars, runVars,
          passVars, ackVars
  <1>1. /\ entry \in [Batches -> EntryStates] /\ status \in [Batches -> RowStatus]
        /\ ProcessTypeOK
    BY DEF TypeInv, GatewayTypeOK, ProcessTypeOK, OutboxTypeOK
  <1>2. CASE ~Running'
    BY <1>2 DEF NoticeInv
  <1>3. ASSUME Running, pc # "sync", UNCHANGED <<status, notify, worker>>,
               Inflight' \subseteq Inflight
        PROVE  NoticeInv'
    BY <1>3 DEF NoticeInv, OnItsWay
  <1>4. ASSUME UNCHANGED <<status, notify, worker, pc, todo>>,
               Inflight' \subseteq Inflight
        PROVE  NoticeInv'
    BY <1>4 DEF NoticeInv, OnItsWay, Running
  <1>5. CASE Loop
    <2>1. CASE AdmitPending
      <3>1. PICK new \in SUBSET (Pending \ Inflight) : StartPublish(new)
        BY <2>1, AdmitOnePage
      <3>2. Inflight' = Inflight \cup new
        BY <3>1, <1>1, StartPublishSets DEF Pending
      <3>3. /\ pc = "reconcile" /\ UNCHANGED <<status, notify, worker>>
        BY <2>1 DEF AdmitPending
      <3> QED
        BY <3>2, <3>3 DEF NoticeInv, OnItsWay, Running, Pending
    <2>2. ASSUME NEW m \in Batches, ProcessDueRetry(m)
          PROVE  NoticeInv'
      <3>1. Inflight' \subseteq Inflight
        BY <2>2, <1>1 DEF ProcessDueRetry, StartPublish, Inflight
      <3> QED
        BY <2>2, <3>1, <1>3 DEF ProcessDueRetry, Running
    <2>3. ASSUME NEW m \in Batches, Generate(m)
          PROVE  NoticeInv'
      <3>1. /\ pc = "generate" /\ UNCHANGED <<notify, worker>>
            /\ StartPublish({m})
            /\ \E size \in Sizes : Enqueue(m, size)
        BY <2>3 DEF Generate
      <3>2. Inflight' = Inflight \cup {m}
        BY <3>1, <1>1, StartPublishSets
      <3>3. /\ status'[m] = "pending"
            /\ \A n \in Batches : status[n] = "pending" => status'[n] = "pending"
        BY <3>1, <1>1 DEF Enqueue
      <3> QED
        BY <3>1, <3>2, <3>3 DEF NoticeInv, OnItsWay, Running, Inflight
    <2>4. ASSUME NEW m \in Batches, SyncInflight(m)
          PROVE  NoticeInv'
      <3>1. /\ pc = "sync" /\ UNCHANGED <<status, notify, worker, pc>>
            /\ todo' = todo \ {m}
        BY <2>4 DEF SyncInflight
      <3>2. Inflight' = IF status[m] = "pending" THEN Inflight ELSE Inflight \ {m}
        BY <2>4, <1>1 DEF SyncInflight, RowStillPending, Inflight
      <3> QED
        BY <3>1, <3>2 DEF NoticeInv, OnItsWay, Running
    <2>5. CASE SyncDone
      <3>1. /\ todo = {} /\ pc = "sync" /\ UNCHANGED <<status, notify, worker, entry>>
        BY <2>5 DEF SyncDone
      <3> QED
        BY <3>1 DEF NoticeInv, OnItsWay, Running, Inflight
    <2>6. CASE LoopStop \/ Completed \/ Expired
      BY <2>6, <1>2 DEF LoopStop, Completed, Expired, Fail, LeaveLoop, Running
    <2>7. CASE LoopTop \/ GenerateFull \/ NotCompleted \/ ArmTimer \/ CheckReady
      <3>1. Running /\ pc # "sync" /\ UNCHANGED <<status, notify, worker, entry>>
        BY <2>7 DEF LoopTop, GenerateFull, NotCompleted, ArmTimer, CheckReady,
           Running
      <3> QED
        BY <3>1, <1>3 DEF Inflight
    <2> QED
      BY <1>5, <2>1, <2>2, <2>3, <2>4, <2>5, <2>6, <2>7 DEF Loop
  <1>6. CASE Select \/ Drain
    <2>1. ASSUME NEW m \in Batches, SelectResult(m)
          PROVE  NoticeInv'
      <3>1. Inflight' \subseteq Inflight
        BY <2>1, <1>1 DEF SelectResult, OnPublishResult, Inflight
      <3> QED
        BY <2>1, <3>1, <1>3 DEF SelectResult, WakeTo, Running
    <2>2. CASE SelectTimer \/ SelectReady
      <3>1. Running /\ pc # "sync" /\ UNCHANGED <<status, notify, worker, entry>>
        BY <2>2 DEF SelectTimer, SelectReady, WakeTo, Running
      <3> QED
        BY <3>1, <1>3 DEF Inflight
    <2>3. CASE SelectNotify
      <3>1. pc' = "sync" /\ todo' = Inflight /\ entry' = entry
        BY <2>3 DEF SelectNotify, WakeTo
      <3> QED
        BY <3>1 DEF NoticeInv, OnItsWay, Inflight
    <2>4. CASE SelectStop \/ SelectAckFatal \/ Drain
      BY <2>4, <1>2 DEF SelectStop, SelectAckFatal, LeaveLoop, Drain, DrainEnd,
         DrainResult, Running
    <2> QED
      BY <1>6, <2>1, <2>2, <2>3, <2>4 DEF Select
  <1>7. CASE Failures \/ AckWorker
    <2>1. CASE LoopFails \/ GenerateFails \/ SelectPubFatal
      BY <2>1, <1>2
      DEF LoopFails, GenerateFails, SelectPubFatal, Fail, LeaveLoop, Running
    <2>2. CASE HandleAdmissionFails
      BY <2>2 DEF HandleAdmissionFails, NoticeInv, OnItsWay
    <2>3. CASE HandleAdmission
      <3>1. /\ UNCHANGED <<entry, notify, pc, todo>> /\ worker = "idle"
            /\ worker' = AfterDelete(AckedRow) /\ DeletePending(AckedRow)
        BY <2>3 DEF HandleAdmission
      <3>2. CASE AckedRow \in Pending
        BY <3>1, <3>2 DEF AfterDelete, NoticeInv, OnItsWay
      <3>3. CASE AckedRow \notin Pending
        <4>1. AckedRow \in Batches
          BY <2>3, HeadTailProperties
          DEF HandleAdmission, AckedRow, TypeInv, GatewayTypeOK, ProcessTypeOK
        <4>2. status' = status /\ worker' = "idle"
          BY <3>1, <3>3, <4>1 DEF AfterDelete, DeletePending, Deletable, Pending
        <4> QED
          BY <3>1, <4>2, <1>4 DEF Inflight
      <3> QED
        BY <3>2, <3>3
    <2>4. CASE SignalScheduler
      BY <2>4 DEF SignalScheduler, NoticeInv, OnItsWay
    <2> QED
      BY <1>7, <2>1, <2>2, <2>3, <2>4 DEF Failures, AckWorker
  <1>8. CASE Network
    <2>1. UNCHANGED <<status, notify, worker, pc, todo, entry>>
      BY <1>8 DEF Network, ConnUp, ConnDown, BrokerAccepts, ServerCommits, Admit,
         PublishReturns, PublishDropped
    <2> QED
      BY <2>1, <1>4 DEF Inflight
  <1>9. CASE Clock
    <2>1. UNCHANGED <<status, notify, worker, pc, todo>>
      BY <1>9 DEF Clock, GenTick, DeadlinePass, Elapse
    <2>2. Inflight' \subseteq Inflight
      BY <1>9, <1>1 DEF Clock, GenTick, DeadlinePass, Elapse, Inflight
    <2> QED
      BY <2>1, <2>2, <1>4
  <1>10. CASE Process
    <2>1. CASE RunScheduler
      <3>1. Inflight' = {}
        BY <2>1 DEF RunScheduler, BoundInv, Inflight
      <3> QED
        BY <3>1 DEF NoticeInv
    <2>2. CASE RequestStop
      BY <2>2, <1>4 DEF RequestStop, Inflight
    <2>3. CASE EndProcess \/ Administer
      BY <2>3, <1>2 DEF EndProcess, Administer, Running
    <2>4. CASE \E id \in Identities : StartProcess(id)
      BY <2>4, <1>2 DEF StartProcess, Running
    <2> QED
      BY <1>10, <2>1, <2>2, <2>3, <2>4 DEF Process
  <1>11. CASE UNCHANGED vars
    BY <1>11, <1>4 DEF vars, Inflight
  <1> QED
    BY <1>5, <1>6, <1>7, <1>8, <1>9, <1>10, <1>11 DEF Next

(* No interleaving of the ACK worker's delete and signal with the scheduler *)
(* lets it block on an entry whose row is gone without a wake-up to come.   *)
THEOREM DeletionNoticed == Spec => []DeletedEntryIsNoticed
  <1>1. Init => NoticeInv
    BY DEF Init, NoticeInv, Running
  <1>2. NoticeInv => DeletedEntryIsNoticed
    BY DEF NoticeInv, OnItsWay, DeletedEntryIsNoticed, Running
  <1> QED
    BY <1>1, <1>2, NoticeStep, TypeAlways, BoundAlways, PTL DEF Spec
-----------------------------------------------------------------------------
(* The pause of generation. *)

(* Some batch would not fit in the file as it is.                           *)
OutboxFull ==
    UsedRows >= MaxRows \/ \E size \in Sizes : UsedBytes + size > MaxBytes

(* The wake-up that ends a pause: to be signalled, signalled, or taken.     *)
WakeUpComes == notify \/ worker # "idle" \/ pc = "sync"

(* The scheduler generates, and a process starts its loop, only unpaused.   *)
PauseInv ==
    /\ pc \in {"down", "waitReady", "generate"} => ~generationPaused
    /\ generationPaused /\ Running => OutboxFull \/ WakeUpComes

LEMMA PauseStep ==
    ASSUME TypeInv, PauseInv, [Next]_vars
    PROVE  PauseInv'
  <1> USE DEF outboxVars, rowVars, loopVars, ctlVars, runVars, genVars, ackVars
  <1>1. ASSUME UNCHANGED <<status, sizeOf>>
        PROVE  OutboxFull' = OutboxFull
    BY <1>1, Zenon DEF OutboxFull, UsedRows, UsedBytes, Retained
  <1>2. CASE pc' \in {"drain", "stopped"}
    BY <1>2 DEF PauseInv, Running
  <1>3. CASE generationPaused' = FALSE
    BY <1>3 DEF PauseInv
  <1>4. ASSUME UNCHANGED <<status, sizeOf, notify, worker, generationPaused>>,
               Running, pc # "sync" \/ pc' = "sync",
               pc' \in {"down", "waitReady", "generate"} => ~generationPaused
        PROVE  PauseInv'
    <2>1. OutboxFull' = OutboxFull
      BY <1>4, <1>1
    <2>2. WakeUpComes => WakeUpComes'
      BY <1>4 DEF WakeUpComes
    <2> QED
      BY <2>1, <2>2, <1>4 DEF PauseInv
  <1>5. ASSUME UNCHANGED <<status, sizeOf, pc, generationPaused>>,
               WakeUpComes => WakeUpComes'
        PROVE  PauseInv'
    <2>1. OutboxFull' = OutboxFull
      BY <1>5, <1>1
    <2> QED
      BY <2>1, <1>5 DEF PauseInv, Running
  <1>6. ASSUME UNCHANGED <<pc, generationPaused>>, WakeUpComes'
        PROVE  PauseInv'
    BY <1>6 DEF PauseInv
  <1>7. CASE Loop
    <2>1. CASE LoopStop \/ Completed \/ Expired
      BY <2>1, <1>2 DEF LoopStop, Completed, Expired, Fail, LeaveLoop
    <2>2. CASE LoopTop \/ NotCompleted \/ ArmTimer \/ CheckReady
      <3>1. /\ UNCHANGED <<status, sizeOf, notify, worker, generationPaused>>
            /\ Running /\ pc # "sync"
            /\ pc' \notin {"down", "waitReady", "generate"}
        BY <2>2 DEF LoopTop, NotCompleted, ArmTimer, CheckReady, Running
      <3> QED
        BY <3>1, <1>4
    <2>3. CASE AdmitPending
      <3>1. /\ UNCHANGED <<status, sizeOf, notify, worker, generationPaused>>
            /\ pc = "reconcile"
        BY <2>3 DEF AdmitPending
      <3>2. pc' \in {"reconcile", "generate", "complete"}
        BY <2>3 DEF AdmitPending
      <3>3. pc' = "generate" => ~generationPaused
        BY <2>3 DEF AdmitPending, Eligible
      <3> QED
        BY <3>1, <3>2, <3>3, <1>4 DEF Running
    <2>4. CASE GenerateFull
      <3>1. /\ \E size \in Sizes : EnqueueOutcome(size) = "full"
            /\ UNCHANGED <<status, sizeOf>> /\ pc' = "complete"
        BY <2>4 DEF GenerateFull
      <3>2. OutboxFull
        BY <3>1 DEF EnqueueOutcome, OutboxFull
      <3> QED
        BY <3>1, <3>2, <1>1 DEF PauseInv
    <2>5. CASE SyncDone
      BY <2>5, <1>3 DEF SyncDone
    <2>6. ASSUME NEW m \in Batches, ProcessDueRetry(m) \/ SyncInflight(m)
          PROVE  PauseInv'
      <3>1. UNCHANGED <<status, sizeOf, pc, generationPaused, notify, worker>>
        BY <2>6, Zenon DEF ProcessDueRetry, SyncInflight
      <3>2. WakeUpComes' = WakeUpComes
        BY <3>1, Zenon DEF WakeUpComes
      <3> QED
        BY <3>1, <3>2, <1>5, Zenon
    <2>7. ASSUME NEW m \in Batches, Generate(m)
          PROVE  PauseInv'
      <3>1. pc = "generate" /\ generationPaused' = generationPaused
        BY <2>7 DEF Generate
      <3> QED
        BY <3>1, <2>7 DEF PauseInv, Generate
    <2> QED
      BY <1>7, <2>1, <2>2, <2>3, <2>4, <2>5, <2>6, <2>7 DEF Loop
  <1>8. CASE Select \/ Drain
    <2>1. CASE SelectTimer \/ SelectReady \/ \E m \in Batches : SelectResult(m)
      <3>1. /\ UNCHANGED <<status, sizeOf, notify, worker, generationPaused>>
            /\ pc = "select" /\ pc' = "top"
        BY <2>1 DEF SelectTimer, SelectReady, SelectResult, WakeTo
      <3> QED
        BY <3>1, <1>4 DEF Running
    <2>2. CASE SelectNotify
      BY <2>2 DEF SelectNotify, WakeTo, PauseInv, WakeUpComes
    <2>3. CASE SelectStop \/ SelectAckFatal \/ Drain
      BY <2>3, <1>2 DEF SelectStop, SelectAckFatal, LeaveLoop, Drain, DrainEnd,
         DrainResult
    <2> QED
      BY <1>8, <2>1, <2>2, <2>3 DEF Select
  <1>9. CASE Failures \/ AckWorker
    <2>1. CASE LoopFails \/ GenerateFails \/ SelectPubFatal
      BY <2>1, <1>2 DEF LoopFails, GenerateFails, SelectPubFatal, Fail, LeaveLoop
    <2>2. CASE HandleAdmissionFails \/ SignalScheduler
      BY <2>2, <1>6 DEF HandleAdmissionFails, SignalScheduler, WakeUpComes
    <2>3. CASE HandleAdmission
      <3>1. /\ UNCHANGED <<notify, pc, generationPaused>> /\ worker = "idle"
            /\ worker' = AfterDelete(AckedRow) /\ DeletePending(AckedRow)
        BY <2>3 DEF HandleAdmission
      <3>2. CASE AckedRow \in Pending
        BY <3>1, <3>2, <1>6 DEF AfterDelete, WakeUpComes
      <3>3. CASE AckedRow \notin Pending
        <4>1. AckedRow \in Batches
          BY <2>3, HeadTailProperties
          DEF HandleAdmission, AckedRow, TypeInv, GatewayTypeOK, ProcessTypeOK
        <4>2. UNCHANGED <<status, sizeOf>> /\ worker' = "idle"
          BY <3>1, <3>3, <4>1 DEF AfterDelete, DeletePending, Deletable, Pending
        <4> QED
          BY <3>1, <4>2, <1>5 DEF WakeUpComes
      <3> QED
        BY <3>2, <3>3
    <2> QED
      BY <1>9, <2>1, <2>2, <2>3 DEF Failures, AckWorker
  <1>10. CASE Network \/ Clock \/ RequestStop \/ UNCHANGED vars
    <2>1. UNCHANGED <<status, sizeOf, notify, worker, pc, generationPaused>>
      BY <1>10 DEF Network, ConnUp, ConnDown, BrokerAccepts, ServerCommits,
         Admit, PublishReturns, PublishDropped, Clock, GenTick, DeadlinePass,
         Elapse, RequestStop, vars
    <2> QED
      BY <2>1, <1>5 DEF WakeUpComes
  <1>11. CASE Process
    <2>1. CASE RunScheduler \/ Administer \/ \E id \in Identities : StartProcess(id)
      <3>1. pc \in {"down", "waitReady"} /\ generationPaused' = generationPaused
        BY <2>1 DEF RunScheduler, Administer, StartProcess
      <3> QED
        BY <3>1 DEF PauseInv
    <2>2. CASE EndProcess
      <3>1. generationPaused' = FALSE
        BY <2>2 DEF EndProcess
      <3> QED
        BY <3>1, <1>3
    <2> QED
      BY <1>10, <1>11, <2>1, <2>2 DEF Process
  <1> QED
    BY <1>7, <1>8, <1>9, <1>10, <1>11 DEF Next

(* A pause of generation never outlives its reason unnoticed: either the    *)
(* file still is too full for some batch or the wake-up is on its way.      *)
THEOREM PauseIsJustified == Spec => []PauseHasReason
  <1>1. Init => PauseInv
    BY DEF Init, PauseInv
  <1>2. PauseInv => PauseHasReason
    BY DEF PauseInv, OutboxFull, WakeUpComes, PauseHasReason
  <1> QED
    BY <1>1, <1>2, PauseStep, TypeAlways, PTL DEF Spec
=============================================================================

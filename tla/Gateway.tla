------------------------------- MODULE Gateway -------------------------------
(***************************************************************************)
(* One gateway simulator process after another over one outbox file: the   *)
(* scheduler loop (scheduler.go), its publish goroutines, the ACK worker   *)
(* (ack.go) and the process life cycle (cmd/gateway/main.go), with the     *)
(* transport reduced to what the scheduler sees of it and the broker and   *)
(* the server reduced to what has been sent and what has been committed.   *)
(*                                                                         *)
(* The loop is one goroutine; every read or write it makes of the outbox   *)
(* is a step of its own, so that the ACK worker, the publish goroutines,   *)
(* the transport and the clock interleave with it there.  Deadlines are    *)
(* flags that the clock sets (Elapse, GenTick, DeadlinePass).              *)
(***************************************************************************)
EXTENDS Outbox, Sequences

CONSTANTS
    InflightLimits,     \* the values GATEWAY_MAX_INFLIGHT may be set to
    MaxAdmissionPages,  \* maxAdmissionPages
    FiniteTarget,       \* SchedulerOptions.FiniteBatch; 0 runs until stopped
    AdmissionCapacity,  \* capacity of the ACK admission queue
    MaxLosses           \* bound: connection losses in one behaviour

ASSUME GatewayAssumption ==
    /\ InflightLimits \subseteq 1..MaxRows /\ InflightLimits # {}
    /\ MaxAdmissionPages \in Nat \ {0}
    /\ FiniteTarget \in Nat
    /\ AdmissionCapacity \in Nat \ {0}
    /\ MaxLosses \in Nat

VARIABLES
    (* The scheduler goroutine. *)
    maxInflight,    \* its configured in-flight bound, also a page's size
    pc,             \* where it is
    outcome,        \* why its loop ended
    stopRequested,  \* its run context is cancelled
    todo,           \* entries the current pass has still to visit
    cursor, page,   \* pagination of admitPending
    genReady,
    readyObserved,
    timerArmed,     \* the wake timer is armed, not parked for 24 hours
    stateChClosed,  \* the readiness channel it waits on is closed
    genDue,         \* nextGenAt has passed
    genDone, generationPaused, uniqueEnqueued,
    completionDeadline,
    entry,          \* inflight: the state of the entry of each batch
    pub,            \* the Publish invocation of each batch, and its result
    (* The ACK worker. *)
    notify,         \* its wake signal, a channel of capacity 1
    admissions,     \* its admission queue
    worker,         \* where it is
    (* The transport, the broker and the server. *)
    ready,          \* Transport.Ready
    losses,         \* connections lost so far
    server          \* what broker and server have of each batch

runVars   == <<maxInflight, outcome, stopRequested>>
ctlVars   == <<pc, runVars>>
passVars  == <<todo, cursor, page, genReady, readyObserved>>
waitVars  == <<timerArmed, stateChClosed>>
genVars   == <<genDue, genDone, generationPaused, uniqueEnqueued,
               completionDeadline>>
entryVars == <<entry, pub>>
ackVars   == <<notify, admissions, worker>>
netVars   == <<ready, losses, server>>
loopVars  == <<ctlVars, passVars, waitVars, genVars>>
vars      == <<outboxVars, loopVars, entryVars, ackVars, netVars>>

Steps == {"down", "waitReady", "top", "reconcile", "generate", "complete",
          "arm", "check", "select", "sync", "drain", "stopped"}
Outcomes == {"none", "completed", "expired", "failed", "stopped"}
EntryStates == {"absent", "publishing", "awaitAck", "awaitAckDue", "backoff",
                "backoffDue"}
PubStates == {"none", "running", "ok", "failed"}

Inflight  == {m \in Batches : entry[m] # "absent"}
Free      == maxInflight - Cardinality(Inflight)
Due       == {m \in Batches : entry[m] \in {"awaitAckDue", "backoffDue"}}
GenDue    == genDue /\ Enqueued # Batches     \* within the bound MaxBatches
Results   == {m \in Batches : pub[m] \in {"ok", "failed"}}
Committed == {m \in Batches : server[m] = "committed"}
Running   == pc \notin {"down", "waitReady", "drain", "stopped"}
-----------------------------------------------------------------------------
(* Pieces the steps share. *)

(* The loop ends through waitPublishes, and its locals with it.             *)
LeaveLoop(why) ==
    /\ pc' = "drain"
    /\ outcome' = why
    /\ todo' = {} /\ cursor' = 0 /\ page' = 0
    /\ genReady' = FALSE /\ readyObserved' = FALSE
    /\ timerArmed' = FALSE /\ stateChClosed' = FALSE
    /\ UNCHANGED <<maxInflight, stopRequested>>

(* fail, unless the run context is cancelled: then it is a supervised stop. *)
Fail(why) == LeaveLoop(IF stopRequested THEN "stopped" ELSE why)

(* The select returns: what the goroutine waited on is forgotten.           *)
WakeTo(step) ==
    /\ pc = "select"
    /\ pc' = step
    /\ timerArmed' = FALSE /\ stateChClosed' = FALSE
    /\ UNCHANGED runVars

(* rowStillPending: the bounded re-read of one in-flight row.               *)
MutRowStillPending(m) == status[m] = "pending" \/ entry[m] = "publishing"
RowStillPending(m) == status[m] = "pending"

(* admit and startPublish: each batch of S gets its one Publish invocation. *)
StartPublish(S) ==
    /\ entry' = [m \in Batches |-> IF m \in S THEN "publishing" ELSE entry[m]]
    /\ pub' = [m \in Batches |-> IF m \in S THEN "running" ELSE pub[m]]

(* onPublishResult: a result whose entry is gone is ignored.                *)
OnPublishResult(m) ==
    /\ m \in Results
    /\ pub' = [pub EXCEPT ![m] = "none"]
    /\ entry' = IF entry[m] # "publishing" THEN entry
                ELSE [entry EXCEPT ![m] =
                          IF pub[m] = "ok" THEN "awaitAck" ELSE "backoff"]
-----------------------------------------------------------------------------
(* The scheduler loop. *)

(* Top of loop and start of reconcile: stop, or look at the readiness and   *)
(* at the clock.                                                            *)
LoopStop ==
    /\ pc = "top"
    /\ stopRequested
    /\ LeaveLoop("stopped")
    /\ UNCHANGED <<outboxVars, genVars, entryVars, ackVars, netVars>>

LoopTop ==
    /\ pc = "top"
    /\ ~stopRequested
    /\ readyObserved' = ready
    /\ genReady' = FALSE
    /\ todo' = IF ready THEN Due ELSE {}
    /\ pc' = IF ready THEN "reconcile" ELSE "complete"
    /\ UNCHANGED <<outboxVars, runVars, cursor, page, waitVars,
                   genVars, entryVars, ackVars, netVars>>

(* An entry whose ACK wait timed out, after the re-read of its row.         *)
MutAfterAckTimeout(m) == IF RowStillPending(m) THEN "awaitAck" ELSE "absent"
AfterAckTimeout(m) == IF RowStillPending(m) THEN "backoff" ELSE "absent"

(* One iteration of processDueRetries: a timed-out entry re-reads its row,  *)
(* a backed-off one publishes again.                                        *)
ProcessDueRetry(m) ==
    /\ pc = "reconcile"
    /\ m \in todo
    /\ todo' = todo \ {m}
    /\ \/ /\ entry[m] = "awaitAckDue"
          /\ entry' = [entry EXCEPT ![m] = AfterAckTimeout(m)]
          /\ UNCHANGED pub
       \/ /\ entry[m] = "backoffDue"
          /\ StartPublish({m})
    /\ UNCHANGED <<outboxVars, ctlVars, cursor, page, genReady, readyObserved,
                   waitVars, genVars, ackVars, netVars>>

(* The size of a page of admitPending, its rows that are not in flight yet, *)
(* and the generation-eligibility snapshot after the last page.  A page cap *)
(* reached with slots free holds generation back.                           *)
PageSize == maxInflight

NotInflight(items) == items \ Inflight

Eligible(left, more) == ~genDone /\ ~generationPaused /\ left > 0 /\ ~more

(* One page of admitPending, and the end of reconcile after the last one.   *)
AdmitPending ==
    /\ pc = "reconcile"
    /\ todo = {}
    /\ LET items == PendingAfter(cursor, PageSize)
           new   == Oldest(NotInflight(items), Free)
           left  == Free - Cardinality(new)
           end   == left <= 0 \/ Cardinality(items) < PageSize
           more  == ~end /\ page + 1 = MaxAdmissionPages
       IN  /\ StartPublish(new)
           /\ IF end \/ more
              THEN /\ genReady' = Eligible(left, more)
                   /\ pc' = IF genReady' /\ GenDue THEN "generate"
                                                   ELSE "complete"
                   /\ cursor' = 0 /\ page' = 0
              ELSE /\ cursor' = Max(items)
                   /\ page' = page + 1
                   /\ UNCHANGED <<genReady, pc>>
    /\ UNCHANGED <<outboxVars, runVars, todo, readyObserved, waitVars, genVars,
                   ackVars, netVars>>

(* generate when Enqueue commits: the new row is admitted at once and a     *)
(* finite run that reached its target starts its completion budget.         *)
Generate(m) ==
    /\ pc = "generate"
    /\ \E size \in Sizes : Enqueue(m, size)
    /\ genDue' = FALSE
    /\ uniqueEnqueued' = uniqueEnqueued + 1
    /\ StartPublish({m})
    /\ IF FiniteTarget > 0 /\ uniqueEnqueued + 1 >= FiniteTarget
       THEN genDone' = TRUE /\ completionDeadline' = "running"
       ELSE UNCHANGED <<genDone, completionDeadline>>
    /\ pc' = "complete"
    /\ UNCHANGED <<runVars, passVars, waitVars,
                   generationPaused, ackVars, netVars>>

(* generate when the outbox is full: generation pauses.                     *)
GenerateFull ==
    /\ pc = "generate"
    /\ \E size \in Sizes : EnqueueOutcome(size) = "full"
    /\ genDue' = FALSE
    /\ generationPaused' = TRUE
    /\ pc' = "complete"
    /\ UNCHANGED <<outboxVars, runVars, passVars, waitVars,
                   genDone, uniqueEnqueued, completionDeadline, entryVars,
                   ackVars, netVars>>

(* generate when Enqueue fails or its commit is unknown: fatal, whether or  *)
(* not the row landed, and the batch is not generated again.                *)
GenerateFails ==
    /\ pc = "generate"
    /\ \/ UNCHANGED outboxVars
       \/ \E m \in Batches, size \in Sizes : Enqueue(m, size)
    /\ genDue' = FALSE
    /\ Fail("failed")
    /\ UNCHANGED <<genDone, generationPaused, uniqueEnqueued,
                   completionDeadline, entryVars, ackVars, netVars>>

(* checkCompletion: done, out of budget, or not finished yet.               *)
MutNoneLeft == \A m \in Batches : entry[m] # "publishing"
NoneLeft == Pending = {}

BudgetSpent == completionDeadline = "passed"

Completed ==
    /\ pc = "complete"
    /\ genDone /\ NoneLeft
    /\ LeaveLoop("completed")
    /\ UNCHANGED <<outboxVars, genVars, entryVars, ackVars, netVars>>

Expired ==
    /\ pc = "complete"
    /\ genDone /\ ~NoneLeft /\ BudgetSpent
    /\ Fail("expired")
    /\ UNCHANGED <<outboxVars, genVars, entryVars, ackVars, netVars>>

NotCompleted ==
    /\ pc = "complete"
    /\ genDone => ~NoneLeft /\ ~BudgetSpent
    /\ pc' = "arm"
    /\ UNCHANGED <<outboxVars, runVars, passVars, waitVars,
                   genVars, entryVars, ackVars, netVars>>

(* What armTimer arms the wake timer for, and whether any of it is due.     *)
WaitsForGen == genReady \/ (~genDone /\ ~generationPaused /\ Free > 0)
HasTimedWork ==
    \/ WaitsForGen
    \/ genDone
    \/ \E m \in Batches : entry[m] \notin {"absent", "publishing"}
TimerElapsed ==
    \/ WaitsForGen /\ GenDue
    \/ genDone /\ completionDeadline = "passed"
    \/ Due # {}

(* armTimer: a transport that is not ready parks the timer.                 *)
ArmTimer ==
    /\ pc = "arm"
    /\ timerArmed' = (ready /\ HasTimedWork)
    /\ pc' = "check"
    /\ UNCHANGED <<outboxVars, runVars, passVars, stateChClosed,
                   genVars, entryVars, ackVars, netVars>>

(* The loop captures the readiness channel and goes round again when the    *)
(* readiness is not the one reconcile saw.                                  *)
CheckReady ==
    /\ pc = "check"
    /\ pc' = IF ready # readyObserved THEN "top" ELSE "select"
    /\ timerArmed' = (timerArmed /\ pc' = "select")
    /\ UNCHANGED <<outboxVars, runVars, passVars, stateChClosed,
                   genVars, entryVars, ackVars, netVars>>

(* The branches of the select.  The transport may turn fatal at any time.   *)
SelectStop ==
    /\ pc = "select"
    /\ stopRequested
    /\ LeaveLoop("stopped")
    /\ UNCHANGED <<outboxVars, genVars, entryVars, ackVars, netVars>>

SelectAckFatal ==
    /\ pc = "select"
    /\ worker = "dead"
    /\ LeaveLoop("failed")
    /\ UNCHANGED <<outboxVars, genVars, entryVars, ackVars, netVars>>

SelectPubFatal ==
    /\ pc = "select"
    /\ LeaveLoop("failed")
    /\ UNCHANGED <<outboxVars, genVars, entryVars, ackVars, netVars>>

SelectTimer ==
    /\ timerArmed /\ TimerElapsed
    /\ WakeTo("top")
    /\ UNCHANGED <<outboxVars, passVars, genVars, entryVars, ackVars, netVars>>

SelectReady ==
    /\ stateChClosed
    /\ WakeTo("top")
    /\ UNCHANGED <<outboxVars, passVars, genVars, entryVars, ackVars, netVars>>

SelectResult(m) ==
    /\ WakeTo("top")
    /\ OnPublishResult(m)
    /\ UNCHANGED <<outboxVars, passVars, genVars, ackVars, netVars>>

SelectNotify ==
    /\ notify
    /\ notify' = FALSE
    /\ WakeTo("sync")
    /\ todo' = Inflight
    /\ UNCHANGED <<outboxVars, cursor, page, genReady, readyObserved, genVars,
                   entryVars, admissions, worker, netVars>>

(* syncInflight: each in-flight row is re-read on its own; after the last   *)
(* one generation may resume.                                               *)
SyncInflight(m) ==
    /\ pc = "sync"
    /\ m \in todo
    /\ todo' = todo \ {m}
    /\ entry' = IF RowStillPending(m) THEN entry
                ELSE [entry EXCEPT ![m] = "absent"]
    /\ UNCHANGED <<outboxVars, ctlVars, cursor, page, genReady, readyObserved,
                   waitVars, genVars, pub, ackVars, netVars>>

SyncDone ==
    /\ pc = "sync"
    /\ todo = {}
    /\ generationPaused' = FALSE
    /\ pc' = "top"
    /\ UNCHANGED <<outboxVars, runVars, passVars, waitVars,
                   genDue, genDone, uniqueEnqueued, completionDeadline,
                   entryVars, ackVars, netVars>>

(* A read of the outbox fails.                                              *)
LoopFails ==
    /\ \/ pc = "reconcile"
       \/ pc = "complete" /\ genDone
       \/ pc = "sync" /\ todo # {}
    /\ Fail("failed")
    /\ UNCHANGED <<outboxVars, genVars, entryVars, ackVars, netVars>>

(* waitPublishes: results are taken until no entry is publishing, or until  *)
(* the shutdown budget ends.                                                *)
DrainResult(m) ==
    /\ pc = "drain"
    /\ \E n \in Batches : entry[n] = "publishing"
    /\ OnPublishResult(m)
    /\ UNCHANGED <<outboxVars, loopVars, ackVars, netVars>>

DrainEnd ==
    /\ pc = "drain"
    /\ pc' = "stopped"
    /\ UNCHANGED <<outboxVars, runVars, passVars, waitVars,
                   genVars, entryVars, ackVars, netVars>>
-----------------------------------------------------------------------------
(* Publish goroutines, broker and server. *)

(* The broker has the message of a running Publish, which may still fail.   *)
BrokerAccepts(m) ==
    /\ pub[m] = "running"
    /\ server[m] = "unknown"
    /\ server' = [server EXCEPT ![m] = "sent"]
    /\ UNCHANGED <<outboxVars, loopVars, entryVars, ackVars, ready, losses>>

(* The goroutine of startPublish ends: its result enters pubResults, a      *)
(* channel of capacity maxInflight.  A PUBACK proves that the broker has    *)
(* the message; an error proves nothing.                                    *)
PublishReturns(m, result) ==
    /\ pub[m] = "running"
    /\ result = "ok" => server[m] # "unknown"
    /\ Cardinality(Results) < maxInflight
    /\ pub' = [pub EXCEPT ![m] = result]
    /\ UNCHANGED <<outboxVars, loopVars, entry, ackVars, netVars>>

(* With the run context cancelled both branches of the goroutine's select   *)
(* are open, and the result may be dropped.                                 *)
PublishDropped(m) ==
    /\ pub[m] = "running"
    /\ stopRequested
    /\ pub' = [pub EXCEPT ![m] = "none"]
    /\ UNCHANGED <<outboxVars, loopVars, entry, ackVars, netVars>>

(* The server commits a message the broker has, any time later, or never.   *)
ServerCommits(m) ==
    /\ server[m] = "sent"
    /\ server' = [server EXCEPT ![m] = "committed"]
    /\ UNCHANGED <<outboxVars, loopVars, entryVars, ackVars, ready, losses>>

(* The non-blocking send to the admission queue.                            *)
RoomInQueue == Len(admissions) < AdmissionCapacity

(* An application ACK of a committed batch reaches Admit: at any time, any  *)
(* number of times, in any order, in this boot or a later one.  One that is *)
(* lost, or that finds the admission queue full, changes nothing.           *)
Admit(m) ==
    /\ ready
    /\ m \in Committed
    /\ RoomInQueue
    /\ admissions' = Append(admissions, m)
    /\ UNCHANGED <<outboxVars, loopVars, entryVars, notify, worker, netVars>>
-----------------------------------------------------------------------------
(* The ACK worker. *)

(* The row an ACK names, and what the worker does after its delete.         *)
MutAckedRow == IF Pending = {} THEN Head(admissions) ELSE Min(Pending)
AckedRow == Head(admissions)

MutAfterDelete(m) == "idle"
AfterDelete(m) == IF m \in Pending THEN "signal" ELSE "idle"

(* handleAdmission: one delete transaction per ACK; only a row it removed   *)
(* is signalled to the scheduler.                                           *)
HandleAdmission ==
    /\ worker = "idle"
    /\ admissions # <<>>
    /\ admissions' = Tail(admissions)
    /\ DeletePending(AckedRow)
    /\ worker' = AfterDelete(AckedRow)
    /\ UNCHANGED <<loopVars, entryVars, notify, netVars>>

(* The delete fails or its commit is unknown: no signal, the worker ends.   *)
HandleAdmissionFails ==
    /\ worker = "idle"
    /\ admissions # <<>>
    /\ admissions' = Tail(admissions)
    /\ DeletePending(AckedRow) \/ UNCHANGED outboxVars
    /\ worker' = "dead"
    /\ UNCHANGED <<loopVars, entryVars, notify, netVars>>

SignalScheduler ==
    /\ worker = "signal"
    /\ notify' = TRUE
    /\ worker' = "idle"
    /\ UNCHANGED <<outboxVars, loopVars, entryVars, admissions, netVars>>
-----------------------------------------------------------------------------
(* Clock, connection, signals, process life cycle. *)

Elapse(m) ==
    /\ entry[m] \in {"awaitAck", "backoff"}
    /\ entry' = [entry EXCEPT ![m] = IF @ = "awaitAck" THEN "awaitAckDue"
                                                       ELSE "backoffDue"]
    /\ UNCHANGED <<outboxVars, loopVars, pub, ackVars, netVars>>

GenTick ==
    /\ Running
    /\ ~genDue
    /\ genDue' = TRUE
    /\ UNCHANGED <<outboxVars, ctlVars, passVars, waitVars, genDone,
                   generationPaused, uniqueEnqueued, completionDeadline,
                   entryVars, ackVars, netVars>>

DeadlinePass ==
    /\ Running
    /\ completionDeadline = "running"
    /\ completionDeadline' = "passed"
    /\ UNCHANGED <<outboxVars, ctlVars, passVars, waitVars, genDue, genDone,
                   generationPaused, uniqueEnqueued, entryVars, ackVars,
                   netVars>>

(* The transport becomes ready, or ceases to be; either change closes the   *)
(* readiness channel a blocked loop waits on.                               *)
ConnUp ==
    /\ pc # "down"
    /\ ~ready
    /\ ready' = TRUE
    /\ stateChClosed' = (pc = "select")
    /\ UNCHANGED <<outboxVars, ctlVars, passVars, timerArmed, genVars,
                   entryVars, ackVars, losses, server>>

ConnDown ==
    /\ ready
    /\ losses < MaxLosses
    /\ losses' = losses + 1
    /\ ready' = FALSE
    /\ stateChClosed' = (pc = "select")
    /\ UNCHANGED <<outboxVars, ctlVars, passVars, timerArmed, genVars,
                   entryVars, ackVars, server>>

(* A signal, or the composition, cancels the run context.                   *)
RequestStop ==
    /\ Running \/ pc = "drain"
    /\ ~stopRequested
    /\ stopRequested' = TRUE
    /\ UNCHANGED <<outboxVars, maxInflight, pc, outcome, passVars, waitVars,
                   genVars, entryVars, ackVars, netVars>>

(* runSimulator up to WaitReady: a new process opens the outbox, starts the *)
(* ACK worker and the transport.                                            *)
StartProcess(id) ==
    /\ pc = "down"
    /\ OpenOutbox(id)
    /\ maxInflight' \in InflightLimits
    /\ pc' = "waitReady"
    /\ UNCHANGED <<outcome, stopRequested, passVars, waitVars, genVars,
                   entryVars, ackVars, netVars>>

RunScheduler ==
    /\ pc = "waitReady"
    /\ ready
    /\ pc' = "top"
    /\ UNCHANGED <<outboxVars, runVars, passVars, waitVars,
                   genVars, entryVars, ackVars, netVars>>

(* The process ends: a crash anywhere, a failed start, or the teardown      *)
(* after the scheduler stopped.  Only the file and the server remember.     *)
EndProcess ==
    /\ pc # "down"
    /\ CloseOutbox
    /\ maxInflight' = 0
    /\ pc' = "down" /\ outcome' = "none" /\ stopRequested' = FALSE
    /\ todo' = {} /\ cursor' = 0 /\ page' = 0
    /\ genReady' = FALSE /\ readyObserved' = FALSE
    /\ timerArmed' = FALSE /\ stateChClosed' = FALSE
    /\ genDue' = TRUE /\ genDone' = FALSE /\ generationPaused' = FALSE
    /\ uniqueEnqueued' = 0 /\ completionDeadline' = "unset"
    /\ entry' = [m \in Batches |-> "absent"]
    /\ pub' = [m \in Batches |-> "none"]
    /\ notify' = FALSE /\ admissions' = <<>> /\ worker' = "idle"
    /\ ready' = FALSE
    /\ UNCHANGED <<losses, server>>

(* cmd/gateway quarantine, which needs the lock no simulator holds.         *)
Administer ==
    /\ pc = "down"
    /\ \/ OpenOutboxAdmin
       \/ \E m \in Batches : Quarantine(m)
       \/ holder = "admin" /\ CloseOutbox
    /\ UNCHANGED <<loopVars, entryVars, ackVars, netVars>>
-----------------------------------------------------------------------------
Init ==
    /\ OutboxInit
    /\ maxInflight = 0
    /\ pc = "down" /\ outcome = "none" /\ stopRequested = FALSE
    /\ todo = {} /\ cursor = 0 /\ page = 0
    /\ genReady = FALSE /\ readyObserved = FALSE
    /\ timerArmed = FALSE /\ stateChClosed = FALSE
    /\ genDue = TRUE /\ genDone = FALSE /\ generationPaused = FALSE
    /\ uniqueEnqueued = 0 /\ completionDeadline = "unset"
    /\ entry = [m \in Batches |-> "absent"]
    /\ pub = [m \in Batches |-> "none"]
    /\ notify = FALSE /\ admissions = <<>> /\ worker = "idle"
    /\ ready = FALSE /\ losses = 0
    /\ server = [m \in Batches |-> "unknown"]

(* The steps of the scheduler goroutine between two blocking points.        *)
Loop ==
    \/ LoopStop \/ LoopTop \/ AdmitPending \/ GenerateFull
    \/ Completed \/ Expired \/ NotCompleted
    \/ ArmTimer \/ CheckReady \/ SyncDone
    \/ \E m \in Batches :
           ProcessDueRetry(m) \/ Generate(m) \/ SyncInflight(m)

Select ==
    \/ SelectStop \/ SelectAckFatal
    \/ SelectTimer \/ SelectReady \/ SelectNotify
    \/ \E m \in Batches : SelectResult(m)

Failures ==
    LoopFails \/ GenerateFails \/ SelectPubFatal \/ HandleAdmissionFails

Drain == DrainEnd \/ \E m \in Batches : DrainResult(m)

Network ==
    \/ ConnUp \/ ConnDown
    \/ \E m \in Batches :
           \/ BrokerAccepts(m) \/ ServerCommits(m) \/ Admit(m)
           \/ \E result \in {"ok", "failed"} : PublishReturns(m, result)
           \/ PublishDropped(m)

AckWorker == HandleAdmission \/ SignalScheduler

Clock == GenTick \/ DeadlinePass \/ \E m \in Batches : Elapse(m)

Process ==
    \/ RunScheduler \/ RequestStop \/ EndProcess \/ Administer
    \/ \E id \in Identities : StartProcess(id)

Next ==
    \/ Loop \/ Select \/ Failures \/ Drain
    \/ AckWorker \/ Network \/ Clock \/ Process

Spec == Init /\ [][Next]_vars
-----------------------------------------------------------------------------
(* Safety. *)

(* The type of the process state, and when there is a process.              *)
ProcessTypeOK ==
    /\ maxInflight \in InflightLimits \cup {0}
    /\ pc \in Steps /\ outcome \in Outcomes
    /\ todo \subseteq Batches /\ cursor \in 0..MaxBatches /\ page \in Nat
    /\ stopRequested \in BOOLEAN /\ genReady \in BOOLEAN
    /\ readyObserved \in BOOLEAN /\ timerArmed \in BOOLEAN
    /\ stateChClosed \in BOOLEAN /\ genDue \in BOOLEAN /\ genDone \in BOOLEAN
    /\ generationPaused \in BOOLEAN /\ uniqueEnqueued \in Nat
    /\ completionDeadline \in {"unset", "running", "passed"}
    /\ entry \in [Batches -> EntryStates]
    /\ pub \in [Batches -> PubStates]
    /\ notify \in BOOLEAN /\ admissions \in Seq(Batches)
    /\ worker \in {"idle", "signal", "dead"}
    /\ ready \in BOOLEAN /\ losses \in 0..MaxLosses
    /\ server \in [Batches -> {"unknown", "sent", "committed"}]
    /\ pc = "down" <=> holder \notin Identities
    /\ pc = "down" <=> maxInflight = 0

(* The type of the state, with the capacities of the two bounded channels.  *)
GatewayTypeOK ==
    /\ OutboxTypeOK
    /\ ProcessTypeOK
    /\ Cardinality(Results) <= maxInflight
    /\ Len(admissions) <= AdmissionCapacity

(* No batch is lost between the outbox and the server: the file lets go of  *)
(* a row (DeletePending) only when the server has committed it, whatever    *)
(* was crashed, published twice, acknowledged twice, late or in a later     *)
(* boot.  This is the at-least-once promise of the outbox.                  *)
NoLoss == \A m \in Batches : status[m] = "deleted" => server[m] = "committed"

(* The same promise as a specification: the gateway with its outbox, its    *)
(* crashes and its unreliable network implements Delivery.                  *)
Abstract == INSTANCE Delivery WITH
    Ids <- Batches, accepted <- Enqueued, held <- Retained,
    delivered <- Committed
ImplementsDelivery == Abstract!DeliverySpec

(* The ACK worker deletes a row while the scheduler still has its entry in  *)
(* memory.  A scheduler that blocks with such an entry is always about to   *)
(* be woken for it: no interleaving of delete, signal, channel of capacity  *)
(* one and syncInflight's row by row re-read loses the wake-up.             *)
DeletedEntryIsNoticed ==
    pc = "select" =>
        \A m \in Inflight : status[m] = "pending" \/ notify \/ worker # "idle"

(* Generation that paused on a full outbox (ErrOutboxFull) stays paused     *)
(* only while some batch still would not fit, or while the wake-up that     *)
(* clears the pause is on its way.                                          *)
PauseHasReason ==
    generationPaused /\ Running =>
        \/ UsedRows >= MaxRows
        \/ \E size \in Sizes : UsedBytes + size > MaxBytes
        \/ notify \/ worker # "idle" \/ pc = "sync"

(* A row is never published by two invocations at once: an invocation       *)
(* belongs to the entry in statePublishing, or to no entry of a row that is *)
(* no longer pending and so cannot be admitted again; and until the run is  *)
(* cancelled that entry always has its invocation.                          *)
SinglePublish ==
    /\ \A m \in Batches : pub[m] # "none" =>
           entry[m] = "publishing" \/ m \notin Inflight \cup Pending
    /\ ~stopRequested =>
           \A m \in Batches : entry[m] = "publishing" => pub[m] # "none"

(* Admission and generation together never exceed GATEWAY_MAX_INFLIGHT, and *)
(* since a batch is only generated into a free slot with no older row left  *)
(* waiting, neither does the durable backlog exceed the largest bound any   *)
(* process ran with, however many restarts fall in between.                 *)
InflightBounded ==
    /\ Cardinality(Inflight) <= maxInflight
    /\ \E limit \in InflightLimits : Cardinality(Pending) <= limit

(* admitPending never needs its second page: a full first page of in-flight *)
(* rows already takes every slot.  Generation is therefore never held back  *)
(* by maxAdmissionPages.                                                    *)
OnePageSuffices == page = 0

(* A finite run that reports completed=true leaves no batch of any boot     *)
(* unacknowledged: each is committed at the server, or was set aside by an  *)
(* operator.                                                                *)
CompletedIsDelivered ==
    outcome = "completed" =>
        \A m \in Enqueued : m \in Committed \/ status[m] = "quarantined"

(* A new batch is only enqueued when every older pending row, those of an   *)
(* earlier boot included, is already in flight: replay comes before         *)
(* generation (reconcile).                                                  *)
ReplayBeforeGeneration ==
    [][(\E m \in Batches : status[m] = "none" /\ status'[m] # "none")
           => Pending \subseteq Inflight]_vars
-----------------------------------------------------------------------------
(* Liveness. *)

(* The goroutines run, a Publish returns within its timeout, time passes.   *)
(* Go's select chooses at random among its ready branches, so one that is   *)
(* ready again and again is taken.                                          *)
LocalFairness ==
    /\ WF_vars(Loop \/ Select) /\ WF_vars(AckWorker) /\ WF_vars(DeadlinePass)
    /\ SF_vars(SelectNotify)
    /\ \A m \in Batches :
           /\ SF_vars(SelectResult(m))
           /\ WF_vars(Elapse(m))
           /\ WF_vars(PublishReturns(m, "failed"))

(* A message that is published again and again gets its PUBACK again and    *)
(* again, and then its commit and its ACK; any one of them may be lost.     *)
FairNetwork ==
    \A m \in Batches :
        /\ SF_vars(BrokerAccepts(m) \/ PublishReturns(m, "ok"))
        /\ WF_vars(ServerCommits(m))
        /\ []<><<PublishReturns(m, "ok")>>_vars => []<><<Admit(m)>>_vars

LocalSpec == Spec /\ LocalFairness

(* As long as the scheduler runs, every pending row, of whatever boot, is   *)
(* eventually acknowledged and deleted: retry, backoff, paging and the      *)
(* in-flight bound starve none.                                             *)
EventuallyRetired ==
    \A m \in Batches :
        (m \in Pending /\ Running) ~> (m \notin Pending \/ ~Running)

(* What the simulator's document says of a finite run: once the last batch  *)
(* is generated it ends, acknowledged or out of its completion budget.  It  *)
(* does while the transport is ready; armTimer parks the timer of a         *)
(* scheduler whose transport is not.                                        *)
FiniteRunEnds == (genDone /\ Running) ~> ~Running
=============================================================================

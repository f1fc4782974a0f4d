------------------------------ MODULE Ingress ------------------------------
(***************************************************************************)
(* The telemetry ingress of the server                                     *)
(* (src/src/internal/mqttingress/ingress.go, started and stopped by        *)
(* src/src/cmd/server): transport callbacks admit deliveries into a        *)
(* bounded queue, a fixed pool of workers validates, persists and          *)
(* acknowledges them, and the main goroutine stops admission, drains the   *)
(* pool within a budget and closes the connection.                         *)
(*                                                                         *)
(* Persist is a step of Ledger, which the telemetry store implements.      *)
(***************************************************************************)
EXTENDS Integers, Sequences, FiniteSets

CONSTANTS
    Deliveries,     \* calls of Admit by the transport
    MessageOf,      \* the batch each of them carries
    Malformed,      \* deliveries that Admit refuses: retained, oversized, topic
    Invalid,        \* deliveries that the validator refuses
    Workers,
    QueueCapacity,
    Messages, KeyOf, SensorOf, BootOf, FirstOf, LastOf,
    None

ASSUME IngressAssumption ==
    /\ QueueCapacity \in Nat \ {0}
    /\ Workers # {}
    /\ MessageOf \in [Deliveries -> Messages]
    /\ None \notin Deliveries

VARIABLES
    started, stopping, draining,
    callback,       \* where each call of Admit is
    queue,
    worker, item,   \* where each worker is, and with which delivery
    handled,        \* how often each delivery left a worker
    main,           \* the goroutine that shuts the server down
    stored, confirmed,
    acks            \* messages whose ACK the broker may have

flagVars   == <<started, stopping, draining>>
workerVars == <<worker, item, handled>>
storeVars  == <<stored, confirmed>>
vars == <<flagVars, callback, queue, workerVars, main, storeVars, acks>>

L == INSTANCE Ledger
-----------------------------------------------------------------------------
(* Admit. *)

(* The lock-free look at started.                                           *)
AdmitLoad(d) ==
    /\ callback[d] = "idle"
    /\ callback' = [callback EXCEPT ![d] = IF started THEN "loaded"
                                                      ELSE "rejected"]
    /\ UNCHANGED <<flagVars, queue, workerVars, main, storeVars, acks>>

(* The read lock and the look at stopping.  A waiting StopAdmission would   *)
(* hold new readers back; that they may still come here only adds cases.    *)
AdmitLock(d) ==
    /\ callback[d] = "loaded"
    /\ callback' = [callback EXCEPT ![d] = IF stopping THEN "rejected"
                                                       ELSE "reading"]
    /\ UNCHANGED <<flagVars, queue, workerVars, main, storeVars, acks>>

(* The cheap checks, the non-blocking enqueue and the unlock.               *)
Room == Len(queue) < QueueCapacity

AdmitEnqueue(d) ==
    /\ callback[d] = "reading"
    /\ IF d \notin Malformed /\ Room
       THEN /\ queue' = Append(queue, d)
            /\ callback' = [callback EXCEPT ![d] = "accepted"]
       ELSE /\ callback' = [callback EXCEPT ![d] = "rejected"]
            /\ UNCHANGED queue
    /\ UNCHANGED <<flagVars, workerVars, main, storeVars, acks>>

(* The write lock waits for every reader to leave.                          *)
NoReaders == \A d \in Deliveries : callback[d] # "reading"
-----------------------------------------------------------------------------
(* The main goroutine. *)

StartAllowed == ~started /\ ~draining

(* Start; a call that races Drain, or a second one, is refused.             *)
Start ==
    /\ StartAllowed
    /\ started' = TRUE
    /\ worker' = [w \in Workers |-> "select"]
    /\ UNCHANGED <<stopping, draining, callback, queue, item, handled, main,
                   storeVars, acks>>

(* A signal, or an error of the HTTP server.                                *)
Shutdown ==
    /\ main = "serving"
    /\ main' = "stopIntake"
    /\ UNCHANGED <<flagVars, callback, queue, workerVars, storeVars, acks>>

(* stopIntake: StopAdmission.                                               *)
StopIntake ==
    /\ main = "stopIntake"
    /\ NoReaders
    /\ stopping' = TRUE
    /\ main' = "drain"
    /\ UNCHANGED <<started, draining, callback, queue, workerVars, storeVars, acks>>

(* Drain: the section under startMu, the second StopAdmission being a no-op.*)
DrainBegin ==
    /\ main = "drain"
    /\ draining' = TRUE
    /\ main' = "wait"
    /\ UNCHANGED <<started, stopping, callback, queue, workerVars, storeVars, acks>>

(* The WaitGroup is at zero.                                                *)
PoolGone == \A w \in Workers : worker[w] \in {"off", "exited"}

(* Drain returns.                                                           *)
DrainDone ==
    /\ main \in {"wait", "forced"}
    /\ PoolGone
    /\ main' = "drained"
    /\ UNCHANGED <<flagVars, callback, queue, workerVars, storeVars, acks>>

(* The budget is spent: cancelRun lets the calls of the workers fail, which *)
(* they may do here at any time, and Drain goes on waiting for the pool.    *)
MutForced == "drained"
Forced == "forced"
DrainForce ==
    /\ main = "wait"
    /\ main' = Forced
    /\ UNCHANGED <<flagVars, callback, queue, workerVars, storeVars, acks>>

(* Transport.Close, and then the pool of database connections.              *)
CloseTransport ==
    /\ main = "drained"
    /\ main' = "closed"
    /\ UNCHANGED <<flagVars, callback, queue, workerVars, storeVars, acks>>
-----------------------------------------------------------------------------
(* The workers. *)

(* A receive removes the item.                                              *)
Rest == Tail(queue)

(* Both selects may take an item; inside drainQueue the worker comes back   *)
(* to the second one, which it does not leave with the queue non-empty.     *)
Take(w) ==
    /\ worker[w] \in {"select", "drainQueue"}
    /\ queue # <<>>
    /\ item' = [item EXCEPT ![w] = Head(queue)]
    /\ queue' = Rest
    /\ worker' = [worker EXCEPT ![w] = "validate"]
    /\ UNCHANGED <<flagVars, callback, handled, main, storeVars, acks>>

(* StopAdmission closes the channel the workers wait on.                    *)
MutStopClosed == FALSE
StopClosed == stopping

(* With an item there as well the select takes either branch.               *)
SeeStop(w) ==
    /\ worker[w] = "select"
    /\ StopClosed
    /\ worker' = [worker EXCEPT ![w] = "drainQueue"]
    /\ UNCHANGED <<flagVars, callback, queue, item, handled, main, storeVars,
                   acks>>

MutDrained == TRUE
Drained == queue = <<>>

Exit(w) ==
    /\ worker[w] = "drainQueue"
    /\ Drained
    /\ worker' = [worker EXCEPT ![w] = "exited"]
    /\ UNCHANGED <<flagVars, callback, queue, item, handled, main, storeVars,
                   acks>>

(* process returns.  The loop the worker came from is not remembered: a     *)
(* worker of drainQueue that comes back to the first select sees stop.      *)
Finish(w) ==
    /\ worker' = [worker EXCEPT ![w] = "select"]
    /\ handled' = [handled EXCEPT ![item[w]] = @ + 1]
    /\ item' = [item EXCEPT ![w] = None]

Validate(w) ==
    /\ worker[w] = "validate"
    /\ IF item[w] \in Invalid
       THEN Finish(w)
       ELSE /\ worker' = [worker EXCEPT ![w] = "persist"]
            /\ UNCHANGED <<item, handled>>
    /\ UNCHANGED <<flagVars, callback, queue, main, storeVars, acks>>

(* Persist reports a commit, new or duplicate.                              *)
PersistConfirmed(w) ==
    LET m == MessageOf[item[w]] IN
    /\ worker[w] = "persist"
    /\ L!Store(m) \/ UNCHANGED stored
    /\ L!Confirm(m)
    /\ worker' = [worker EXCEPT ![w] = "publish"]
    /\ UNCHANGED <<flagVars, callback, queue, item, handled, main, acks>>

(* An error, a deadline, a cancellation or an unconfirmed outcome: the      *)
(* message may be stored all the same, and no ACK is sent.                  *)
MutAfterFailure(w) ==
    /\ worker' = [worker EXCEPT ![w] = "publish"]
    /\ UNCHANGED <<item, handled>>
AfterFailure(w) == Finish(w)

PersistFails(w) ==
    /\ worker[w] = "persist"
    /\ L!Store(MessageOf[item[w]]) \/ UNCHANGED stored
    /\ AfterFailure(w)
    /\ UNCHANGED <<flagVars, callback, queue, main, confirmed, acks>>

(* The ACK reaches the broker, or not; Publish need not know.               *)
Publish(w) ==
    /\ worker[w] = "publish"
    /\ acks' \in {acks, acks \cup {MessageOf[item[w]]}}
    /\ Finish(w)
    /\ UNCHANGED <<flagVars, callback, queue, main, storeVars>>
-----------------------------------------------------------------------------
Init ==
    /\ started = FALSE /\ stopping = FALSE /\ draining = FALSE
    /\ callback = [d \in Deliveries |-> "idle"]
    /\ queue = <<>>
    /\ worker = [w \in Workers |-> "off"]
    /\ item = [w \in Workers |-> None]
    /\ handled = [d \in Deliveries |-> 0]
    /\ main = "serving"
    /\ stored = {} /\ confirmed = {} /\ acks = {}

Admit(d) == AdmitLoad(d) \/ AdmitLock(d) \/ AdmitEnqueue(d)
Step(w) ==
    \/ Take(w) \/ SeeStop(w) \/ Exit(w) \/ Validate(w)
    \/ PersistConfirmed(w) \/ PersistFails(w) \/ Publish(w)
Stop == StopIntake \/ DrainBegin \/ DrainDone \/ CloseTransport

Next ==
    \/ Start \/ Shutdown \/ Stop \/ DrainForce
    \/ \E d \in Deliveries : Admit(d)
    \/ \E w \in Workers : Step(w)

Spec == Init /\ [][Next]_vars

(* Goroutines that can run do run; every call of Persist and Publish has a  *)
(* timeout of its own.                                                      *)
FairSpec ==
    /\ Spec
    /\ WF_vars(Stop)
    /\ \A d \in Deliveries : WF_vars(Admit(d))
    /\ \A w \in Workers : WF_vars(Step(w))
-----------------------------------------------------------------------------
(* Properties. *)

(* The type of the state; the queue keeps its capacity.                     *)
IngressTypeOK ==
    /\ started \in BOOLEAN /\ stopping \in BOOLEAN /\ draining \in BOOLEAN
    /\ callback \in [Deliveries ->
                        {"idle", "loaded", "reading", "accepted", "rejected"}]
    /\ queue \in Seq(Deliveries) /\ Len(queue) <= QueueCapacity
    /\ worker \in [Workers -> {"off", "select", "drainQueue", "validate",
                               "persist", "publish", "exited"}]
    /\ item \in [Workers -> Deliveries \cup {None}]
    /\ handled \in [Deliveries -> Nat]
    /\ main \in {"serving", "stopIntake", "drain", "wait", "forced", "drained",
                 "closed"}
    /\ stored \subseteq Messages /\ confirmed \subseteq Messages
    /\ acks \subseteq Messages

(* An ACK, even one whose publication was never confirmed, only ever names  *)
(* a message that the store has committed (process).  The gateway deletes   *)
(* its only copy on the strength of it.                                     *)
AckedIsStored == acks \subseteq stored

(* A delivery is accepted when and only when it is in the queue, with a     *)
(* worker, or done, in one of these places only and only once: nothing is   *)
(* lost or handled twice between the callback, the channel and the workers. *)
InQueue(d)  == \E k \in 1..Len(queue) : queue[k] = d
AtWorker(d) == \E w \in Workers : item[w] = d
HandledOnce ==
    /\ \A j, k \in 1..Len(queue) : queue[j] = queue[k] => j = k
    /\ \A v, w \in Workers : item[v] # None /\ item[v] = item[w] => v = w
    /\ \A d \in Deliveries :
           /\ handled[d] \in {0, 1}
           /\ callback[d] = "accepted" <=>
                  InQueue(d) \/ AtWorker(d) \/ handled[d] = 1
           /\ ~(InQueue(d) /\ AtWorker(d))
           /\ handled[d] = 1 => ~InQueue(d) /\ ~AtWorker(d)

(* When Drain has returned, forced or not, nothing is left: every accepted  *)
(* delivery is done, no worker runs that could use the connection or the    *)
(* pool that are closed next, and no callback is about to enqueue.          *)
DrainedIsFinished ==
    main \in {"drained", "closed"} =>
        /\ queue = <<>> /\ PoolGone
        /\ \A d \in Deliveries : /\ callback[d] # "reading"
                                 /\ callback[d] = "accepted" => handled[d] = 1

(* Once StopAdmission has returned the queue only shrinks, so that the      *)
(* workers may leave when they find it empty.                               *)
QueueIsFinal == [][stopping => Len(queue') <= Len(queue)]_vars

(* A shutdown comes to its end, whatever the workers were doing ...         *)
ShutdownEnds == main = "stopIntake" ~> main = "closed"

(* ... and every accepted delivery is handled.                              *)
AcceptedIsHandled ==
    \A d \in Deliveries : callback[d] = "accepted" ~> handled[d] = 1
=============================================================================

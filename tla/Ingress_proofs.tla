--------------------------- MODULE Ingress_proofs ---------------------------
(***************************************************************************)
(* Proofs about the ingress for any number of deliveries and workers and   *)
(* any capacity of the queue.                                              *)
(***************************************************************************)
EXTENDS Ingress, SequenceTheorems, TLAPS

(* A message reaches the broker's ACK topic only past its confirmation.     *)
AckInv ==
    /\ acks \subseteq confirmed /\ confirmed \subseteq stored
    /\ \A w \in Workers :
           /\ worker[w] \in {"validate", "persist", "publish"} <=> item[w] # None
           /\ worker[w] = "publish" => MessageOf[item[w]] \in confirmed

(* The order of the shutdown: who is stopped when.                          *)
StopInv ==
    /\ stopping => NoReaders
    /\ \A w \in Workers : worker[w] = "off" <=> ~started
    /\ \A d \in Deliveries :
           callback[d] \in {"loaded", "reading", "accepted"} => started
    /\ queue # <<>> => started
    /\ \A w \in Workers : /\ worker[w] \in {"drainQueue", "exited"} => stopping
                          /\ worker[w] = "exited" => queue = <<>>
    /\ main \notin {"serving", "stopIntake"} => stopping
    /\ main \notin {"serving", "stopIntake", "drain"} => draining
    /\ main \in {"drained", "closed"} => PoolGone

IngressInv == IngressTypeOK /\ AckInv /\ StopInv /\ HandledOnce
-----------------------------------------------------------------------------
(* Types, one lemma for each of the three actors. *)

LEMMA TypeInit == Init => IngressTypeOK
  <1> SUFFICES ASSUME Init
               PROVE  IngressTypeOK
    OBVIOUS
  <1>1. queue \in Seq(Deliveries) /\ Len(queue) <= QueueCapacity
    BY IngressAssumption DEF Init
  <1> QED
    BY <1>1 DEF Init, IngressTypeOK

LEMMA AdmitType ==
    ASSUME IngressTypeOK, NEW d \in Deliveries, Admit(d)
    PROVE  IngressTypeOK'
  <1>1. CASE AdmitLoad(d)
    BY <1>1 DEF AdmitLoad, IngressTypeOK, flagVars, workerVars, storeVars
  <1>2. CASE AdmitLock(d)
    BY <1>2 DEF AdmitLock, IngressTypeOK, flagVars, workerVars, storeVars
  <1>3. CASE AdmitEnqueue(d)
    <2>1. queue \in Seq(Deliveries) /\ Len(queue) <= QueueCapacity
      BY DEF IngressTypeOK
    <2>2. queue' = queue \/ (queue' = Append(queue, d) /\ Len(queue) < QueueCapacity)
      BY <1>3 DEF AdmitEnqueue, Room
    <2>3. queue' \in Seq(Deliveries) /\ Len(queue') <= QueueCapacity
      BY <2>1, <2>2, IngressAssumption
    <2> QED
      BY <1>3, <2>3 DEF AdmitEnqueue, IngressTypeOK, flagVars, workerVars,
                        storeVars
  <1> QED
    BY <1>1, <1>2, <1>3 DEF Admit

LEMMA MainType ==
    ASSUME IngressTypeOK, Start \/ Shutdown \/ Stop \/ DrainForce
    PROVE  IngressTypeOK'
  <1> USE DEF IngressTypeOK, flagVars, workerVars, storeVars
  <1>1. CASE Start
    BY <1>1 DEF Start
  <1>2. CASE Shutdown
    BY <1>2 DEF Shutdown
  <1>3. CASE StopIntake
    BY <1>3 DEF StopIntake
  <1>4. CASE DrainBegin
    BY <1>4 DEF DrainBegin
  <1>5. CASE DrainDone
    BY <1>5 DEF DrainDone
  <1>6. CASE CloseTransport
    BY <1>6 DEF CloseTransport
  <1>7. CASE DrainForce
    BY <1>7 DEF DrainForce, Forced
  <1> QED
    BY <1>1, <1>2, <1>3, <1>4, <1>5, <1>6, <1>7 DEF Stop

LEMMA FinishType ==
    ASSUME IngressTypeOK, NEW w \in Workers, item[w] # None, Finish(w)
    PROVE  /\ worker' \in [Workers -> {"off", "select", "drainQueue", "validate",
                                       "persist", "publish", "exited"}]
           /\ item' \in [Workers -> Deliveries \cup {None}]
           /\ handled' \in [Deliveries -> Nat]
  BY DEF Finish, IngressTypeOK

LEMMA StepType ==
    ASSUME IngressTypeOK, AckInv, NEW w \in Workers, Step(w)
    PROVE  IngressTypeOK'
  <1> USE IngressAssumption DEF flagVars, workerVars, storeVars
  <1>0. worker[w] \in {"validate", "persist", "publish"} =>
            item[w] \in Deliveries /\ MessageOf[item[w]] \in Messages
    BY DEF AckInv, IngressTypeOK
  <1>1. CASE Take(w)
    <2>1. /\ queue' \in Seq(Deliveries) /\ Len(queue') <= QueueCapacity
          /\ Head(queue) \in Deliveries
      BY <1>1, HeadTailProperties DEF Take, Rest, IngressTypeOK
    <2> QED
      BY <1>1, <2>1 DEF Take, IngressTypeOK
  <1>2. CASE SeeStop(w) \/ Exit(w)
    BY <1>2 DEF SeeStop, Exit, IngressTypeOK
  <1>3. CASE Validate(w)
    <2>1. CASE Finish(w)
      BY <1>0, <1>3, <2>1, FinishType DEF Validate, AckInv, IngressTypeOK
    <2>2. CASE ~Finish(w)
      BY <1>3, <2>2 DEF Validate, IngressTypeOK
    <2> QED
      BY <2>1, <2>2
  <1>4. CASE PersistConfirmed(w)
    BY <1>0, <1>4 DEF PersistConfirmed, L!Store, L!Confirm, IngressTypeOK
  <1>5. CASE PersistFails(w)
    <2>1. item[w] # None /\ Finish(w)
      BY <1>5 DEF PersistFails, AfterFailure, AckInv
    <2>2. stored' \subseteq Messages
      BY <1>0, <1>5 DEF PersistFails, L!Store, IngressTypeOK
    <2> QED
      BY <1>5, <2>1, <2>2, FinishType DEF PersistFails, IngressTypeOK
  <1>6. CASE Publish(w)
    <2>1. item[w] # None /\ Finish(w)
      BY <1>6 DEF Publish, AckInv
    <2>2. acks' \subseteq Messages
      BY <1>0, <1>6 DEF Publish, IngressTypeOK
    <2> QED
      BY <1>6, <2>1, <2>2, FinishType DEF Publish, IngressTypeOK
  <1> QED
    BY <1>1, <1>2, <1>3, <1>4, <1>5, <1>6 DEF Step
-----------------------------------------------------------------------------
(* Acknowledgements. *)

LEMMA AckStep ==
    ASSUME IngressTypeOK, AckInv, NEW w \in Workers, Step(w)
    PROVE  AckInv'
  <1> USE IngressAssumption DEF flagVars, workerVars, storeVars
  <1>1. CASE Take(w)
    <2>1. Head(queue) \in Deliveries
      BY <1>1, HeadTailProperties DEF Take, IngressTypeOK
    <2> QED
      BY <1>1, <2>1 DEF Take, IngressTypeOK, AckInv
  <1>2. CASE SeeStop(w) \/ Exit(w)
    BY <1>2, SMTT(40) DEF SeeStop, Exit, IngressTypeOK, AckInv
  <1>3. CASE Validate(w)
    BY <1>3 DEF Validate, Finish, IngressTypeOK, AckInv
  <1>4. CASE PersistConfirmed(w)
    BY <1>4 DEF PersistConfirmed, L!Store, L!Confirm, IngressTypeOK, AckInv
  <1>5. CASE PersistFails(w)
    BY <1>5 DEF PersistFails, AfterFailure, Finish, L!Store, IngressTypeOK, AckInv
  <1>6. CASE Publish(w)
    BY <1>6 DEF Publish, Finish, IngressTypeOK, AckInv
  <1> QED
    BY <1>1, <1>2, <1>3, <1>4, <1>5, <1>6 DEF Step

LEMMA AckOthers ==
    ASSUME IngressTypeOK, AckInv, StopInv,
           Start \/ Shutdown \/ Stop \/ DrainForce
                 \/ \E d \in Deliveries : Admit(d)
    PROVE  AckInv'
  <1> USE DEF flagVars, workerVars, storeVars
  <1>1. CASE Start
    BY <1>1 DEF Start, StartAllowed, AckInv, StopInv, IngressTypeOK
  <1>2. CASE UNCHANGED <<worker, item, stored, confirmed, acks>>
    BY <1>2 DEF AckInv
  <1> QED
    BY <1>1, <1>2 DEF Shutdown, Stop, StopIntake, DrainBegin, DrainDone,
       CloseTransport, DrainForce, Admit, AdmitLoad, AdmitLock, AdmitEnqueue
-----------------------------------------------------------------------------
(* The order of the shutdown. *)

LEMMA StopAdmit ==
    ASSUME IngressTypeOK, StopInv, NEW d \in Deliveries, Admit(d)
    PROVE  StopInv'
  <1> USE DEF flagVars, workerVars, storeVars, NoReaders, PoolGone
  <1>1. CASE AdmitLoad(d)
    BY <1>1 DEF AdmitLoad, StopInv, IngressTypeOK
  <1>2. CASE AdmitLock(d)
    BY <1>2 DEF AdmitLock, StopInv, IngressTypeOK
  <1>3. CASE AdmitEnqueue(d)
    <2>1. started /\ ~stopping
      BY <1>3 DEF AdmitEnqueue, StopInv
    <2> QED
      BY <1>3, <2>1 DEF AdmitEnqueue, StopInv, IngressTypeOK
  <1> QED
    BY <1>1, <1>2, <1>3 DEF Admit

LEMMA StopMain ==
    ASSUME IngressTypeOK, StopInv, Start \/ Shutdown \/ Stop \/ DrainForce
    PROVE  StopInv'
  <1> USE DEF flagVars, workerVars, storeVars, NoReaders, PoolGone, StopInv,
              IngressTypeOK
  <1>1. CASE Start
    BY <1>1 DEF Start, StartAllowed
  <1>2. CASE Shutdown
    BY <1>2 DEF Shutdown
  <1>3. CASE StopIntake
    BY <1>3 DEF StopIntake
  <1>4. CASE DrainBegin
    BY <1>4 DEF DrainBegin
  <1>5. CASE DrainDone
    BY <1>5 DEF DrainDone
  <1>6. CASE CloseTransport
    BY <1>6 DEF CloseTransport
  <1>7. CASE DrainForce
    BY <1>7 DEF DrainForce, Forced
  <1> QED
    BY <1>1, <1>2, <1>3, <1>4, <1>5, <1>6, <1>7 DEF Stop

LEMMA StopStep ==
    ASSUME IngressTypeOK, StopInv, NEW w \in Workers, Step(w)
    PROVE  StopInv'
  <1> USE DEF flagVars, workerVars, storeVars, NoReaders, PoolGone
  <1>1. CASE Take(w)
    BY <1>1 DEF Take, StopInv, IngressTypeOK
  <1>2. CASE SeeStop(w)
    BY <1>2 DEF SeeStop, StopInv, IngressTypeOK, StopClosed
  <1>3. CASE Exit(w)
    BY <1>3 DEF Exit, Drained, StopInv, IngressTypeOK
  <1>4. CASE Validate(w)
    BY <1>4 DEF Validate, Finish, StopInv, IngressTypeOK
  <1>5. CASE PersistConfirmed(w)
    BY <1>5 DEF PersistConfirmed, StopInv, IngressTypeOK
  <1>6. CASE PersistFails(w)
    BY <1>6 DEF PersistFails, AfterFailure, Finish, StopInv, IngressTypeOK
  <1>7. CASE Publish(w)
    BY <1>7 DEF Publish, Finish, StopInv, IngressTypeOK
  <1> QED
    BY <1>1, <1>2, <1>3, <1>4, <1>5, <1>6, <1>7 DEF Step
-----------------------------------------------------------------------------
(* Where a delivery is. *)

(* Appending and taking, in terms of the deliveries in the queue.           *)
LEMMA AppendQueue ==
    ASSUME NEW q \in Seq(Deliveries), NEW d \in Deliveries,
           \A k \in 1..Len(q) : q[k] # d,
           \A j, k \in 1..Len(q) : q[j] = q[k] => j = k
    PROVE  LET r == Append(q, d) IN
           /\ \A j, k \in 1..Len(r) : r[j] = r[k] => j = k
           /\ \A e \in Deliveries :
                  (\E k \in 1..Len(r) : r[k] = e) <=>
                      e = d \/ \E k \in 1..Len(q) : q[k] = e
  <1> DEFINE r == Append(q, d)
  <1>1. /\ Len(r) = Len(q) + 1 /\ r[Len(q) + 1] = d /\ Len(q) \in Nat
        /\ \A k \in 1..Len(q) : r[k] = q[k]
    OBVIOUS
  <1> HIDE DEF r
  <1>2. \A k \in 1..Len(r) : k \in 1..Len(q) \/ k = Len(q) + 1
    BY <1>1
  <1>3. \A k \in 1..Len(q) : k \in 1..Len(r) /\ k # Len(q) + 1
    BY <1>1
  <1>4. Len(q) + 1 \in 1..Len(r)
    BY <1>1
  <1>5. \A j, k \in 1..Len(r) : r[j] = r[k] => j = k
    BY <1>1, <1>2
  <1>6. \A e \in Deliveries : (\E k \in 1..Len(r) : r[k] = e) <=>
                                  e = d \/ \E k \in 1..Len(q) : q[k] = e
    BY <1>1, <1>2, <1>3, <1>4
  <1> QED
    BY <1>5, <1>6 DEF r

(* Taking from the head removes one delivery and no other (Rest).           *)
Member(e, q) == \E k \in 1..Len(q) : q[k] = e

LEMMA TakeQueue ==
    ASSUME NEW q \in Seq(Deliveries), q # <<>>,
           \A j, k \in 1..Len(q) : q[j] = q[k] => j = k,
           NEW r, r = Tail(q)
    PROVE  /\ Head(q) \in Deliveries
           /\ \E k \in 1..Len(q) : q[k] = Head(q)
           /\ \A j, k \in 1..Len(r) : r[j] = r[k] => j = k
           /\ \A e \in Deliveries : Member(e, r) <=> e # Head(q) /\ Member(e, q)
  <1> USE DEF Member
  <1>1. /\ Len(r) = Len(q) - 1 /\ Head(q) = q[1] /\ Len(q) \in Nat /\ Len(q) > 0
        /\ \A k \in 1..Len(r) : r[k] = q[k + 1]
    BY HeadTailProperties
  <1>2. Head(q) \in Deliveries
    BY HeadTailProperties
  <1>3. /\ 1 \in 1..Len(q)
        /\ \A k \in 1..Len(r) : k + 1 \in 1..Len(q) /\ k + 1 # 1
        /\ \A k \in 1..Len(q) : k = 1 \/ (k - 1 \in 1..Len(r) /\ (k - 1) + 1 = k)
    BY <1>1
  <1>4. \A j, k \in 1..Len(r) : r[j] = r[k] => j = k
    <2> TAKE j, k \in 1..Len(r)
    <2> HAVE r[j] = r[k]
    <2>1. j + 1 = k + 1
      BY <1>1, <1>3
    <2> QED
      BY <2>1, <1>1
  <1>5. ASSUME NEW e \in Deliveries, NEW k \in 1..Len(r), r[k] = e
        PROVE  e # Head(q) /\ \E i \in 1..Len(q) : q[i] = e
    BY <1>1, <1>3, <1>5
  <1>6. ASSUME NEW e \in Deliveries, e # Head(q), NEW k \in 1..Len(q), q[k] = e
        PROVE  \E i \in 1..Len(r) : r[i] = e
    <2>1. k # 1
      BY <1>1, <1>6
    <2>2. k - 1 \in 1..Len(r) /\ (k - 1) + 1 = k
      BY <1>3, <2>1
    <2>3. r[k - 1] = e
      BY <1>1, <1>6, <2>2
    <2> QED
      BY <2>2, <2>3
  <1>7. \E k \in 1..Len(q) : q[k] = Head(q)
    BY <1>1, <1>3
  <1> QED
    BY <1>2, <1>4, <1>5, <1>6, <1>7

LEMMA PlacesAdmit ==
    ASSUME IngressTypeOK, HandledOnce, NEW d \in Deliveries, Admit(d)
    PROVE  HandledOnce'
  <1> USE DEF workerVars, InQueue, AtWorker
  <1>1. CASE UNCHANGED queue
    <2>1. /\ UNCHANGED <<queue, item, handled>>
          /\ \A e \in Deliveries : callback'[e] = "accepted" <=>
                                       callback[e] = "accepted"
      BY <1>1 DEF Admit, AdmitLoad, AdmitLock, AdmitEnqueue, IngressTypeOK
    <2> QED
      BY <2>1 DEF HandledOnce
  <1>2. CASE ~UNCHANGED queue
    <2>1. /\ queue' = Append(queue, d) /\ callback[d] = "reading"
          /\ callback' = [callback EXCEPT ![d] = "accepted"]
          /\ UNCHANGED <<item, handled>>
      BY <1>2 DEF Admit, AdmitLoad, AdmitLock, AdmitEnqueue
    <2>2. ~InQueue(d) /\ ~AtWorker(d) /\ handled[d] = 0
      BY <2>1 DEF HandledOnce
    <2>3. queue \in Seq(Deliveries)
          /\ \A j, k \in 1..Len(queue) : queue[j] = queue[k] => j = k
      BY DEF HandledOnce, IngressTypeOK
    <2>4. /\ \A j, k \in 1..Len(queue') : queue'[j] = queue'[k] => j = k
          /\ \A e \in Deliveries : InQueue(e)' <=> e = d \/ InQueue(e)
      BY <2>1, <2>2, <2>3, AppendQueue
    <2>5. \A e \in Deliveries : AtWorker(e)' <=> AtWorker(e)
      BY <2>1
    <2>6. \A e \in Deliveries :
            callback'[e] = "accepted" <=> e = d \/ callback[e] = "accepted"
      BY <2>1 DEF IngressTypeOK
    <2> HIDE DEF InQueue, AtWorker
    <2> QED
      BY <2>1, <2>2, <2>4, <2>5, <2>6 DEF HandledOnce
  <1> QED
    BY <1>1, <1>2

(* A worker that is done with its delivery.                                 *)
LEMMA PlacesFinish ==
    ASSUME IngressTypeOK, HandledOnce, NEW w \in Workers, item[w] # None,
           Finish(w), UNCHANGED <<queue, callback>>
    PROVE  HandledOnce'
  <1> USE DEF InQueue, AtWorker
  <1> DEFINE d == item[w]
  <1>1. /\ d \in Deliveries /\ AtWorker(d) /\ ~InQueue(d) /\ handled[d] = 0
        /\ \A v \in Workers : item[v] = d => v = w
    BY DEF HandledOnce, IngressTypeOK
  <1>2. \A e \in Deliveries : AtWorker(e)' <=> e # d /\ AtWorker(e)
    BY <1>1, IngressAssumption DEF Finish, IngressTypeOK
  <1>3. \A e \in Deliveries : handled'[e] = IF e = d THEN 1 ELSE handled[e]
    BY <1>1 DEF Finish, IngressTypeOK
  <1>4. \A v, u \in Workers : item'[v] # None /\ item'[v] = item'[u] => v = u
    BY DEF HandledOnce, Finish, IngressTypeOK
  <1>5. \A e \in Deliveries : InQueue(e)' <=> InQueue(e)
    OBVIOUS
  <1>6. \A j, k \in 1..Len(queue') : queue'[j] = queue'[k] => j = k
    BY DEF HandledOnce
  <1> HIDE DEF InQueue, AtWorker, d
  <1> QED
    BY <1>1, <1>2, <1>3, <1>4, <1>5, <1>6 DEF HandledOnce

LEMMA PlacesStep ==
    ASSUME IngressTypeOK, AckInv, HandledOnce, NEW w \in Workers, Step(w)
    PROVE  HandledOnce'
  <1> USE DEF InQueue, AtWorker
  <1>1. CASE Take(w)
    <2> DEFINE d == Head(queue)
    <2>1. /\ queue \in Seq(Deliveries) /\ queue # <<>> /\ queue' = Tail(queue)
          /\ item' = [item EXCEPT ![w] = d] /\ UNCHANGED <<callback, handled>>
          /\ item[w] = None
      BY <1>1 DEF Take, Rest, IngressTypeOK, AckInv
    <2>2. \A j, k \in 1..Len(queue) : queue[j] = queue[k] => j = k
      BY DEF HandledOnce
    <2>3. /\ d \in Deliveries /\ InQueue(d)
          /\ \A j, k \in 1..Len(queue') : queue'[j] = queue'[k] => j = k
          /\ \A e \in Deliveries : InQueue(e)' <=> e # d /\ InQueue(e)
      <3>1. queue \in Seq(Deliveries) /\ queue # <<>> /\ queue' = Tail(queue)
        BY <2>1
      <3>2. Head(queue) \in Deliveries
        BY <3>1, <2>2, TakeQueue
      <3>3. \E k \in 1..Len(queue) : queue[k] = Head(queue)
        BY <3>1, <2>2, TakeQueue
      <3>4. \A j, k \in 1..Len(queue') : queue'[j] = queue'[k] => j = k
        BY <3>1, <2>2, TakeQueue
      <3>5. \A e \in Deliveries :
                Member(e, queue') <=> e # Head(queue) /\ Member(e, queue)
        BY <3>1, <2>2, TakeQueue
      <3> QED
        BY <3>2, <3>3, <3>4, <3>5 DEF Member
    <2>4. ~AtWorker(d) /\ handled[d] # 1
      BY <2>3 DEF HandledOnce
    <2> HIDE DEF d
    <2>5. \A e \in Deliveries : AtWorker(e)' <=> e = d \/ AtWorker(e)
      BY <2>1, <2>3, IngressAssumption DEF IngressTypeOK
    <2>6. \A v, u \in Workers : item'[v] # None /\ item'[v] = item'[u] => v = u
      BY <2>1, <2>4 DEF HandledOnce, IngressTypeOK
    <2> HIDE DEF InQueue, AtWorker
    <2> QED
      BY <2>1, <2>3, <2>4, <2>5, <2>6 DEF HandledOnce
  <1>2. CASE UNCHANGED <<queue, item, handled, callback>>
    BY <1>2 DEF HandledOnce
  <1>3. CASE Finish(w) /\ UNCHANGED <<queue, callback>> /\ item[w] # None
    BY <1>3, PlacesFinish
  <1> QED
    BY <1>1, <1>2, <1>3
       DEF Step, SeeStop, Exit, Validate, PersistConfirmed, PersistFails,
           AfterFailure, Publish, AckInv
-----------------------------------------------------------------------------
LEMMA IngressInit == Init => IngressInv
  <1> SUFFICES ASSUME Init
               PROVE  IngressInv
    OBVIOUS
  <1>1. AckInv
    BY IngressAssumption DEF Init, AckInv
  <1>2. StopInv
    BY DEF Init, StopInv, NoReaders
  <1>3. HandledOnce
    <2>1. 1..Len(queue) = {}
      BY DEF Init
    <2> QED
      BY <2>1, IngressAssumption DEF Init, HandledOnce, InQueue, AtWorker
  <1> QED
    BY <1>1, <1>2, <1>3, TypeInit DEF IngressInv

LEMMA IngressNext == IngressInv /\ [Next]_vars => IngressInv'
  <1> SUFFICES ASSUME IngressInv, [Next]_vars
               PROVE  IngressInv'
    OBVIOUS
  <1> USE DEF IngressInv
  <1>1. CASE \E d \in Deliveries : Admit(d)
    BY <1>1, AdmitType, AckOthers, StopAdmit, PlacesAdmit
  <1>2. CASE \E w \in Workers : Step(w)
    BY <1>2, StepType, AckStep, StopStep, PlacesStep
  <1>3. CASE Start \/ Shutdown \/ Stop \/ DrainForce
    <2>1. UNCHANGED <<queue, item, handled, callback>>
      BY <1>3 DEF Start, Shutdown, Stop, StopIntake, DrainBegin, DrainDone,
                  CloseTransport, DrainForce, workerVars
    <2>2. HandledOnce'
      BY <2>1, SMTT(40) DEF HandledOnce, InQueue, AtWorker
    <2> QED
      BY <1>3, <2>2, MainType, AckOthers, StopMain
  <1>4. CASE UNCHANGED vars
    <2>1. UNCHANGED <<started, stopping, draining, callback, queue, worker, item,
                      handled, main, stored, confirmed, acks>>
      BY <1>4 DEF vars, flagVars, workerVars, storeVars
    <2>2. IngressTypeOK' /\ AckInv'
      BY <2>1 DEF IngressTypeOK, AckInv
    <2>3. StopInv' /\ HandledOnce'
      BY <2>1 DEF StopInv, HandledOnce, NoReaders, PoolGone, InQueue, AtWorker
    <2> QED
      BY <2>2, <2>3
  <1> QED
    BY <1>1, <1>2, <1>3, <1>4 DEF Next

LEMMA IngressInvariant == Spec => []IngressInv
  BY IngressInit, IngressNext, PTL DEF Spec

(* The ingress keeps its type and the queue its capacity.                   *)
THEOREM IngressTypeCorrect == Spec => []IngressTypeOK
  BY IngressInvariant, PTL DEF IngressInv

(* Every ACK that leaves the server names a committed message (process).    *)
THEOREM AcknowledgedIsStored == Spec => []AckedIsStored
  <1>1. IngressInv => AckedIsStored
    BY DEF IngressInv, AckInv, AckedIsStored
  <1> QED
    BY <1>1, IngressInvariant, PTL

(* Nothing accepted is lost or handled twice on its way through the queue.  *)
THEOREM EachHandledOnce == Spec => []HandledOnce
  BY IngressInvariant, PTL DEF IngressInv

(* When Drain returns the ingress is empty and at rest.                     *)
THEOREM DrainLeavesNothing == Spec => []DrainedIsFinished
  <1>1. IngressInv => DrainedIsFinished
    <2> SUFFICES ASSUME IngressInv, main \in {"drained", "closed"}
                 PROVE  /\ queue = <<>> /\ PoolGone
                        /\ \A d \in Deliveries :
                             /\ callback[d] # "reading"
                             /\ callback[d] = "accepted" => handled[d] = 1
      BY DEF DrainedIsFinished
    <2>1. PoolGone /\ stopping /\ NoReaders
      BY DEF IngressInv, StopInv
    <2>2. queue = <<>>
      <3>1. PICK w \in Workers : worker[w] \in {"off", "exited"}
        BY <2>1, IngressAssumption DEF PoolGone
      <3> QED
        BY <3>1 DEF IngressInv, StopInv
    <2>3. \A w \in Workers : item[w] = None
      BY <2>1 DEF IngressInv, AckInv, PoolGone
    <2>4. ASSUME NEW d \in Deliveries, callback[d] = "accepted"
          PROVE  handled[d] = 1
      <3>1. 1..Len(queue) = {}
        BY <2>2
      <3>2. ~InQueue(d) /\ ~AtWorker(d)
        BY <2>3, <3>1, IngressAssumption DEF InQueue, AtWorker
      <3> QED
        BY <2>4, <3>2 DEF IngressInv, HandledOnce
    <2> QED
      BY <2>1, <2>2, <2>4 DEF NoReaders
  <1> QED
    BY <1>1, IngressInvariant, PTL

(* No callback enqueues once StopAdmission has returned.                    *)
THEOREM QueueFinal == Spec => QueueIsFinal
  <1>1. IngressInv /\ [Next]_vars => [stopping => Len(queue') <= Len(queue)]_vars
    <2> SUFFICES ASSUME IngressInv, Next, stopping
                 PROVE  Len(queue') <= Len(queue)
      OBVIOUS
    <2>1. queue \in Seq(Deliveries) /\ Len(queue) \in Nat /\ NoReaders
      BY DEF IngressInv, StopInv, IngressTypeOK
    <2>2. CASE queue' = queue
      BY <2>1, <2>2
    <2>3. CASE queue # <<>> /\ queue' = Tail(queue)
      BY <2>1, <2>3, HeadTailProperties
    <2> QED
      BY <2>1, <2>2, <2>3
         DEF Next, Start, Shutdown, Stop, StopIntake, DrainBegin, DrainDone,
             CloseTransport, DrainForce, Admit, AdmitLoad, AdmitLock,
             AdmitEnqueue, NoReaders, Step, Take, Rest, SeeStop, Exit, Validate,
             PersistConfirmed, PersistFails, Publish
  <1> QED
    BY <1>1, IngressInvariant, PTL DEF Spec, QueueIsFinal
=============================================================================

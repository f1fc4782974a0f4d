---------------------------- MODULE Server_proofs ----------------------------
(***************************************************************************)
(* Proofs about two parts of the server that share no state.                *)
(*                                                                          *)
(* The telemetry store (TelemetryStore), for any number of workers,         *)
(* messages and Sensors.                                                    *)
(*                                                                          *)
(* The broker lifecycle controller (Lifecycle), for any number of handlers, *)
(* connections and identities: connections belong to the gate and to one    *)
(* lifetime of the child, the controller implements BrokerGate, a receipt   *)
(* opens the gate at most once, and a lifecycle that has failed stays       *)
(* closed.                                                                  *)
(***************************************************************************)
EXTENDS TelemetryStore, Lifecycle, TLAPS

(* How far a transaction has come, which lock it holds and what it wrote;   *)
(* no two of them have an uncommitted ledger row with the same key.         *)
TxBooks ==
    \A w \in Workers :
        /\ pc[w] \notin {"idle", "resolve"} => sensorLock[SensorOf[msg[w]]] = w
        /\ "ledger" \in wrote[w] <=> pc[w] \in Inserted
        /\ "samples" \in wrote[w] <=> pc[w] \in {"apply", "append", "commit"}
        /\ "temporal" \in wrote[w] <=> pc[w] = "commit"
        /\ "state" \in wrote[w] => pc[w] \in {"append", "commit"}
        /\ \A v \in Workers \ {w} :
               pc[v] \in Inserted /\ pc[w] \in Inserted =>
                   KeyOf[msg[v]] # KeyOf[msg[w]]

(* The inductive invariant.                                                 *)
StoreInv ==
    /\ TelemetryTypeOK /\ TxBooks /\ ChecksStayTrue
    /\ StoredOnce /\ RangesNeverOverlap /\ ReportedIsNewest

(* A step of the store: the shapes the proofs distinguish.                  *)
LocalStep(w) ==
    \/ \E m \in Messages : Begin(w, m)
    \/ LockSensor(w) \/ InsertLedger(w) \/ Duplicate(w) \/ CheckOverlap(w)
    \/ CopySamples(w) \/ ApplyReportedState(w) \/ AppendTemporal(w)
    \/ Reject(w) \/ Abort(w)

LEMMA NextCases ==
    ASSUME TelemetryNext
    PROVE  \/ \E w \in Workers : LocalStep(w) \/ CommitTx(w)
           \/ \E s \in Sensors : Provision(s)
  BY DEF TelemetryNext, Work, LocalStep

(* Only a commit changes the ledger, the counts and the reported states.    *)
LEMMA LocalKeepsTables ==
    ASSUME NEW w \in Workers, LocalStep(w)
    PROVE  UNCHANGED <<dbVars, confirmed>>
  BY DEF LocalStep, Begin, LockSensor, InsertLedger, Duplicate, CheckOverlap,
         CopySamples, ApplyReportedState, AppendTemporal, Reject, Abort, dbVars
-----------------------------------------------------------------------------
LEMMA TypeInit == TelemetryInit => TelemetryTypeOK
  BY TelemetryAssumption DEF TelemetryInit, TelemetryTypeOK, Steps

(* The end of a transaction keeps the type and leaves no lock behind.       *)
LEMMA EndTxType ==
    ASSUME TelemetryTypeOK, NEW w \in Workers, EndTx(w)
    PROVE  /\ sensorLock' \in [Sensors -> Workers \cup {NoWorker}]
           /\ pc' \in [Workers -> Steps] /\ msg' \in [Workers -> Messages]
           /\ wrote' \in [Workers -> SUBSET Tables]
           /\ \A s \in Sensors :
                  sensorLock'[s] # NoWorker =>
                      /\ pc'[sensorLock'[s]] \notin {"idle", "resolve"}
                      /\ SensorOf[msg'[sensorLock'[s]]] = s
  BY TelemetryAssumption DEF EndTx, Released, TelemetryTypeOK, Steps

LEMMA LocalType ==
    ASSUME TelemetryTypeOK, NEW w \in Workers, LocalStep(w)
    PROVE  TelemetryTypeOK'
  <1> USE TelemetryAssumption
  <1>0. UNCHANGED <<ledger, samples, temporal, state, provisioned, confirmed>>
    BY LocalKeepsTables DEF dbVars
  <1>1. CASE \E m \in Messages : Begin(w, m)
    BY <1>0, <1>1 DEF Begin, GoTo, TelemetryTypeOK, Steps
  <1>2. CASE LockSensor(w)
    BY <1>0, <1>2 DEF LockSensor, GoTo, TelemetryTypeOK, Steps
  <1>3. CASE InsertLedger(w)
    BY <1>0, <1>3 DEF InsertLedger, GoTo, Write, TelemetryTypeOK, Steps, Tables
  <1>4. CASE Duplicate(w)
    BY <1>0, <1>4 DEF Duplicate, GoTo, TelemetryTypeOK, Steps
  <1>5. CASE CheckOverlap(w)
    BY <1>0, <1>5 DEF CheckOverlap, GoTo, TelemetryTypeOK, Steps
  <1>6. CASE CopySamples(w)
    BY <1>0, <1>6 DEF CopySamples, GoTo, Write, TelemetryTypeOK, Steps, Tables
  <1>7. CASE ApplyReportedState(w)
    BY <1>0, <1>7, SMTT(80) DEF ApplyReportedState, GoTo, Write, TelemetryTypeOK, Steps,
                      Tables
  <1>8. CASE AppendTemporal(w)
    BY <1>0, <1>8 DEF AppendTemporal, GoTo, Write, TelemetryTypeOK, Steps, Tables
  <1>9. CASE Reject(w) \/ Abort(w)
    <2>1. EndTx(w)
      BY <1>9 DEF Reject, Abort
    <2> QED
      BY <1>0, <2>1, EndTxType DEF TelemetryTypeOK
  <1> QED
    BY <1>1, <1>2, <1>3, <1>4, <1>5, <1>6, <1>7, <1>8, <1>9 DEF LocalStep

LEMMA CommitType ==
    ASSUME TelemetryTypeOK, NEW w \in Workers, CommitTx(w)
    PROVE  TelemetryTypeOK'
  <1> USE TelemetryAssumption
  <1>1. EndTx(w) /\ msg[w] \in Messages /\ confirmed' \subseteq Messages
    BY DEF CommitTx, TelemetryTypeOK
  <1>2. CASE UNCHANGED dbVars
    BY <1>1, <1>2, EndTxType DEF TelemetryTypeOK, dbVars
  <1>3. CASE Apply(w)
    <2>1. samples' \in [Messages -> Nat] /\ temporal' \in [Messages -> Nat]
      BY <1>1, <1>3 DEF Apply, Added, TelemetryTypeOK
    <2>2. /\ DOMAIN state' = Sensors
          /\ \A s \in Sensors : /\ state'[s].version \in Nat
                                /\ state'[s].at \in Int /\ state'[s].seq \in Int
      BY <1>1, <1>3 DEF Apply, Merged, TelemetryTypeOK
    <2>3. ledger' \subseteq Messages /\ provisioned' \subseteq Sensors
      BY <1>1, <1>3 DEF Apply, TelemetryTypeOK
    <2> QED
      BY <1>1, <2>1, <2>2, <2>3, EndTxType DEF TelemetryTypeOK
  <1> QED
    BY <1>2, <1>3 DEF CommitTx

LEMMA TypeStep == TelemetryTypeOK /\ [TelemetryNext]_telemetryVars => TelemetryTypeOK'
  <1> SUFFICES ASSUME TelemetryTypeOK, [TelemetryNext]_telemetryVars
               PROVE  TelemetryTypeOK'
    OBVIOUS
  <1>1. ASSUME NEW s \in Sensors, Provision(s)
        PROVE  TelemetryTypeOK'
    BY <1>1 DEF Provision, TelemetryTypeOK, txVars
  <1>2. CASE UNCHANGED telemetryVars
    BY <1>2 DEF TelemetryTypeOK, telemetryVars, dbVars, txVars
  <1> QED
    BY <1>1, <1>2, NextCases, LocalType, CommitType

(* The telemetry store keeps its type, and a row lock is only held by a     *)
(* transaction on that Sensor.                                              *)
THEOREM TelemetryTypeCorrect == TelemetrySpec => []TelemetryTypeOK
  BY TypeInit, TypeStep, PTL DEF TelemetrySpec
-----------------------------------------------------------------------------
LEMMA EndTxBooks ==
    ASSUME TelemetryTypeOK, TxBooks, NEW w \in Workers, EndTx(w)
    PROVE  TxBooks'
  <1>1. /\ pc' = [pc EXCEPT ![w] = "idle"] /\ wrote' = [wrote EXCEPT ![w] = {}]
        /\ msg' = msg
        /\ \A s \in Sensors : sensorLock[s] # w => sensorLock'[s] = sensorLock[s]
    BY DEF EndTx, Released
  <1> QED
    BY <1>1, TelemetryAssumption DEF TxBooks, TelemetryTypeOK, Inserted

LEMMA LocalBooks ==
    ASSUME TelemetryTypeOK, TxBooks, NEW w \in Workers, LocalStep(w)
    PROVE  TxBooks'
  <1> USE DEF Inserted
  <1>1. CASE \E m \in Messages : Begin(w, m)
    BY <1>1 DEF Begin, GoTo, TelemetryTypeOK, TxBooks
  <1>2. CASE LockSensor(w)
    BY <1>2, TelemetryAssumption DEF LockSensor, LockFree, GoTo, TelemetryTypeOK, TxBooks
  <1>3. CASE InsertLedger(w)
    BY <1>3 DEF InsertLedger, KeyFree, GoTo, Write, TelemetryTypeOK, TxBooks
  <1>4. CASE Duplicate(w)
    BY <1>4 DEF Duplicate, GoTo, TelemetryTypeOK, TxBooks
  <1>5. CASE CheckOverlap(w)
    BY <1>5 DEF CheckOverlap, GoTo, TelemetryTypeOK, TxBooks
  <1>6. CASE CopySamples(w)
    BY <1>6 DEF CopySamples, GoTo, Write, TelemetryTypeOK, TxBooks
  <1>7. CASE ApplyReportedState(w)
    BY <1>7 DEF ApplyReportedState, GoTo, Write, TelemetryTypeOK, TxBooks
  <1>8. CASE AppendTemporal(w)
    BY <1>8 DEF AppendTemporal, GoTo, Write, TelemetryTypeOK, TxBooks
  <1>9. CASE Reject(w) \/ Abort(w)
    BY <1>9, EndTxBooks DEF Reject, Abort
  <1> QED
    BY <1>1, <1>2, <1>3, <1>4, <1>5, <1>6, <1>7, <1>8, <1>9 DEF LocalStep
-----------------------------------------------------------------------------
(* A worker's own step leaves the transaction of every other worker alone.  *)
LEMMA LocalKeepsOthers ==
    ASSUME TelemetryTypeOK, NEW w \in Workers, LocalStep(w)
    PROVE  \A v \in Workers \ {w} :
               pc'[v] = pc[v] /\ msg'[v] = msg[v] /\ wrote'[v] = wrote[v]
  <1>1. CASE \E m \in Messages : Begin(w, m)
    BY <1>1 DEF Begin, GoTo, TelemetryTypeOK
  <1>2. CASE LockSensor(w)
    BY <1>2 DEF LockSensor, GoTo, TelemetryTypeOK
  <1>3. CASE InsertLedger(w)
    BY <1>3 DEF InsertLedger, GoTo, Write, TelemetryTypeOK
  <1>4. CASE Duplicate(w)
    BY <1>4 DEF Duplicate, GoTo, TelemetryTypeOK
  <1>5. CASE CheckOverlap(w)
    BY <1>5 DEF CheckOverlap, GoTo, TelemetryTypeOK
  <1>6. CASE CopySamples(w)
    BY <1>6 DEF CopySamples, GoTo, Write, TelemetryTypeOK
  <1>7. CASE ApplyReportedState(w)
    BY <1>7 DEF ApplyReportedState, GoTo, Write, TelemetryTypeOK
  <1>8. CASE AppendTemporal(w)
    BY <1>8 DEF AppendTemporal, GoTo, Write, TelemetryTypeOK
  <1>9. CASE Reject(w) \/ Abort(w)
    BY <1>9 DEF Reject, Abort, EndTx, TelemetryTypeOK
  <1> QED
    BY <1>1, <1>2, <1>3, <1>4, <1>5, <1>6, <1>7, <1>8, <1>9 DEF LocalStep
-----------------------------------------------------------------------------
(* Steps that leave the tables alone leave the checks of the others alone.  *)
LEMMA LocalChecks ==
    ASSUME TelemetryTypeOK, TxBooks, ChecksStayTrue,
           NEW w \in Workers, LocalStep(w)
    PROVE  ChecksStayTrue'
  <1> USE DEF Inserted
  <1>0. ledger' = ledger /\ state' = state
    BY LocalKeepsTables DEF dbVars
  <1> DEFINE Check(v) ==
        /\ pc[v] \in Inserted => Conflicting(msg[v]) = {}
        /\ pc[v] \in Inserted \ {"overlap"} => Overlapping(msg[v]) = {}
        /\ pc[v] = "commitDuplicate" => msg[v] \in ledger
        /\ pc[v] \in {"append", "commit"} =>
             ("state" \in wrote[v] <=> Advances(msg[v], state[SensorOf[msg[v]]]))
  <1>a. \A v \in Workers : Check(v)
    BY DEF ChecksStayTrue
  <1>b. \A m : Conflicting(m)' = Conflicting(m)
                /\ Overlapping(m)' = Overlapping(m)
    BY <1>0 DEF Conflicting, Overlapping
  <1>f. msg' = msg => /\ Conflicting(msg[w])' = Conflicting(msg[w])
                      /\ Overlapping(msg[w])' = Overlapping(msg[w])
    BY <1>0 DEF Conflicting, Overlapping
  <1>c. \A v \in Workers \ {w} :
            pc'[v] = pc[v] /\ msg'[v] = msg[v] /\ wrote'[v] = wrote[v]
    BY LocalKeepsOthers
  <1>d. \A v \in Workers \ {w} : Check(v)'
    <2> TAKE v \in Workers \ {w}
    <2>1. /\ Conflicting(msg[v])' = Conflicting(msg[v])
          /\ Overlapping(msg[v])' = Overlapping(msg[v])
      BY <1>b, <1>c, <1>0 DEF Conflicting, Overlapping
    <2>2. Advances(msg[v], state[SensorOf[msg[v]]])' <=>
            Advances(msg[v], state[SensorOf[msg[v]]])
      BY <1>0, <1>c DEF Advances
    <2> QED
      BY <1>a, <1>c, <1>0, <2>1, <2>2
  <1>e. SUFFICES Check(w)'
    BY <1>d DEF ChecksStayTrue
  <1>1. CASE \E m \in Messages : Begin(w, m)
    BY <1>1 DEF Begin, GoTo, TelemetryTypeOK
  <1>2. CASE LockSensor(w)
    BY <1>2 DEF LockSensor, GoTo, TelemetryTypeOK
  <1>3. CASE InsertLedger(w)
    BY <1>0, <1>3 DEF InsertLedger, GoTo, TelemetryTypeOK, Conflicting
  <1>4. CASE Duplicate(w)
    BY <1>0, <1>4 DEF Duplicate, GoTo, TelemetryTypeOK, Conflicting
  <1>5. CASE CheckOverlap(w)
    <2>1. /\ pc[w] = "overlap" /\ pc'[w] = "copy" /\ msg' = msg
          /\ Overlapping(msg[w]) = {}
      BY <1>5 DEF CheckOverlap, GoTo, TelemetryTypeOK
    <2>2. Conflicting(msg[w]) = {}
      BY <1>a, <2>1
    <2> QED
      BY <1>f, <2>1, <2>2
  <1>6. CASE CopySamples(w)
    <2>1. pc[w] = "copy" /\ pc'[w] = "apply" /\ msg' = msg
      BY <1>6 DEF CopySamples, GoTo, TelemetryTypeOK
    <2>2. Conflicting(msg[w]) = {} /\ Overlapping(msg[w]) = {}
      BY <1>a, <2>1
    <2> QED
      BY <1>f, <2>1, <2>2
  <1>7. CASE ApplyReportedState(w)
    <2>1. pc[w] = "apply" /\ pc'[w] = "append" /\ msg' = msg
      BY <1>7 DEF ApplyReportedState, GoTo, TelemetryTypeOK
    <2>2. Conflicting(msg[w])' = {} /\ Overlapping(msg[w])' = {}
      BY <1>a, <1>f, <2>1
    <2>3. Advances(msg[w], state[SensorOf[msg[w]]])' <=>
            Advances(msg[w], state[SensorOf[msg[w]]])
      BY <1>0, <2>1 DEF Advances
    <2>4. "state" \notin wrote[w]
      BY <2>1 DEF TxBooks
    <2>5. "state" \in wrote'[w] <=> Advances(msg[w], state[SensorOf[msg[w]]])
      BY <1>7, <2>4 DEF ApplyReportedState, Write, TelemetryTypeOK
    <2> QED
      BY <2>1, <2>2, <2>3, <2>5
  <1>8. CASE AppendTemporal(w)
    <2>1. pc[w] = "append" /\ pc'[w] = "commit" /\ msg' = msg
      BY <1>8 DEF AppendTemporal, GoTo, TelemetryTypeOK
    <2>2. Conflicting(msg[w])' = {} /\ Overlapping(msg[w])' = {}
      BY <1>a, <1>f, <2>1
    <2>3. Advances(msg[w], state[SensorOf[msg[w]]])' <=>
            Advances(msg[w], state[SensorOf[msg[w]]])
      BY <1>0, <2>1 DEF Advances
    <2>4. "state" \in wrote'[w] <=> "state" \in wrote[w]
      BY <1>8 DEF AppendTemporal, Write, TelemetryTypeOK
    <2> QED
      BY <1>a, <2>1, <2>2, <2>3, <2>4
  <1>9. CASE Reject(w) \/ Abort(w)
    BY <1>9 DEF Reject, Abort, EndTx, TelemetryTypeOK
  <1>10. QED
    BY <1>1, <1>2, <1>3, <1>4, <1>5, <1>6, <1>7, <1>8, <1>9 DEF LocalStep
-----------------------------------------------------------------------------
(* A commit either leaves the tables alone, or adds a message that is       *)
(* compatible with all others, with one copy of each of its parts; the      *)
(* reported state is replaced exactly when the message advances it.         *)
LEMMA CommitShape ==
    ASSUME TelemetryTypeOK, TxBooks, ChecksStayTrue,
           NEW w \in Workers, CommitTx(w)
    PROVE  \/ UNCHANGED <<ledger, samples, temporal, state>>
           \/ LET m == msg[w]  s == SensorOf[msg[w]] IN
              /\ pc[w] = "commit" /\ m \in Messages /\ s \in Sensors
              /\ Conflicting(m) = {} /\ Overlapping(m) = {}
              /\ ledger' = ledger \cup {m}
              /\ samples' = [samples EXCEPT ![m] = @ + 1]
              /\ temporal' = [temporal EXCEPT ![m] = @ + 1]
              /\ \/ /\ Advances(m, state[s])
                    /\ state' = [state EXCEPT ![s] = Merged(m, @)]
                 \/ ~Advances(m, state[s]) /\ state' = state
  <1>1. pc[w] \in {"commit", "commitDuplicate"} /\ msg[w] \in Messages
        /\ SensorOf[msg[w]] \in Sensors
    BY TelemetryAssumption DEF CommitTx, TelemetryTypeOK
  <1>2. CASE UNCHANGED dbVars
    BY <1>2 DEF dbVars
  <1>3. CASE Apply(w) /\ pc[w] = "commitDuplicate"
    <2>1. wrote[w] \cap Tables = {}
      BY <1>3 DEF TxBooks, Tables, Inserted
    <2> QED
      BY <1>3, <2>1 DEF Apply, Added, Tables
  <1>4. CASE Apply(w) /\ pc[w] = "commit"
    <2>1. /\ {"ledger", "samples", "temporal"} \subseteq wrote[w]
          /\ "state" \in wrote[w] <=> Advances(msg[w], state[SensorOf[msg[w]]])
          /\ Conflicting(msg[w]) = {} /\ Overlapping(msg[w]) = {}
      <3>1. pc[w] = "commit" /\ {"ledger", "samples", "temporal"} \subseteq wrote[w]
        BY <1>4 DEF TxBooks, Inserted
      <3>2. /\ "state" \in wrote[w] <=> Advances(msg[w], state[SensorOf[msg[w]]])
            /\ Conflicting(msg[w]) = {} /\ Overlapping(msg[w]) = {}
        BY <3>1, Zenon DEF ChecksStayTrue, Inserted
      <3> QED
        BY <3>1, <3>2, Zenon
    <2>2. /\ ledger' = ledger \cup {msg[w]}
          /\ samples' = [samples EXCEPT ![msg[w]] = @ + 1]
          /\ temporal' = [temporal EXCEPT ![msg[w]] = @ + 1]
      BY <1>4, <2>1 DEF Apply, Added
    <2>3. state' = IF Advances(msg[w], state[SensorOf[msg[w]]])
                   THEN [state EXCEPT ![SensorOf[msg[w]]] = Merged(msg[w], @)]
                   ELSE state
      BY <1>4, <2>1, Zenon DEF Apply
    <2> QED
      BY <1>1, <1>4, <2>1, <2>2, <2>3, Zenon
  <1> QED
    BY <1>1, <1>2, <1>3, <1>4 DEF CommitTx

(* The commit of one worker spoils no check of another: those on the same   *)
(* Sensor are still waiting for its lock, and no other has the key.         *)
LEMMA CommitChecks ==
    ASSUME TelemetryTypeOK, TxBooks, ChecksStayTrue,
           NEW w \in Workers, CommitTx(w)
    PROVE  ChecksStayTrue'
  <1> USE DEF Inserted
  <1>1. /\ msg' = msg /\ pc'[w] = "idle"
        /\ \A v \in Workers \ {w} : pc'[v] = pc[v] /\ wrote'[v] = wrote[v]
    BY DEF CommitTx, EndTx, TelemetryTypeOK
  <1>2. ledger \subseteq ledger'
    BY CommitShape
  <1>3. ASSUME NEW v \in Workers \ {w}, pc[v] \notin {"idle", "resolve"}
        PROVE  /\ pc[v] \in Inserted => Conflicting(msg[v])' = Conflicting(msg[v])
               /\ Overlapping(msg[v])' = Overlapping(msg[v])
               /\ state'[SensorOf[msg[v]]] = state[SensorOf[msg[v]]]
    <2>1. CASE UNCHANGED <<ledger, samples, temporal, state>>
      BY <1>1, <2>1 DEF Conflicting, Overlapping
    <2>2. CASE /\ pc[w] = "commit" /\ ledger' = ledger \cup {msg[w]}
               /\ \/ state' = state
                  \/ state' = [state EXCEPT ![SensorOf[msg[w]]] = Merged(msg[w], @)]
      <3>1. SensorOf[msg[v]] # SensorOf[msg[w]]
        BY <1>3, <2>2 DEF TxBooks
      <3>2. pc[v] \in Inserted => KeyOf[msg[v]] # KeyOf[msg[w]]
        BY <2>2 DEF TxBooks
      <3>3. msg[v] \in Messages /\ SensorOf[msg[v]] \in Sensors
        BY TelemetryAssumption DEF TelemetryTypeOK
      <3>4. state'[SensorOf[msg[v]]] = state[SensorOf[msg[v]]]
        BY <2>2, <3>1, <3>3 DEF TelemetryTypeOK
      <3>5. pc[v] \in Inserted => Conflicting(msg[v])' = Conflicting(msg[v])
        BY <1>1, <2>2, <3>2 DEF Conflicting
      <3>6. Overlapping(msg[v])' = Overlapping(msg[v])
        BY <1>1, <2>2, <3>1 DEF Overlapping
      <3> QED
        BY <3>4, <3>5, <3>6, Zenon
    <2> QED
      BY <2>1, <2>2, CommitShape
  <1>4. ASSUME NEW v \in Workers \ {w}, pc[v] \notin {"idle", "resolve"}
        PROVE  Advances(msg[v], state[SensorOf[msg[v]]])' <=>
                 Advances(msg[v], state[SensorOf[msg[v]]])
    BY <1>1, <1>3, <1>4 DEF Advances
  <1>5. ASSUME NEW v \in Workers \ {w}
        PROVE  /\ pc'[v] \in Inserted => Conflicting(msg[v])' = {}
               /\ pc'[v] \in Inserted \ {"overlap"} => Overlapping(msg[v])' = {}
               /\ pc'[v] = "commitDuplicate" => msg'[v] \in ledger'
    BY <1>1, <1>2, <1>3 DEF ChecksStayTrue
  <1>6. ASSUME NEW v \in Workers \ {w}, pc'[v] \in {"append", "commit"}
        PROVE  "state" \in wrote'[v] <=> Advances(msg[v], state[SensorOf[msg[v]]])'
    BY <1>1, <1>4, <1>6 DEF ChecksStayTrue
  <1> QED
    BY <1>1, <1>5, <1>6 DEF ChecksStayTrue
-----------------------------------------------------------------------------
LEMMA CommitStores ==
    ASSUME TelemetryTypeOK, TxBooks, ChecksStayTrue, StoredOnce,
           RangesNeverOverlap, NEW w \in Workers, CommitTx(w)
    PROVE  StoredOnce' /\ RangesNeverOverlap'
  <1>1. CASE UNCHANGED <<ledger, samples, temporal, state>>
    BY <1>1 DEF StoredOnce, RangesNeverOverlap
  <1>2. CASE ~UNCHANGED <<ledger, samples, temporal, state>>
    <2> DEFINE m == msg[w]
    <2>1. /\ m \in Messages /\ ledger \subseteq Messages
          /\ Conflicting(m) = {} /\ Overlapping(m) = {}
          /\ ledger' = ledger \cup {m}
          /\ samples' = [samples EXCEPT ![m] = @ + 1]
          /\ temporal' = [temporal EXCEPT ![m] = @ + 1]
      BY <1>2, CommitShape DEF TelemetryTypeOK
    <2>2. \A n \in ledger : KeyOf[n] # KeyOf[m] /\ n # m
      BY <2>1 DEF Conflicting
    <2>3. \A n \in ledger :
            SensorOf[n] = SensorOf[m] /\ BootOf[n] = BootOf[m] =>
                LastOf[m] < FirstOf[n] \/ LastOf[n] < FirstOf[m]
      BY <2>1, <2>2, TelemetryAssumption DEF Overlapping
    <2> HIDE DEF m
    <2>4. RangesNeverOverlap'
      BY <2>1, <2>3 DEF RangesNeverOverlap
    <2>5. \A k, n \in ledger' : k # n => KeyOf[k] # KeyOf[n]
      BY <2>1, <2>2 DEF StoredOnce
    <2>6. \A n \in Messages :
            LET copies == IF n \in ledger' THEN 1 ELSE 0
            IN  samples'[n] = copies /\ temporal'[n] = copies
      <3>1. ASSUME NEW n \in Messages, n # m
            PROVE  /\ samples'[n] = samples[n] /\ temporal'[n] = temporal[n]
                   /\ n \in ledger' <=> n \in ledger
        BY <2>1, <3>1 DEF TelemetryTypeOK
      <3>2. /\ samples'[m] = samples[m] + 1 /\ temporal'[m] = temporal[m] + 1
            /\ m \in ledger' /\ m \notin ledger
        BY <2>1, <2>2 DEF TelemetryTypeOK
      <3>3. samples'[m] = 1 /\ temporal'[m] = 1
        BY <2>1, <3>2 DEF StoredOnce
      <3>4. ASSUME NEW n \in Messages, n # m
            PROVE  LET copies == IF n \in ledger' THEN 1 ELSE 0
                   IN  samples'[n] = copies /\ temporal'[n] = copies
        <4>1. samples[n] = (IF n \in ledger THEN 1 ELSE 0) /\ temporal[n] = samples[n]
          BY Zenon DEF StoredOnce
        <4>2. /\ samples'[n] = samples[n] /\ temporal'[n] = temporal[n]
              /\ n \in ledger' <=> n \in ledger
          BY <3>1, <3>4, Zenon
        <4>3. CASE n \in ledger
          BY <4>1, <4>2, <4>3, Zenon
        <4>4. CASE n \notin ledger
          BY <4>1, <4>2, <4>4, Zenon
        <4> QED
          BY <4>3, <4>4, Zenon
      <3> QED
        BY <3>2, <3>3, <3>4
    <2> QED
      BY <2>4, <2>5, <2>6 DEF StoredOnce
  <1> QED
    BY <1>1, <1>2

(* What the decision of sensorStateAdvances does to one Sensor.             *)
LEMMA CommitReports ==
    ASSUME TelemetryTypeOK, TxBooks, ChecksStayTrue, ReportedIsNewest,
           NEW w \in Workers, CommitTx(w)
    PROVE  ReportedIsNewest'
  <1>1. CASE UNCHANGED <<ledger, samples, temporal, state>>
    BY <1>1 DEF ReportedIsNewest
  <1>2. CASE ~UNCHANGED <<ledger, samples, temporal, state>>
    <2> DEFINE m == msg[w]
               t == SensorOf[m]
    <2>1. /\ m \in Messages /\ ledger \subseteq Messages /\ t \in Sensors
          /\ ledger' = ledger \cup {m}
          /\ \/ Advances(m, state[t]) /\ state' = [state EXCEPT ![t] = Merged(m, @)]
             \/ ~Advances(m, state[t]) /\ state' = state
          /\ DOMAIN state = Sensors
      BY <1>2, CommitShape DEF TelemetryTypeOK
    <2>2. /\ state[t].at \in Int /\ state[t].seq \in Int
          /\ TimeOf[m] \in Int /\ LastOf[m] \in Nat /\ NoTime < TimeOf[m]
          /\ SensorOf[m] = t /\ NoTime \in Int
      <3>1. state[t].at \in Int /\ state[t].seq \in Int
        BY <2>1, Zenon DEF TelemetryTypeOK
      <3>2. TimeOf[m] \in Int /\ LastOf[m] \in Nat /\ NoTime < TimeOf[m] /\ NoTime \in Int
        BY <2>1, TelemetryAssumption
      <3> QED
        BY <3>1, <3>2, Zenon
    <2> HIDE DEF m, t
    <2>3. ASSUME NEW s \in Sensors, s # t
          PROVE  /\ \/ state'[s] = InitialState[s]
                    \/ \E n \in ledger' :
                         /\ SensorOf[n] = s /\ state'[s].at = TimeOf[n]
                         /\ state'[s].boot = BootOf[n] /\ state'[s].seq = LastOf[n]
                 /\ \A n \in ledger' : SensorOf[n] = s =>
                      \/ TimeOf[n] < state'[s].at
                      \/ /\ TimeOf[n] = state'[s].at
                         /\ BootOf[n] = state'[s].boot => LastOf[n] <= state'[s].seq
      <3>1. state'[s] = state[s]
        BY <2>1, <2>3
      <3>2. /\ ledger \subseteq ledger'
            /\ \A n \in ledger' : SensorOf[n] = s => n \in ledger
        BY <2>1, <2>2, <2>3
      <3>3. /\ \/ state[s] = InitialState[s]
               \/ \E n \in ledger :
                    /\ SensorOf[n] = s /\ state[s].at = TimeOf[n]
                    /\ state[s].boot = BootOf[n] /\ state[s].seq = LastOf[n]
            /\ \A n \in ledger : SensorOf[n] = s =>
                 \/ TimeOf[n] < state[s].at
                 \/ /\ TimeOf[n] = state[s].at
                    /\ BootOf[n] = state[s].boot => LastOf[n] <= state[s].seq
        BY <2>3 DEF ReportedIsNewest
      <3> QED
        BY <3>1, <3>2, <3>3
    <2>4. /\ \/ state[t] = InitialState[t]
             \/ \E n \in ledger :
                  /\ SensorOf[n] = t /\ state[t].at = TimeOf[n]
                  /\ state[t].boot = BootOf[n] /\ state[t].seq = LastOf[n]
          /\ \A n \in ledger : SensorOf[n] = t =>
               \/ TimeOf[n] < state[t].at
               \/ /\ TimeOf[n] = state[t].at
                  /\ BootOf[n] = state[t].boot => LastOf[n] <= state[t].seq
      BY <2>1 DEF ReportedIsNewest
    <2>5. \A n \in ledger : /\ TimeOf[n] \in Int /\ LastOf[n] \in Nat
                            /\ NoTime < TimeOf[n]
      BY <2>1, TelemetryAssumption
    <2>6. CASE Advances(m, state[t]) /\ state' = [state EXCEPT ![t] = Merged(m, @)]
      <3>1. /\ state'[t].at = TimeOf[m] /\ state'[t].boot = BootOf[m]
            /\ state'[t].seq = LastOf[m]
        BY <2>1, <2>6 DEF Merged
      <3>2. \A n \in ledger : SensorOf[n] = t =>
              \/ TimeOf[n] < TimeOf[m]
              \/ /\ TimeOf[n] = TimeOf[m]
                 /\ BootOf[n] = BootOf[m] => LastOf[n] <= LastOf[m]
        BY <2>2, <2>4, <2>5, <2>6 DEF Advances
      <3>3. /\ \/ state'[t] = InitialState[t]
               \/ \E n \in ledger' :
                    /\ SensorOf[n] = t /\ state'[t].at = TimeOf[n]
                    /\ state'[t].boot = BootOf[n] /\ state'[t].seq = LastOf[n]
            /\ \A n \in ledger' : SensorOf[n] = t =>
                 \/ TimeOf[n] < state'[t].at
                 \/ /\ TimeOf[n] = state'[t].at
                    /\ BootOf[n] = state'[t].boot => LastOf[n] <= state'[t].seq
        BY <2>1, <2>2, <3>1, <3>2
      <3> QED
        BY <2>3, <3>3 DEF ReportedIsNewest
    <2>7. CASE ~Advances(m, state[t]) /\ state' = state
      <3>1. \/ TimeOf[m] < state[t].at
            \/ /\ TimeOf[m] = state[t].at
               /\ BootOf[m] = state[t].boot => LastOf[m] <= state[t].seq
        BY <2>2, <2>7 DEF Advances
      <3>2. /\ \/ state'[t] = InitialState[t]
               \/ \E n \in ledger' :
                    /\ SensorOf[n] = t /\ state'[t].at = TimeOf[n]
                    /\ state'[t].boot = BootOf[n] /\ state'[t].seq = LastOf[n]
            /\ \A n \in ledger' : SensorOf[n] = t =>
                 \/ TimeOf[n] < state'[t].at
                 \/ /\ TimeOf[n] = state'[t].at
                    /\ BootOf[n] = state'[t].boot => LastOf[n] <= state'[t].seq
        BY <2>1, <2>4, <2>7, <3>1
      <3> QED
        BY <2>3, <3>2 DEF ReportedIsNewest
    <2> QED
      BY <2>1, <2>6, <2>7
  <1> QED
    BY <1>1, <1>2
-----------------------------------------------------------------------------
LEMMA StoreInit == TelemetryInit => StoreInv
  BY TypeInit, TelemetryAssumption
     DEF TelemetryInit, StoreInv, TxBooks, ChecksStayTrue, StoredOnce, RangesNeverOverlap,
         ReportedIsNewest, Inserted, Tables

LEMMA StoreStep == StoreInv /\ [TelemetryNext]_telemetryVars => StoreInv'
  <1> SUFFICES ASSUME StoreInv, [TelemetryNext]_telemetryVars
               PROVE  StoreInv'
    OBVIOUS
  <1> USE DEF StoreInv
  <1>0. TelemetryTypeOK'
    BY TypeStep
  <1>1. ASSUME NEW w \in Workers, LocalStep(w)
        PROVE  StoreInv'
    <2>1. StoredOnce' /\ RangesNeverOverlap' /\ ReportedIsNewest'
      <3>1. UNCHANGED <<ledger, samples, temporal, state>>
        BY <1>1, LocalKeepsTables DEF dbVars
      <3>2. StoredOnce'
        BY <3>1 DEF StoredOnce
      <3>3. RangesNeverOverlap'
        BY <3>1 DEF RangesNeverOverlap
      <3>4. ReportedIsNewest'
        BY <3>1 DEF ReportedIsNewest
      <3> QED
        BY <3>2, <3>3, <3>4, Zenon
    <2> QED
      BY <1>0, <1>1, <2>1, LocalBooks, LocalChecks
  <1>2. ASSUME NEW w \in Workers, CommitTx(w)
        PROVE  StoreInv'
    <2>1. EndTx(w)
      BY <1>2 DEF CommitTx
    <2> QED
      BY <1>0, <1>2, <2>1, EndTxBooks, CommitChecks, CommitStores, CommitReports
  <1>3. ASSUME UNCHANGED <<ledger, samples, temporal, state, sensorLock, pc, msg,
                           wrote>>
        PROVE  StoreInv'
    <2>1. TxBooks'
      BY <1>3 DEF TxBooks
    <2>2. ChecksStayTrue'
      <3>1. ASSUME NEW w \in Workers
            PROVE  /\ Conflicting(msg[w])' = Conflicting(msg[w])
                   /\ Overlapping(msg[w])' = Overlapping(msg[w])
                   /\ Advances(msg[w], state[SensorOf[msg[w]]])'
                         <=> Advances(msg[w], state[SensorOf[msg[w]]])
        BY <1>3 DEF Conflicting, Overlapping, Advances
      <3> QED
        BY <1>3, <3>1, ZenonT(60) DEF ChecksStayTrue
    <2>3. StoredOnce' /\ RangesNeverOverlap'
      BY <1>3 DEF StoredOnce, RangesNeverOverlap
    <2>4. ReportedIsNewest'
      BY <1>3 DEF ReportedIsNewest
    <2> QED
      BY <1>0, <2>1, <2>2, <2>3, <2>4
  <1> QED
    BY <1>1, <1>2, <1>3, NextCases DEF Provision, telemetryVars, dbVars, txVars

LEMMA StoreInvariant == TelemetrySpec => []StoreInv
  BY StoreInit, StoreStep, PTL DEF TelemetrySpec

(* Whatever is redelivered, retried or aborted half way, a message is       *)
(* stored with all of its parts once, or with none (Persist).               *)
THEOREM MessagesStoredOnce == TelemetrySpec => []StoredOnce
  BY StoreInvariant, PTL DEF StoreInv

(* Concurrent workers never commit overlapping sequence ranges, although    *)
(* their range checks do not see each other (insertTelemetryLedger).        *)
THEOREM RangesDisjointForEver == TelemetrySpec => []RangesNeverOverlap
  BY StoreInvariant, PTL DEF StoreInv

(* The reads of a transaction are still true when it commits.               *)
THEOREM ReadsStayTrue == TelemetrySpec => []ChecksStayTrue
  BY StoreInvariant, PTL DEF StoreInv

(* The reported state of a twin is that of the newest stored measurement,   *)
(* in whatever order the messages come (sensorStateAdvances).               *)
THEOREM TwinShowsNewest == TelemetrySpec => []ReportedIsNewest
  BY StoreInvariant, PTL DEF StoreInv

(* A reported state is only replaced by a later one (sensorStateAdvances).  *)
THEOREM TwinNeverRegresses == TelemetrySpec => NeverRegresses
  <1> DEFINE Later == /\ ledger \subseteq ledger'
                      /\ \A s \in Sensors :
                           state'[s] # state[s] =>
                             /\ state'[s].version = state[s].version + 1
                             /\ \/ state'[s].at > state[s].at
                                \/ /\ state'[s].at = state[s].at
                                   /\ state'[s].boot = state[s].boot
                                   /\ state'[s].seq > state[s].seq
  <1>1. ASSUME StoreInv, [TelemetryNext]_telemetryVars
        PROVE  [Later]_telemetryVars
    <2>1. CASE UNCHANGED <<ledger, state>>
      BY <2>1
    <2>2. ASSUME NEW w \in Workers, CommitTx(w)
          PROVE  Later
      <3> DEFINE m == msg[w]
                 t == SensorOf[m]
      <3>1. CASE UNCHANGED <<ledger, state>>
        BY <3>1
      <3>2. CASE ~UNCHANGED <<ledger, state>>
        <4>1. /\ m \in Messages /\ t \in Sensors /\ ledger \subseteq ledger'
              /\ \/ /\ Advances(m, state[t])
                    /\ state' = [state EXCEPT ![t] = Merged(m, @)]
                 \/ state' = state
              /\ DOMAIN state = Sensors
          BY <1>1, <2>2, <3>2, CommitShape DEF StoreInv, TelemetryTypeOK
        <4>2. /\ state[t].at \in Int /\ state[t].seq \in Int /\ TimeOf[m] \in Int
              /\ LastOf[m] \in Nat /\ NoTime < TimeOf[m] /\ NoTime \in Int
          BY <1>1, <4>1, TelemetryAssumption DEF StoreInv, TelemetryTypeOK
        <4> HIDE DEF m, t
        <4> QED
          BY <4>1, <4>2 DEF Advances, Merged
      <3> QED
        BY <3>1, <3>2
    <2> QED
      BY <1>1, <2>1, <2>2, NextCases, LocalKeepsTables
         DEF Provision, telemetryVars, dbVars, txVars
  <1>2. StoreInv /\ [TelemetryNext]_telemetryVars => [Later]_telemetryVars
    BY <1>1
  <1> QED
    BY <1>2, StoreInvariant, PTL DEF TelemetrySpec, NeverRegresses

(* The store with its transactions, locks, aborts and ambiguous commits     *)
(* implements the ledger its callers rely on: messages are confirmed only   *)
(* when stored, stored once, compatible, and never forgotten.               *)
THEOREM StoreImplementsLedger == TelemetrySpec => ImplementsLedger
  <1>1. TelemetryInit => Promise!LedgerInit
    BY DEF TelemetryInit, Promise!LedgerInit
  <1>2. ASSUME StoreInv, [TelemetryNext]_telemetryVars
        PROVE  [Promise!LedgerNext]_(Promise!ledgerVars)
    <2>1. CASE UNCHANGED <<ledger, confirmed>>
      BY <2>1 DEF Promise!ledgerVars
    <2>2. ASSUME NEW w \in Workers, CommitTx(w)
          PROVE  [Promise!LedgerNext]_(Promise!ledgerVars)
      <3> DEFINE m == msg[w]
      <3>1. m \in Messages
        BY <1>2 DEF StoreInv, TelemetryTypeOK
      <3>2. confirmed' \in {confirmed, confirmed \cup {m}}
        BY <2>2 DEF CommitTx
      <3>3. confirmed' # confirmed => m \in ledger'
        <4>1. pc[w] \in {"commit", "commitDuplicate"}
          BY <2>2 DEF CommitTx
        <4>2. confirmed' # confirmed => Apply(w)
          BY <2>2, Zenon DEF CommitTx, Reports
        <4>3. /\ pc[w] = "commit" => "ledger" \in wrote[w]
              /\ pc[w] = "commitDuplicate" =>
                   m \in ledger /\ "ledger" \notin wrote[w]
          BY <1>2 DEF StoreInv, TxBooks, ChecksStayTrue, Inserted
        <4> QED
          BY <4>1, <4>2, <4>3 DEF Apply
      <3>4. ledger' # ledger => Promise!Store(m)
        <4>1. SUFFICES ASSUME ledger' # ledger
                       PROVE  Promise!Store(m)
          OBVIOUS
        <4>2. /\ Conflicting(m) = {} /\ Overlapping(m) = {}
              /\ ledger' = ledger \cup {m} /\ ledger \subseteq Messages
          BY <1>2, <2>2, <4>1, CommitShape DEF StoreInv, TelemetryTypeOK
        <4> HIDE DEF m
        <4> QED
          BY <3>1, <4>2, TelemetryAssumption
             DEF Conflicting, Overlapping, Promise!Store, Promise!Compatible,
                 Promise!SameStream, Promise!Overlap
      <3> HIDE DEF m
      <3> QED
        BY <3>1, <3>2, <3>3, <3>4
           DEF Promise!LedgerNext, Promise!Confirm, Promise!ledgerVars
    <2> QED
      BY <1>2, <2>1, <2>2, NextCases, LocalKeepsTables
         DEF Provision, telemetryVars, dbVars, txVars
  <1>3. StoreInv /\ [TelemetryNext]_telemetryVars => [Promise!LedgerNext]_(Promise!ledgerVars)
    BY <1>2
  <1> QED
    BY <1>1, <1>3, StoreInvariant, PTL
       DEF TelemetrySpec, ImplementsLedger, Promise!LedgerSpec

-----------------------------------------------------------------------------
AnyReceipt == [epoch : Nat \ {0}, nonce : Nat \ {0}]
AnyCommand == [name : {"CloseDrain", "RestartClosed"}, receipt : {None}]
              \cup [name : {"OpenVerified"}, receipt : AnyReceipt]

Typed ==
    /\ child \in {"none", "running", "exited"}
    /\ epoch \in Nat /\ nonce \in Nat /\ issued \in Nat
    /\ gate \in {"nil", "open", "closed"}
    /\ conn \in [Conns -> {"idle", "accepted", "dialing", "dialled", "piped"}]
    /\ lifetime \in [Conns -> Nat]
    /\ call \in [Handlers -> AnyCommand \cup {None}]
    /\ terminal \in BOOLEAN
    /\ lock \in Handlers \cup {"waiter", "main", "none"}

\* What the holder of the mutex has achieved.  stopLocked and spawnLocked run
\* behind a drained gate and, in a restart, on a lifecycle that has not failed.
Locked ==
    /\ lock = "none" <=> step = "idle"
    /\ step = "leave" => lock = "main"
    /\ step \in {"expect", "stop"} => gate = "nil"
    /\ step \in {"expect", "stop"} /\ lock \in Handlers => ~terminal

\* Before StartClosed there is nothing, and no command has come.
Starting ==
    phase = "starting" =>
        /\ child = "none" /\ gate = "nil" /\ ~terminal /\ step = "idle"
        /\ \A h \in Handlers : call[h] = None

\* Identities: a running child has an epoch, a challenge was issued, and an open
\* gate has spent its challenge.
Identified ==
    /\ child = "running" => epoch # 0
    /\ gate = "open" => nonce = 0
    /\ nonce <= issued
    /\ terminal => gate = "nil"

LifecycleInv == Typed /\ Locked /\ Starting /\ Identified /\ PipesBelongToTheGate

LEMMA LifecycleInitially == Init => LifecycleInv
<1> SUFFICES ASSUME Init PROVE LifecycleInv
  OBVIOUS
<1>1. Typed
  BY DEF Init, Typed
<1>2. Locked /\ Starting /\ Identified
  BY HandlerAssumption DEF Init, Locked, Starting, Identified
<1>3. PipesBelongToTheGate
  BY DEF Init, PipesBelongToTheGate
<1> QED
  BY <1>1, <1>2, <1>3 DEF LifecycleInv

\* A command that arrives names a receipt that was issued.
LEMMA CommandsAreTyped == ASSUME issued \in Nat PROVE Commands \subseteq AnyCommand
BY DEF Commands, Receipts, AnyCommand, AnyReceipt

\* The steps that neither touch the gate nor a connection.
LEMMA QuietPipes ==
    ASSUME PipesBelongToTheGate, UNCHANGED <<conn, lifetime, epoch>>, gate = "nil" <=> gate' = "nil"
    PROVE  PipesBelongToTheGate'
BY DEF PipesBelongToTheGate

\* A gate that is gone has no connection.
LEMMA NoGateNoPipes ==
    ASSUME PipesBelongToTheGate, UNCHANGED conn, gate = "nil" \/ Drained
    PROVE  PipesBelongToTheGate'
BY DEF PipesBelongToTheGate, Drained

\* What a release of the mutex does to the commands.
LEMMA Releases ==
    ASSUME Typed, Release
    PROVE  /\ call' \in [Handlers -> AnyCommand \cup {None}]
           /\ lock' = "none" /\ step' = "idle"
           /\ \A h \in Handlers : call[h] = None => call'[h] = None
BY DEF Release, Typed

LEMMA StartClosedKeeps ==
    ASSUME LifecycleInv, StartClosed
    PROVE  LifecycleInv'
<1> USE DEF LifecycleInv
<1>1. Typed'
  BY DEF StartClosed, Spawned, SpawnFailed, Typed, childVars, idVars, connVars, endVars
<1>2. Locked' /\ Starting' /\ Identified'
  BY HandlerAssumption DEF StartClosed, Spawned, SpawnFailed, Typed, Locked, Starting, Identified, Alive, childVars, idVars, connVars, endVars
<1>3. PipesBelongToTheGate'
  BY NoGateNoPipes DEF StartClosed, Spawned, SpawnFailed, connVars, Starting, Locked
<1> QED
  BY <1>1, <1>2, <1>3

LEMMA ChildExitsKeeps ==
    ASSUME LifecycleInv, ChildExits
    PROVE  LifecycleInv'
<1> USE DEF LifecycleInv
<1>1. Typed'
  BY DEF ChildExits, Typed, childVars, idVars, connVars, endVars
<1>2. Locked' /\ Starting' /\ Identified'
  BY HandlerAssumption DEF ChildExits, Typed, Locked, Starting, Identified, Alive, childVars, idVars, connVars, endVars
<1>3. PipesBelongToTheGate'
  BY QuietPipes DEF ChildExits, idVars, connVars
<1> QED
  BY <1>1, <1>2, <1>3

LEMMA WaitReturnsKeeps ==
    ASSUME LifecycleInv, WaitReturns
    PROVE  LifecycleInv'
<1> USE DEF LifecycleInv
<1>1. Typed'
  BY DEF WaitReturns, Shut, Typed, childVars, idVars, connVars, endVars
<1>2. Locked' /\ Starting' /\ Identified'
  BY HandlerAssumption DEF WaitReturns, Shut, Typed, Locked, Starting, Identified, Alive, childVars, idVars, connVars, endVars
<1>3. PipesBelongToTheGate'
  BY QuietPipes DEF WaitReturns, Shut, idVars, connVars
<1> QED
  BY <1>1, <1>2, <1>3

LEMMA FailLockedKeeps ==
    ASSUME LifecycleInv, FailLocked
    PROVE  LifecycleInv'
<1> USE DEF LifecycleInv
<1>1. Typed'
  BY Releases DEF FailLocked, Typed, childVars, idVars, connVars, endVars
<1>2. Locked' /\ Starting' /\ Identified'
  BY HandlerAssumption, Releases DEF FailLocked, Typed, Locked, Starting, Identified, Alive, childVars, idVars, connVars, endVars
<1>3. PipesBelongToTheGate'
  BY NoGateNoPipes DEF FailLocked, connVars, Starting, Locked
<1> QED
  BY <1>1, <1>2, <1>3

LEMMA ReceiveKeeps ==
    ASSUME LifecycleInv, NEW h \in Handlers, NEW c \in Commands, Receive(h, c)
    PROVE  LifecycleInv'
<1> USE DEF LifecycleInv
<1>1. Typed'
  BY CommandsAreTyped DEF Receive, Typed, childVars, idVars, connVars, endVars
<1>2. Locked' /\ Starting' /\ Identified'
  BY HandlerAssumption, CommandsAreTyped DEF Receive, Typed, Locked, Starting, Identified, Alive, childVars, idVars, connVars, endVars
<1>3. PipesBelongToTheGate'
  BY QuietPipes DEF Receive, idVars, connVars
<1> QED
  BY <1>1, <1>2, <1>3

LEMMA DroppedKeeps ==
    ASSUME LifecycleInv, NEW h \in Handlers, Dropped(h)
    PROVE  LifecycleInv'
<1> USE DEF LifecycleInv
<1>1. Typed'
  BY DEF Dropped, Typed, childVars, idVars, connVars, endVars
<1>2. Locked' /\ Starting' /\ Identified'
  BY HandlerAssumption DEF Dropped, Typed, Locked, Starting, Identified, Alive, childVars, idVars, connVars, endVars
<1>3. PipesBelongToTheGate'
  BY QuietPipes DEF Dropped, idVars, connVars
<1> QED
  BY <1>1, <1>2, <1>3

LEMMA OpenVerifiedKeeps ==
    ASSUME LifecycleInv, NEW h \in Handlers, OpenVerified(h)
    PROVE  LifecycleInv'
<1> USE DEF LifecycleInv
<1>1. Typed'
  BY DEF OpenVerified, Holds, Typed, childVars, idVars, connVars, endVars
<1>2. Locked' /\ Starting' /\ Identified'
  BY HandlerAssumption DEF OpenVerified, Holds, Typed, Locked, Starting, Identified, Alive, childVars, idVars, connVars, endVars
<1>3. PipesBelongToTheGate'
  BY QuietPipes, NoGateNoPipes DEF OpenVerified, Holds, idVars, connVars
<1> QED
  BY <1>1, <1>2, <1>3

LEMMA OpenRecheckKeeps ==
    ASSUME LifecycleInv, OpenRecheck
    PROVE  LifecycleInv'
<1> USE DEF LifecycleInv
<1>1. Typed'
  BY Releases DEF OpenRecheck, Shut, Typed, childVars, idVars, connVars, endVars
<1>2. Locked' /\ Starting' /\ Identified'
  BY HandlerAssumption, Releases DEF OpenRecheck, Shut, Typed, Locked, Starting, Identified, Alive, childVars, idVars, connVars, endVars
<1>3. PipesBelongToTheGate'
  BY QuietPipes DEF OpenRecheck, Shut, idVars, connVars
<1> QED
  BY <1>1, <1>2, <1>3

LEMMA CloseDrainKeeps ==
    ASSUME LifecycleInv, NEW h \in Handlers, CloseDrain(h)
    PROVE  LifecycleInv'
<1> USE DEF LifecycleInv
<1>1. Typed'
  BY DEF CloseDrain, Holds, Shut, Typed, childVars, idVars, connVars, endVars
<1>2. Locked' /\ Starting' /\ Identified'
  BY HandlerAssumption DEF CloseDrain, Holds, Shut, Typed, Locked, Starting, Identified, Alive, childVars, idVars, connVars, endVars
<1>3. PipesBelongToTheGate'
  BY QuietPipes DEF CloseDrain, Holds, Shut, idVars, connVars
<1> QED
  BY <1>1, <1>2, <1>3

LEMMA RestartClosedKeeps ==
    ASSUME LifecycleInv, NEW h \in Handlers, RestartClosed(h)
    PROVE  LifecycleInv'
<1> USE DEF LifecycleInv
<1>1. Typed'
  BY DEF RestartClosed, Holds, Shut, Typed, childVars, idVars, connVars, endVars
<1>2. Locked' /\ Starting' /\ Identified'
  <2>1. Locked'
    BY HandlerAssumption DEF RestartClosed, Holds, Shut, Typed, Locked, Identified, endVars
  <2>2. Starting' /\ Identified'
    BY HandlerAssumption DEF RestartClosed, Holds, Shut, Typed, Starting, Identified, childVars, idVars, endVars
  <2> QED
    BY <2>1, <2>2, Zenon
<1>3. PipesBelongToTheGate'
  BY QuietPipes DEF RestartClosed, Holds, Shut, idVars, connVars
<1> QED
  BY <1>1, <1>2, <1>3

LEMMA CloseLockedKeeps ==
    ASSUME LifecycleInv, CloseLocked
    PROVE  LifecycleInv'
<1> USE DEF LifecycleInv
<1>1. Typed'
  BY Releases DEF CloseLocked, Typed, childVars, idVars, connVars, endVars
<1>2. Locked' /\ Starting' /\ Identified'
  <2>1. Locked'
    BY HandlerAssumption, Releases DEF CloseLocked, Typed, Locked, Identified, endVars
  <2>2. Starting' /\ Identified'
    BY HandlerAssumption, Releases DEF CloseLocked, Typed, Starting, Identified, childVars, endVars
  <2> QED
    BY <2>1, <2>2, Zenon
<1>3. PipesBelongToTheGate'
  BY NoGateNoPipes DEF CloseLocked, connVars, Starting, Locked
<1> QED
  BY <1>1, <1>2, <1>3

LEMMA ExpectExitKeeps ==
    ASSUME LifecycleInv, ExpectExit
    PROVE  LifecycleInv'
<1> USE DEF LifecycleInv
<1>1. Typed'
  BY DEF ExpectExit, Typed, childVars, idVars, connVars, endVars
<1>2. Locked' /\ Starting' /\ Identified'
  BY HandlerAssumption DEF ExpectExit, Typed, Locked, Starting, Identified, Alive, childVars, idVars, connVars, endVars
<1>3. PipesBelongToTheGate'
  BY QuietPipes DEF ExpectExit, idVars, connVars
<1> QED
  BY <1>1, <1>2, <1>3

LEMMA StopAndSpawnKeeps ==
    ASSUME LifecycleInv, StopAndSpawn
    PROVE  LifecycleInv'
<1> USE DEF LifecycleInv
<1>1. Typed'
  <2>1. CASE Spawned
    BY <2>1, Releases DEF StopAndSpawn, Spawned, Typed, idVars, connVars, endVars
  <2>2. CASE SpawnFailed
    BY <2>2, Releases DEF StopAndSpawn, SpawnFailed, Typed, childVars, idVars, connVars, endVars
  <2>3. CASE ~Spawned /\ ~SpawnFailed
    BY <2>3 DEF StopAndSpawn, Typed, childVars, idVars, connVars, endVars
  <2> QED
    BY <2>1, <2>2, <2>3
<1>2. Locked' /\ Starting' /\ Identified'
  <2>1. Locked'
    BY HandlerAssumption, Releases DEF StopAndSpawn, Typed, Locked, endVars
  <2>2. Starting' /\ Identified'
    <3>1. phase # "starting" /\ phase' = phase /\ UNCHANGED <<gate, terminal>>
      BY DEF StopAndSpawn, Starting, endVars
    <3>2. gate = "nil" /\ nonce' <= issued' /\ (child' = "running" => epoch' # 0)
      BY DEF StopAndSpawn, Spawned, SpawnFailed, Typed, Locked, Identified, childVars, idVars
    <3> QED
      BY <3>1, <3>2 DEF Starting, Identified
  <2> QED
    BY <2>1, <2>2, Zenon
<1>3. PipesBelongToTheGate'
  BY QuietPipes, NoGateNoPipes DEF StopAndSpawn, Spawned, SpawnFailed, idVars, connVars, Locked
<1> QED
  BY <1>1, <1>2, <1>3

LEMMA AcceptKeeps ==
    ASSUME LifecycleInv, NEW c \in Conns, Accept(c)
    PROVE  LifecycleInv'
<1> USE DEF LifecycleInv
<1>1. Typed'
  BY DEF Accept, Typed, childVars, idVars, connVars, endVars
<1>2. Locked' /\ Starting' /\ Identified'
  BY HandlerAssumption DEF Accept, Typed, Locked, Starting, Identified, Alive, childVars, idVars, connVars, endVars
<1>3. PipesBelongToTheGate'
  BY DEF Accept, PipesBelongToTheGate, Typed, idVars
<1> QED
  BY <1>1, <1>2, <1>3

LEMMA TrackKeeps ==
    ASSUME LifecycleInv, NEW c \in Conns, Track(c)
    PROVE  LifecycleInv'
<1> USE DEF LifecycleInv
<1>1. Typed'
  BY DEF Track, Typed, childVars, idVars, connVars, endVars
<1>2. Locked' /\ Starting' /\ Identified'
  BY HandlerAssumption DEF Track, Typed, Locked, Starting, Identified, Alive, childVars, idVars, connVars, endVars
<1>3. PipesBelongToTheGate'
  BY DEF Track, PipesBelongToTheGate, Typed, idVars
<1> QED
  BY <1>1, <1>2, <1>3

LEMMA DialKeeps ==
    ASSUME LifecycleInv, NEW c \in Conns, Dial(c)
    PROVE  LifecycleInv'
<1> USE DEF LifecycleInv
<1>1. Typed'
  BY DEF Dial, Alive, Typed, childVars, idVars, connVars, endVars
<1>2. Locked' /\ Starting' /\ Identified'
  BY HandlerAssumption DEF Dial, Alive, Typed, Locked, Starting, Identified, Alive, childVars, idVars, connVars, endVars
<1>3. PipesBelongToTheGate'
  BY DEF Dial, Alive, PipesBelongToTheGate, Typed, idVars
<1> QED
  BY <1>1, <1>2, <1>3

LEMMA TrackUpstreamKeeps ==
    ASSUME LifecycleInv, NEW c \in Conns, TrackUpstream(c)
    PROVE  LifecycleInv'
<1> USE DEF LifecycleInv
<1>1. Typed'
  BY DEF TrackUpstream, Typed, childVars, idVars, connVars, endVars
<1>2. Locked' /\ Starting' /\ Identified'
  BY HandlerAssumption DEF TrackUpstream, Typed, Locked, Starting, Identified, Alive, childVars, idVars, connVars, endVars
<1>3. PipesBelongToTheGate'
  BY DEF TrackUpstream, PipesBelongToTheGate, Typed, idVars
<1> QED
  BY <1>1, <1>2, <1>3

LEMMA PipeEndsKeeps ==
    ASSUME LifecycleInv, NEW c \in Conns, PipeEnds(c)
    PROVE  LifecycleInv'
<1> USE DEF LifecycleInv
<1>1. Typed'
  BY DEF PipeEnds, Typed, childVars, idVars, connVars, endVars
<1>2. Locked' /\ Starting' /\ Identified'
  BY HandlerAssumption DEF PipeEnds, Typed, Locked, Starting, Identified, Alive, childVars, idVars, connVars, endVars
<1>3. PipesBelongToTheGate'
  BY DEF PipeEnds, PipesBelongToTheGate, Typed, idVars
<1> QED
  BY <1>1, <1>2, <1>3

LEMMA ServeEndsKeeps ==
    ASSUME LifecycleInv, ServeEnds
    PROVE  LifecycleInv'
<1> USE DEF LifecycleInv
<1>1. Typed'
  BY DEF ServeEnds, Typed, childVars, idVars, connVars, endVars
<1>2. Locked' /\ Starting' /\ Identified'
  BY HandlerAssumption DEF ServeEnds, Typed, Locked, Starting, Identified, Alive, childVars, idVars, connVars, endVars
<1>3. PipesBelongToTheGate'
  BY QuietPipes DEF ServeEnds, idVars, connVars
<1> QED
  BY <1>1, <1>2, <1>3

LEMMA ShutdownKeeps ==
    ASSUME LifecycleInv, Shutdown
    PROVE  LifecycleInv'
<1> USE DEF LifecycleInv
<1>1. Typed'
  BY DEF Shutdown, Shut, Typed, childVars, idVars, connVars, endVars
<1>2. Locked' /\ Starting' /\ Identified'
  BY HandlerAssumption DEF Shutdown, Shut, Typed, Locked, Starting, Identified, Alive, childVars, idVars, connVars, endVars
<1>3. PipesBelongToTheGate'
  BY QuietPipes DEF Shutdown, Shut, idVars, connVars
<1> QED
  BY <1>1, <1>2, <1>3

LEMMA ShutdownLockedKeeps ==
    ASSUME LifecycleInv, ShutdownLocked
    PROVE  LifecycleInv'
<1> USE DEF LifecycleInv
<1>1. Typed'
  BY DEF ShutdownLocked, Typed, childVars, idVars, connVars, endVars
<1>2. Locked' /\ Starting' /\ Identified'
  BY HandlerAssumption DEF ShutdownLocked, Typed, Locked, Starting, Identified, Alive, childVars, idVars, connVars, endVars
<1>3. PipesBelongToTheGate'
  BY NoGateNoPipes DEF ShutdownLocked, connVars, Starting, Locked
<1> QED
  BY <1>1, <1>2, <1>3

LEMMA ExitKeeps ==
    ASSUME LifecycleInv, Exit
    PROVE  LifecycleInv'
<1> USE DEF LifecycleInv
<1>1. Typed'
  BY Releases DEF Exit, Typed, childVars, idVars, connVars, endVars
<1>2. Locked' /\ Starting' /\ Identified'
  BY HandlerAssumption, Releases DEF Exit, Typed, Locked, Starting, Identified, Alive, childVars, idVars, connVars, endVars
<1>3. PipesBelongToTheGate'
  BY QuietPipes DEF Exit, idVars, connVars
<1> QED
  BY <1>1, <1>2, <1>3

\* Every step keeps the invariant.
LEMMA LifecycleStep == LifecycleInv /\ [Next]_vars => LifecycleInv'
<1> SUFFICES ASSUME LifecycleInv, [Next]_vars PROVE LifecycleInv'
  OBVIOUS
<1>1. CASE StartClosed \/ ChildExits \/ WaitReturns \/ FailLocked
  BY <1>1, StartClosedKeeps, ChildExitsKeeps, WaitReturnsKeeps, FailLockedKeeps
<1>2. ASSUME NEW h \in Handlers,
             \/ \E c \in Commands : Receive(h, c)
             \/ Dropped(h) \/ OpenVerified(h) \/ CloseDrain(h) \/ RestartClosed(h)
      PROVE  LifecycleInv'
  BY <1>2, ReceiveKeeps, DroppedKeeps, OpenVerifiedKeeps, CloseDrainKeeps, RestartClosedKeeps
<1>3. CASE OpenRecheck \/ CloseLocked \/ ExpectExit \/ StopAndSpawn
  BY <1>3, OpenRecheckKeeps, CloseLockedKeeps, ExpectExitKeeps, StopAndSpawnKeeps
<1>4. ASSUME NEW c \in Conns,
             Accept(c) \/ Track(c) \/ Dial(c) \/ TrackUpstream(c) \/ PipeEnds(c)
      PROVE  LifecycleInv'
  BY <1>4, AcceptKeeps, TrackKeeps, DialKeeps, TrackUpstreamKeeps, PipeEndsKeeps
<1>5. CASE ServeEnds \/ Shutdown \/ ShutdownLocked \/ Exit
  BY <1>5, ServeEndsKeeps, ShutdownKeeps, ShutdownLockedKeeps, ExitKeeps
<1>6. CASE UNCHANGED vars
  BY <1>6 DEF LifecycleInv, Typed, Locked, Starting, Identified, PipesBelongToTheGate,
     vars, childVars, idVars, connVars, endVars
<1> QED
  BY <1>1, <1>2, <1>3, <1>4, <1>5, <1>6 DEF Next, Ended

LEMMA LifecycleInvariance == Spec => []LifecycleInv
BY LifecycleInitially, LifecycleStep, PTL DEF Spec

-----------------------------------------------------------------------------
\* Whatever commands, exits, failures and shutdowns interleave, a connection is
\* there only while the gate is, and it reaches the lifetime of the broker that
\* is in force: no restart leaves a pipe to the child before (gate.close waits
\* for its goroutines).
THEOREM PipesAreGated == Spec => []PipesBelongToTheGate
BY LifecycleInvariance, PTL DEF LifecycleInv

\* The controller implements the gate its backend relies on: one child at a
\* time, spawned behind a closed gate on a lifecycle that has not failed, and a
\* gate that opens once per challenge, for the receipt that names it.
THEOREM ControllerImplementsGate == Spec => ImplementsGate
<1>1. Init => Gate!GateInit
  BY DEF Init, Gate!GateInit, Alive
<1>2. LifecycleInv /\ [Next]_vars => [Gate!GateNext]_(Gate!gateVars)
  <2> SUFFICES ASSUME LifecycleInv, [Next]_vars PROVE [Gate!GateNext]_(Gate!gateVars)
    OBVIOUS
  <2> USE DEF LifecycleInv, Gate!gateVars, Gate!GateNext
  <2>1. CASE StartClosed
    BY <2>1 DEF StartClosed, Spawned, SpawnFailed, Starting, Alive, endVars,
       Gate!GateSpawn, Gate!GateSpawnFails
  <2>2. CASE ChildExits
    BY <2>2 DEF ChildExits, Alive, idVars, endVars, Gate!GateChildGone
  <2>3. ASSUME Shut, UNCHANGED <<child, idVars, terminal>>
        PROVE  [Gate!GateNext]_(Gate!gateVars)
    BY <2>3 DEF Shut, Alive, idVars, Identified, Gate!GateShut
  <2>4. CASE WaitReturns
    BY <2>3, <2>4 DEF WaitReturns, Alive, idVars, endVars
  <2>5. CASE FailLocked
    BY <2>5 DEF FailLocked, childVars, Alive, Gate!GateFail
  <2>6. ASSUME UNCHANGED <<child, idVars, gate, terminal>>
        PROVE  [Gate!GateNext]_(Gate!gateVars)
    BY <2>6 DEF Alive, idVars
  <2>7. ASSUME NEW h \in Handlers, (\E c \in Commands : Receive(h, c)) \/ Dropped(h)
        PROVE  [Gate!GateNext]_(Gate!gateVars)
    BY <2>6, <2>7 DEF Receive, Dropped, childVars, endVars
  <2>8. ASSUME NEW h \in Handlers, OpenVerified(h)
        PROVE  [Gate!GateNext]_(Gate!gateVars)
    <3>1. CASE terminal \/ ~Alive \/ gate # "nil" \/ ~ReceiptMatches(call[h].receipt)
      BY <2>6, <2>8, <3>1 DEF OpenVerified, childVars, idVars, endVars
    <3>2. CASE ~(terminal \/ ~Alive \/ gate # "nil" \/ ~ReceiptMatches(call[h].receipt))
      <4>1. call[h] \in AnyCommand /\ call[h].name = "OpenVerified"
        BY <2>8 DEF Typed, OpenVerified, Holds
      <4>2. nonce # 0 /\ epoch # 0
        BY <3>2, <4>1 DEF AnyCommand, AnyReceipt, ReceiptMatches
      <4> QED
        BY <2>8, <3>2, <4>2 DEF OpenVerified, Alive, childVars, endVars, Gate!GateOpen
    <3> QED
      BY <3>1, <3>2
  <2>9. CASE OpenRecheck
    BY <2>3, <2>6, <2>9 DEF OpenRecheck, childVars, endVars
  <2>10. ASSUME NEW h \in Handlers, CloseDrain(h) \/ RestartClosed(h)
         PROVE  [Gate!GateNext]_(Gate!gateVars)
    BY <2>3, <2>6, <2>10 DEF CloseDrain, RestartClosed, childVars, endVars
  <2>11. CASE CloseLocked
    BY <2>11 DEF CloseLocked, Alive, childVars, endVars, Gate!GateShut
  <2>12. CASE ExpectExit
    BY <2>6, <2>12 DEF ExpectExit, endVars
  <2>13. CASE StopAndSpawn
    <3>1. gate = "nil" /\ ~terminal /\ UNCHANGED <<gate, terminal>>
      BY <2>13 DEF StopAndSpawn, Locked, endVars
    <3>2. CASE child = "exited" /\ Spawned
      BY <3>1, <3>2 DEF Spawned, Alive, Gate!GateSpawn
    <3>3. CASE child = "exited" /\ SpawnFailed
      BY <3>1, <3>3 DEF SpawnFailed, Alive, Gate!GateSpawnFails
    <3>4. CASE UNCHANGED <<childVars, idVars>>
      BY <3>1, <3>4, <2>6 DEF childVars
    <3> QED
      BY <2>13, <3>2, <3>3, <3>4 DEF StopAndSpawn
  <2>14. ASSUME NEW c \in Conns,
                Accept(c) \/ Track(c) \/ Dial(c) \/ TrackUpstream(c) \/ PipeEnds(c)
         PROVE  [Gate!GateNext]_(Gate!gateVars)
    BY <2>6, <2>14 DEF Accept, Track, Dial, TrackUpstream, PipeEnds, childVars, endVars
  <2>15. CASE ServeEnds
    BY <2>6, <2>15 DEF ServeEnds, childVars, endVars
  <2>16. CASE Shutdown
    BY <2>3, <2>16 DEF Shutdown, childVars, endVars
  <2>17. CASE ShutdownLocked
    BY <2>17 DEF ShutdownLocked, childVars, Alive, Gate!GateFail
  <2>18. CASE Exit
    BY <2>18 DEF Exit, Alive, idVars, endVars, Gate!GateChildGone
  <2>19. CASE UNCHANGED vars
    BY <2>6, <2>19 DEF vars, childVars, endVars
  <2> QED
    BY <2>1, <2>2, <2>4, <2>5, <2>7, <2>8, <2>9, <2>10, <2>11, <2>12, <2>13, <2>14, <2>15,
       <2>16, <2>17, <2>18, <2>19 DEF Next, Ended
<1> QED
  BY <1>1, <1>2, LifecycleInitially, LifecycleInvariance, PTL DEF Spec, ImplementsGate, Gate!GateSpec

\* A receipt opens the gate at most once.  The step that opens it spends the
\* challenge, and a challenge that is replaced is replaced by one that was never
\* issued before: what matched once never matches again, whoever resends it and
\* however late.
ChallengesAreFresh ==
    [][/\ nonce' \in {0, nonce} \/ nonce' > issued
       /\ gate # "open" /\ gate' = "open" => nonce # 0 /\ nonce' = 0
       /\ issued <= issued']_vars
THEOREM ReceiptsAreSpent == Spec => [](nonce <= issued) /\ ChallengesAreFresh
<1>1. LifecycleInv /\ [Next]_vars =>
        [/\ nonce' \in {0, nonce} \/ nonce' > issued
         /\ gate # "open" /\ gate' = "open" => nonce # 0 /\ nonce' = 0
         /\ issued <= issued']_vars
  <2> SUFFICES ASSUME LifecycleInv, Next
               PROVE  /\ nonce' \in {0, nonce} \/ nonce' > issued
                      /\ gate # "open" /\ gate' = "open" => nonce # 0 /\ nonce' = 0
                      /\ issued <= issued'
    BY DEF vars
  <2>0. issued \in Nat
    BY DEF LifecycleInv, Typed
  <2>1. ASSUME UNCHANGED idVars, gate' = "open" => gate = "open"
        PROVE  /\ nonce' \in {0, nonce} /\ (gate' = "open" => gate = "open") /\ issued <= issued'
    BY <2>0, <2>1 DEF idVars
  <2>2. CASE StartClosed
    BY <2>0, <2>2 DEF StartClosed, Spawned, SpawnFailed
  <2>3. CASE StopAndSpawn
    BY <2>0, <2>3 DEF StopAndSpawn, Spawned, SpawnFailed, idVars
  <2>4. CASE CloseLocked
    BY <2>0, <2>4 DEF CloseLocked
  <2>5. CASE FailLocked \/ ShutdownLocked
    BY <2>0, <2>5 DEF FailLocked, ShutdownLocked
  <2>6. ASSUME NEW h \in Handlers, OpenVerified(h)
        PROVE  /\ nonce' \in {0, nonce} /\ issued <= issued'
               /\ gate # "open" /\ gate' = "open" => nonce # 0 /\ nonce' = 0
    <3>1. call[h] \in AnyCommand /\ call[h].name = "OpenVerified"
      BY <2>6 DEF LifecycleInv, Typed, OpenVerified, Holds
    <3>2. call[h].receipt.nonce # 0
      BY <3>1 DEF AnyCommand, AnyReceipt
    <3>3. issued' = issued
      BY <2>6, Zenon DEF OpenVerified
    <3>4. nonce' \in {0, nonce}
      BY <2>6 DEF OpenVerified
    <3>5. gate # "open" /\ gate' = "open" => nonce = call[h].receipt.nonce /\ nonce' = 0
      BY <2>6 DEF OpenVerified, ReceiptMatches
    <3> QED
      BY <2>0, <3>2, <3>3, <3>4, <3>5
  <2>7. CASE ChildExits \/ WaitReturns \/ OpenRecheck \/ ExpectExit \/ ServeEnds \/ Shutdown \/ Exit
    BY <2>1, <2>7 DEF ChildExits, WaitReturns, OpenRecheck, ExpectExit, ServeEnds, Shutdown, Exit, Shut
  <2>8. ASSUME NEW h \in Handlers,
               \/ \E c \in Commands : Receive(h, c)
               \/ Dropped(h) \/ CloseDrain(h) \/ RestartClosed(h)
        PROVE  UNCHANGED idVars /\ (gate' = "open" => gate = "open")
    BY <2>8 DEF Receive, Dropped, CloseDrain, RestartClosed, Shut
  <2>9. ASSUME NEW c \in Conns,
               Accept(c) \/ Track(c) \/ Dial(c) \/ TrackUpstream(c) \/ PipeEnds(c)
        PROVE  UNCHANGED <<idVars, gate>>
    BY <2>9 DEF Accept, Track, Dial, TrackUpstream, PipeEnds
  <2>10. CASE Ended
    BY <2>1, <2>10 DEF Ended, vars
  <2> QED
    BY <2>1, <2>2, <2>3, <2>4, <2>5, <2>6, <2>7, <2>8, <2>9, <2>10 DEF Next
<1>2. LifecycleInv => nonce <= issued
  BY DEF LifecycleInv, Identified
<1> QED
  BY <1>1, <1>2, LifecycleInvariance, PTL DEF Spec, ChallengesAreFresh

\* A lifecycle that has failed or was shut down is closed for good: no gate, no
\* connection, and no later step revives it.
FailedIsClosed == terminal => gate = "nil" /\ Drained
TerminalIsFinal == [][terminal => terminal']_vars
THEOREM FailureIsFinal == Spec => []FailedIsClosed /\ TerminalIsFinal
<1>1. LifecycleInv => FailedIsClosed
  BY DEF LifecycleInv, Identified, PipesBelongToTheGate, FailedIsClosed, Drained
<1>2. [Next]_vars => [terminal => terminal']_vars
  BY DEF Next, vars, endVars, StartClosed, ChildExits, WaitReturns, FailLocked, Receive, Dropped,
     OpenVerified, CloseDrain, RestartClosed, OpenRecheck, CloseLocked, ExpectExit, StopAndSpawn,
     Accept, Track, Dial, TrackUpstream, PipeEnds, ServeEnds, Shutdown, ShutdownLocked, Exit, Ended
<1> QED
  BY <1>1, <1>2, LifecycleInvariance, PTL DEF Spec, TerminalIsFinal
=============================================================================

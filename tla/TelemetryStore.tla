--------------------------- MODULE TelemetryStore ---------------------------
(***************************************************************************)
(* Persistence of telemetry batches on the server                          *)
(* (src/src/internal/telemetry/postgres_*.go): several workers, each in a  *)
(* READ COMMITTED transaction that locks the Sensor row, inserts the row   *)
(* of the message ledger, checks the sequence range, copies the samples,   *)
(* advances the reported state of the Sensor twin and appends a temporal   *)
(* value, and commits.  Every SQL statement is a step.                     *)
(*                                                                         *)
(* A message is a validated batch; two with the same key are two contents  *)
(* under one message id.  The same message may be persisted any number of  *)
(* times, by any workers at once.  Uncommitted work of a worker is what    *)
(* it wrote; it takes effect when the transaction commits.                 *)
(***************************************************************************)
EXTENDS Integers, FiniteSets

CONSTANTS
    Messages, Workers, Sensors,
    KeyOf, SensorOf, BootOf, FirstOf, LastOf,   \* columns of the ledger row
    TimeOf,         \* measurement time of the last sample
    LegacyKeys,     \* keys of ledger rows older than the provenance columns
    InitialState,   \* reported state of each Sensor twin to begin with
    NoTime,         \* last_reported_at is NULL
    NoWorker        \* nobody holds the lock

ASSUME TelemetryAssumption ==
    /\ NoWorker \notin Workers
    /\ NoTime \in Int
    /\ SensorOf \in [Messages -> Sensors]
    /\ FirstOf \in [Messages -> Nat] /\ LastOf \in [Messages -> Nat]
    /\ TimeOf \in [Messages -> Int]
    /\ \A m \in Messages : FirstOf[m] <= LastOf[m] /\ NoTime < TimeOf[m]
    /\ DOMAIN InitialState = Sensors
    /\ \A s \in Sensors :
           /\ InitialState[s].version \in Nat
           /\ InitialState[s].at \in Int
           /\ NoTime <= InitialState[s].at
           /\ InitialState[s].seq \in Int

VARIABLES
    ledger,         \* processed_messages: the committed messages
    samples,        \* telemetry: how often the samples of each are there
    temporal,       \* twin_temporal_values: the same of its interval value
    state,          \* twin_states: the reported state of each Sensor
    provisioned,    \* Sensors whose resource graph is provisioned
    sensorLock,     \* who holds the row lock of each Sensor
    pc, msg,        \* where each worker is, and with which message
    wrote,          \* what its transaction has written so far
    confirmed       \* messages that Persist has reported as committed

dbVars == <<ledger, samples, temporal, state, provisioned>>
txVars == <<sensorLock, pc, msg, wrote>>
telemetryVars == <<dbVars, txVars, confirmed>>

Steps == {"idle", "resolve", "insert", "overlap", "copy", "apply", "append",
          "commit", "commitDuplicate"}
Tables == {"ledger", "samples", "state", "temporal"}
-----------------------------------------------------------------------------
(* Locks. *)

MutLockFree(s) == TRUE
LockFree(s) == sensorLock[s] = NoWorker

(* The INSERT waits for an uncommitted row with the same key.               *)
KeyFree(w) ==
    \A v \in Workers \ {w} :
        "ledger" \in wrote[v] => KeyOf[msg[v]] # KeyOf[msg[w]]

(* FOR UPDATE on the twin_states row, taken by the step "apply".            *)
StateRowFree(w) ==
    \A v \in Workers \ {w} :
        pc[v] \in {"append", "commit"} => SensorOf[msg[v]] # SensorOf[msg[w]]

(* Commit and rollback release every lock of the transaction.               *)
MutReleased(w) == [s \in Sensors |-> IF sensorLock[s] = w /\ wrote[w] = Tables
                                     THEN NoWorker ELSE sensorLock[s]]
Released(w) == [s \in Sensors |-> IF sensorLock[s] = w
                                  THEN NoWorker ELSE sensorLock[s]]

EndTx(w) ==
    /\ sensorLock' = Released(w)
    /\ pc' = [pc EXCEPT ![w] = "idle"]
    /\ wrote' = [wrote EXCEPT ![w] = {}]
    /\ UNCHANGED msg

GoTo(w, step) == pc' = [pc EXCEPT ![w] = step]
Write(w, table) == wrote' = [wrote EXCEPT ![w] = @ \cup {table}]
-----------------------------------------------------------------------------
(* Persist, statement by statement. *)

Begin(w, m) ==
    /\ pc[w] = "idle"
    /\ GoTo(w, "resolve")
    /\ msg' = [msg EXCEPT ![w] = m]
    /\ UNCHANGED <<dbVars, sensorLock, wrote, confirmed>>

(* resolveTelemetryResource: the Sensor row is locked FOR UPDATE.           *)
LockSensor(w) ==
    LET s == SensorOf[msg[w]] IN
    /\ pc[w] = "resolve"
    /\ s \in provisioned
    /\ LockFree(s)
    /\ sensorLock' = [sensorLock EXCEPT ![s] = w]
    /\ GoTo(w, "insert")
    /\ UNCHANGED <<dbVars, msg, wrote, confirmed>>

(* The committed ledger rows that the INSERT conflicts with.                *)
Conflicting(m) == {n \in ledger : KeyOf[n] = KeyOf[m]}

(* insertTelemetryLedger: the key is new.                                   *)
InsertLedger(w) ==
    /\ pc[w] = "insert"
    /\ KeyFree(w)
    /\ KeyOf[msg[w]] \notin LegacyKeys
    /\ Conflicting(msg[w]) = {}
    /\ Write(w, "ledger")
    /\ GoTo(w, "overlap")
    /\ UNCHANGED <<dbVars, sensorLock, msg, confirmed>>

(* The key is there with the same provenance: a committed duplicate.        *)
Duplicate(w) ==
    /\ pc[w] = "insert"
    /\ KeyFree(w)
    /\ KeyOf[msg[w]] \notin LegacyKeys
    /\ msg[w] \in Conflicting(msg[w])
    /\ GoTo(w, "commitDuplicate")
    /\ UNCHANGED <<dbVars, sensorLock, msg, wrote, confirmed>>

(* The range check reads what is committed, other keys only.                *)
Overlapping(m) ==
    {n \in ledger : /\ SensorOf[n] = SensorOf[m] /\ BootOf[n] = BootOf[m]
                    /\ FirstOf[n] <= LastOf[m] /\ LastOf[n] >= FirstOf[m]
                    /\ KeyOf[n] # KeyOf[m]}

CheckOverlap(w) ==
    /\ pc[w] = "overlap"
    /\ Overlapping(msg[w]) = {}
    /\ GoTo(w, "copy")
    /\ UNCHANGED <<dbVars, sensorLock, msg, wrote, confirmed>>

CopySamples(w) ==
    /\ pc[w] = "copy"
    /\ Write(w, "samples")
    /\ GoTo(w, "apply")
    /\ UNCHANGED <<dbVars, sensorLock, msg, confirmed>>

(* sensorStateAdvances: a newer measurement time, or the same time within   *)
(* the same boot and a larger sequence number.                              *)
MutAdvances(m, st) ==
    \/ st.at = NoTime
    \/ TimeOf[m] > st.at
    \/ TimeOf[m] = st.at
Advances(m, st) ==
    \/ st.at = NoTime
    \/ TimeOf[m] > st.at
    \/ TimeOf[m] = st.at /\ BootOf[m] = st.boot /\ st.seq < LastOf[m]

(* applySensorReportedState: the row is read and updated under its lock.    *)
ApplyReportedState(w) ==
    /\ pc[w] = "apply"
    /\ StateRowFree(w)
    /\ IF Advances(msg[w], state[SensorOf[msg[w]]])
       THEN Write(w, "state")
       ELSE UNCHANGED wrote
    /\ GoTo(w, "append")
    /\ UNCHANGED <<dbVars, sensorLock, msg, confirmed>>

AppendTemporal(w) ==
    /\ pc[w] = "append"
    /\ Write(w, "temporal")
    /\ GoTo(w, "commit")
    /\ UNCHANGED <<dbVars, sensorLock, msg, confirmed>>

(* The effect of the writes of worker w on the committed tables.            *)
Added(counts, w, table) ==
    IF table \in wrote[w] THEN [counts EXCEPT ![msg[w]] = @ + 1] ELSE counts

Merged(m, st) ==
    [version |-> st.version + 1, at |-> TimeOf[m], boot |-> BootOf[m],
     seq |-> LastOf[m]]

Apply(w) ==
    /\ ledger' = IF "ledger" \in wrote[w] THEN ledger \cup {msg[w]} ELSE ledger
    /\ samples' = Added(samples, w, "samples")
    /\ temporal' = Added(temporal, w, "temporal")
    /\ state' = IF "state" \in wrote[w]
                THEN [state EXCEPT ![SensorOf[msg[w]]] = Merged(msg[w], @)]
                ELSE state
    /\ UNCHANGED provisioned

(* What Persist may report of a commit that took effect or did not: an      *)
(* unconfirmed outcome proves neither.                                      *)
Reports(applied) == IF applied THEN BOOLEAN ELSE {FALSE}

(* Commit: of a new message, or of the transaction that found a duplicate,  *)
(* whose message is committed already.                                      *)
CommitTx(w) ==
    \E applied \in BOOLEAN :
        /\ pc[w] \in {"commit", "commitDuplicate"}
        /\ IF applied THEN Apply(w) ELSE UNCHANGED dbVars
        /\ \E confirm \in Reports(applied) :
               confirmed' = IF confirm THEN confirmed \cup {msg[w]}
                                       ELSE confirmed
        /\ EndTx(w)

(* The exits that reject the message: an unknown Sensor, a key of a row     *)
(* without provenance or with other contents, an overlapping range.         *)
Reject(w) ==
    /\ \/ pc[w] = "resolve" /\ SensorOf[msg[w]] \notin provisioned
       \/ /\ pc[w] = "insert" /\ KeyFree(w)
          /\ \/ KeyOf[msg[w]] \in LegacyKeys
             \/ Conflicting(msg[w]) \ {msg[w]} # {}
       \/ pc[w] = "overlap" /\ Overlapping(msg[w]) # {}
    /\ EndTx(w)
    /\ UNCHANGED <<dbVars, confirmed>>

(* A statement fails, the deadline passes, the graph is incomplete or the   *)
(* server dies: the transaction is rolled back.                             *)
Abort(w) ==
    /\ pc[w] # "idle"
    /\ EndTx(w)
    /\ UNCHANGED <<dbVars, confirmed>>

(* Provisioning of a Sensor, one transaction of another component.          *)
Provision(s) ==
    /\ s \notin provisioned
    /\ provisioned' = provisioned \cup {s}
    /\ UNCHANGED <<ledger, samples, temporal, state, txVars, confirmed>>
-----------------------------------------------------------------------------
TelemetryInit ==
    /\ ledger = {} /\ confirmed = {}
    /\ samples = [m \in Messages |-> 0]
    /\ temporal = [m \in Messages |-> 0]
    /\ state = InitialState
    /\ provisioned = {}
    /\ sensorLock = [s \in Sensors |-> NoWorker]
    /\ pc = [w \in Workers |-> "idle"]
    /\ msg \in [Workers -> Messages]
    /\ wrote = [w \in Workers |-> {}]

Work(w) ==
    \/ LockSensor(w) \/ InsertLedger(w) \/ Duplicate(w) \/ CheckOverlap(w)
    \/ CopySamples(w) \/ ApplyReportedState(w) \/ AppendTemporal(w)
    \/ CommitTx(w) \/ Reject(w)

TelemetryNext ==
    \/ \E w \in Workers : Work(w) \/ Abort(w) \/ \E m \in Messages : Begin(w, m)
    \/ \E s \in Sensors : Provision(s)

TelemetrySpec == TelemetryInit /\ [][TelemetryNext]_telemetryVars

(* PostgreSQL grants a lock to its waiters in turn; nothing relies on the   *)
(* deadline.                                                                *)
FairTelemetrySpec == TelemetrySpec /\ \A w \in Workers : SF_telemetryVars(Work(w))
-----------------------------------------------------------------------------
(* Properties. *)

(* The type of the state.                                                   *)
TelemetryTypeOK ==
    /\ ledger \subseteq Messages /\ confirmed \subseteq Messages
    /\ samples \in [Messages -> Nat] /\ temporal \in [Messages -> Nat]
    /\ DOMAIN state = Sensors
    /\ \A s \in Sensors : /\ state[s].version \in Nat
                          /\ state[s].at \in Int /\ state[s].seq \in Int
    /\ provisioned \subseteq Sensors
    /\ sensorLock \in [Sensors -> Workers \cup {NoWorker}]
    /\ pc \in [Workers -> Steps] /\ msg \in [Workers -> Messages]
    /\ wrote \in [Workers -> SUBSET Tables]
    /\ \A s \in Sensors :
           sensorLock[s] # NoWorker => /\ pc[sensorLock[s]] \notin {"idle", "resolve"}
                                       /\ SensorOf[msg[sensorLock[s]]] = s

(* The ledger holds one row per key.  The samples and the temporal value of *)
(* a message are there exactly once when its ledger row is and not at all   *)
(* otherwise, however often it was delivered, retried after an unknown      *)
(* commit, or aborted half way (Persist).                                   *)
StoredOnce ==
    /\ \A m, n \in ledger : m # n => KeyOf[m] # KeyOf[n]
    /\ \A m \in Messages :
           LET copies == IF m \in ledger THEN 1 ELSE 0
           IN  samples[m] = copies /\ temporal[m] = copies

(* No two rows of a Sensor and boot share a sequence number, although the   *)
(* range check reads only what was committed when it ran: the Sensor lock   *)
(* closes the gap (insertTelemetryLedger).                                  *)
RangesNeverOverlap ==
    \A m, n \in ledger :
        m # n /\ SensorOf[m] = SensorOf[n] /\ BootOf[m] = BootOf[n] =>
            LastOf[m] < FirstOf[n] \/ LastOf[n] < FirstOf[m]

(* What a transaction read under READ COMMITTED still holds when it commits *)
(* several statements later, whatever the other workers committed in        *)
(* between: its key is new and its range free, the duplicate it found is    *)
(* there, and its decision on the reported state is still the right one.    *)
Inserted == {"overlap", "copy", "apply", "append", "commit"}
ChecksStayTrue ==
    \A w \in Workers :
        /\ pc[w] \in Inserted => Conflicting(msg[w]) = {}
        /\ pc[w] \in Inserted \ {"overlap"} => Overlapping(msg[w]) = {}
        /\ pc[w] = "commitDuplicate" => msg[w] \in ledger
        /\ pc[w] \in {"append", "commit"} =>
               ("state" \in wrote[w] <=> Advances(msg[w], state[SensorOf[msg[w]]]))

(* The reported state of a Sensor shows the newest committed measurement    *)
(* whatever the order of arrival; among measurements of the same time the   *)
(* boot that came first keeps it, with its largest sequence number          *)
(* (sensorStateAdvances).                                                   *)
ReportedIsNewest ==
    \A s \in Sensors :
        /\ \/ state[s] = InitialState[s]
           \/ \E m \in ledger :
                  /\ SensorOf[m] = s /\ state[s].at = TimeOf[m]
                  /\ state[s].boot = BootOf[m] /\ state[s].seq = LastOf[m]
        /\ \A m \in ledger :
               SensorOf[m] = s =>
                   \/ TimeOf[m] < state[s].at
                   \/ /\ TimeOf[m] = state[s].at
                      /\ BootOf[m] = state[s].boot => LastOf[m] <= state[s].seq

(* A reported state is only ever replaced by a later one, with its version  *)
(* counted up once, and no committed message is forgotten.                  *)
NeverRegresses ==
    [][/\ ledger \subseteq ledger'
       /\ \A s \in Sensors :
              state'[s] # state[s] =>
                  /\ state'[s].version = state[s].version + 1
                  /\ \/ state'[s].at > state[s].at
                     \/ /\ state'[s].at = state[s].at
                        /\ state'[s].boot = state[s].boot
                        /\ state'[s].seq > state[s].seq]_telemetryVars

(* Seen from its callers the store is the ledger they rely on; in           *)
(* particular Persist reports a message as committed, new or duplicate,     *)
(* only when it is.                                                         *)
Promise == INSTANCE Ledger WITH stored <- ledger
ImplementsLedger == Promise!LedgerSpec

(* Every Persist returns: the locks of the workers never form a cycle and   *)
(* none is left behind.                                                     *)
PersistReturns == \A w \in Workers : pc[w] # "idle" ~> pc[w] = "idle"
=============================================================================

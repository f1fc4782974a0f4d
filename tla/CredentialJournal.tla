--------------------------- MODULE CredentialJournal ---------------------------
(***************************************************************************)
(* The PostgreSQL journal of MQTT credential operations under the           *)
(* simplified execution contract: the table gateway_mqtt_credential_events  *)
(* (one row per operation) and its projection gateway_mqtt_credentials (one *)
(* row per gateway).  Each action is one transaction of PostgresRepository; *)
(* it locks the gateway row FOR UPDATE first, so the transactions on a      *)
(* gateway are serial.                                                      *)
(*                                                                          *)
(* An operation is identified by its (actor, idempotency key) pair: there   *)
(* is at most one event for it, and its UUID is drawn together with it.     *)
(* Keys is therefore also the bound on the number of operations.            *)
(* Timestamps, phases and evidence flags are left out: the guards of the    *)
(* transactions compare statuses, versions and the last operation.          *)
(***************************************************************************)
EXTENDS Naturals, FiniteSets, FiniteSetsExt

CONSTANTS
    Gateways,   \* gateway identifiers
    Keys,       \* (actor, idempotency key) pairs, hence operations
    None        \* no operation, no event, no credential row

VARIABLES
    events,     \* Keys -> event row or None
    creds       \* Gateways -> credential row or None

journalVars == <<events, creds>>

Actions == {"provision", "rotate", "revoke"}
Reasons == {"recovery_after_unknown", "lost_secret_recovery"}
Outcomes == {"success", "unchanged", "recovery"}
Transient == {"provisioning", "rotating", "revoking"}
CredentialStatus == Transient \cup {"active", "revoked", "failed", "recovery_needed"}
OpenStatus == {"pending", "recovery_needed"}

\* CredentialSnapshot: what an event keeps of the credential before it.
Snapshot == [status : CredentialStatus, version : Nat]
Event == [gateway : Gateways, action : Actions \cup {"reset"},
          status : OpenStatus \cup {"succeeded", "failed"}, version : Nat,
          previous : Snapshot \cup {None}, predecessor : Keys \cup {None},
          reason : Reasons \cup {None}]
Credential == [status : CredentialStatus, version : Nat, last : Keys]

ASSUME NoneAssumption == None \notin Keys \cup Snapshot \cup Event \cup Credential

JournalInit ==
    /\ events = [k \in Keys |-> None]
    /\ creds = [g \in Gateways |-> None]

-----------------------------------------------------------------------------
\* The events of one gateway, and the SQL function mqtt_operation_effective:
\* an operation that a reset superseded no longer counts.
History(g) == {k \in Keys : events[k] # None /\ events[k].gateway = g}
Effective(k) == \A r \in Keys : events[r] # None => events[r].predecessor # k
Unresolved(g) == {k \in History(g) : events[k].status \in OpenStatus /\ Effective(k)}

StatusOf(g) == IF creds[g] = None THEN "" ELSE creds[g].status
VersionOf(g) == IF creds[g] = None THEN 0 ELSE creds[g].version
SnapshotOf(g) ==
    IF creds[g] = None THEN None
    ELSE [status |-> creds[g].status, version |-> creds[g].version]

\* One more than the version in force and than every version ever attempted.
MutAllocateVersion(g) == 1 + VersionOf(g)
AllocateVersion(g) ==
    1 + Max({VersionOf(g)} \cup {events[k].version : k \in History(g)})

\* The status a credential has while an operation of this kind is pending.
PendingStatus(action) ==
    CASE action = "provision" -> "provisioning"
      [] action = "revoke" -> "revoking"
      [] OTHER -> "rotating"

\* The credential statuses an ordinary action may start from.
AdmittedFrom(action) ==
    IF action = "provision" THEN {"", "revoked", "failed"} ELSE {"active"}

\* Why an ordinary action does not start now, or that it does ("admitted").
\* BeginSimplifiedOperation: the checks in the order of the transaction.
BeginCredentialStatus(g, action) ==
    CASE StatusOf(g) = "recovery_needed" -> "recovery_required"
      [] StatusOf(g) \in Transient -> "in_progress"
      [] StatusOf(g) \in AdmittedFrom(action) -> "admitted"
      [] OTHER -> "conflict"

ReplayOperation(k) ==
    CASE events[k].status = "pending" -> "in_progress"
      [] events[k].status = "recovery_needed" -> "recovery_required"
      [] OTHER -> "replay"

Admission(g, action, k) ==
    IF creds[g] = None /\ action = "revoke" THEN "not_found"
    ELSE IF events[k] # None THEN
        IF events[k].gateway = g /\ events[k].action = action
        THEN ReplayOperation(k) ELSE "key_conflict"
    ELSE IF \E u \in Unresolved(g) : events[u].status = "recovery_needed"
        THEN "recovery_required"
    ELSE IF Unresolved(g) # {} THEN "in_progress"
    ELSE IF action = "revoke" /\ StatusOf(g) = "revoked" THEN "noop"
    ELSE BeginCredentialStatus(g, action)

\* The two rows an admitted operation writes: the pending event and the
\* projection that points at it.
Insert(g, action, k, version, predecessor, reason) ==
    /\ events' = [events EXCEPT ![k] =
            [gateway |-> g, action |-> action, status |-> "pending",
             version |-> version, previous |-> SnapshotOf(g),
             predecessor |-> predecessor, reason |-> reason]]
    /\ creds' = [creds EXCEPT ![g] =
            [status |-> PendingStatus(action), version |-> version, last |-> k]]

BeginOperation(g, action, k) ==
    /\ Admission(g, action, k) = "admitted"
    /\ Insert(g, action, k,
              IF action = "revoke" THEN VersionOf(g) ELSE AllocateVersion(g), None, None)

-----------------------------------------------------------------------------
\* The version the projection shows while k is its last operation: an
\* operation that needs recovery leaves the version before it in place.
ShownVersion(k) ==
    IF events[k].status = "recovery_needed" /\ events[k].previous # None
    THEN events[k].previous.version ELSE events[k].version

\* CheckResetEligibility: may a reset for this reason supersede the last
\* operation of the gateway?
ResetEligible(g, reason) ==
    /\ creds[g] # None
    /\ LET last == creds[g].last IN
        /\ creds[g].version = ShownVersion(last)
        /\ IF reason = "recovery_after_unknown"
           THEN /\ events[last].status \in OpenStatus
                /\ creds[g].status \in Transient \cup {"recovery_needed"}
           ELSE /\ events[last].status = "succeeded"
                /\ events[last].action # "revoke"
                /\ creds[g].status = "active"

\* What a reset read before its prerequisite and compares again under the lock.
ResetGuard(g) ==
    [last |-> creds[g].last, operation |-> events[creds[g].last].status,
     status |-> creds[g].status, version |-> creds[g].version]

ResetAdmission(g, reason, k, guard) ==
    IF events[k] # None THEN
        IF events[k].gateway = g /\ events[k].action = "reset" /\ events[k].reason = reason
        THEN ReplayOperation(k) ELSE "key_conflict"
    ELSE IF Unresolved(g) \ {creds[g].last} # {} THEN "in_progress"
    ELSE IF guard # ResetGuard(g) \/ ~ResetEligible(g, reason) THEN "conflict"
    ELSE "admitted"

BeginReset(g, reason, k, guard) ==
    /\ creds[g] # None
    /\ ResetAdmission(g, reason, k, guard) = "admitted"
    /\ Insert(g, "reset", k, AllocateVersion(g), creds[g].last, reason)

-----------------------------------------------------------------------------
\* CompleteOperation: the event and the credential an outcome proposes.
MutCompletedStatus(outcome) == IF outcome = "success" THEN "succeeded" ELSE "failed"
CompletedStatus(outcome) ==
    CASE outcome = "success" -> "succeeded"
      [] outcome = "unchanged" -> "failed"
      [] OTHER -> "recovery_needed"

MutCompletedCredential(k, outcome) ==
    LET e == events[k] IN
    IF outcome # "success" /\ e.previous # None THEN e.previous
    ELSE [status |-> IF e.action = "revoke" THEN "revoked" ELSE "active",
          version |-> e.version]
CompletedCredential(k, outcome) ==
    LET e == events[k]
        kept == IF e.previous = None
                THEN [status |-> "failed", version |-> e.version] ELSE e.previous
    IN CASE outcome = "success" ->
                [status |-> IF e.action = "revoke" THEN "revoked" ELSE "active",
                 version |-> e.version]
         [] outcome = "unchanged" -> kept
         [] OTHER -> [kept EXCEPT !.status = "recovery_needed"]

\* complete: the transaction of ConditionalFinalize, FailKnown and
\* RequireRecovery, whose guard is the pending operation its caller began or
\* found.  Anything else is refused, and a refusal changes nothing.
Completable(k) ==
    /\ events[k] # None
    /\ events[k].status = "pending"
    /\ LET g == events[k].gateway IN
        /\ creds[g].last = k
        /\ creds[g].status = PendingStatus(events[k].action)
        /\ creds[g].version = events[k].version

Complete(k, outcome) ==
    /\ Completable(k)
    /\ LET g == events[k].gateway
           c == CompletedCredential(k, outcome)
       IN creds' = [creds EXCEPT ![g] =
                        [status |-> c.status, version |-> c.version, last |-> k]]
    /\ events' = [events EXCEPT ![k].status = CompletedStatus(outcome)]

-----------------------------------------------------------------------------
\* Any process, at any time, in any order: what the rows go through whatever
\* the servers do.
JournalNext ==
    \/ \E g \in Gateways, a \in Actions, k \in Keys : BeginOperation(g, a, k)
    \/ \E g \in Gateways, r \in Reasons, k \in Keys :
            creds[g] # None /\ BeginReset(g, r, k, ResetGuard(g))
    \/ \E k \in Keys, o \in Outcomes : Complete(k, o)

JournalSpec == JournalInit /\ [][JournalNext]_journalVars

-----------------------------------------------------------------------------
JournalTypeOK ==
    /\ events \in [Keys -> Event \cup {None}]
    /\ creds \in [Gateways -> Credential \cup {None}]

\* Every operation that still counts as unresolved is the one its gateway's
\* credential points at, with the status and version the startup classifier and
\* complete() expect: so a gateway has at most one, and a restart can always
\* classify it.
JournalConsistent ==
    \A g \in Gateways : \A k \in Unresolved(g) :
        /\ creds[g] # None
        /\ creds[g].last = k
        /\ creds[g].version = ShownVersion(k)
        /\ creds[g].status = IF events[k].status = "pending"
                             THEN PendingStatus(events[k].action)
                             ELSE "recovery_needed"

\* A version names one password: two operations of a gateway that issue a
\* password never carry the same version, although a known failure and a
\* recovery both put the earlier version back in the projection.
VersionNamesOneSecret ==
    \A k, m \in Keys :
        (/\ k # m
         /\ events[k] # None /\ events[m] # None
         /\ events[k].gateway = events[m].gateway
         /\ events[k].action # "revoke" /\ events[m].action # "revoke")
            => events[k].version # events[m].version

\* A credential that refuses ordinary actions although none of its operations is
\* unresolved.  Neither reason for a reset applies to it either.
Blocked == Transient \cup {"recovery_needed"}
Stranded(g) == StatusOf(g) \in Blocked /\ Unresolved(g) = {}

\* A credential is blocked because an operation on it is unresolved (model.go:
\* "recovery_needed blocks new jobs until its existing operation is resolved"),
\* with one exception: after a reset of an unresolved operation that failed
\* without touching the broker, CompleteOperation puts the blocked status back
\* while the operation behind it stays superseded.
OnlyAFailedResetStrands ==
    \A g \in Gateways : Stranded(g) =>
        /\ events[creds[g].last].status = "failed"
        /\ events[creds[g].last].reason = "recovery_after_unknown"
=============================================================================

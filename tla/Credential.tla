------------------------------ MODULE Credential ------------------------------
(***************************************************************************)
(* The credential manager of cmd/server: the server processes that change   *)
(* MQTT credentials, the journal they write (CredentialJournal) and the     *)
(* Mosquitto dynamic security plugin they command.                          *)
(*                                                                          *)
(* A server takes a PostgreSQL advisory lock, classifies the operations an  *)
(* earlier process left open, and then serves one request at a time:        *)
(*                                                                          *)
(*   begin -> gate -> baseline -> mutate* -> verify -> probe -> post        *)
(*         -> settle (FailKnown or RequireRecovery) or finalize -> readback *)
(*                                                                          *)
(* The lock is a property of the database session: it can be lost under a   *)
(* running server, and another server then takes it.  The broker keeps its  *)
(* clients in memory, writes them to its file in its own time, and may run  *)
(* a command after the server stopped waiting for it.                       *)
(***************************************************************************)
EXTENDS CredentialJournal, Sequences

CONSTANTS
    Servers,        \* processes that may run cmd/server
    AllowReset,     \* FALSE: denyOnlyResetPrerequisite, the one cmd/server wires
    PageSize,       \* rows of a classification page (BatchSize)
    MaxPages,       \* pages of a classification scan
    MaxFaults       \* bound on crashes, lost sessions, timeouts and failed queries

ASSUME ScanAssumption == PageSize \in Nat \ {0} /\ MaxPages \in Nat \ {0}

VARIABLES
    srv,        \* Servers -> what each process is doing
    lock,       \* the server whose session holds the advisory lock, or None
    ram,        \* Gateways -> the broker's client, in memory
    disk,       \* Gateways -> the same in the broker's file
    late,       \* commands nobody waits for and the broker may still run
    reverted,   \* gateways whose client a broker restart put back to the file
    faults      \* faults so far

brokerVars == <<ram, disk, late, reverted>>
vars == <<journalVars, srv, lock, brokerVars, faults>>

Working == {"gate", "baseline", "mutate", "verify", "probe", "post",
            "settle", "finalize", "readback"}
Executing == {"baseline", "mutate", "verify", "probe", "post"}

\* A process that is not running.  "stray" is a request that has passed the
\* readiness check of a server that is ready no longer; "reset" is what a reset
\* read of its predecessor.
Stopped ==
    [pc |-> "down", op |-> None, todo |-> <<>>, result |-> "unchanged",
     ready |-> FALSE, poisoned |-> FALSE, stray |-> FALSE,
     reset |-> None, scanned |-> {}, found |-> {}]

NoClient == [acl |-> FALSE, present |-> FALSE, enabled |-> FALSE,
             member |-> FALSE, password |-> None]

Init ==
    /\ JournalInit
    /\ srv = [s \in Servers |-> Stopped]
    /\ lock = None
    /\ ram = [g \in Gateways |-> NoClient]
    /\ disk = [g \in Gateways |-> NoClient]
    /\ late = {}
    /\ reverted = {}
    /\ faults = 0

Fault == faults < MaxFaults /\ faults' = faults + 1
FaultUnless(certain) == IF certain THEN UNCHANGED faults ELSE Fault
GatewayOf(s) == events[srv[s].op].gateway
ActionOf(s) == events[srv[s].op].action

Idle(s) == [srv[s] EXCEPT !.pc = "idle", !.op = None, !.todo = <<>>,
                          !.result = "unchanged", !.reset = None,
                          !.scanned = {}, !.found = {}]
\* An execution that ends after a first command may have changed the broker.
MutUncertain(s) == [srv[s] EXCEPT !.pc = "post", !.result = "unchanged", !.todo = <<>>]
Uncertain(s) == [srv[s] EXCEPT !.pc = "post", !.result = "recovery", !.todo = <<>>]
Poisoned(s) == [Idle(s) EXCEPT !.poisoned = TRUE]

-----------------------------------------------------------------------------
\* The broker (external): what one dynamic security command does to a client.
Matches(c, enabled) == c.present /\ c.member /\ c.enabled = enabled

Applicable(c, command) ==
    CASE command = "createRole" -> TRUE
      [] command = "createClient" -> ~c.present
      [] command = "addClientRole" -> c.present /\ c.acl
      [] OTHER -> c.present

Applied(c, command, k) ==
    CASE command = "createRole" -> [c EXCEPT !.acl = TRUE]
      [] command = "createClient" -> [c EXCEPT !.present = TRUE, !.enabled = TRUE]
      [] command = "disableClient" -> [c EXCEPT !.enabled = FALSE]
      [] command = "setClientPassword" -> [c EXCEPT !.password = k]
      [] command = "addClientRole" -> [c EXCEPT !.member = TRUE]
      [] command = "enableClient" -> [c EXCEPT !.enabled = TRUE]

\* The disabled client in the broker's file, and in its memory as well.
VerifyRevoked(g) == Matches(disk[g], FALSE)
CheckRevoked(g) == Matches(ram[g], FALSE) /\ ram[g].acl /\ VerifyRevoked(g)

BrokerFlush(g) ==
    /\ disk[g] # ram[g]
    /\ disk' = [disk EXCEPT ![g] = ram[g]]
    /\ UNCHANGED <<journalVars, srv, lock, ram, late, reverted, faults>>

\* A broker restart loads the file and ends every management connection: the
\* client of an operation under way does not reconnect.
BrokerRestart ==
    /\ Fault
    /\ ram # disk
    /\ ram' = disk
    /\ reverted' = reverted \cup {g \in Gateways : ram[g] # disk[g]}
    /\ late' = {}
    /\ srv' = [s \in Servers |->
                  IF srv[s].pc \in {"mutate", "verify"} THEN Uncertain(s) ELSE srv[s]]
    /\ UNCHANGED <<journalVars, lock, disk>>

\* A command whose answer nobody waits for runs now, or never.
BrokerLate(c) ==
    /\ late' = late \ {c}
    /\ \/ /\ Applicable(ram[c.gateway], c.command)
          /\ ram' = [ram EXCEPT ![c.gateway] = Applied(@, c.command, c.op)]
       \/ ram' = ram
    /\ UNCHANGED <<journalVars, srv, lock, disk, reverted, faults>>

-----------------------------------------------------------------------------
\* composeCredentials: take the advisory lock or fail to start, then scan.
Start(s) ==
    /\ srv[s].pc = "down"
    /\ lock = None
    /\ lock' = s
    /\ srv' = [srv EXCEPT ![s] = [Stopped EXCEPT
                    !.pc = "scan",
                    !.found = UNION {Unresolved(g) : g \in Gateways}]]
    /\ UNCHANGED <<journalVars, brokerVars, faults>>

\* One row of the scan.  A pending operation gets the guarded RequireRecovery;
\* one that already needs recovery is only checked.
ClassifyRow(s, k) ==
    /\ srv[s].pc = "scan"
    /\ k \notin srv[s].scanned
    /\ Cardinality(srv[s].scanned) < PageSize * MaxPages
    /\ events[k] # None
    /\ k \in Unresolved(events[k].gateway)
    /\ IF events[k].status = "pending"
       THEN Complete(k, "recovery")
       ELSE /\ creds[events[k].gateway].last = k
            /\ ResetEligible(events[k].gateway, "recovery_after_unknown")
            /\ UNCHANGED journalVars
    /\ srv' = [srv EXCEPT ![s].scanned = @ \cup {k}]
    /\ UNCHANGED <<lock, brokerVars, faults>>

Scanned(s) ==
    /\ Cardinality(srv[s].scanned) < PageSize * MaxPages
    /\ \A k \in srv[s].found \ srv[s].scanned : k \notin Unresolved(events[k].gateway)

ClassifyDone(s) ==
    /\ srv[s].pc = "scan"
    /\ Scanned(s)
    /\ srv' = [srv EXCEPT ![s] = [Idle(s) EXCEPT !.ready = TRUE]]
    /\ UNCHANGED <<journalVars, lock, brokerVars, faults>>

\* An error, a row that changed under the scan, a spent page budget or a failed
\* probe: the server runs, and its credential manager is never ready.
ClassifyFails(s) ==
    /\ srv[s].pc = "scan"
    /\ srv' = [srv EXCEPT ![s] = Idle(s)]
    /\ UNCHANGED <<journalVars, lock, brokerVars, faults>>

-----------------------------------------------------------------------------
\* CheckOwnership fails: the lock is gone, or the request was cancelled or the
\* query failed although it is still held.
OwnershipDenied(s) == FaultUnless(lock # s)

\* The handler and the service ask Ready() first, and take the busy flag later:
\* a request that passed the question when the server stopped being ready still
\* goes on.  A busy or poisoned service turns every request away.
Serving(s) ==
    /\ srv[s].pc = "idle"
    /\ srv[s].ready \/ srv[s].stray
    /\ ~srv[s].poisoned

NotReady(s, r) ==
    \E stray \in BOOLEAN :
        srv' = [srv EXCEPT ![s] =
            [r EXCEPT !.ready = FALSE, !.stray = srv[s].ready /\ stray]]

Admitted(s, r) ==
    srv' = [srv EXCEPT ![s] = [r EXCEPT !.stray = FALSE]]

\* evaluateAdmissionError: the refusals after which the service goes on.
SafeRejection == {"not_found", "key_conflict", "conflict", "in_progress"}

\* mutateSimplified up to the committed intent.
Begin(s, g, action, k) ==
    /\ Serving(s)
    /\ BeginOperation(g, action, k)
    /\ Admitted(s, [srv[s] EXCEPT !.pc = "gate", !.op = k])
    /\ UNCHANGED <<lock, brokerVars, faults>>

BeginRefused(s, g, action, k) ==
    /\ Serving(s)
    /\ LET why == Admission(g, action, k) IN
        /\ why \notin {"admitted", "noop"}
        /\ Admitted(s, IF why \in SafeRejection \cup {"replay"} THEN Idle(s) ELSE Poisoned(s))
    /\ UNCHANGED <<journalVars, lock, brokerVars, faults>>

\* A revoke of a revoked credential writes nothing: CheckRevoked asks the
\* broker and its file, behind the same ownership gate.
RevokeNoop(s, g, k) ==
    /\ Serving(s)
    /\ Admission(g, "revoke", k) = "noop"
    /\ \/ /\ OwnershipDenied(s)
          /\ Admitted(s, [Poisoned(s) EXCEPT !.ready = FALSE])
       \/ /\ lock = s
          /\ CheckRevoked(g)
          /\ Admitted(s, Idle(s))
          /\ UNCHANGED faults
       \/ /\ lock = s
          /\ FaultUnless(~CheckRevoked(g))
          /\ Admitted(s, Poisoned(s))
    /\ UNCHANGED <<journalVars, lock, brokerVars>>

\* The transaction fails, or its commit is not acknowledged: in either case the
\* service does not know and refuses everything from now on.
BeginUnknown(s, g, action, k) ==
    /\ Serving(s)
    /\ Fault
    /\ Admitted(s, Poisoned(s))
    /\ BeginOperation(g, action, k) \/ UNCHANGED journalVars
    /\ UNCHANGED <<lock, brokerVars>>

-----------------------------------------------------------------------------
\* A key that was used before: the request is answered from its event, or refused.
LookupResetReplay(k) == events[k] # None

\* Reset: the replay lookup, the predecessor and its eligibility, all read
\* before the prerequisite and without a lock on the rows.
ResetPrepare(s, g, reason, k) ==
    /\ Serving(s)
    /\ Admitted(s,
        IF LookupResetReplay(k) THEN Idle(s)
        ELSE IF creds[g] = None THEN Poisoned(s)
        ELSE IF ~ResetEligible(g, reason) THEN Idle(s)
        ELSE [srv[s] EXCEPT !.pc = "prerequisite",
                  !.reset = [gateway |-> g, reason |-> reason, key |-> k,
                             guard |-> ResetGuard(g)]])
    /\ UNCHANGED <<journalVars, lock, brokerVars, faults>>

\* What an operator who supervises a reset waits for: no command on the way to
\* this client, and no other process executing on it.
Quiescent(s, g) ==
    /\ \A c \in late : c.gateway # g
    /\ \A t \in Servers \ {s} : srv[t].pc \in Executing => GatewayOf(t) # g

\* SupervisedQuiescencePrerequisite.  The one in cmd/server always refuses.
ResetPrerequisite(s) ==
    /\ srv[s].pc = "prerequisite"
    /\ \/ srv' = [srv EXCEPT ![s] = Idle(s)]
       \/ /\ AllowReset
          /\ Quiescent(s, srv[s].reset.gateway)
          /\ srv' = [srv EXCEPT ![s].pc = "begin_reset"]
    /\ UNCHANGED <<journalVars, lock, brokerVars, faults>>

ResetBegin(s) ==
    /\ srv[s].pc = "begin_reset"
    /\ LET r == srv[s].reset
           why == ResetAdmission(r.gateway, r.reason, r.key, r.guard)
       IN \/ /\ BeginReset(r.gateway, r.reason, r.key, r.guard)
             /\ srv' = [srv EXCEPT ![s].pc = "gate", ![s].op = r.key, ![s].reset = None]
             /\ UNCHANGED faults
          \/ /\ why # "admitted"
             /\ srv' = [srv EXCEPT ![s] =
                    IF why \in SafeRejection \cup {"replay"} THEN Idle(s) ELSE Poisoned(s)]
             /\ UNCHANGED <<journalVars, faults>>
          \/ /\ Fault
             /\ srv' = [srv EXCEPT ![s] = Poisoned(s)]
             /\ BeginReset(r.gateway, r.reason, r.key, r.guard) \/ UNCHANGED journalVars
    /\ UNCHANGED <<lock, brokerVars>>

-----------------------------------------------------------------------------
\* ownershipGatedExecutor, before: the lock is asked for in pg_locks.  A
\* failure, a cancelled request included, leaves the broker alone and the
\* server not ready for good.
Gate(s) ==
    /\ srv[s].pc = "gate"
    /\ \/ /\ lock = s
          /\ srv' = [srv EXCEPT ![s].pc = "baseline"]
          /\ UNCHANGED faults
       \/ /\ OwnershipDenied(s)
          /\ NotReady(s, [srv[s] EXCEPT !.pc = "settle"])
    /\ UNCHANGED <<journalVars, lock, brokerVars>>

\* The state the broker must be in before the first command.
BaselineHolds(c, e) ==
    CASE e.action = "provision" ->
            ~c.present \/ (e.previous # None /\ Matches(c, FALSE))
      [] e.action = "reset" /\ e.reason = "recovery_after_unknown" -> TRUE
      [] e.action = "reset" -> Matches(c, TRUE)
      [] OTHER -> Matches(c, TRUE) /\ c.acl

\* ensureRole: the gateway's role is created when it is missing.
EnsureRole(c) == IF c.acl THEN <<>> ELSE <<"createRole">>

\* The commands of each action, in the order they are sent.  "confirm" is the
\* readback of a rotation between disabling the client and its new password.
Commands(c, action) ==
    CASE action = "revoke" -> <<"disableClient">>
      [] action = "rotate" ->
            <<"disableClient", "confirm", "setClientPassword", "enableClient">>
      [] OTHER ->
            EnsureRole(c)
            \o (IF c.present THEN <<>> ELSE <<"createClient">>)
            \o <<"disableClient", "setClientPassword">>
            \o (IF c.present /\ (action = "provision" \/ c.member) THEN <<>>
                ELSE <<"addClientRole">>)
            \o <<"enableClient">>

\* Everything before the first command.  No client, no generator or no answer:
\* the broker is known to be unchanged, although a rotation or a revoke whose
\* role or client cannot be read asks for recovery all the same.
Baseline(s) ==
    /\ srv[s].pc = "baseline"
    /\ LET c == ram[GatewayOf(s)] IN
        \/ /\ BaselineHolds(c, events[srv[s].op])
           /\ srv' = [srv EXCEPT ![s].pc = "mutate", ![s].todo = Commands(c, ActionOf(s))]
           /\ UNCHANGED faults
        \/ /\ ~BaselineHolds(c, events[srv[s].op])
           /\ srv' = [srv EXCEPT ![s].pc = "post", ![s].result = "recovery"]
           /\ UNCHANGED faults
        \/ /\ Fault
           /\ srv' = [srv EXCEPT ![s].pc = "post"]
        \/ /\ Fault
           /\ ActionOf(s) \in {"rotate", "revoke"}
           /\ srv' = [srv EXCEPT ![s].pc = "post", ![s].result = "recovery"]
    /\ UNCHANGED <<journalVars, lock, brokerVars>>

\* One command: done, refused by the broker, or without an answer.
Mutate(s) ==
    /\ srv[s].pc = "mutate"
    /\ srv[s].todo # <<>>
    /\ LET g == GatewayOf(s)
           command == Head(srv[s].todo)
           rest == Tail(srv[s].todo)
           next == [srv[s] EXCEPT !.todo = rest, !.pc = IF rest = <<>> THEN "verify" ELSE @]
       IN IF command = "confirm"
          THEN /\ srv' = [srv EXCEPT ![s] =
                    IF Matches(ram[g], FALSE) /\ ram[g].acl THEN next ELSE Uncertain(s)]
               /\ UNCHANGED <<ram, late, faults>>
          ELSE \/ /\ Applicable(ram[g], command)
                  /\ ram' = [ram EXCEPT ![g] = Applied(@, command, srv[s].op)]
                  /\ srv' = [srv EXCEPT ![s] = next]
                  /\ UNCHANGED <<late, faults>>
               \/ /\ ~Applicable(ram[g], command)
                  /\ srv' = [srv EXCEPT ![s] = Uncertain(s)]
                  /\ UNCHANGED <<ram, late, faults>>
               \/ /\ Fault
                  /\ late' = late \cup
                        {[gateway |-> g, command |-> command, op |-> srv[s].op]}
                  /\ srv' = [srv EXCEPT ![s] = Uncertain(s)]
                  /\ UNCHANGED ram
    /\ UNCHANGED <<journalVars, lock, disk, reverted>>

\* The readback after the last command.
Verify(s) ==
    /\ srv[s].pc = "verify"
    /\ \/ /\ LET c == ram[GatewayOf(s)] IN
               srv' = [srv EXCEPT ![s] =
                          IF Matches(c, ActionOf(s) # "revoke") /\ c.acl
                          THEN [@ EXCEPT !.pc = "probe"] ELSE Uncertain(s)]
          /\ UNCHANGED faults
       \/ /\ Fault
          /\ srv' = [srv EXCEPT ![s] = Uncertain(s)]
    /\ UNCHANGED <<journalVars, lock, brokerVars>>

\* The proof: a fresh login with the new password, or, for a revoke, the
\* disabled client in the broker's file.
MutProbe(s) ==
    /\ srv[s].pc = "probe"
    /\ srv' = [srv EXCEPT ![s].pc = "post", ![s].result = "success"]
    /\ UNCHANGED <<journalVars, lock, brokerVars, faults>>
Probe(s) ==
    /\ srv[s].pc = "probe"
    /\ LET g == GatewayOf(s)
           proved == IF ActionOf(s) = "revoke" THEN VerifyRevoked(g)
                     ELSE ram[g].enabled /\ ram[g].password = srv[s].op
       IN \/ /\ proved
             /\ srv' = [srv EXCEPT ![s].pc = "post", ![s].result = "success"]
             /\ reverted' = reverted \ {g}
             /\ UNCHANGED faults
          \/ /\ FaultUnless(~proved)
             /\ srv' = [srv EXCEPT ![s] = Uncertain(s)]
             /\ UNCHANGED reverted
    /\ UNCHANGED <<journalVars, lock, ram, disk, late>>

\* ownershipGatedExecutor, after: without the lock nothing that ran counts.
Post(s) ==
    /\ srv[s].pc = "post"
    /\ \/ /\ lock = s
          /\ srv' = [srv EXCEPT ![s].pc =
                        IF srv[s].result = "success" THEN "finalize" ELSE "settle"]
          /\ UNCHANGED faults
       \/ /\ OwnershipDenied(s)
          /\ NotReady(s, [Uncertain(s) EXCEPT !.pc = "settle"])
    /\ UNCHANGED <<journalVars, lock, brokerVars>>

\* FailKnown, or RequireRecovery after poisoning.  A refused or failed
\* transaction poisons too, and leaves the row to the next start.
Settle(s) ==
    /\ srv[s].pc = "settle"
    /\ LET k == srv[s].op
           after == IF srv[s].result = "unchanged" THEN Idle(s) ELSE Poisoned(s)
       IN \/ /\ Complete(k, srv[s].result)
             /\ srv' = [srv EXCEPT ![s] = after]
             /\ UNCHANGED faults
          \/ /\ ~Completable(k)
             /\ srv' = [srv EXCEPT ![s] = Poisoned(s)]
             /\ UNCHANGED <<journalVars, faults>>
          \/ /\ Fault
             /\ Complete(k, srv[s].result) \/ UNCHANGED journalVars
             /\ srv' = [srv EXCEPT ![s] = Poisoned(s)]
    /\ UNCHANGED <<lock, brokerVars>>

\* ConditionalFinalize.  "success" becomes "unfinished" when it returned an
\* error, whether or not it committed.
Finalize(s) ==
    /\ srv[s].pc = "finalize"
    /\ LET k == srv[s].op
           unfinished == [srv[s] EXCEPT !.pc = "readback", !.result = "unfinished"]
       IN \/ /\ Complete(k, "success")
             /\ srv' = [srv EXCEPT ![s].pc = "readback"]
             /\ UNCHANGED faults
          \/ /\ ~Completable(k)
             /\ srv' = [srv EXCEPT ![s] = unfinished]
             /\ UNCHANGED <<journalVars, faults>>
          \/ /\ Fault
             /\ Complete(k, "success") \/ UNCHANGED journalVars
             /\ srv' = [srv EXCEPT ![s] = unfinished]
    /\ UNCHANGED <<lock, brokerVars>>

\* The committed rows are read back before the password leaves the process.
\* An ordinary request also needs the finalization itself to have returned.
MutConfirmed(s) == events[srv[s].op] # None
Confirmed(s) ==
    LET k == srv[s].op
        c == creds[GatewayOf(s)]
    IN /\ events[k].status = "succeeded"
       /\ c.last = k
       /\ c.status = (IF ActionOf(s) = "revoke" THEN "revoked" ELSE "active")
       /\ c.version = events[k].version
       /\ srv[s].result = "success" \/ ActionOf(s) = "reset"

Readback(s) ==
    /\ srv[s].pc = "readback"
    /\ \/ /\ Confirmed(s)
          /\ srv' = [srv EXCEPT ![s] = Idle(s)]
          /\ UNCHANGED faults
       \/ /\ FaultUnless(~Confirmed(s))
          /\ srv' = [srv EXCEPT ![s] = Poisoned(s)]
    /\ UNCHANGED <<journalVars, lock, brokerVars>>

-----------------------------------------------------------------------------
\* The owner's session breaks; the server does not notice.
LoseLock(s) ==
    /\ lock = s
    /\ Fault
    /\ lock' = None
    /\ UNCHANGED <<journalVars, srv, brokerVars>>

\* A shutdown: the requests finish, drain gives the lock back, the process
\* ends.  A request that outlives the shutdown timeout is a LoseLock.
Drain(s) ==
    /\ srv[s].pc = "idle"
    /\ lock' = IF lock = s THEN None ELSE lock
    /\ srv' = [srv EXCEPT ![s] = Stopped]
    /\ UNCHANGED <<journalVars, brokerVars, faults>>

\* The process is killed, with a command perhaps sent.
Crash(s) ==
    /\ srv[s].pc # "down"
    /\ Fault
    /\ srv' = [srv EXCEPT ![s] = Stopped]
    /\ lock' = IF lock = s THEN None ELSE lock
    /\ \/ late' = late
       \/ /\ srv[s].todo # <<>>
          /\ Head(srv[s].todo) # "confirm"
          /\ late' = late \cup {[gateway |-> GatewayOf(s), op |-> srv[s].op,
                                 command |-> Head(srv[s].todo)]}
    /\ UNCHANGED <<journalVars, ram, disk, reverted>>

Next ==
    \/ \E g \in Gateways : BrokerFlush(g)
    \/ BrokerRestart
    \/ \E c \in late : BrokerLate(c)
    \/ \E s \in Servers :
        \/ Start(s) \/ ClassifyDone(s) \/ ClassifyFails(s)
        \/ \E k \in Keys : ClassifyRow(s, k)
        \/ \E g \in Gateways, a \in Actions, k \in Keys :
                \/ Begin(s, g, a, k) \/ BeginRefused(s, g, a, k)
                \/ BeginUnknown(s, g, a, k)
        \/ \E g \in Gateways, k \in Keys : RevokeNoop(s, g, k)
        \/ \E g \in Gateways, r \in Reasons, k \in Keys : ResetPrepare(s, g, r, k)
        \/ ResetPrerequisite(s) \/ ResetBegin(s)
        \/ Gate(s) \/ Baseline(s) \/ Mutate(s) \/ Verify(s) \/ Probe(s) \/ Post(s)
        \/ Settle(s) \/ Finalize(s) \/ Readback(s)
        \/ LoseLock(s) \/ Drain(s) \/ Crash(s)

Spec == Init /\ [][Next]_vars

-----------------------------------------------------------------------------
\* A gateway whose journal says "active" can log in with the password of the
\* version in force, and no command is on its way to change that; the one
\* exception is a broker that restarted from an older file.
ActiveIsInForce ==
    \A g \in Gateways \ reverted :
        (creds[g] # None /\ creds[g].status = "active") =>
            /\ Matches(ram[g], TRUE)
            /\ ram[g].acl
            /\ ram[g].password # None
            /\ events[ram[g].password].gateway = g
            /\ events[ram[g].password].version = creds[g].version
            /\ \A c \in late : c.gateway # g

\* A gateway whose journal says "revoked" is disabled in the broker's memory
\* and in its file, so a broker restart does not let it in again.
RevokedIsDisabled ==
    \A g \in Gateways :
        (creds[g] # None /\ creds[g].status = "revoked") =>
            /\ Matches(ram[g], FALSE)
            /\ Matches(disk[g], FALSE)
            /\ \A c \in late : c.gateway # g


\* A password is returned to the operator (the step that ends a request of a
\* service still sound) only while it is the one in force.
DisclosedIsInForce ==
    [][\A s \in Servers :
          (/\ srv[s].pc = "readback" /\ srv'[s].pc = "idle" /\ ~srv'[s].poisoned
           /\ ActionOf(s) # "revoke") =>
            LET g == GatewayOf(s) IN
              /\ creds[g].status = "active"
              /\ creds[g].version = events[srv[s].op].version
              /\ g \in reverted \/ ram[g].password = srv[s].op]_vars

=============================================================================

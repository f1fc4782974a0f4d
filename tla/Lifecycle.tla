------------------------------ MODULE Lifecycle ------------------------------
(***************************************************************************)
(* The broker lifecycle controller (cmd/mosquitto-credential-controller):   *)
(* the process that owns the Mosquitto child, the public gate in front of   *)
(* it and the unix socket its backend sends commands to.                    *)
(*                                                                          *)
(* BrokerLifecycle holds one mutex through a whole operation, and inside it *)
(* waits for the gate to drain and for the child to exit: "lock" is who     *)
(* holds it, "step" how far it is.  Meanwhile connections come and go, the  *)
(* child may exit by itself, and more commands wait in their handlers.  A   *)
(* command is one frame: its sender may have given up long before it runs.  *)
(***************************************************************************)
EXTENDS Naturals, FiniteSets, FiniteSetsExt

CONSTANTS
    Handlers,       \* the slots of the control socket (MaxInflight)
    Conns,          \* public connections
    MaxConnections, \* slots of the gate
    MaxIdentities,  \* bound on the identities drawn
    None

ASSUME ConnAssumption == MaxConnections \in Nat \ {0}
ASSUME HandlerAssumption == Handlers \cap {"waiter", "main", "none"} = {}

VARIABLES
    phase,      \* of run: "starting", "serving", "draining", "stopping", "exited"
    child,      \* "none", "running" or "exited"
    expected,   \* the child was told to stop
    waiter,     \* the goroutine that waits for this child has yet to report
    epoch, nonce, issued,
    gate,       \* "nil", "open", or "closed" while close waits for its goroutines
    conn,       \* Conns -> "idle", "accepted", "dialing", "dialled", "piped"
    lifetime,   \* Conns -> the epoch the broker was dialled in
    terminal, failed,
    call,       \* Handlers -> the command on the connection of this slot, or None
    lock,       \* the holder of BrokerLifecycle.mu: a handler, "waiter", "main", "none"
    step        \* what the holder is doing

childVars == <<child, expected, waiter>>
idVars == <<epoch, nonce, issued>>
connVars == <<conn, lifetime>>
endVars == <<terminal, failed>>
vars == <<phase, childVars, idVars, gate, connVars, endVars, call, lock, step>>

\* A receipt names an epoch and a nonce that were issued, in force or not.
Receipts == {r \in [epoch : 1..issued, nonce : 1..issued] : r.epoch < r.nonce}
Commands == {[name |-> n, receipt |-> None] : n \in {"CloseDrain", "RestartClosed"}}
            \cup {[name |-> "OpenVerified", receipt |-> r] : r \in Receipts}

\* The identities a command may draw, and those reserved for commands received.
Need(c) == CASE c = None -> 0
             [] c.name = "CloseDrain" -> 1
             [] c.name = "RestartClosed" -> 3
             [] OTHER -> 0
Reserved == MapThenSumSet(LAMBDA h : Need(call[h]), Handlers)

Init ==
    /\ phase = "starting"
    /\ child = "none" /\ expected = FALSE /\ waiter = FALSE
    /\ epoch = 0 /\ nonce = 0 /\ issued = 0
    /\ gate = "nil"
    /\ conn = [c \in Conns |-> "idle"]
    /\ lifetime = [c \in Conns |-> 0]
    /\ terminal = FALSE /\ failed = FALSE
    /\ call = [h \in Handlers |-> None]
    /\ lock = "none" /\ step = "idle"

Alive == child = "running"
Drained == \A c \in Conns : conn[c] = "idle"

\* The holder returns: its handler answers and frees its slot.
Release ==
    /\ lock' = "none" /\ step' = "idle"
    /\ call' = [h \in Handlers |-> IF h = lock THEN None ELSE call[h]]

\* gate.close: no new connection, and every socket the gate owns is closed.
Shut == gate' = IF gate = "open" THEN "closed" ELSE gate

-----------------------------------------------------------------------------
\* spawnLocked: a child under a new epoch and a new challenge.
Spawned ==
    /\ child' = "running" /\ expected' = FALSE /\ waiter' = TRUE
    /\ epoch' = issued + 1 /\ nonce' = issued + 2 /\ issued' = issued + 2

SpawnFailed ==
    /\ child' = "none"
    /\ epoch' = 0 /\ nonce' = 0
    /\ UNCHANGED <<expected, waiter, issued>>

\* run: StartClosed, then Serve.
StartClosed ==
    /\ phase = "starting"
    /\ \/ Spawned /\ phase' = "serving"
       \/ SpawnFailed /\ phase' = "exited"
    /\ UNCHANGED <<gate, connVars, endVars, call, lock, step>>

\* The child exits: by itself, or because it was told to.
ChildExits ==
    /\ child = "running"
    /\ child' = "exited"
    /\ UNCHANGED <<phase, expected, waiter, idVars, gate, connVars, endVars, call, lock, step>>

\* The goroutine behind cmd.Wait: an exit nobody asked for is the end.
MutWaitReturns ==
    /\ child = "exited" /\ waiter
    /\ lock = "none"
    /\ waiter' = FALSE
    /\ UNCHANGED <<phase, child, expected, idVars, gate, connVars, endVars, call, lock, step>>
WaitReturns ==
    /\ child = "exited" /\ waiter
    /\ lock = "none"
    /\ waiter' = FALSE
    /\ IF expected
       THEN UNCHANGED <<lock, step, gate>>
       ELSE lock' = "waiter" /\ step' = "fail" /\ Shut
    /\ UNCHANGED <<phase, child, expected, idVars, connVars, endVars, call>>

\* failLocked, once the gate has drained.
FailLocked ==
    /\ step = "fail"
    /\ Drained
    /\ gate' = "nil" /\ nonce' = 0
    /\ terminal' = TRUE /\ failed' = TRUE
    /\ Release
    /\ UNCHANGED <<phase, childVars, epoch, issued, connVars>>

-----------------------------------------------------------------------------
\* A connection with one frame takes a slot.  A frame Describe changes nothing.
Receive(h, c) ==
    /\ phase = "serving"
    /\ call[h] = None
    /\ issued + Reserved + Need(c) <= MaxIdentities
    /\ call' = [call EXCEPT ![h] = c]
    /\ UNCHANGED <<phase, childVars, idVars, gate, connVars, endVars, lock, step>>

\* The frame never arrives in full, or its connection is closed before.
Dropped(h) ==
    /\ call[h] # None /\ lock # h
    /\ call' = [call EXCEPT ![h] = None]
    /\ UNCHANGED <<phase, childVars, idVars, gate, connVars, endVars, lock, step>>

Holds(h, name) == lock = "none" /\ call[h] # None /\ call[h].name = name

\* OpenVerified.  The challenge is spent even when a listener cannot be bound.
MutReceiptMatches(r) == r.epoch = epoch
ReceiptMatches(r) == r.epoch = epoch /\ r.nonce = nonce

OpenVerified(h) ==
    /\ Holds(h, "OpenVerified")
    /\ IF terminal \/ ~Alive \/ gate # "nil" \/ ~ReceiptMatches(call[h].receipt)
       THEN /\ call' = [call EXCEPT ![h] = None]
            /\ UNCHANGED <<nonce, gate, lock, step>>
       ELSE /\ nonce' = 0
            /\ \/ gate' = "open" /\ lock' = h /\ step' = "recheck" /\ UNCHANGED call
               \/ /\ call' = [call EXCEPT ![h] = None]
                  /\ UNCHANGED <<gate, lock, step>>
    /\ UNCHANGED <<phase, childVars, epoch, issued, connVars, endVars>>

\* The child may have exited while the listeners were being opened.
OpenRecheck ==
    /\ step = "recheck"
    /\ IF Alive THEN Release /\ UNCHANGED gate
       ELSE step' = "fail" /\ Shut /\ UNCHANGED <<lock, call>>
    /\ UNCHANGED <<phase, childVars, idVars, connVars, endVars>>

CloseDrain(h) ==
    /\ Holds(h, "CloseDrain")
    /\ lock' = h /\ step' = "drain" /\ Shut
    /\ UNCHANGED <<phase, childVars, idVars, connVars, endVars, call>>

RestartClosed(h) ==
    /\ Holds(h, "RestartClosed")
    /\ IF terminal \/ ~Alive
       THEN /\ call' = [call EXCEPT ![h] = None]
            /\ UNCHANGED <<lock, step, gate>>
       ELSE lock' = h /\ step' = "drain" /\ Shut /\ UNCHANGED call
    /\ UNCHANGED <<phase, childVars, idVars, connVars, endVars>>

\* closeLocked, once the gate has drained: a new challenge for a living child.
MutCloseLocked ==
    /\ step = "drain"
    /\ gate' = "nil"
    /\ IF terminal \/ ~Alive
       THEN nonce' = 0 /\ Release /\ UNCHANGED issued
       ELSE /\ issued' = issued + 1 /\ nonce' = issued + 1
            /\ IF call[lock].name = "CloseDrain" THEN Release
               ELSE step' = "expect" /\ UNCHANGED <<lock, call>>
    /\ UNCHANGED <<phase, childVars, epoch, connVars, endVars>>
CloseLocked ==
    /\ step = "drain"
    /\ Drained
    /\ gate' = "nil"
    /\ IF terminal \/ ~Alive
       THEN nonce' = 0 /\ Release /\ UNCHANGED issued
       ELSE /\ issued' = issued + 1 /\ nonce' = issued + 1
            /\ IF call[lock].name = "CloseDrain" THEN Release
               ELSE step' = "expect" /\ UNCHANGED <<lock, call>>
    /\ UNCHANGED <<phase, childVars, epoch, connVars, endVars>>

\* stopLocked: from here on the exit of this child is nobody's failure.
ExpectExit ==
    /\ step = "expect"
    /\ expected' = (expected \/ child # "none")
    /\ step' = "stop"
    /\ UNCHANGED <<phase, child, waiter, idVars, gate, connVars, endVars, call, lock>>

\* The child is gone within two timeouts, or the lifecycle fails.
StopAndSpawn ==
    /\ step = "stop" /\ lock \in Handlers
    /\ \/ /\ child = "exited"
          /\ Spawned \/ SpawnFailed
          /\ Release
       \/ /\ child = "running"
          /\ step' = "fail"
          /\ UNCHANGED <<childVars, idVars, lock, call>>
    /\ UNCHANGED <<phase, gate, connVars, endVars>>

-----------------------------------------------------------------------------
\* The gate: accept, a slot, a dial to the broker, a pipe.  track refuses a
\* socket that arrives after close.
InUse == {c \in Conns : conn[c] # "idle"}

Accept(c) ==
    /\ gate = "open" /\ conn[c] = "idle"
    /\ Cardinality(InUse) < MaxConnections
    /\ conn' = [conn EXCEPT ![c] = "accepted"]
    /\ UNCHANGED <<phase, childVars, idVars, gate, lifetime, endVars, call, lock, step>>

Track(c) ==
    /\ conn[c] = "accepted"
    /\ conn' = [conn EXCEPT ![c] = IF gate = "open" THEN "dialing" ELSE "idle"]
    /\ UNCHANGED <<phase, childVars, idVars, gate, lifetime, endVars, call, lock, step>>

Dial(c) ==
    /\ conn[c] = "dialing"
    /\ \/ /\ Alive
          /\ conn' = [conn EXCEPT ![c] = "dialled"]
          /\ lifetime' = [lifetime EXCEPT ![c] = epoch]
       \/ /\ conn' = [conn EXCEPT ![c] = "idle"]
          /\ UNCHANGED lifetime
    /\ UNCHANGED <<phase, childVars, idVars, gate, endVars, call, lock, step>>

TrackUpstream(c) ==
    /\ conn[c] = "dialled"
    /\ IF gate = "open"
       THEN conn' = [conn EXCEPT ![c] = "piped"] /\ UNCHANGED lifetime
       ELSE /\ conn' = [conn EXCEPT ![c] = "idle"]
            /\ lifetime' = [lifetime EXCEPT ![c] = 0]
    /\ UNCHANGED <<phase, childVars, idVars, gate, endVars, call, lock, step>>

PipeEnds(c) ==
    /\ conn[c] = "piped"
    /\ conn' = [conn EXCEPT ![c] = "idle"]
    /\ lifetime' = [lifetime EXCEPT ![c] = 0]
    /\ UNCHANGED <<phase, childVars, idVars, gate, endVars, call, lock, step>>

-----------------------------------------------------------------------------
\* Serve ends when the lifecycle failed or a signal came; run then shuts down.
ServeEnds ==
    /\ phase = "serving"
    /\ phase' = "draining"
    /\ UNCHANGED <<childVars, idVars, gate, connVars, endVars, call, lock, step>>

Shutdown ==
    /\ phase = "draining"
    /\ lock = "none" /\ \A h \in Handlers : call[h] = None
    /\ phase' = "stopping"
    /\ lock' = "main" /\ step' = "leave" /\ Shut
    /\ UNCHANGED <<childVars, idVars, connVars, endVars, call>>

ShutdownLocked ==
    /\ step = "leave"
    /\ Drained
    /\ gate' = "nil" /\ nonce' = 0 /\ terminal' = TRUE
    /\ step' = "expect"
    /\ UNCHANGED <<phase, childVars, epoch, issued, connVars, failed, call, lock>>

\* Whatever stopLocked returns: a child that is left dies with the process.
Exit ==
    /\ step = "stop" /\ lock = "main"
    /\ child' = "none"
    /\ phase' = "exited"
    /\ Release
    /\ UNCHANGED <<expected, waiter, idVars, gate, connVars, endVars>>

\* The process has ended and nothing more happens.
Ended == phase = "exited" /\ UNCHANGED vars

Next ==
    \/ StartClosed \/ ChildExits \/ WaitReturns \/ FailLocked
    \/ \E h \in Handlers :
        \/ \E c \in Commands : Receive(h, c)
        \/ Dropped(h) \/ OpenVerified(h) \/ CloseDrain(h) \/ RestartClosed(h)
    \/ OpenRecheck \/ CloseLocked \/ ExpectExit \/ StopAndSpawn
    \/ \E c \in Conns : Accept(c) \/ Track(c) \/ Dial(c) \/ TrackUpstream(c) \/ PipeEnds(c)
    \/ ServeEnds \/ Shutdown \/ ShutdownLocked \/ Exit \/ Ended

Spec == Init /\ [][Next]_vars

\* Goroutines that can run do, sockets the gate has closed end, and Serve
\* notices a failure.  A goroutine that waits for the mutex gets it in the end:
\* Go's mutex hands itself over to a waiter that has starved.
Fairness ==
    /\ WF_vars(FailLocked) /\ WF_vars(OpenRecheck) /\ WF_vars(CloseLocked)
    /\ WF_vars(ExpectExit) /\ WF_vars(StopAndSpawn)
    /\ WF_vars(ShutdownLocked) /\ WF_vars(Exit)
    /\ WF_vars(failed /\ ServeEnds)
    /\ SF_vars(WaitReturns) /\ SF_vars(Shutdown)
    /\ \A c \in Conns :
        /\ WF_vars(Track(c)) /\ WF_vars(Dial(c)) /\ WF_vars(TrackUpstream(c))
        /\ WF_vars(gate = "closed" /\ PipeEnds(c))
    /\ \A h \in Handlers : WF_vars(phase = "draining" /\ Dropped(h))

FairSpec == Spec /\ Fairness

-----------------------------------------------------------------------------
\* A connection reaches the broker only through a gate that is there, and in
\* the lifetime the gate was opened for: a restart first waits for every
\* goroutine of the gate, the ones still accepting or dialling included.
PipesBelongToTheGate ==
    \A c \in Conns : conn[c] # "idle" =>
        /\ gate # "nil"
        /\ conn[c] \in {"dialled", "piped"} => lifetime[c] = epoch

\* The controller is the gate its backend reasons with (BrokerGate).
Gate == INSTANCE BrokerGate WITH alive <- Alive, open <- gate = "open"
ImplementsGate == Gate!GateSpec

\* "An unexpected child exit is terminal": the gate is drained and the process
\* ends, unless a restart had already decided to replace the child.
LossIsTerminal ==
    (child = "exited" /\ ~expected) ~> (gate = "nil" /\ (phase = "exited" \/ expected))
=============================================================================

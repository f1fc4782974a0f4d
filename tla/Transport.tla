----------------------------- MODULE Transport -----------------------------
(***************************************************************************)
(* The MQTT transport of the server (src/src/internal/mqttingress/         *)
(* transport.go), which the gateway simulator has in a second copy         *)
(* (src/src/internal/gatewaysim/transport.go): one supervisor goroutine    *)
(* opens one connection lifetime after another, Paho calls back from its   *)
(* own goroutines, publishers run invocations on the current lifetime      *)
(* within a fixed number of slots, and Close tears everything down.        *)
(*                                                                         *)
(* notifyReadyLocked runs when current changes and only then, under the    *)
(* same lock, so that waiting for the readiness needs no state of its own. *)
(* Each access to a shared field is a step.  Timeouts and the network may  *)
(* strike at any time, except that the last lifetime, MaxLifetimes, is     *)
(* one the network does not break: it breaks finitely often.               *)
(***************************************************************************)
EXTENDS Integers, FiniteSets

CONSTANTS
    MaxLifetimes,   \* bound: connection lifetimes in one behaviour
    Publishers,     \* goroutines that call Publish
    Slots,          \* places of publishSem
    NoSlot

ASSUME TransportAssumption ==
    /\ MaxLifetimes \in Nat \ {0}
    /\ NoSlot \notin Slots

VARIABLES
    (* Transport. *)
    started, stopping, stuck, current,
    (* The fields of each lifetime, and the Paho goroutines behind it. *)
    subscribed, failed, closed, wake,
    dial,           \* the custom open function of each lifetime and its socket
    connected,      \* CONNACK was received
    lost,           \* where onLost of each lifetime is
    (* The supervisor and its lifetime, that is, nextEpoch. *)
    sup, epoch,
    (* Publish: where each caller is, with which lifetime, slot and result. *)
    pub, pubLt, pubSlot, result,
    slot, slotLt,   \* the invocation in each slot and its lifetime
    (* Close, the lifetime it took, and whether its context ended. *)
    close, closeLt, expired

coreVars  == <<started, stopping, stuck>>
lifeVars  == <<subscribed, failed, closed, wake, dial, connected, lost>>
supVars   == <<sup, epoch>>
pubVars   == <<pub, pubLt, pubSlot, result, slot, slotLt>>
closeVars == <<close, closeLt, expired>>
vars == <<coreVars, current, lifeVars, supVars, pubVars, closeVars>>

Lifetimes == 1..MaxLifetimes
NoLifetime == 0

Usable(l) == subscribed[l] /\ ~failed[l]
Open(l) == dial[l] = "attached"
Ready == ~stuck /\ current # NoLifetime /\ Usable(current)
Breakable(l) == l < MaxLifetimes \/ stopping \/ failed[l]
-----------------------------------------------------------------------------
(* Pieces the steps share. *)

(* clearCurrent: only the lifetime that is still current is cleared.        *)
IsCurrent(l) == current = l
ClearCurrent(l) ==
    current' = IF IsCurrent(l) THEN NoLifetime ELSE current

MarkFailed(l) ==
    /\ failed' = [failed EXCEPT ![l] = TRUE]
    /\ UNCHANGED <<subscribed, closed, wake, dial, connected, lost>>

CloseSocket(l) ==
    /\ closed' = [closed EXCEPT ![l] = TRUE]
    /\ dial' = [dial EXCEPT ![l] = IF Open(l) THEN "over" ELSE @]
    /\ UNCHANGED <<subscribed, failed, wake, connected, lost>>

MutSignalWake(l) == UNCHANGED <<subscribed, failed, closed, wake, dial, connected>>
SignalWake(l) ==
    /\ wake' = [wake EXCEPT ![l] = TRUE]
    /\ UNCHANGED <<subscribed, failed, closed, dial, connected>>

(* waitOps: the invocations begun on l have returned.                       *)
MutOpsDone(l) == TRUE
OpsDone(l) == \A s \in Slots : slot[s] \in {"running", "posted"} => slotLt[s] # l
-----------------------------------------------------------------------------
(* The supervisor. *)

SupGoTo(step) == sup' = step /\ UNCHANGED epoch

(* Start is refused after Close.                                            *)
Start ==
    /\ ~started /\ close = "no"
    /\ started' = TRUE
    /\ SupGoTo("top")
    /\ UNCHANGED <<stopping, stuck, current, lifeVars, pubVars, closeVars>>

(* Top of the loop: leave, or begin connectOnce with a fresh lifetime whose *)
(* open function Paho runs in a goroutine.                                  *)
SupExit ==
    /\ sup = "top"
    /\ stopping \/ stuck
    /\ SupGoTo("exited")
    /\ UNCHANGED <<coreVars, current, lifeVars, pubVars, closeVars>>

SupConnect ==
    /\ sup = "top"
    /\ ~stopping /\ ~stuck
    /\ epoch < MaxLifetimes
    /\ epoch' = epoch + 1
    /\ sup' = "connecting"
    /\ dial' = [dial EXCEPT ![epoch + 1] = "dialing"]
    /\ UNCHANGED <<coreVars, current, subscribed, failed, closed, wake,
                   connected, lost, pubVars, closeVars>>

(* attach: a socket that comes too late is closed at once.                  *)
MutAttached(l) == "attached"
Attached(l) == IF closed[l] THEN "over" ELSE "attached"

DialDone(l) ==
    /\ dial[l] = "dialing"
    /\ \/ dial' = [dial EXCEPT ![l] = Attached(l)]
       \/ Breakable(l) /\ dial' = [dial EXCEPT ![l] = "over"]
    /\ UNCHANGED <<coreVars, current, subscribed, failed, closed, wake,
                   connected, lost, supVars, pubVars, closeVars>>

ConnAck ==
    /\ sup = "connecting"
    /\ Open(epoch)
    /\ connected' = [connected EXCEPT ![epoch] = TRUE]
    /\ SupGoTo("subscribing")
    /\ UNCHANGED <<coreVars, current, subscribed, failed, closed, wake, dial,
                   lost, pubVars, closeVars>>

(* A positive SUBACK.  A token that is complete counts even when the        *)
(* context has ended (awaitToken).                                          *)
SubAck ==
    /\ sup = "subscribing"
    /\ SupGoTo("subscribed")
    /\ UNCHANGED <<coreVars, current, lifeVars, pubVars, closeVars>>

(* CONNECT or SUBSCRIBE fails, is refused, times out or is cancelled.       *)
ConnectFails ==
    /\ sup \in {"connecting", "subscribing"}
    /\ Breakable(epoch)
    /\ SupGoTo("dropMark")
    /\ UNCHANGED <<coreVars, current, lifeVars, pubVars, closeVars>>

(* The last look of connectOnce at failed.                                  *)
Subscribed ==
    /\ sup = "subscribed"
    /\ IF failed[epoch]
       THEN SupGoTo("dropMark") /\ UNCHANGED subscribed
       ELSE /\ SupGoTo("install")
            /\ subscribed' = [subscribed EXCEPT ![epoch] = TRUE]
    /\ UNCHANGED <<coreVars, current, failed, closed, wake, dial, connected,
                   lost, pubVars, closeVars>>

(* installCurrent.                                                          *)
Install ==
    /\ sup = "install"
    /\ IF Usable(epoch)
       THEN current' = epoch /\ SupGoTo("select")
       ELSE SupGoTo("dropMark") /\ UNCHANGED current
    /\ UNCHANGED <<coreVars, lifeVars, pubVars, closeVars>>

(* With a stop and a wake at once the select takes either.                  *)
MutHearsStop == sup = "backoff"
HearsStop == sup \in {"select", "backoff"}
SupStop ==
    /\ HearsStop
    /\ stopping
    /\ SupGoTo("exited")
    /\ UNCHANGED <<coreVars, current, lifeVars, pubVars, closeVars>>

SupWake ==
    /\ sup = "select"
    /\ wake[epoch]
    /\ SupGoTo("clear")
    /\ UNCHANGED <<coreVars, current, lifeVars, pubVars, closeVars>>

SupClear ==
    /\ sup = "clear"
    /\ ClearCurrent(epoch)
    /\ SupGoTo("mark")
    /\ UNCHANGED <<coreVars, lifeVars, pubVars, closeVars>>

(* closeLifetime with a budget, and without one for a lifetime that never   *)
(* became current.                                                          *)
SupMark ==
    /\ sup \in {"mark", "dropMark"}
    /\ MarkFailed(epoch)
    /\ SupGoTo(IF sup = "mark" THEN "socket" ELSE "dropSocket")
    /\ UNCHANGED <<coreVars, current, pubVars, closeVars>>

SupSocket ==
    /\ sup \in {"socket", "dropSocket"}
    /\ CloseSocket(epoch)
    /\ SupGoTo(IF sup = "socket" THEN "ops" ELSE "backoff")
    /\ UNCHANGED <<coreVars, current, pubVars, closeVars>>

SupClean ==
    /\ sup = "ops"
    /\ OpsDone(epoch)
    /\ SupGoTo("backoff")
    /\ UNCHANGED <<coreVars, current, lifeVars, pubVars, closeVars>>

(* The timer ends the wait, even when the invocations have just returned:   *)
(* markStuck, and no further lifetime.                                      *)
SupStuck ==
    /\ sup = "ops"
    /\ stuck' = TRUE
    /\ SupGoTo("exited")
    /\ UNCHANGED <<started, stopping, current, lifeVars, pubVars, closeVars>>

BackoffEnds ==
    /\ sup = "backoff"
    /\ SupGoTo("top")
    /\ UNCHANGED <<coreVars, current, lifeVars, pubVars, closeVars>>
-----------------------------------------------------------------------------
(* onLost, in a Paho goroutine of lifetime l. *)

(* Paho has closed the connection on its side before it calls back.         *)
LostMark(l) ==
    /\ connected[l] /\ lost[l] = "no"
    /\ Breakable(l)
    /\ failed' = [failed EXCEPT ![l] = TRUE]
    /\ dial' = [dial EXCEPT ![l] = "over"]
    /\ lost' = [lost EXCEPT ![l] = "marked"]
    /\ UNCHANGED <<coreVars, current, subscribed, closed, wake, connected,
                   supVars, pubVars, closeVars>>

LostWake(l) ==
    /\ lost[l] = "marked"
    /\ SignalWake(l)
    /\ lost' = [lost EXCEPT ![l] = "woken"]
    /\ UNCHANGED <<coreVars, current, supVars, pubVars, closeVars>>

LostClear(l) ==
    /\ lost[l] = "woken"
    /\ ClearCurrent(l)
    /\ lost' = [lost EXCEPT ![l] = "done"]
    /\ UNCHANGED <<coreVars, subscribed, failed, closed, wake, dial, connected,
                   supVars, pubVars, closeVars>>
-----------------------------------------------------------------------------
(* Publish. *)

PubGoTo(p, step) == pub' = [pub EXCEPT ![p] = step]

(* The call returns; a slot it holds without an invocation is released.     *)
GivenBack(p) == IF pubSlot[p] \in Slots /\ slot[pubSlot[p]] = "held"
                THEN [slot EXCEPT ![pubSlot[p]] = "free"] ELSE slot
Return(p) ==
    /\ PubGoTo(p, "idle")
    /\ pubLt' = [pubLt EXCEPT ![p] = NoLifetime]
    /\ pubSlot' = [pubSlot EXCEPT ![p] = NoSlot]
    /\ result' = [result EXCEPT ![p] = "none"]
    /\ slot' = GivenBack(p)
    /\ UNCHANGED slotLt

(* The first look at the current lifetime; without one Publish fails.       *)
PubLook(p) ==
    /\ pub[p] = "idle"
    /\ current # NoLifetime /\ Usable(current)
    /\ PubGoTo(p, "slot")
    /\ UNCHANGED <<coreVars, current, lifeVars, supVars, pubLt, pubSlot, result,
                   slot, slotLt, closeVars>>

(* The semaphore, or the end of the caller's context.                       *)
PubSlot(p) ==
    /\ pub[p] = "slot"
    /\ \/ \E s \in Slots :
              /\ slot[s] = "free"
              /\ slot' = [slot EXCEPT ![s] = "held"]
              /\ pubSlot' = [pubSlot EXCEPT ![p] = s]
              /\ PubGoTo(p, "second")
              /\ UNCHANGED <<pubLt, result, slotLt>>
       \/ Return(p)
    /\ UNCHANGED <<coreVars, current, lifeVars, supVars, closeVars>>

(* The second look, at what is current now.                                 *)
PubSecond(p) ==
    /\ pub[p] = "second"
    /\ IF current # NoLifetime /\ Usable(current)
       THEN /\ pubLt' = [pubLt EXCEPT ![p] = current]
            /\ PubGoTo(p, "begin")
            /\ UNCHANGED <<pubSlot, result, slot, slotLt>>
       ELSE Return(p)
    /\ UNCHANGED <<coreVars, current, lifeVars, supVars, closeVars>>

(* beginOp, and the goroutine of the invocation.                            *)
PubBegin(p) ==
    /\ pub[p] = "begin"
    /\ IF ~closed[pubLt[p]] /\ ~failed[pubLt[p]]
       THEN /\ slot' = [slot EXCEPT ![pubSlot[p]] = "running"]
            /\ slotLt' = [slotLt EXCEPT ![pubSlot[p]] = pubLt[p]]
            /\ PubGoTo(p, "waiting")
            /\ UNCHANGED <<pubLt, pubSlot, result>>
       ELSE Return(p)
    /\ UNCHANGED <<coreVars, current, lifeVars, supVars, closeVars>>

(* The Paho call and its token end; an invocation may also never return.    *)
(* Its caller, if it still waits, finds the result in a buffered channel.   *)
InvocationReturns(s, r) ==
    /\ slot[s] = "running"
    /\ r = "failed" => Breakable(slotLt[s])
    /\ slot' = [slot EXCEPT ![s] = "posted"]
    /\ result' = [p \in Publishers |-> IF pubSlot[p] = s THEN r ELSE result[p]]
    /\ UNCHANGED <<coreVars, current, lifeVars, supVars, pub, pubLt, pubSlot,
                   slotLt, closeVars>>

(* finishOp and the release of the slot.                                    *)
InvocationEnds(s) ==
    /\ slot[s] = "posted"
    /\ slot' = [slot EXCEPT ![s] = "free"]
    /\ slotLt' = [slotLt EXCEPT ![s] = NoLifetime]
    /\ pubSlot' = [p \in Publishers |-> IF pubSlot[p] = s THEN NoSlot ELSE pubSlot[p]]
    /\ UNCHANGED <<coreVars, current, lifeVars, supVars, pub, pubLt, result,
                   closeVars>>

PubConfirmed(p) ==
    /\ pub[p] = "waiting"
    /\ result[p] = "ok"
    /\ Return(p)
    /\ UNCHANGED <<coreVars, current, lifeVars, supVars, closeVars>>

(* A failed invocation or a spent budget: failCurrent, field by field.      *)
PubFails(p) ==
    /\ pub[p] = "waiting"
    /\ result[p] = "failed" \/ Breakable(pubLt[p])
    /\ PubGoTo(p, "mark")
    /\ UNCHANGED <<coreVars, current, lifeVars, supVars, pubLt, pubSlot, result,
                   slot, slotLt, closeVars>>

PubMark(p) ==
    /\ pub[p] = "mark"
    /\ MarkFailed(pubLt[p])
    /\ PubGoTo(p, "socket")
    /\ UNCHANGED <<coreVars, current, supVars, pubLt, pubSlot, result, slot,
                   slotLt, closeVars>>

PubSocket(p) ==
    /\ pub[p] = "socket"
    /\ CloseSocket(pubLt[p])
    /\ PubGoTo(p, "clear")
    /\ UNCHANGED <<coreVars, current, supVars, pubLt, pubSlot, result, slot,
                   slotLt, closeVars>>

PubClear(p) ==
    /\ pub[p] = "clear"
    /\ ClearCurrent(pubLt[p])
    /\ PubGoTo(p, "wake")
    /\ UNCHANGED <<coreVars, lifeVars, supVars, pubLt, pubSlot, result, slot,
                   slotLt, closeVars>>

PubWake(p) ==
    /\ pub[p] = "wake"
    /\ SignalWake(pubLt[p]) /\ UNCHANGED lost
    /\ PubGoTo(p, "grace")
    /\ UNCHANGED <<coreVars, current, supVars, pubLt, pubSlot, result, slot,
                   slotLt, closeVars>>

(* The grace ends, with the invocation returned or left behind in its slot. *)
PubGrace(p) ==
    /\ pub[p] = "grace"
    /\ Return(p)
    /\ UNCHANGED <<coreVars, current, lifeVars, supVars, closeVars>>
-----------------------------------------------------------------------------
(* StopReconnect and Close. *)

StopReconnect ==
    /\ ~stopping
    /\ stopping' = TRUE
    /\ UNCHANGED <<started, stuck, current, lifeVars, supVars, pubVars,
                   closeVars>>

CloseGoTo(step) == close' = step /\ UNCHANGED <<closeLt, expired>>

(* Close stops the reconnecting and, if there is a supervisor, waits for it.*)
CloseBegin ==
    /\ close = "no"
    /\ stopping' = TRUE
    /\ CloseGoTo("wait")
    /\ UNCHANGED <<started, stuck, current, lifeVars, supVars, pubVars>>

MutSupervisorGone == TRUE
SupervisorGone == sup \in {"off", "exited"}

CloseWaited ==
    /\ close = "wait"
    /\ SupervisorGone
    /\ CloseGoTo("take")
    /\ UNCHANGED <<coreVars, current, lifeVars, supVars, pubVars>>

(* The caller's context ends first.                                         *)
CloseExpires ==
    /\ close = "wait"
    /\ started
    /\ close' = "take" /\ expired' = TRUE
    /\ UNCHANGED <<coreVars, current, lifeVars, supVars, pubVars, closeLt>>

(* takeCurrent.                                                             *)
NothingToTake == current = NoLifetime
CloseTake ==
    /\ close = "take"
    /\ IF NothingToTake
       THEN close' = "returned" /\ UNCHANGED <<current, closeLt>>
       ELSE /\ close' = "mark"
            /\ closeLt' = current
            /\ current' = NoLifetime
    /\ UNCHANGED <<coreVars, lifeVars, supVars, pubVars, expired>>

CloseMark ==
    /\ close = "mark"
    /\ MarkFailed(closeLt)
    /\ CloseGoTo("socket")
    /\ UNCHANGED <<coreVars, current, supVars, pubVars>>

CloseCloses ==
    /\ close = "socket"
    /\ CloseSocket(closeLt)
    /\ CloseGoTo("ops")
    /\ UNCHANGED <<coreVars, current, supVars, pubVars>>

(* The wait for the invocations, if there is a budget left for one.         *)
CloseReturns ==
    /\ close = "ops"
    /\ \/ UNCHANGED stuck
       \/ stuck' = TRUE
    /\ CloseGoTo("returned")
    /\ UNCHANGED <<started, stopping, current, lifeVars, supVars, pubVars>>
-----------------------------------------------------------------------------
Init ==
    /\ started = FALSE /\ stopping = FALSE /\ stuck = FALSE
    /\ current = NoLifetime
    /\ subscribed = [l \in Lifetimes |-> FALSE]
    /\ failed = [l \in Lifetimes |-> FALSE]
    /\ closed = [l \in Lifetimes |-> FALSE]
    /\ wake = [l \in Lifetimes |-> FALSE]
    /\ dial = [l \in Lifetimes |-> "none"]
    /\ connected = [l \in Lifetimes |-> FALSE]
    /\ lost = [l \in Lifetimes |-> "no"]
    /\ sup = "off" /\ epoch = 0
    /\ pub = [p \in Publishers |-> "idle"]
    /\ pubLt = [p \in Publishers |-> NoLifetime]
    /\ pubSlot = [p \in Publishers |-> NoSlot]
    /\ result = [p \in Publishers |-> "none"]
    /\ slot = [s \in Slots |-> "free"]
    /\ slotLt = [s \in Slots |-> NoLifetime]
    /\ close = "no" /\ closeLt = NoLifetime /\ expired = FALSE

Supervise ==
    \/ SupExit \/ SupConnect \/ ConnAck \/ SubAck \/ ConnectFails
    \/ Subscribed \/ Install
    \/ SupStop \/ SupWake \/ SupClear \/ SupMark \/ SupSocket
    \/ SupClean \/ SupStuck \/ BackoffEnds
OnLost(l) == LostWake(l) \/ LostClear(l)
Publish(p) ==
    \/ PubSlot(p) \/ PubSecond(p) \/ PubBegin(p)
    \/ PubConfirmed(p) \/ PubFails(p) \/ PubMark(p) \/ PubSocket(p)
    \/ PubClear(p) \/ PubWake(p) \/ PubGrace(p)
Close ==
    \/ CloseWaited \/ CloseExpires \/ CloseTake \/ CloseMark \/ CloseCloses
    \/ CloseReturns

Next ==
    \/ Start \/ StopReconnect \/ CloseBegin
    \/ Supervise \/ Close
    \/ \E l \in Lifetimes : DialDone(l) \/ LostMark(l) \/ OnLost(l)
    \/ \E p \in Publishers : PubLook(p) \/ Publish(p)
    \/ \E s \in Slots :
           \/ InvocationEnds(s)
           \/ \E r \in {"ok", "failed"} : InvocationReturns(s, r)

Spec == Init /\ [][Next]_vars

(* Goroutines that can run do run, dialing and CONNECT end.  An invocation  *)
(* need not.                                                                *)
FairSpec ==
    /\ Spec
    /\ WF_vars(Start) /\ WF_vars(Supervise) /\ WF_vars(Close)
    /\ \A l \in Lifetimes : WF_vars(DialDone(l)) /\ WF_vars(OnLost(l))
    /\ \A p \in Publishers : WF_vars(Publish(p))
    /\ \A s \in Slots : WF_vars(InvocationEnds(s))
-----------------------------------------------------------------------------
(* Properties. *)

(* The type of the state.                                                   *)
TransportTypeOK ==
    /\ started \in BOOLEAN /\ stopping \in BOOLEAN /\ stuck \in BOOLEAN
    /\ current \in 0..epoch /\ epoch \in 0..MaxLifetimes
    /\ subscribed \in [Lifetimes -> BOOLEAN] /\ failed \in [Lifetimes -> BOOLEAN]
    /\ closed \in [Lifetimes -> BOOLEAN] /\ wake \in [Lifetimes -> BOOLEAN]
    /\ dial \in [Lifetimes -> {"none", "dialing", "attached", "over"}]
    /\ connected \in [Lifetimes -> BOOLEAN]
    /\ lost \in [Lifetimes -> {"no", "marked", "woken", "done"}]
    /\ sup \in {"off", "top", "connecting", "subscribing", "subscribed", "install",
                "select", "clear", "mark", "socket", "ops", "dropMark",
                "dropSocket", "backoff", "exited"}
    /\ pub \in [Publishers -> {"idle", "slot", "second", "begin", "waiting",
                               "mark", "socket", "clear", "wake", "grace"}]
    /\ pubLt \in [Publishers -> 0..epoch]
    /\ pubSlot \in [Publishers -> Slots \cup {NoSlot}]
    /\ result \in [Publishers -> {"none", "ok", "failed"}]
    /\ slot \in [Slots -> {"free", "held", "running", "posted"}]
    /\ slotLt \in [Slots -> 0..epoch]
    /\ close \in {"no", "wait", "take", "mark", "socket", "ops", "returned"}
    /\ closeLt \in 0..epoch /\ expired \in BOOLEAN
    /\ close \in {"mark", "socket", "ops"} => closeLt \in Lifetimes

(* "Exactly one client lifetime is active at a time": a late dial, a loss   *)
(* before install or a publish that tears down never leaves two sockets     *)
(* open.  Only the newest lifetime can have one.                            *)
OneSocket == \A l \in Lifetimes : Open(l) => l = epoch

(* A transport that says it is ready has a current lifetime with a positive *)
(* subscription whose socket nobody has closed, whoever is tearing down     *)
(* (readyLocked looks at neither the socket nor the closed flag).           *)
ReadyIsLive == Ready => Open(current) /\ connected[current]

(* No invocation of Publish outlives its lifetime's replacement: each one   *)
(* that runs belongs to the newest lifetime, so that wedged ones do not     *)
(* add up from one reconnect to the next (beginOp, waitOps, markStuck).     *)
InvocationsAreNewest ==
    \A s \in Slots : slot[s] \in {"running", "posted"} => slotLt[s] = epoch

(* A slot that is held without an invocation belongs to one caller, on its  *)
(* way to beginOp: no refusal leaks it.                                     *)
SlotsAreOwned ==
    \A s \in Slots :
        /\ slot[s] = "held" =>
               \E p \in Publishers : /\ pubSlot[p] = s
                                     /\ pub[p] \in {"second", "begin"}
        /\ \A p, q \in Publishers : pubSlot[p] = s /\ pubSlot[q] = s => p = q

(* The current lifetime is only cleared after it failed, or by Close, and a *)
(* new one is never put in the place of another: a stale callback or a late *)
(* publisher of an earlier lifetime cannot take down its replacement.       *)
OnlyFailedIsCleared ==
    [][current # NoLifetime /\ current' # current =>
           /\ current' = NoLifetime
           /\ failed[current] \/ close = "take"]_vars

(* When Close has seen the supervisor go, it leaves no lifetime current and *)
(* no socket open.                                                          *)
CloseLeavesNothing ==
    close = "returned" /\ ~expired =>
        current = NoLifetime /\ \A l \in Lifetimes : ~Open(l)

(* With a network that breaks finitely often, the transport becomes ready   *)
(* and is not stuck in a teardown, a backoff or a lifetime that failed      *)
(* unnoticed, unless it is stopped or fails closed.                         *)
BecomesReady == started ~> (Ready \/ stopping \/ stuck)

(* A stop reaches the supervisor wherever it is, in a connect, a teardown, *)
(* a backoff or in front of a lifetime that works: superviseDone closes and *)
(* Close does not need the end of its context.                              *)
SupervisorLeaves == (started /\ stopping) ~> sup = "exited"
=============================================================================

------------------------------ MODULE BrokerGate ------------------------------
(***************************************************************************)
(* What the broker lifecycle controller promises its backend: one broker    *)
(* child at a time behind a public gate.  Every lifetime of the child has   *)
(* an epoch, every closed period of the gate a nonce, and the gate opens    *)
(* once per nonce, for the receipt that names both.                         *)
(*                                                                          *)
(* Epochs and nonces are 32 random bytes; here they are drawn from one      *)
(* counter, and 0 is the empty string.                                      *)
(***************************************************************************)
EXTENDS Naturals

VARIABLES
    alive,      \* a child is running
    open,       \* the gate accepts connections
    epoch,      \* the lifetime of the child, 0 when there is none
    nonce,      \* the challenge an opener must name, 0 when there is none
    issued,     \* identities drawn so far
    terminal    \* the lifecycle has failed or was shut down for good

gateVars == <<alive, open, epoch, nonce, issued, terminal>>

GateInit ==
    /\ alive = FALSE /\ open = FALSE
    /\ epoch = 0 /\ nonce = 0 /\ issued = 0
    /\ terminal = FALSE

\* A new lifetime, or the failure to start one.
GateSpawn ==
    /\ ~alive /\ ~open /\ ~terminal
    /\ alive' = TRUE
    /\ epoch' = issued + 1 /\ nonce' = issued + 2 /\ issued' = issued + 2
    /\ UNCHANGED <<open, terminal>>

GateSpawnFails ==
    /\ ~alive /\ ~open
    /\ epoch' = 0 /\ nonce' = 0
    /\ issued' \in {issued, issued + 2}
    /\ UNCHANGED <<alive, open, terminal>>

GateOpen(receipt) ==
    /\ alive /\ ~open /\ ~terminal
    /\ receipt = [epoch |-> epoch, nonce |-> nonce]
    /\ epoch # 0 /\ nonce # 0
    /\ nonce' = 0
    /\ open' \in BOOLEAN
    /\ UNCHANGED <<alive, epoch, issued, terminal>>

\* The gate closes, or stays closed under a new challenge.
GateShut ==
    /\ open' = FALSE
    /\ \/ nonce' = 0 /\ UNCHANGED issued
       \/ /\ alive /\ ~terminal
          /\ nonce' = issued + 1 /\ issued' = issued + 1
    /\ UNCHANGED <<alive, epoch, terminal>>

GateChildGone ==
    /\ alive
    /\ alive' = FALSE
    /\ UNCHANGED <<open, epoch, nonce, issued, terminal>>

GateFail ==
    /\ terminal' = TRUE /\ open' = FALSE /\ nonce' = 0
    /\ UNCHANGED <<alive, epoch, issued>>

GateNext ==
    \/ GateSpawn \/ GateSpawnFails \/ GateShut \/ GateChildGone \/ GateFail
    \/ GateOpen([epoch |-> epoch, nonce |-> nonce])

GateSpec == GateInit /\ [][GateNext]_gateVars
=============================================================================

------------------------------ MODULE Delivery ------------------------------
(***************************************************************************)
(* What the gateway promises about a batch, with nothing of how: a batch   *)
(* is accepted once, it is held durably until it is released, the server   *)
(* gets it at some time after it was accepted, and it is released only     *)
(* after the server has it.                                                *)
(***************************************************************************)
CONSTANT Ids

VARIABLES accepted, held, delivered

deliveryVars == <<accepted, held, delivered>>

DeliveryInit == accepted = {} /\ held = {} /\ delivered = {}

Accept(m) ==
    /\ m \notin accepted
    /\ accepted' = accepted \cup {m}
    /\ held' = held \cup {m}
    /\ UNCHANGED delivered

Deliver(m) ==
    /\ m \in accepted
    /\ delivered' = delivered \cup {m}
    /\ UNCHANGED <<accepted, held>>

Release(m) ==
    /\ m \in held \cap delivered
    /\ held' = held \ {m}
    /\ UNCHANGED <<accepted, delivered>>

DeliveryNext == \E m \in Ids : Accept(m) \/ Deliver(m) \/ Release(m)

DeliverySpec == DeliveryInit /\ [][DeliveryNext]_deliveryVars
=============================================================================

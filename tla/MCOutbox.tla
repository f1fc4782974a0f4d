------------------------------ MODULE MCOutbox ------------------------------
(***************************************************************************)
(* The outbox on a small instance: two processes of two possible           *)
(* identities, four batches of two sizes, quotas that both the rows and    *)
(* the bytes reach, and a counter narrow enough to wrap.                   *)
(***************************************************************************)
EXTENDS Outbox

MCSizes == {1, 3}
MCIdentities == {"gateway_001", "gateway_002"}
=============================================================================

---------------------------- MODULE MCTransport ----------------------------
(***************************************************************************)
(* One publisher and one slot, which an abandoned invocation may keep from *)
(* the next call; a lifetime that may break at any point, and one that     *)
(* does not.  The constants are given in the configurations.               *)
(***************************************************************************)
EXTENDS Transport
=============================================================================

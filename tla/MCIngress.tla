----------------------------- MODULE MCIngress -----------------------------
(***************************************************************************)
(* Four deliveries, two of them of the same batch and one of a batch that  *)
(* overlaps it, on a queue of two and two workers.                         *)
(***************************************************************************)
EXTENDS Ingress

MCDeliveries == {"d1", "d2", "d3", "d4"}
MCMessageOf  == [d \in MCDeliveries |-> IF d \in {"d1", "d2"} THEN 1 ELSE 2]
MCMessages   == {1, 2}
MCKeyOf      == <<"k1", "k2">>
MCSensorOf   == <<"s", "s">>
MCBootOf     == <<"a", "a">>
MCFirstOf    == <<0, 1>>
MCLastOf     == <<1, 2>>
=============================================================================

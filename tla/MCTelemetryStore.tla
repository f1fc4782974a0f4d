-------------------------- MODULE MCTelemetryStore --------------------------
(***************************************************************************)
(* Two workers and six messages: m1 and m2 follow each other in one boot   *)
(* with the same measurement time, m3 overlaps both, m4 reuses the key of  *)
(* m1 on another Sensor, m5 has the time of m1 in another boot, m6 has the *)
(* key of a row without provenance.                                        *)
(***************************************************************************)
EXTENDS TelemetryStore

MCMessages == 1..6
MCKeyOf    == <<"k1", "k2", "k3", "k1", "k4", "old">>
MCSensorOf == <<"s1", "s1", "s1", "s2", "s1", "s2">>
MCBootOf   == <<"a", "a", "a", "a", "b", "a">>
MCFirstOf  == <<0, 2, 1, 0, 0, 5>>
MCLastOf   == <<1, 3, 2, 1, 1, 6>>
MCTimeOf   == <<2, 2, 3, 1, 2, 3>>
MCSensors  == {"s1", "s2"}
MCLegacy   == {"old"}

(* s1 has never reported; s2 has a state without boot and sequence.         *)
MCInitialState ==
    [s \in MCSensors |->
        IF s = "s1" THEN [version |-> 0, at |-> 0, boot |-> "none", seq |-> 0]
                    ELSE [version |-> 3, at |-> 1, boot |-> "none", seq |-> 0]]
=============================================================================

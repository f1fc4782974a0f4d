------------------------------- MODULE MCReads -------------------------------
(***************************************************************************)
(* An instance of Reads: windows on both sides of the epoch, bucket widths  *)
(* of 1, 2 and 6, answers of at most 3 points, two gateways with sensors.   *)
(***************************************************************************)
EXTENDS Reads

MCResolutions == <<"w1", "w2", "w6">>
MCDuration == [w1 |-> 1, w2 |-> 2, w6 |-> 6]

MCNumber(t, u) == [at |-> t, type |-> "number", unit |-> u]
MCRows == {MCNumber(-3, "us"), MCNumber(-1, "us"), MCNumber(0, "us"),
           MCNumber(0, Unknown), [at |-> -1, type |-> "text", unit |-> Unknown]}

MCAsk(route, property, from, to, res, max) ==
    [route |-> route, entity |-> "Sensor", form |-> "wellformed", format |-> "default",
     property |-> property, from |-> from, to |-> to, res |-> res, max |-> max]
\* Requests that read: both properties, every resolution, short and long windows.
MCReading ==
    {MCAsk("telemetry", "value", -3, 3, "auto", 3), MCAsk("telemetry", "value", -3, 1, "raw", 2),
     MCAsk("telemetry", "value", -3, 1, "auto", 2),
     MCAsk("twin", "value", -1, 1, "w1", 2),
     MCAsk("twin", "sample_interval_us", -3, 1, "auto", 2),
     MCAsk("twin", "sample_interval_us", -3, 3, "auto", 2),
     MCAsk("temporal", "sample_interval_us", -3, 1, "raw", 3),
     MCAsk("temporal", "sample_interval_us", -3, 3, "w6", 3)}
\* Requests that are refused, one for each reason.
MCRefused ==
    {MCAsk("temporal", "value", 1, 1, "w6", 3), MCAsk("twin", "value", -4, 3, "auto", 3),
     MCAsk("telemetry", "value", -3, 3, "raw", 3), MCAsk("telemetry", "value", 0, 2, "w1", 4),
     MCAsk("telemetry", "value", -3, 3, "w2", 3),
     MCAsk("telemetry", "value", 0, 2, "unsupported", 3),
     MCAsk("temporal", "humidity", 0, 2, "w1", 3),
     [MCAsk("twin", "value", 0, 2, "w1", 3) EXCEPT !.entity = "Gateway"],
     [MCAsk("twin", "value", 0, 2, "w1", 3) EXCEPT !.form = "malformed"],
     [MCAsk("temporal", "value", 0, 2, "w1", 3) EXCEPT !.format = "temporalValues"]}
MCHistoryRequests == MCReading \cup MCRefused

MCEntities == 1..5
MCGatewayOf == <<"A", "B", "A", "A", "B">>
MCTypeOf == <<"Gateway", "Gateway", "Sensor", "Sensor", "Sensor">>
MCExisting == {1, 4}
MCFilters == {[gateway |-> Absent, type |-> Absent], [gateway |-> "A", type |-> Absent],
              [gateway |-> Absent, type |-> "Sensor"]}
=============================================================================

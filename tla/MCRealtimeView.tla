--------------------------- MODULE MCRealtimeView ---------------------------
(* Model checking of RealtimeView: two detectors on one port.              *)
EXTENDS RealtimeView

CONSTANTS d1, d2

OnePort == [d \in Detectors |-> CHOOSE p \in PortIds : TRUE]
\* The bigscreen compares the alarms of two detectors, the pages follow those of one.
AlarmsOf(k, d) ==
    CASE k = "bigscreen" -> {"normal", IF d = d1 THEN "alarm_high" ELSE "offline"}
      [] k # "bigscreen" /\ d = d1 -> {"normal", "alarm_high"}
      [] OTHER -> {}
SomeReadings == [k \in Kinds |-> [d \in Detectors |-> AlarmsOf(k, d)]]
TwoPages == {<<"data", "map">>}
=============================================================================

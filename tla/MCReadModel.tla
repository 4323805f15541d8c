------------------------------ MODULE MCReadModel ------------------------------
(* Two detectors, one of them behind a controller, one an alarm and one a     *)
(* fault or off line.                                                         *)
EXTENDS ReadModel

SomeReadings == [d \in Detectors |-> IF d = 1 THEN {"normal", "alarm_high"} ELSE {"fault", "offline"}]
SomeControllers == [d \in Detectors |-> IF d = 1 THEN "c1" ELSE Direct]
=============================================================================

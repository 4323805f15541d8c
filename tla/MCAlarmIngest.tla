---------------------------- MODULE MCAlarmIngest ----------------------------
(* Small instances of AlarmIngest for TLC. *)
EXTENDS AlarmIngest

CONSTANTS d1, d2, r1, r2, o1, low, high

\* Only a high alarm carries level 2; a low alarm carries level 1.
MCLevelOf == [t \in {low, high} |-> IF t = high THEN 2 ELSE 1]

\* One wildcard rule for every detector, one rule for high alarms of d1.
MCShapes ==
    {[det |-> AnyDetector, type |-> AnyType, level |-> NoLevel, object |-> o1, enabled |-> TRUE],
     [det |-> d1, type |-> high, level |-> 2, object |-> o1, enabled |-> TRUE]}
=============================================================================

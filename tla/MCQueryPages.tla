---------------------------- MODULE MCQueryPages ----------------------------
(* A small instance of QueryPages for TLC: every field of a frame damaged; three *)
(* rows at first, two of them of the same time.                                   *)
EXTENDS QueryPages

Read(mode, source, unit, start, count) ==
    [mode |-> mode, source |-> source, unit |-> unit, start |-> start, count |-> count]

MCCommands == {Read("protocol_1", "probe", 1, 0, 5), Read("protocol_1", "probe", 1, 0, 2),
               Read("protocol_1", "controller", 1, 0, 2), Read("protocol_1", "controller", 1, 0, 4),
               Read("protocol_1", "controller", 1, 2, 2), Read("protocol_1", "controller", 1, 1, 2),
               Read("protocol_2", "probe", 1, 0, 4), Read("protocol_2", "controller", 1, 4, 4),
               Read("protocol_2", "controller", 1, 0, 8), Read("protocol_2", "probe", 0, 0, 4)}

MCTargets == [detector : {1, 2}, controller : {1}]

Device(mode, source, statuses) ==
    [mode |-> mode, source |-> source, unit |-> 1, statuses |-> statuses]

MCDevices ==
    {Device("protocol_1", "probe", <<s>>) : s \in DOMAIN StateByte}
    \union {Device("protocol_1", "controller", <<s, "alarm_low">>) : s \in DOMAIN ControllerCode}
    \union {Device("protocol_2", "probe", <<s>>) : s \in DOMAIN StatusCode}
    \union {Device("protocol_2", "controller", <<s, "alarm_high">>) : s \in {"normal", "offline"}}

\* In the address, the function, the length, the data and the CRC.
MCFlips == {13} \union {b \in 0..167 : b % 19 = 0}

SomeStamps == <<1, 3, 3>>
SomeHomes == <<"hall", "yard">>
\* A window that is too wide, one that is inverted, and an ordinary one with either
\* status of an alarm, with a place and a detector; the last hour alone is what a
\* reset leaves.
Filters(from, to, status, place_, det) ==
    [from |-> from, to |-> to, status |-> status, place |-> place_, det |-> det]
SomeForms == {Filters(0, 5, "any", Anywhere, 0), Filters(4, 3, "any", Anywhere, 0)}
             \union {Filters(2, 4, status, Anywhere, 0) : status \in {"active", "recovered"}}
             \union {Filters(2, 4, "any", "hall", 1)}
=============================================================================

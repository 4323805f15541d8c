--------------------------- MODULE MCMaintenance ---------------------------
(* A small instance of PageSide for TLC: half a day and two dates; one map and one   *)
(* to upload, two points, one backup; two curves, one minute.                         *)
EXTENDS PageSide, TLC

MCDates == {0, 1}
MCCycles == {1}
MCReminds == {0, 1}
MCSymmetry == Permutations(DetectorIds)

Mark(m, d, s, l) == [map |-> m, det |-> d, place |-> s, label |-> l]
MCDatabases ==
    {[given |-> {1}, maps |-> {1}, sensors |-> {1, 2},
      marks |-> [q \in {1, 2} |-> Mark(1, q, 1, "a")]],
     [given |-> {1}, maps |-> {1}, sensors |-> {1, 2},
      marks |-> [q \in {1} |-> Mark(1, 2, 1, "b")]]}

Pt(id, value, at) == [id |-> id, value |-> value, at |-> at]
MCReplies == {<<>>, <<Pt(2, "v", 0), Pt(1, NoValue, 1)>>, <<Pt(1, NoValue, 0)>>}
MCIdTexts == {<<>>, <<1>>, <<2, 1>>}
MCPeriods == {<<1, 0>>, <<0, 1>>, <<0, 3>>}
MCLastHour == <<2, 3>>
=============================================================================

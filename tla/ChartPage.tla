------------------------------ MODULE ChartPage ------------------------------
(***************************************************************************)
(* The chart page (ui/chart): the curves of the last minutes, read from    *)
(* the state store's short cache (ChartService.get_realtime_series), and   *)
(* those of the stored records, with the table below them that is          *)
(* exported and printed.  How query_history reads the records is in        *)
(* Records; here it answers, refuses or fails.                             *)
(*                                                                         *)
(* The page's two tabs share nothing, so a behaviour is of one of them.    *)
(* Handlers run to their end in the GUI thread; workers add readings       *)
(* between them.  Zooming and panning are left out: they only draw.        *)
(***************************************************************************)
EXTENDS Integers, Sequences, FiniteSets, SequencesExt, FiniteSetsExt

CONSTANTS Probes,                \* detectors of the curves
          IdTexts,               \* what the editors of ids are filled with, as parsed
          Values, NoValue,       \* concentrations, and none
          Periods, LastHour,     \* <<start, end>> of the editors, and what a reset makes of them
          MaxPeriod, MaxProbes,  \* the widest period and the most detectors of a query
          StatusFilters,         \* filters that are recorded and not asked for
          Replies,               \* the points a query may be answered with
          CacheSize, Lookback,   \* curve_cache_size; the minutes shown
          MaxMinute, MaxReadings \* bounds: the clock, and the readings

\* What the texts are parsed to: positive numbers, each once, in the order typed.
_parse_ids(ids) == ids \in Seq(Probes) /\ IsInjective(ids)

CurvePoint == [id : Probes, value : Values \union {NoValue}, at : Nat]

ASSUME ChartAssumption ==
    /\ Probes \subseteq Nat \ {0} /\ NoValue \notin CurvePoint
    /\ \A ids \in IdTexts : _parse_ids(ids)
    /\ Replies \subseteq Seq(CurvePoint)
    /\ CacheSize \in Nat \ {0} /\ {Lookback, MaxMinute, MaxReadings} \subseteq Nat

VARIABLES tab,       \* the tab shown
          minute,    \* the clock
          cached,    \* _curve_cache of the state store
          received,  \* history: every reading, by detector
          typed,     \* realtime_detector_edit
          live,      \* realtime_chart
          past,      \* the other tab: editors, filters, rows, table, chart
          lastAnswer, \* history: the last query that was asked, and what it answered
          payload     \* last_export_payload or last_print_payload, with its filters

chartVars == <<tab, minute, cached, received, typed, live, past, lastAnswer, payload>>
-----------------------------------------------------------------------------
(* ChartCurveWidget: series in their order, those drawn, those ticked in   *)
(* the legend, the current point, and whether it says that there is none.  *)
(* Of a sequence from which some members are left out, the others keep     *)
(* their numbers.                                                          *)

HasValue(points) == \E n \in DOMAIN points : points[n].value # NoValue
Drawn(series, visible) == {k \in DOMAIN series : series[k].id \in visible /\ HasValue(series[k].points)}

\* _update_current_value: the last point that has a value, of the last series drawn.
Latest(series, visible) ==
    IF Drawn(series, visible) = {} THEN NoValue
    ELSE LET points == series[Max(Drawn(series, visible))].points
         IN  points[Max({n \in DOMAIN points : points[n].value # NoValue})]

\* _has_visible_points.
_redrawn(w, series, visible) ==
    [w EXCEPT !.series = series, !.visible = visible, !.current = Latest(series, visible),
              !.empty = Drawn(series, visible) = {}]

\* What was drawn stays drawn, if it is there; or else everything is.
set_series(w, series) ==
    LET ids == {series[k].id : k \in DOMAIN series}
        visible == IF w.visible \intersect ids = {} THEN ids ELSE w.visible \intersect ids
    IN  [_redrawn(w, series, visible) EXCEPT !.ticked = visible]

\* The box of a series is ticked, or no more.
_toggle_series(w, id) ==
    LET flip(S) == IF id \in w.ticked THEN S \ {id} ELSE S \union {id}
    IN  [_redrawn(w, w.series, flip(w.visible)) EXCEPT !.ticked = flip(w.ticked)]

\* A widget has loaded: whether it is empty is told again.
set_loading(w) == [w EXCEPT !.empty = Drawn(w.series, w.visible) = {}]

NewChart == [series |-> <<>>, visible |-> {}, ticked |-> {}, current |-> NoValue, empty |-> TRUE, error |-> FALSE]
SeriesOf(w) == {w.series[k].id : k \in DOMAIN w.series}
-----------------------------------------------------------------------------
(* The curves of the last minutes.                                         *)

\* StateStore: the newest readings of a detector, the oldest first.
_curve_cache(points) == IF Len(points) <= CacheSize THEN points ELSE Tail(points)

update_readings ==
    /\ tab = "realtime"
    /\ \E id \in Probes, value \in Values \union {NoValue} :
          LET point == [id |-> id, value |-> value, at |-> minute]
          IN  /\ Len(received[id]) < MaxReadings
              /\ cached' = [cached EXCEPT ![id] = _curve_cache(Append(@, point))]
              /\ received' = [received EXCEPT ![id] = Append(@, point)]
    /\ UNCHANGED <<tab, minute, typed, live, past, lastAnswer, payload>>

Minute == /\ tab = "realtime" /\ minute < MaxMinute /\ minute' = minute + 1
          /\ UNCHANGED <<tab, cached, received, typed, live, past, lastAnswer, payload>>

type_ids == /\ tab = "realtime" /\ \E ids \in IdTexts : typed' = ids
            /\ UNCHANGED <<tab, minute, cached, received, live, past, lastAnswer, payload>>

\* Points of the cache that are not older than the cutoff.
get_realtime_series(ids) ==
    LET recent(points) == {n \in DOMAIN points : points[n].at >= minute - Lookback}
    IN  [k \in DOMAIN ids |-> Restrict(cached[ids[k]], recent(cached[ids[k]]))]

_series_from_realtime(ids) ==
    LET points == get_realtime_series(ids)
    IN  [k \in DOMAIN ids |-> [id |-> ids[k], points |-> points[k]]]

\* Without ids nothing is read; a failure is told, and the curves stay.
refresh_realtime ==
    /\ tab = "realtime" /\ typed # <<>>
    /\ \/ live' = [live EXCEPT !.error = TRUE]
       \/ live' = [set_series(live, _series_from_realtime(typed)) EXCEPT !.error = FALSE]
    /\ UNCHANGED <<tab, minute, cached, received, typed, past, lastAnswer, payload>>
-----------------------------------------------------------------------------
(* The curves of the records.                                              *)

edit_history ==
    /\ tab = "history"
    /\ \E period \in Periods, ids \in IdTexts, status \in StatusFilters :
          past' = [past EXCEPT !.form = [period |-> period, ids |-> ids, status |-> status]]
    /\ UNCHANGED <<tab, minute, cached, received, typed, live, lastAnswer, payload>>

\* The rows and what they were asked with stay.
_reset_history_filter ==
    /\ tab = "history"
    /\ past' = [past EXCEPT !.form = [period |-> LastHour, ids |-> <<>>, status |-> "all"]]
    /\ UNCHANGED <<tab, minute, cached, received, typed, live, lastAnswer, payload>>

\* _validate_history_range, _parse_ids and HistoryCurveQuery.
Askable(form) ==
    /\ form.ids # <<>> /\ Len(form.ids) <= MaxProbes
    /\ form.period[1] <= form.period[2] /\ form.period[2] - form.period[1] <= MaxPeriod

\* _set_querying(False), before the answer is looked at.
_set_querying(p) == [p EXCEPT !.export = p.rows # <<>>, !.chart = set_loading(@)]

\* Points by detector, numbered by its id.
_series_from_history(points) ==
    [k \in {points[n].id : n \in DOMAIN points} |->
        [id |-> k, points |-> Restrict(points, {n \in DOMAIN points : points[n].id = k})]]

set_points(p, points) ==
    [p EXCEPT !.rows = points, !.export = points # <<>>, !.state = IF points = <<>> THEN "empty" ELSE "ready"]

\* Mutant: the table shows the error, and its buttons are left as they are.
BugSetError(p) == [p EXCEPT !.state = "error", !.chart.error = TRUE]

set_error(p) == [p EXCEPT !.state = "error", !.export = FALSE, !.chart.error = TRUE]

ShowAnswer(p, points) ==
    [set_points([p EXCEPT !.filters = p.form], points) EXCEPT
        !.chart = [set_series(p.chart, _series_from_history(points)) EXCEPT !.error = FALSE]]

query_history_page ==
    /\ tab = "history" /\ Askable(past.form)
    /\ \/ /\ past' = set_error(_set_querying(past))
          /\ lastAnswer' = [failed |-> TRUE, filters |-> past.form, rows |-> <<>>]
       \/ \E points \in Replies :
             /\ \A n \in DOMAIN points : points[n].id \in Range(past.form.ids)
             /\ past' = ShowAnswer(_set_querying(past), points)
             /\ lastAnswer' = [failed |-> FALSE, filters |-> past.form, rows |-> points]
    /\ UNCHANGED <<tab, minute, cached, received, typed, live, payload>>

\* export_current or print_current; a failure leaves the payload before.
_build_export ==
    /\ tab = "history" /\ past.export /\ past.rows # <<>>
    /\ past' = [past EXCEPT !.export = TRUE]
    /\ payload' \in {payload, [rows |-> past.rows, filters |-> past.filters]}
    /\ UNCHANGED <<tab, minute, cached, received, typed, live, lastAnswer>>

toggled ==
    /\ \/ \E id \in SeriesOf(live) : live' = _toggle_series(live, id) /\ UNCHANGED past
       \/ \E id \in SeriesOf(past.chart) :
             past' = [past EXCEPT !.chart = _toggle_series(@, id)] /\ UNCHANGED live
    /\ UNCHANGED <<tab, minute, cached, received, typed, lastAnswer, payload>>
-----------------------------------------------------------------------------
NoFilter == [period |-> LastHour, ids |-> <<>>, status |-> "all"]

\* The store and the table as they are built.
NewCache == [id \in Probes |-> <<>>]
NewPast == [form |-> NoFilter, filters |-> NoFilter, rows |-> <<>>, state |-> "ready",
            export |-> FALSE, chart |-> NewChart]

ChartInit ==
    /\ tab \in {"realtime", "history"} /\ minute = 0
    /\ cached = NewCache /\ received = cached /\ typed = <<>> /\ live = NewChart
    /\ past = NewPast
    /\ lastAnswer = [failed |-> FALSE, filters |-> NoFilter, rows |-> <<>>]
    /\ payload = [rows |-> <<>>, filters |-> NoFilter]

ChartNext == \/ update_readings \/ Minute \/ type_ids \/ refresh_realtime
             \/ edit_history \/ _reset_history_filter \/ query_history_page \/ _build_export
             \/ toggled

ChartSpec == ChartInit /\ [][ChartNext]_chartVars
-----------------------------------------------------------------------------
\* The legend ticks what is drawn; the current value is of a curve that is; that there
\* is none is said only then; and a curve has no points but its own.
WidgetTrue(w) ==
    /\ w.visible = w.ticked /\ w.visible \subseteq SeriesOf(w)
    /\ w.current = Latest(w.series, w.ticked) /\ (w.empty <=> w.current = NoValue)
    /\ \A k \in DOMAIN w.series : \A n \in DOMAIN w.series[k].points :
          w.series[k].points[n].id = w.series[k].id

\* The curves of both tabs are true of themselves, and of what they were drawn from:
\* the last minutes are readings that were received, the curves of the records have
\* the points of the table below them, or both tell an error.
ChartsAreTrue ==
    /\ WidgetTrue(live) /\ WidgetTrue(past.chart)
    /\ \A k \in DOMAIN live.series :
          ToSet(live.series[k].points) \subseteq ToSet(received[live.series[k].id])
    /\ past.chart.error <=> past.state = "error"
    /\ UNION {ToSet(past.chart.series[k].points) : k \in DOMAIN past.chart.series} = ToSet(past.rows)

\* What is exported or printed is the answer to the last query, with what was asked,
\* though the editors have been changed since; after a query that failed, nothing is.
ExportsTheAnswer ==
    [][payload' # payload =>
          ~ lastAnswer.failed /\ payload' = [rows |-> lastAnswer.rows, filters |-> lastAnswer.filters]]_chartVars
=============================================================================

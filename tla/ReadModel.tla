------------------------------ MODULE ReadModel ------------------------------
(***************************************************************************)
(* What the read services answer (services/bigscreen_service.py,           *)
(* map_service.py, monitoring_read_service.py, api_read_service.py) and    *)
(* the screens make of it (ui/bigscreen/pages.py, ui/map, ui/monitor),     *)
(* while workers and the administrator go on writing.                      *)
(*                                                                         *)
(* A service reads in several moments: transactions on the tables, and the *)
(* state store under its own lock in between.  A request is one such call, *)
(* its answer is computed from what its moments returned.                  *)
(***************************************************************************)
EXTENDS Naturals, FiniteSets, Sequences, SequencesExt, FiniteSetsExt, Functions

CONSTANTS Detectors,     \* detector ids
          ControllerOf,  \* their controllers, or Direct
          Direct,        \* controller_id is NULL
          Readings,      \* bound: the statuses read from each detector
          MaxRows,       \* bound: rows of alarm_records
          MaxEdits,      \* bound: changes of the configuration
          MaxRaces,      \* bound: writes between the moments of one request
          PageSize       \* per_page of the monitoring page

\* ALARM_TYPES, in the order of ALARM_PRIORITY.
Urgency == <<"over_range", "alarm_high", "alarm_low", "fault", "offline", "disabled", "warming">>
AlarmTypes == ToSet(Urgency)
Statuses == {"normal", "invalid"} \union AlarmTypes
ALARM_STATUSES == {"alarm_low", "alarm_high", "over_range"}
POPUP_STATUSES == ALARM_STATUSES \union {"fault"}

ASSUME ReadAssumption ==
    /\ Detectors \subseteq Nat /\ IsFiniteSet(Detectors) /\ \A d \in Detectors : Readings[d] \subseteq Statuses
    /\ {MaxRows, MaxEdits, MaxRaces, PageSize} \subseteq Nat

VARIABLES rows,      \* alarm_records: <<detector, type, active>>, by id
          conf,      \* detectors: is_enabled, and deleted_at is NULL
          points,    \* detectors with a point on the map
          mapOn,     \* the map is enabled
          priority,  \* the setting bigscreen.alarm_priority_enabled
          snap,      \* realtime_snapshots: status of each detector
          store,     \* StateStore._readings: status of each detector
          feed,      \* where the polling cycle of each detector is
          edits,     \* bound
          request    \* the call under way, and what held since it began

tables == <<rows, conf, points, mapOn, priority, snap>>
readVars == <<tables, store, feed, edits, request>>

NoReading == "none"
NoAlarm == "none"
NoRequest == [what |-> "nothing"]
Live(cf) == {d \in Detectors : cf[d].live}

\* Everything the transactions of the services select.
Tables == [rows |-> rows, conf |-> conf, points |-> IF mapOn THEN points ELSE {},
           priority |-> priority, snap |-> snap]
Nothing == [rows |-> <<>>, conf |-> [d \in Detectors |-> [on |-> TRUE, live |-> FALSE]],
            points |-> {}, priority |-> TRUE, snap |-> [d \in Detectors |-> NoReading]]
-----------------------------------------------------------------------------
(* The alarm rows.                                                         *)

\* AlarmRepository.list_active, and the rows of one detector in it.
list_active(rs) == {i \in DOMAIN rs : rs[i].active}
ActiveOf(rs, d) == {i \in list_active(rs) : rs[i].det = d}

\* _active_alarm_by_detector of the map: the first of start_time DESC.
NewestOf(rs, d) == IF ActiveOf(rs, d) = {} THEN NoAlarm ELSE rs[Max(ActiveOf(rs, d))].type

\* _alarm_sort_key: by urgency, the newest first.
Rank(t) == CHOOSE n \in DOMAIN Urgency : Urgency[n] = t
MostUrgent(rs, ids) ==
    CHOOSE i \in ids : \A j \in ids : \/ Rank(rs[i].type) < Rank(rs[j].type)
                                      \/ Rank(rs[i].type) = Rank(rs[j].type) /\ i >= j

\* _active_alarm_by_detector of the bigscreen.
UrgentOf(rs, d) ==
    IF ActiveOf(rs, d) = {} THEN NoAlarm ELSE rs[MostUrgent(rs, ActiveOf(rs, d))].type
-----------------------------------------------------------------------------
(* The bigscreen, from a dataset T and the readings S taken after it.      *)

StatusOf(r, default) == IF r # NoReading THEN r ELSE default
\* The rows keep is_enabled when the detector is deleted.
Default(cf, d) == IF cf[d].on THEN "offline" ELSE "disabled"

\* Mutant: a point is flagged by its reading instead of the alarm rows.
BugMapPoints(T, S) ==
    [d \in T.points |-> [status |-> StatusOf(S[d], Default(T.conf, d)),
                         alarm  |-> IF S[d] \in AlarmTypes THEN S[d] ELSE NoAlarm]]

Card(T, S, d) == [status |-> StatusOf(S[d], Default(T.conf, d)), alarm |-> UrgentOf(T.rows, d)]

\* _device_cards: a card per live detector.
_device_cards(T, S) == [d \in Live(T.conf) |-> Card(T, S, d)]

\* _map_points: the join keeps the points of deleted detectors.
_map_points(T, S) == [d \in T.points |-> Card(T, S, d)]

Count(cards, ss) == Cardinality({d \in DOMAIN cards : cards[d].status \in ss})

_summary(cards, T) ==
    [total |-> Cardinality(DOMAIN cards), alarm |-> Count(cards, ALARM_STATUSES),
     normal |-> Count(cards, {"normal"}), offline |-> Count(cards, {"offline"}),
     fault |-> Count(cards, {"fault"}), disabled |-> Count(cards, {"disabled"}),
     warming |-> Count(cards, {"warming"}), invalid |-> Count(cards, {"invalid"}),
     active |-> Cardinality(list_active(T.rows))]

\* _alarm_focus: the detector of the most urgent row, if it has a card.
_alarm_focus(T, cards) ==
    IF ~ T.priority \/ list_active(T.rows) = {} THEN {}
    ELSE {T.rows[MostUrgent(T.rows, list_active(T.rows))].det} \cap DOMAIN cards

get_snapshot(T, S) ==
    LET cards == _device_cards(T, S)
    IN  [cards |-> cards, points |-> _map_points(T, S), summary |-> _summary(cards, T),
         focus |-> _alarm_focus(T, cards)]

Flagged(items) == {d \in DOMAIN items : items[d].alarm # NoAlarm}

\* alarm_property_for_status: only an active alarm whose status has a pulse.
alarm_property_for_status(status, active) == active /\ status \in POPUP_STATUSES

\* update_card and update_point.
Pulsing(items) ==
    {d \in DOMAIN items : alarm_property_for_status(items[d].status, items[d].alarm # NoAlarm)}

\* BigscreenDataPage: the metric cards, shown when there is a detector at all.
_render_summary(s) ==
    IF s.total = 0 THEN [active |-> 0, faults |-> 0, running |-> 0]
    ELSE [active |-> s.active, faults |-> s.fault, running |-> s.total - s.offline - s.disabled]

\* BigscreenMapPage: the flagged points, at most six of them in the list.
Listed(ds) == {d \in ds : Cardinality({e \in ds : e < d}) < 6}
RenderMapPage(big) == [points |-> DOMAIN big.points, list |-> Listed(Flagged(big.points))]

\* BigscreenAlarmPage: the point of the focus, or else the flagged points.
RenderAlarmPage(big) ==
    [focus |-> big.focus,
     points |-> IF big.focus \cap DOMAIN big.points # {} THEN big.focus
                ELSE Flagged(big.points)]

\* Cards by controller, with the counts of the heading.
Grouped(cards, alarming) ==
    [c \in {ControllerOf[d] : d \in DOMAIN cards} |->
        LET mine == Restrict(cards, {d \in DOMAIN cards : ControllerOf[d] = c})
        IN  [total |-> Cardinality(DOMAIN mine), alarm |-> Count(mine, alarming),
             offline |-> Count(mine, {"offline"})]]
_group_device_cards(cards) == Grouped(cards, ALARM_STATUSES)

\* BigscreenDataPage and BigscreenDevicesPage.
RenderDataPage(big) == [metrics |-> _render_summary(big.summary), focus |-> big.focus,
                        empty |-> DOMAIN big.cards = {}]
RenderDevicesPage(big) == [groups |-> _group_device_cards(big.cards), pulses |-> Pulsing(big.cards)]
-----------------------------------------------------------------------------
(* The map page, the monitoring page and the API.                          *)

\* _point_runtime_view, of readings R from the store or the snapshots.
PointView(T, R, d) == [status |-> StatusOf(R[d], Default(T.conf, d)), alarm |-> NewestOf(T.rows, d)]
_point_runtime_view(T, R) == [d \in T.points |-> PointView(T, R, d)]

\* pulse_eligible of a point, and MapPointItem.update_point.
PointPulses(items) == {d \in Flagged(items) : alarm_property_for_status(items[d].status, TRUE)}

\* _render_runtime: the alarm list of the map page, offline points included.
RenderAlarmList(items) == Flagged(items) \union {d \in DOMAIN items : items[d].status = "offline"}

\* _reading_by_detector: the store first, then the snapshot of what it lacks.
Merged(S, sn) == [d \in Detectors |-> StatusOf(S[d], sn[d])]

\* list_realtime: the first page of realtime_snapshots, whatever became of the detectors.
list_realtime(sn) ==
    LET known == {d \in Detectors : sn[d] # NoReading}
    IN  {d \in known : Cardinality({e \in known : e < d}) < PageSize}

\* _build_snapshot: the cards and the alarm list, of types that may be listed.
MonitorCard(T, d) == [status |-> T.snap[d], alarm |-> NewestOf(T.rows, d)]
_build_snapshot(T) == [cards  |-> [d \in list_realtime(T.snap) |-> MonitorCard(T, d)],
                       alarms |-> list_active(T.rows)]

\* _build_metrics: counted from the statuses, and the rows beside them.
_build_metrics(mon) ==
    [online |-> Cardinality(DOMAIN mon.cards) - Count(mon.cards, {"offline", "disabled"}),
     alarm |-> Count(mon.cards, ALARM_STATUSES), fault |-> Count(mon.cards, {"fault"}),
     active |-> Cardinality(mon.alarms)]

\* _group_detectors, whose headings count faults as alarms.
_group_detectors(cards) == Grouped(cards, POPUP_STATUSES)

\* DetectorCard.update_item: the pulse follows the status alone.
CardPulses(cards) == {d \in DOMAIN cards : alarm_property_for_status(cards[d].status, TRUE)}

\* MonitoringPage._render_snapshot.
RenderMonitor(mon) ==
    [metrics |-> _build_metrics(mon), list |-> {rows[i].det : i \in mon.alarms},
     groups |-> _group_detectors(mon.cards), pulses |-> CardPulses(mon.cards)]

\* list_realtime_devices: what the store holds, deleted detectors included.
list_realtime_devices(S, wanted) == {d \in Detectors : S[d] # NoReading /\ S[d] \in wanted}

\* get_realtime_device: 404 for a deleted detector or one without a reading.
get_realtime_device(T, S, d) == d \in Live(T.conf) /\ S[d] # NoReading

\* _alarm_view: the active row of a detector, if any, with its reading.
_alarm_view(T, S, d) == [status |-> S[d], alarm |-> NewestOf(T.rows, d)]
-----------------------------------------------------------------------------
(* Requests.                                                               *)

\* The moments of a call, in order.
MomentsOf ==
    [bigscreen |-> <<"dataset", "store">>,
     map       |-> <<"dataset", "store", "missing">>,
     monitor   |-> <<"snapshots", "rows">>,
     alarms    |-> <<"index", "store", "rows">>,
     devices   |-> <<"index", "store">>]
\* The API answers in the thread of its server, the others in the GUI thread.
ApiCalls == {"alarms", "devices"}

\* The detectors that an answer mentions, and what it says of one.
Lists(what, T, S) ==
    CASE what = "bigscreen" -> DOMAIN _device_cards(T, S)
      [] what = "map"       -> DOMAIN _point_runtime_view(T, S)
      [] what = "monitor"   -> DOMAIN _build_snapshot(T).cards
      [] what = "alarms"    -> Detectors
      [] what = "devices"   -> list_realtime_devices(S, Statuses)
Says(what, T, S, d) ==
    CASE what = "bigscreen" -> Card(T, S, d)
      [] what = "map"       -> PointView(T, S, d)
      [] what = "monitor"   -> MonitorCard(T, d)
      [] what = "alarms"    -> _alarm_view(T, S, d)
      [] what = "devices"   -> [status |-> S[d], alarm |-> NoAlarm]

\* Where a call may take a reading from: the map fills up from the snapshots what the
\* state store lacks, and a cycle writes the snapshot first.
Sources(what) == IF what = "map" THEN {Merged(store, snap), Merged(snap, store)} ELSE {store}

\* What is true of a detector now, in the terms of a call.
Truths(what, d) == {[listed |-> d \in Lists(what, Tables, S), is |-> Says(what, Tables, S, d)] :
                        S \in Sources(what)}

Ask(what) ==
    /\ request = NoRequest
    /\ request' = [what |-> what, left |-> MomentsOf[what], T |-> Nothing,
                   S |-> [d \in Detectors |-> NoReading], races |-> 0,
                   seen |-> [d \in Detectors |-> Truths(what, d)]]
    /\ UNCHANGED <<tables, store, feed, edits>>

At(moment) == request # NoRequest /\ request.left # <<>> /\ Head(request.left) = moment
Reads(T, S) == /\ request' = [request EXCEPT !.T = T, !.S = S, !.left = Tail(@)]
               /\ UNCHANGED <<tables, store, feed, edits>>

\* One transaction of _load_dataset and of get_map_runtime_view.
ReadDataset == At("dataset") /\ Reads(Tables, request.S)

\* get_realtime_snapshot copies the readings under the lock.
\* Mutant: the dataset keeps the empty readings it was made with.
BugReadStore == At("store") /\ Reads(request.T, request.S)
ReadStore == At("store") /\ Reads(request.T, store)

\* get_realtime for each detector without a reading, in transactions of their own.
ReadMissing(d) ==
    /\ At("missing") /\ request.S[d] = NoReading /\ snap[d] # NoReading
    /\ request' = [request EXCEPT !.S[d] = snap[d]]
    /\ UNCHANGED <<tables, store, feed, edits>>
ReadNoneMissing ==
    /\ At("missing") /\ \A d \in request.T.points : request.S[d] # NoReading \/ snap[d] = NoReading
    /\ Reads(request.T, request.S)

\* list_realtime and list_active_alarms, _load_config_index.
ReadSnapshots == At("snapshots") /\ Reads([request.T EXCEPT !.snap = snap], request.S)
ReadRows == At("rows") /\ Reads([request.T EXCEPT !.rows = rows], request.S)
ReadIndex == At("index") /\ Reads([request.T EXCEPT !.conf = conf], request.S)

\* The answer is given; or an exception has become a failure, at any moment.
EndRequest == request # NoRequest /\ request' = NoRequest /\ UNCHANGED <<tables, store, feed, edits>>
-----------------------------------------------------------------------------
(* The writers.                                                            *)

\* Bound: what is written after the last moment is of no concern to the answer.
MayRace == request # NoRequest => request.races < MaxRaces /\ request.left # <<>>
\* History: what holds now held at a moment of the call.
Written ==
    IF request = NoRequest THEN UNCHANGED request
    ELSE \E what \in {request.what} :
           request' = [request EXCEPT !.races = @ + 1,
                          !.seen = [d \in Detectors |-> @[d] \union Truths(what, d)']]

OpensRow(d, s) == s \in AlarmTypes /\ \A i \in ActiveOf(rows, d) : rows[i].type # s

\* Readings whose row is still to be inserted.
Due == {d \in Detectors : feed[d] # "rest" /\ OpensRow(d, snap[d])}

\* One polling cycle: the snapshot row, the state store, the alarm rows.
Persist(d, s) ==
    /\ MayRace /\ feed[d] = "rest" /\ (OpensRow(d, s) => Len(rows) + Cardinality(Due) < MaxRows)
    /\ snap' = [snap EXCEPT ![d] = s] /\ feed' = [feed EXCEPT ![d] = "persisted"]
    /\ UNCHANGED <<rows, conf, points, mapOn, priority, store, edits>> /\ Written

UpdateReadings(d) ==
    /\ MayRace /\ feed[d] = "persisted"
    /\ store' = [store EXCEPT ![d] = snap[d]] /\ feed' = [feed EXCEPT ![d] = "stored"]
    /\ UNCHANGED <<tables, edits>> /\ Written

\* An alarm of another type is closed; an invalid reading is ignored.
RecoverOthers(d, s) ==
    [i \in DOMAIN rows |-> IF i \in ActiveOf(rows, d) /\ rows[i].type # s
                             THEN [rows[i] EXCEPT !.active = FALSE] ELSE rows[i]]
Ingest(d) ==
    /\ MayRace /\ feed[d] = "stored"
    /\ feed' = [feed EXCEPT ![d] = "rest"]
    /\ rows' = CASE snap[d] = "invalid" -> rows
                 [] OpensRow(d, snap[d]) ->
                      Append(RecoverOthers(d, snap[d]), [det |-> d, type |-> snap[d], active |-> TRUE])
                 [] OTHER -> RecoverOthers(d, snap[d])
    /\ UNCHANGED <<conf, points, mapOn, priority, snap, store, edits>> /\ Written

\* The administrator works in the GUI thread.
MayEdit == /\ edits < MaxEdits /\ edits' = edits + 1 /\ MayRace
           /\ request # NoRequest => request.what \in ApiCalls

EditDetector(d) ==
    /\ MayEdit /\ conf[d].live
    /\ conf' \in {[conf EXCEPT ![d].on = ~ @], [conf EXCEPT ![d].live = FALSE]}
    /\ UNCHANGED <<rows, points, mapOn, priority, snap, store, feed>> /\ Written

EditPoint(d) ==
    /\ MayEdit /\ (d \notin points => conf[d].live)
    /\ points' = IF d \in points THEN points \ {d} ELSE points \union {d}
    /\ UNCHANGED <<rows, conf, mapOn, priority, snap, store, feed>> /\ Written

EditMap ==
    /\ MayEdit /\ mapOn' = ~ mapOn
    /\ UNCHANGED <<rows, conf, points, priority, snap, store, feed>> /\ Written

\* The program ends and starts again: the state store is empty.
Restart ==
    /\ edits < MaxEdits /\ edits' = edits + 1
    /\ store' = [d \in Detectors |-> NoReading] /\ feed' = [d \in Detectors |-> "rest"]
    /\ request' = NoRequest /\ UNCHANGED tables
-----------------------------------------------------------------------------
ReadInit ==
    /\ rows = <<>> /\ conf = [d \in Detectors |-> [on |-> TRUE, live |-> TRUE]]
    /\ points = Detectors /\ mapOn = TRUE /\ priority \in BOOLEAN
    /\ snap = [d \in Detectors |-> NoReading] /\ store = snap
    /\ feed = [d \in Detectors |-> "rest"] /\ edits = 0 /\ request = NoRequest

Feed(d) == (\E s \in Readings[d] : Persist(d, s)) \/ UpdateReadings(d) \/ Ingest(d)
Edit == EditMap \/ Restart \/ \E d \in Detectors : EditDetector(d) \/ EditPoint(d)
Moment == \/ ReadDataset \/ ReadStore \/ ReadNoneMissing \/ ReadSnapshots
          \/ ReadRows \/ ReadIndex \/ \E d \in Detectors : ReadMissing(d)

ReadNext == \/ (\E what \in DOMAIN MomentsOf : Ask(what)) \/ Moment \/ EndRequest
            \/ (\E d \in Detectors : Feed(d)) \/ Edit

ReadSpec == ReadInit /\ [][ReadNext]_readVars
-----------------------------------------------------------------------------
ReadTypeOK ==
    /\ rows \in Seq([det : Detectors, type : AlarmTypes, active : BOOLEAN])
    /\ conf \in [Detectors -> [on : BOOLEAN, live : BOOLEAN]] /\ points \subseteq Detectors
    /\ {mapOn, priority} \subseteq BOOLEAN
    /\ {snap, store} \subseteq [Detectors -> Statuses \union {NoReading}]
    /\ feed \in [Detectors -> {"rest", "persisted", "stored"}]

\* Every state of the tables is also reached without a call under way: the screens
\* are compared there.

\* A detector the screens can agree about: read, and not between two writes.
Settled(d) == conf[d].live /\ store[d] # NoReading /\ feed[d] # "persisted"
\* The alarm rows know of the last reading, which was not an invalid one.
Ingested(d) == Settled(d) /\ feed[d] = "rest" /\ store[d] # "invalid"

\* Bigscreen, map page, monitoring page and API compute the status and the alarm of
\* a detector in four ways from four sources; whatever order the cycles, the changes
\* of the configuration and the restarts came in, they say the same of it, and an
\* ingested alarm status is flagged and pulses wherever it is shown.
SameEverywhere ==
    request = NoRequest =>
    LET big == get_snapshot(Tables, store)
        pts == _point_runtime_view(Tables, Merged(store, snap))
        mon == _build_snapshot(Tables)
        monitor == RenderMonitor(mon)
    IN  /\ \A d \in DOMAIN pts : pts[d].alarm = big.points[d].alarm
        /\ \A d \in Detectors : Settled(d) =>
              /\ \A screen \in {big.cards, big.points, pts, mon.cards} :
                     d \in DOMAIN screen => screen[d].status = store[d]
              /\ big.cards[d].alarm = _alarm_view(Tables, store, d).alarm
              /\ get_realtime_device(Tables, store, d)
        /\ \A d \in Detectors : Ingested(d) =>
              /\ big.cards[d].alarm = IF store[d] \in AlarmTypes THEN store[d] ELSE NoAlarm
              /\ d \in DOMAIN mon.cards =>
                    /\ d \in monitor.pulses <=> d \in RenderDevicesPage(big).pulses
                    /\ d \in monitor.list <=> store[d] \in AlarmTypes
              /\ d \in DOMAIN pts =>
                    /\ d \in PointPulses(pts) <=> d \in Pulsing(big.points)
                    /\ store[d] # "normal" => d \in RenderAlarmList(pts)

\* The number of alarms on the bigscreen is that of its flagged cards and of the
\* detectors deleted meanwhile, and the monitoring page says the same; the focus is a
\* flagged card, no card has a more urgent alarm, and there is one unless a deleted
\* detector hides it; the alarm pages list flagged points only.
AlarmsAreShown ==
    request = NoRequest =>
    LET big == get_snapshot(Tables, store)
        orphans == {i \in list_active(rows) : ~ conf[rows[i].det].live}
    IN  /\ big.summary.active = Cardinality(Flagged(big.cards)) + Cardinality(orphans)
        /\ RenderMonitor(_build_snapshot(Tables)).metrics.active = big.summary.active
        /\ big.focus \subseteq Flagged(big.cards)
        /\ \A d \in big.focus, e \in Flagged(big.cards) :
              Rank(big.cards[d].alarm) <= Rank(big.cards[e].alarm)
        /\ priority /\ big.focus = {} => Flagged(big.cards) = {} \/ orphans # {}
        /\ RenderAlarmPage(big).points \subseteq Flagged(big.points)
        /\ RenderMapPage(big).list \subseteq Flagged(big.points)

\* The sum of the counts of n: as many pairs of a heading and a number it has counted to.
Together(n) == Cardinality(UNION {{c} \X (1..n[c]) : c \in DOMAIN n})

\* The headings of the groups add up to the metric cards.
CountsAddUp ==
    request = NoRequest =>
    LET big == get_snapshot(Tables, store)
        groups == _group_device_cards(big.cards)
        shown == RenderDataPage(big).metrics
        monitor == RenderMonitor(_build_snapshot(Tables))
    IN  /\ Together([c \in DOMAIN groups |-> groups[c].alarm]) = big.summary.alarm
        /\ DOMAIN big.cards # {} =>
              shown.running + Together([c \in DOMAIN groups |-> groups[c].offline])
                  + big.summary.disabled = big.summary.total
        /\ monitor.metrics.alarm + monitor.metrics.fault =
              Together([c \in DOMAIN monitor.groups |-> monitor.groups[c].alarm])

ScreensAgree == ReadTypeOK /\ SameEverywhere /\ AlarmsAreShown /\ CountsAddUp

\* A call reads in several moments and others write between them; still the status
\* and the alarm it reports of a detector were both true while it ran, and whether it
\* mentions the detector was right at a moment of the call.
AnswersHold ==
    request # NoRequest /\ request.left = <<>> =>
        \A d \in Detectors :
            LET listed == d \in Lists(request.what, request.T, request.S)
                is == Says(request.what, request.T, request.S, d)
            IN  /\ \E x \in request.seen[d] : x.listed = listed
                /\ listed => /\ \E x \in request.seen[d] : x.is.status = is.status
                             /\ \E x \in request.seen[d] : x.is.alarm = is.alarm
=============================================================================

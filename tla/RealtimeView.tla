---------------------------- MODULE RealtimeView ----------------------------
(***************************************************************************)
(* From a reading to the screen: the end of the polling cycle              *)
(* (device/polling/port_worker.py), the state store and the event bus      *)
(* (core), and one view that shows it: the monitoring page, the map page   *)
(* or the bigscreen, which refresh in three different ways (ui/*/          *)
(* view_models.py).                                                        *)
(*                                                                         *)
(* Workers run in their own threads, one per port.  A view lives in the    *)
(* GUI thread; a callback of the bus only queues a signal for it, and a    *)
(* refresh reads twice, with the workers going on between the two.         *)
(***************************************************************************)
EXTENDS Naturals, FiniteSets, Sequences, SequencesExt, FiniteSetsExt

CONSTANTS PortIds, Detectors,
          PortOf,        \* the port of each detector
          Readings,      \* bound: the statuses read from each detector, by kind of view
          PageChoices,   \* values of the setting bigscreen.pages
          MaxAlarms,     \* bound: rows of alarm_records
          MaxQueued      \* bound: signals waiting in the GUI thread

\* _normalize_pages leaves nothing else, and puts them all where nothing is left.
SUPPORTED_PAGES == {"data", "map", "devices"}

ASSUME RealtimeAssumption ==
    /\ PortOf \in [Detectors -> PortIds] /\ IsFiniteSet(PortIds)
    /\ \A choice \in PageChoices : choice \in Seq(SUPPORTED_PAGES) /\ choice # <<>>
    /\ MaxAlarms \in Nat /\ MaxQueued \in Nat \ {0}

VARIABLES kind,          \* the view: "monitor", "map" or "bigscreen"
          pages,         \* the configured pages of the bigscreen
          acquisition,   \* the value acquisition.status of the state store
          step,          \* where the cycle of each port is
          table,         \* realtime_snapshots: status of each detector; StateStore has the
                         \* same once UpdateReadings is done
          recent,        \* less than publish_interval since _last_publish_at
          alarm,         \* the active row of alarm_records of each detector
          opened,        \* number of rows of alarm_records
          live,          \* detectors that are not deleted
          subscribed, disposed,
          queued,        \* _event_received signals not delivered yet
          timer,         \* the single-shot refresh timer is active
          phase,         \* the GUI thread: "idle", or within a refresh
          got,           \* what the first read of a refresh returned
          loaded,        \* load() has been called; the map page has a selected map
          shown,         \* what the view displays
          error,         \* the view displays an error
          page, rotating,\* the page of the bigscreen, and its rotator timer
          popups,        \* AlarmPopupManager._shown_keys
          toasts         \* history: how often a popup was opened for each alarm row

feedVars == <<acquisition, step, table, recent, alarm, opened, live>>
busVars == <<subscribed, disposed, queued>>
viewVars == <<timer, phase, got, loaded, shown, error, page, rotating, popups, toasts>>
realtimeVars == <<kind, pages, feedVars, busVars, viewVars>>

Rest == [at |-> "rest"]
At(where, d) == [at |-> where, d |-> d]
NoRow == [id |-> 0, type |-> "normal"]
NoFocus == 0
Blank == [statuses |-> [d \in Detectors |-> "none"],
          alarms |-> [d \in Detectors |-> NoRow], acquisition |-> "none", focus |-> NoFocus]

Kinds == {"monitor", "map", "bigscreen"}
AlarmIds == 1..MaxAlarms
\* ALARM_PRIORITY: the smaller, the more urgent.
Priority == [over_range |-> 0, alarm_high |-> 1, alarm_low |-> 2, fault |-> 3,
             offline |-> 4, disabled |-> 5, warming |-> 6]
PopupStatuses == {"over_range", "alarm_high", "alarm_low", "fault"}

ViewInit ==
    /\ kind \in Kinds /\ pages \in PageChoices
    /\ kind # "bigscreen" => pages = CHOOSE p \in PageChoices : TRUE
    /\ acquisition = "running" /\ step = [p \in PortIds |-> Rest]
    /\ table = [d \in Detectors |-> "normal"] /\ recent = FALSE
    /\ alarm = [d \in Detectors |-> NoRow] /\ opened = 0 /\ live = Detectors
    /\ subscribed = (kind # "bigscreen") /\ disposed = FALSE /\ queued = 0
    /\ timer = FALSE /\ phase = "idle" /\ got = Blank /\ loaded = FALSE
    /\ shown = Blank /\ error = FALSE
    /\ page = "data" /\ rotating = FALSE /\ popups = {}
    /\ toasts = [a \in AlarmIds |-> 0]
-----------------------------------------------------------------------------
(* A polling cycle: the snapshot row is committed, the state store updated, *)
(* the event published, the alarms ingested.                                *)

OpensRow(d, s) == s # "normal" /\ alarm[d].type # s

\* Ports whose reading has still to open its row.
Due == {p \in PortIds : step[p] # Rest /\ OpensRow(step[p].d, table[step[p].d])}

\* The first of the calls of _persist_and_publish, for a reading with status s.
Persist(p, d, s) ==
    /\ acquisition = "running" /\ step[p] = Rest /\ PortOf[d] = p
    /\ OpensRow(d, s) => opened + Cardinality(Due) < MaxAlarms
    /\ table' = [table EXCEPT ![d] = s]
    /\ step' = [step EXCEPT ![p] = At("persisted", d)]
    /\ UNCHANGED <<kind, pages, acquisition, recent, alarm, opened, live, busVars, viewVars>>

\* update_readings stores always, and publishes unless it did so in the last
\* 200 ms; a suppressed update leaves the time of the last publication alone.
UpdateReadings(p) ==
    /\ step[p].at = "persisted"
    /\ step' = [step EXCEPT ![p] = At(IF recent THEN "ingest" ELSE "publish", step[p].d)]
    /\ recent' = TRUE
    /\ UNCHANGED <<kind, pages, acquisition, table, alarm, opened, live, busVars, viewVars>>

WindowEnds ==
    /\ recent /\ recent' = FALSE
    /\ UNCHANGED <<kind, pages, acquisition, step, table, alarm, opened, live,
                   busVars, viewVars>>

\* publish copies the callbacks under the lock and calls them outside of it.
CopyCallbacks(p) ==
    /\ step[p].at = "publish"
    /\ step' = [step EXCEPT ![p] = At(IF subscribed THEN "call" ELSE "ingest", step[p].d)]
    /\ UNCHANGED <<kind, pages, acquisition, table, recent, alarm, opened, live,
                   busVars, viewVars>>

Emit == queued' = IF queued < MaxQueued THEN queued + 1 ELSE queued

CallBack(p) ==
    /\ step[p].at = "call" /\ Emit
    /\ step' = [step EXCEPT ![p] = At("ingest", step[p].d)]
    /\ UNCHANGED <<kind, pages, acquisition, table, recent, alarm, opened, live,
                   subscribed, disposed, viewVars>>

\* ingest_readings, for one reading: an alarm of another type is closed first.
Ingest(p) ==
    /\ step[p].at = "ingest"
    /\ LET d == step[p].d  s == table[d] IN
         /\ alarm' = [alarm EXCEPT ![d] = CASE s = "normal" -> NoRow
                                            [] OpensRow(d, s) -> [id |-> opened + 1, type |-> s]
                                            [] OTHER -> @]
         /\ opened' = IF OpensRow(d, s) THEN opened + 1 ELSE opened
    /\ step' = [step EXCEPT ![p] = Rest]
    /\ UNCHANGED <<kind, pages, acquisition, table, recent, live, busVars, viewVars>>

\* Only the monitoring page depends on the status.
StopAcquisition ==
    /\ kind = "monitor" /\ acquisition = "running" /\ acquisition' = "stopping"
    /\ UNCHANGED <<kind, pages, step, table, recent, alarm, opened, live, busVars, viewVars>>

\* Only the monitoring page subscribes to the keys of the store.
\* Mutant: it does not either.
BugHearsKeys == FALSE

HearsKeys == kind = "monitor" /\ subscribed

\* set_value publishes each time, whatever was published before.
Stopped ==
    /\ acquisition = "stopping" /\ \A p \in PortIds : step[p] = Rest
    /\ acquisition' = "stopped"
    /\ IF HearsKeys THEN Emit ELSE UNCHANGED queued
    /\ UNCHANGED <<kind, pages, step, table, recent, alarm, opened, live,
                   subscribed, disposed, viewVars>>

\* The row of its alarm stays, and so does its place in the plan of the worker.
DeleteDetector(d) ==
    /\ kind = "bigscreen" /\ d \in live /\ live' = live \ {d}
    /\ UNCHANGED <<kind, pages, acquisition, step, table, recent, alarm, opened,
                   busVars, viewVars>>
-----------------------------------------------------------------------------
(* The GUI thread.  load(): the page is opened or its retry button pressed;  *)
(* the bigscreen has no such button.                                        *)

Load ==
    /\ phase = "idle" /\ ~ disposed /\ (kind = "bigscreen" => ~ loaded)
    /\ phase' = "reading" /\ loaded' = TRUE
    /\ UNCHANGED <<kind, pages, feedVars, busVars, timer, got, shown, error, page,
                   rotating, popups, toasts>>

\* _schedule_refresh: an active timer is left to run; the map page needs a map.
ScheduleRefresh == timer' = (timer \/ (kind = "map" => loaded))

Deliver ==
    /\ phase = "idle" /\ queued > 0 /\ queued' = queued - 1
    /\ ScheduleRefresh
    /\ UNCHANGED <<kind, pages, feedVars, subscribed, disposed, phase, got, loaded, shown, error,
                   page, rotating, popups, toasts>>

TimerFires ==
    /\ phase = "idle" /\ timer
    /\ timer' = FALSE /\ phase' = "reading"
    /\ UNCHANGED <<kind, pages, feedVars, busVars, got, loaded, shown, error, page,
                   rotating, popups, toasts>>

\* The monitoring page reads realtime_snapshots in one transaction and the active
\* alarms in another; the two others read the alarms first, then the state store.
ReadStatuses == [Blank EXCEPT !.statuses = table]
\* _alarm_focus: the most urgent of all active alarms, the latest of equals; no
\* focus if its detector has no card, because it was deleted.
Active == {d \in Detectors : alarm[d] # NoRow}
MoreUrgent(d, e) ==
    \/ Priority[alarm[d].type] < Priority[alarm[e].type]
    \/ Priority[alarm[d].type] = Priority[alarm[e].type] /\ alarm[d].id > alarm[e].id
Focus == IF \E d \in Active : d \in live /\ \A e \in Active \ {d} : MoreUrgent(d, e)
           THEN alarm[CHOOSE d \in Active : \A e \in Active \ {d} : MoreUrgent(d, e)].id
           ELSE NoFocus

ReadAlarms == [Blank EXCEPT !.alarms = alarm,
                            !.focus = IF kind = "bigscreen" THEN Focus ELSE NoFocus]

ReadFirst ==
    /\ phase = "reading" /\ phase' = "between"
    /\ got' = IF kind = "monitor" THEN ReadStatuses ELSE ReadAlarms
    /\ UNCHANGED <<kind, pages, feedVars, busVars, timer, loaded, shown, error, page,
                   rotating, popups, toasts>>

\* A failure leaves the former snapshot on the monitoring page and on the bigscreen
\* and blanks the map, unless it is an exception, which refresh_current lets
\* through.  None of them schedules another refresh.
ReadFails ==
    /\ phase = "reading" \/ (phase = "between" /\ kind = "monitor")
    /\ phase' = "idle" /\ got' = Blank
    /\ \/ error' = TRUE /\ shown' = IF kind = "map" THEN Blank ELSE shown
       \/ kind = "map" /\ UNCHANGED <<error, shown>>
    /\ UNCHANGED <<kind, pages, feedVars, busVars, timer, loaded, page, rotating, popups, toasts>>

Eligible(rows) == {rows[d].id : d \in {e \in Detectors : rows[e].type \in PopupStatuses}}

\* AlarmPopupManager.notify: the keys of alarms that are no longer active are
\* forgotten and their popups closed, the others open a popup once.
\* Mutant: a popup that has been shown is not remembered.
BugNotify(rows) ==
    /\ popups' = popups \intersect Eligible(rows)
    /\ toasts' = [a \in AlarmIds |-> IF a \in Eligible(rows) \ popups /\ toasts[a] < 2
                                       THEN toasts[a] + 1 ELSE toasts[a]]

Notify(rows) ==
    /\ popups' = Eligible(rows)
    /\ toasts' = [a \in AlarmIds |-> IF a \in Eligible(rows) \ popups /\ toasts[a] < 2
                                       THEN toasts[a] + 1 ELSE toasts[a]]

\* _set_status is not called while stop() waits for the workers.
Status == IF acquisition = "stopped" THEN "stopped" ELSE "running"

ApplyMonitor ==
    /\ kind = "monitor" /\ phase = "between" /\ phase' = "idle" /\ got' = Blank
    /\ shown' = [got EXCEPT !.alarms = alarm, !.acquisition = Status]
    /\ error' = FALSE /\ Notify(alarm)
    /\ UNCHANGED <<kind, pages, feedVars, busVars, timer, loaded, page, rotating>>

ApplyMap ==
    /\ kind = "map" /\ phase = "between" /\ phase' = "idle" /\ got' = Blank
    /\ shown' = got /\ error' = FALSE
    /\ UNCHANGED <<kind, pages, feedVars, busVars, timer, loaded, page, rotating,
                   popups, toasts>>

\* _apply_snapshot: the alarm page takes over while there is a focus; the rotator
\* runs on with several pages; the next refresh is scheduled.
ShowFocus(focus) ==
    page' = CASE focus # NoFocus -> "alarm"
              [] focus = NoFocus /\ ~ Contains(pages, page) -> Head(pages)
              [] OTHER -> page

\* schedule_refresh, called only when a snapshot has been applied.
Again == timer' = TRUE

ApplyBigscreen ==
    /\ kind = "bigscreen" /\ phase = "between" /\ phase' = "idle" /\ got' = Blank
    /\ shown' = got
    /\ ShowFocus(got.focus)
    /\ rotating' = (Len(pages) > 1) /\ Again
    /\ UNCHANGED <<kind, pages, feedVars, busVars, loaded, error, popups, toasts>>

\* The first place of a page, or the last place when it has none.
Index(key) == Min({Len(pages)} \union {i \in DOMAIN pages : pages[i] = key})
Turned == IF Index(page) = Len(pages) THEN Head(pages) ELSE pages[Index(page) + 1]

\* next_page, by the rotator.
NextPage == page' = IF shown.focus # NoFocus THEN "alarm" ELSE Turned

Rotate ==
    /\ phase = "idle" /\ rotating /\ NextPage
    /\ UNCHANGED <<kind, pages, feedVars, busVars, timer, phase, got, loaded, shown, error,
                   rotating, popups, toasts>>

\* A signal emitted before the callbacks are removed is delivered afterwards, and
\* starts the timer again.
\* Mutant: the subscriptions are kept.
BugUnsubscribe == UNCHANGED subscribed

Unsubscribe == subscribed' = FALSE

Dispose ==
    /\ phase = "idle" /\ ~ disposed
    /\ disposed' = TRUE /\ Unsubscribe /\ timer' = FALSE /\ rotating' = FALSE
    /\ UNCHANGED <<kind, pages, feedVars, queued, phase, got, loaded, shown, error,
                   page, popups, toasts>>
-----------------------------------------------------------------------------
Work(p) ==
    \/ \E d \in Detectors : \E s \in Readings[kind][d] : Persist(p, d, s)
    \/ UpdateReadings(p) \/ CopyCallbacks(p) \/ CallBack(p) \/ Ingest(p)

Apply == ApplyMonitor \/ ApplyMap \/ ApplyBigscreen

ViewNext ==
    \/ \E p \in PortIds : Work(p)
    \/ WindowEnds \/ StopAcquisition \/ Stopped
    \/ \E d \in Detectors : DeleteDetector(d)
    \/ Load \/ Deliver \/ TimerFires \/ ReadFirst \/ ReadFails \/ Apply \/ Rotate \/ Dispose

ViewSpec == ViewInit /\ [][ViewNext]_realtimeVars

\* Threads run, the timers of Qt fire, and a database that fails does not fail
\* for ever.  Nobody has to press a button, stop acquisition or delete anything.
ViewFairSpec ==
    /\ ViewSpec
    /\ \A p \in PortIds : WF_realtimeVars(Work(p))
    /\ WF_realtimeVars(WindowEnds) /\ WF_realtimeVars(Stopped)
    /\ WF_realtimeVars(Deliver) /\ WF_realtimeVars(TimerFires) /\ WF_realtimeVars(ReadFirst \/ ReadFails)
    /\ SF_realtimeVars(ReadFirst) /\ SF_realtimeVars(Apply)
-----------------------------------------------------------------------------
AllStatuses == {"normal"} \union UNION {Readings[k][d] : k \in Kinds, d \in Detectors}
Rows == [id : 0..MaxAlarms, type : AllStatuses]
Displays == [statuses : [Detectors -> AllStatuses \union {"none"}], alarms : [Detectors -> Rows],
             acquisition : {"none", "running", "stopped"}, focus : 0..MaxAlarms]

Steps == [at : {"persisted", "publish", "call", "ingest"}, d : Detectors]

ViewTypeOK ==
    /\ kind \in Kinds /\ pages \in PageChoices
    /\ acquisition \in {"running", "stopping", "stopped"}
    /\ step \in [PortIds -> {Rest} \union Steps]
    /\ \A p \in PortIds : step[p] # Rest => PortOf[step[p].d] = p
    /\ table \in [Detectors -> AllStatuses]
    /\ alarm \in [Detectors -> Rows] /\ opened \in 0..MaxAlarms /\ live \subseteq Detectors
    /\ {recent, subscribed, disposed, timer, loaded, error, rotating} \subseteq BOOLEAN
    /\ queued \in 0..MaxQueued /\ phase \in {"idle", "reading", "between"}
    /\ got \in Displays /\ shown \in Displays
    /\ page \in ToSet(pages) \union {"alarm", "data"}
    /\ popups \subseteq AlarmIds /\ toasts \in [AlarmIds -> 0..2]

\* One active alarm opens one popup, however often the page is refreshed, fails to
\* be, or the alarms of other detectors come and go (alarm_popup.py:70).
PopupOncePerPeriod == \A a \in AlarmIds : toasts[a] <= 1

\* The bigscreen is on the alarm page exactly while its last snapshot has a focus,
\* against the rotator and the configured pages (bigscreen/view_models.py:97, 133).
AlarmPageWhileFocus == page = "alarm" <=> shown.focus # NoFocus

\* While the acquisition runs, an alarm reaches a loaded monitoring or map page
\* although its own event comes before its row, events are suppressed for 200 ms and
\* refreshes fail: a later event brings it.
AlarmReachesView ==
    \A d \in Detectors :
        (acquisition = "running" /\ subscribed /\ loaded /\ alarm[d] # NoRow)
        ~> (shown.alarms[d] = alarm[d] \/ acquisition # "running" \/ disposed)

\* When the acquisition has stopped, no further event comes for a suppressed
\* update; the change of the status makes the monitoring page read everything once
\* more, so that it shows the final state, or an error.
Current == shown.statuses = table /\ shown.alarms = alarm /\ shown.acquisition = Status
CatchesUp == (acquisition = "stopped" /\ subscribed /\ kind = "monitor")
                 ~> (Current \/ error \/ disposed)

\* A bigscreen whose refreshes never failed shows an alarm of a detector that
\* exists, unless a more urgent one belongs to a deleted detector.
Urgent == Active \subseteq live /\ Active # {}
BigscreenShowsAlarm ==
    (kind = "bigscreen" /\ loaded /\ Urgent)
        ~> (page = "alarm" \/ ~ Urgent \/ error \/ disposed)

\* A disposed view may be refreshed by signals that were on their way, but not
\* for ever.
DisposedGoesQuiet == disposed ~> [](queued = 0 /\ ~ timer /\ phase = "idle")

\* Popups and pages follow the snapshots: one popup for one alarm, and the
\* bigscreen's alarm page exactly while there is a focus.
ViewFollowsSnapshot == ViewTypeOK /\ PopupOncePerPeriod /\ AlarmPageWhileFocus

\* The pages catch up with the tables, while acquisition runs and after it, and the
\* bigscreen with the alarms.
PagesCatchUp == AlarmReachesView /\ CatchesUp /\ BigscreenShowsAlarm
=============================================================================

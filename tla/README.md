# Kunlian gas monitoring: TLA+ models and proofs

The program (`src/app`) is a PySide6 desktop application for Windows that polls
gas detectors over Modbus (serial or TCP), stores their readings in SQLite,
opens alarms and triggers linkage, shows all of it on pages, on a bigscreen and
through a local HTTP interface, and lets an administrator configure devices,
users, backups, maintenance plans and licences. These modules model the parts of
it that are hard to test: transactions that interleave with administration,
worker threads that are cancelled while they write, channels whose late answers
are read by the wrong request, maintenance jobs that exclude each other, pages
that act on rows read a while ago.

1. Inventory. 2. How the modules are built and composed. 3. The modules and their
runs. 4. What is proved. 5. Disagreements found. 6. What is not modelled.

## 1. Inventory

| Component (source under `src/app`) | State | Operations | Interacts with | Modules |
|---|---|---|---|---|
| Alarm ingestion (`services/alarm_service.py`) | `alarm_records` | `ingest_readings` | called by every port worker; calls linkage inside its own transaction | `AlarmPeriods`, `AlarmIngest` |
| Linkage (`services/linkage_service.py`, `ui/settings/linkage_page.py`) | `linkage_objects`, `linkage_rules`, `linkage_records` | `trigger_for_alarm`, save and delete of objects and rules, manual control | alarm ingestion; GUI | `AlarmIngest`, `ConfigPages` |
| Records (`services/record_service.py`, `ui/records`) | alarm, running and operation records; the pane | query, turn page, delete, clear, export | foreign key of linkage records | `AlarmIngest`, `Records` |
| Runtime locks (`core/runtime_locks.py`) | set of active operation names | acquire, release | acquisition, backup, restore | `RuntimeLocks` |
| Acquisition service, worker pool (`device/polling/acquisition_service.py`, `core/workers.py`) | status, handles, lock flag; tasks and futures | start, stop, restart, failure callback | locks, port workers, restore | `Acquisition` |
| Port worker (`device/polling/port_worker.py`) | channel, failure counters, offline set | open, close, `poll_once`, reconnection | channel, protocol, database, state store, alarms | `PortWorker` |
| Channels (`device/channels`) | socket or serial port, receive buffer | open, close, transact | devices | `PortWorker` (TCP) |
| Protocols (`device/protocols`) | the locked mode of the factory | build request, validate, parse | port worker, debugging | `Frames`, `DeviceDebug` |
| Device debugging (`device/debug`, `ui/settings/device_debug_page.py`) | the page, the factory | request, send and read | channel of its own | `DeviceDebug` |
| Backup and restore (`services/backup_service.py`, `backup_package.py`) | settings row, pause flag, files, packages and their records | settings, manual and scheduled backup, retention, restore with rollback | locks, scheduler, acquisition | `BackupRestore`, `BackupShelf`, `BackupSide` |
| Scheduler (`core/scheduler.py`) | jobs, one thread each | register, cancel, shutdown | backup, shutdown | `BackupRestore`, `Program` |
| Users, login, permissions, licence (`services/user_service.py`, `auth_service.py`, `permission_guard.py`, `license_service.py`, `ui/login`, `ui/settings/users_page.py`) | `users`, sessions, licence row; the page | create, update, disable, delete, login, logout, password change, recovery | every service that checks a permission; restore | `Users`, `AccountPages` |
| Device configuration and its pages (`services/device_config_service.py`, `ui/settings/*_page.py`) | ports, controllers, gas types, detectors; rows and form of a page | save and delete of each, import | acquisition (loads it at start), maps, linkage | `DeviceConfig`, `ConfigPages` |
| Maps (`services/map_config_service.py`, `map_service.py`, `ui/map`) | `maps`, `map_points`, the map directory; list, canvas and unsaved places of the page | upload, update, delete, points; select, refresh, drag, save, cancel | device configuration; readings that ask for refreshes | `MapConfig`, `MapPage` |
| State store, event bus, views (`core/state_store.py`, `event_bus.py`, `ui/*/view_models.py`) | latest readings, subscribers, throttled events; a view's snapshot | update, publish, refresh, dispose | port workers, GUI | `PortWorker`, `RealtimeView` |
| Read services and read endpoints (`services/bigscreen_service.py`, `map_service.py`, `monitoring_read_service.py`, `api_read_service.py`) | none | one call of several reads | all tables, state store | `ReadModel` |
| Charts (`services/chart_service.py`, `ui/chart`) | short cache of the state store; curves, legend, table and payload of the page | `get_realtime_series`, `query_history`, reset, tick, export, print | state store, running records | `ChartPage`, `Records` |
| Maintenance (`services/maintenance_service.py`, its page and dialogs) | plans; the page and the dialog | save, complete, delete, reload | detectors | `Maintenance` |
| Local API host and its page (`api/host.py`, `ui/settings/local_api_page.py`), `config.json` | host, server thread, page, file | save, start, stop | file system, ports of the machine | `Program` |
| Start-up and shutdown (`main.py`, `core/bootstrap.py`) | the assembled services | assemble, shut down | all | `Program`, `Users` |

What is hard in this code:

* **Threads**: one pool thread per port, one scheduler thread per job, a server
  thread of the API, the GUI thread that calls every service, and locks of three
  kinds (the service's RLock, the runtime locks, SQLite's write lock).
* **Timeouts**: `stop()` waits a bounded time for each worker, the host five
  seconds for its server; a channel gives up on an answer that may still arrive.
* **Failure in the middle**: a poll cycle writes three stores by three calls; a
  restore replaces several files; an upload is a file and a row; a batch of
  readings is one transaction.
* **Crashes**: the process may die between any two file replacements or between
  truncating `config.json` and writing it; the schedule is remembered in memory.
* **Restores**: a package brings back the tables of another day under pages,
  sessions and packages that do not know of it.
* **Order**: futures fail before or after their callback is attached; a refresh
  reads twice with cycles in between; events are suppressed by a throttle.
* **Stale pages**: a page saves, deletes or exports by what it read before.

What makes the components correct: one active alarm per detector, and it names
the present condition; a linkage rule fires once per alarm period; no database
write while a restore replaces the database; a port has one poller; a stored
reading came from its detector; a silent detector goes offline; backup and
restore exclude each other; a failed restore changes nothing, a successful one
leaves maps that have their files, and retention leaves something to restore;
the schedule follows the settings; there is always one administrator and no
session outlives its grounds; what the poller and the map page look up of a
detector, a point or a map is there; every screen tells the same of a detector; what a page deletes is what it showed.

`PROJECT.json` lists every component with its status and every hazard at its
line, with the properties that watch it.

## 2. How the modules are built and composed

One module holds one component: constants with a named assumption, variables, an
action per operation, handler or step, the specification, then the properties.
Names follow the source. `AlarmPeriods` is an abstract specification that
`AlarmIngest` implements (`ImplementsPeriods`); `Users` is implemented by
`AccountPages`, `MapConfig` is extended by `ConfigPages` in the same way. `MC*`
modules and `.cfg` files hold the instances for TLC.

| Component module | Extends | Run |
|---|---|---|
| `AlarmIngest` (instance of `AlarmPeriods`) | | `alarm_ingest` |
| `Acquisition` | `RuntimeLocks` | `acquisition` |
| `PortWorker` | | `port_worker` |
| `BackupSide` = `BackupRestore` and `BackupShelf` | `RuntimeLocks` | `backup_restore` |
| `ConfigPages` | `MapConfig`, which extends `DeviceConfig` | `map_config`, `controller_moved` |
| `AccountPages` | `Users` | `users` |
| `RealtimeView` | | `realtime_view` |
| `Program` | | `program` |
| `QueryPages` = `DeviceDebug` and `Records` | `Frames` (`DeviceDebug`) | `query_pages` |
| `PageSide` = `Maintenance`, `MapPage` and `ChartPage` | | `maintenance` |
| `ReadModel` | | `read_model` |

`BackupSide`, `PageSide` and `QueryPages` put two or three modules into one run:
`BackupRestore` and `BackupShelf` share the set of runtime locks, the pages share
nothing; a behaviour is of one of them, the others stay as they began. `ShelfOfTheSide`
and `PagesFollow` prove that what holds of the parts holds of the composition.
A step of `ConfigPages` or `AccountPages` is a call of the module below it with
what the page then shows; with `page = "none"`, `follows = Nobody` a behaviour is
one of the services alone.

The proofs are in modules of their own: `AlarmIngestProofs`,
`PortWorkerProofs`, `AcquisitionProofs` (with `RealtimeView`),
`BackupRestoreProofs` (both parts), `DeviceConfigProofs` (with maps and pages),
`UsersProofs` (with pages), `ProgramProofs` and `ScreensProofs` (`ReadModel`,
`Records`, `Maintenance`, `MapPage`, `ChartPage`).

## 3. The modules and their runs

A run checks each property below in every reachable state of its instance; a
property is a conjunction of named parts where several say one thing together.
Wherever a number bounds the exploration it is a constant of that name in the
module and a guard of the action it bounds.

### AlarmPeriods and AlarmIngest (run `alarm_ingest`)

`AlarmPeriods` is the promise: each detector has one current condition, a batch
takes effect as a whole or not at all, its last meaningful reading decides.
`AlarmIngest` is the code. `db` is what is committed; `txn` is the transaction
of `ingest_readings`, opened by `BEGIN IMMEDIATE`, which works on a private copy
of the tables (`txn.work`) one reading at a time (`IngestOne`) and is committed
or rolled back. A reading recovers the active rows of its detector with another
type (`RecoverOthers`), then, for an alarm status with no active row, inserts
one and triggers the matching enabled rules (`Matching`, `TriggerForAlarm`).
SQLite admits one writer, so the administrator's operations require
`txn = NoTxn`; they are the deletion and clearing of records, which the foreign
key of `linkage_records` refuses for a row that has triggered linkage, and the
administration of rules, objects and detectors. `cond` and `episode` are history
variables: the last meaningful status of a detector and how often each rule has
fired since.

Checked: active rows are one per detector and name its condition
(`AlarmsTellConditions`); a rule fires once per period (`LinkageOncePerPeriod`);
no row that has triggered linkage is re-opened, rewritten or lost (`HistoryKept`);
the tables implement `AlarmPeriods` (`ImplementsPeriods`). Two detectors, two
alarm types, one rule id with two contents (a wildcard rule and one for a
detector, type and level), one object, batches of one or two readings, two rows,
one manual control. Two detectors make a reading of one pass over the other's
rows; two types make an alarm change type; two readings make a batch recover what
it has opened; two rows let a row be deleted and opened again within a period.

### RuntimeLocks and Acquisition (run `acquisition`)

`RuntimeLocks` holds the table of conflicts and the set of active names. Every
caller passes `timeout=0`, so the waiting branch of `acquire_operation` is left
out. `Acquisition` models the service call that holds `AcquisitionService._lock`
(`svc`) step by step: acquire the lock, load, submit each port, attach the
done-callback, set RUNNING; or cancel the tokens, wait for each future, release.
Workers go through `opening`, `checking` (the token), `polling`, `writing`. The
failure callback needs the same lock. The restore thread takes its lock first
and stops acquisition afterwards, as `restore_from_backup` does when it is given
an acquisition service. (`main.py` builds neither an acquisition service nor a
`BackupService` that has one; the models take both as the constructors allow, so
that the interaction is checked before it is wired.)

`setup` is the installation and never changes: a pool of two threads whose
workers finish their cycles within the timeout of `stop()` and do not die, and a
pool of one with cycles that outlast it (`slow`) and workers that die (`fails`).
In both, RUNNING holds the lock, a cancelled worker begins at most one more
write; in the first, no worker writes while a restore replaces the files
(`NoWriteDuringRestore`), a port has one poller and STOPPED is quiet
(`PollersInOrder`). `StopTakesEffect`: a stop returns and what it cancelled ends,
even after a stop that gave up. `FailureReported`: a failure due to be reported
while RUNNING ends RUNNING. Two ports and three workers are enough for a first
and a second run that share a port and for a worker left over; one pool thread
makes a queued worker wait behind a running one. Fairness: the pool's threads
run, callbacks and futures are delivered, the waiting call goes on; nobody is
obliged to start, stop or restore. Every wait in a worker (socket timeout,
reconnection sleep) is bounded, which justifies it. What the second installation
does to a restore is in section 5.

### PortWorker (run `port_worker`)

One worker object on one port. `pc` is the place in `run()` and `poll_once()`;
a request is answered, answered by a frame left in the TCP buffer (`late`),
answered together with it, timed out, or fails on a lost connection; then
failure counting, offline marking and reconnection as in
`_handle_channel_failure`. After the last request `_persist_and_publish` runs
for the valid readings and then for the offline ones: snapshot transaction,
state store, alarm ingestion. The devices change their behaviour (`mode`) and
the link goes down and up at any time.

Two probes with Modbus addresses of their own; in one installation they do
anything and the database works, in the other they answer or fall silent and it
may fail. Two detectors suffice for one to disturb the other; `Threshold = 2`
separates the first failure from the last, and failures are counted up to the
threshold, which is all the code compares with. Checked: the three stores agree
between cycles with each other and with the counters (`StoresFollowCycle`), a
stored reading is its detector's own (`ReadingIsOwn`), silence is stored as
offline and an answer as online in the end, unless a late answer stays in the
buffer (`AvailabilityFollows`). Fairness: only the worker's own thread; the
liveness properties are conditional on the device staying as it is and the worker
running, which the environment may deny.

### BackupRestore, BackupShelf and BackupSide (run `backup_restore`)

`BackupRestore`: the GUI makes one call at a time (`ui`); restore runs
synchronously in it, and its settings page refuses while acquisition runs. Each
registration of the scheduled backup is a scheduler thread (`jobs`) that outlives
its cancellation until its callback ends. A restore pauses the schedule, takes
the lock, stages, replaces file after file, rolls back on an error, releases, and
resumes from the settings of whichever database is then in place (`enabled` after
file 1 was replaced). `Faults` names what may go wrong besides: a restart of the
process, an unreadable settings row, a file that cannot be put back. On Windows a
reader that has the database open makes a replacement fail; that is
`ReplaceFails`. What a fault makes impossible is remembered by history variables:
`spoiled` once a file could not be put back in this restore (then `AllOrNothing`
promises nothing), `originals`, the files as the restore found them, which after
a crash among the replacements may be a mixture, `unsettled` once a restart or an
unreadable row left the schedule behind, and `overlapped` once two backups shared
the one lock name.

`BackupShelf` is about the packages themselves: built in the steps of
`create_backup_package` (copy the database, list the files, write, check, record,
select and unlink the victims of retention) by the GUI and by the scheduler while
maps are uploaded and deleted, restored also into a new installation and across
schema versions. The records of the packages lie in the database that each
package contains and each restore rewinds.

Checked: `ScheduleFollowsSettings`, `AllOrNothing`, `RestoreIsAlone`, `PauseEnds`;
after a restore every row of a map has its whole file (`RestoredMapsHaveFiles`);
retention takes a package only while a newer one of its kind that can be restored
stays (`NewestStays`). Three files give a rollback more than one step; three job
threads let an old callback outlive two registrations. On the shelf: one directory,
one map, `keep_last` 1 or 2 (the program's default is 10: the smaller, the sooner
retention acts), one foreign package of an older schema, three packages, settings
saved once two packages exist (`SaveAfter`), two seconds; the records a foreign
package brings are taken to be none. Fairness: a begun call and a fired callback go
on; nobody must call, and a job need not fire.

### DeviceConfig, MapConfig and ConfigPages (runs `map_config`, `controller_moved`)

`DeviceConfig` holds the four tables; every operation of the service is one
transaction, hence one step, and a refused call is no step. A row is `Free`
before its id is handed out and `Gone` after its soft deletion. `ImportDetectors`
adds any set of valid rows whose codes are free and differ: that is what is left
of a file after its other rows have been reported. `Polled` and `BusAddress` are
what `_load_polling_configs` makes of the tables. `MapConfig` adds maps, points
and the map directory. An upload copies a file and then inserts a row; an error
or the end of the process may come at any point between, and nothing else runs
meanwhile. `ConfigPages` adds the six pages of the settings that edit these tables
and the linkage tables: the rows loaded, the row selected, the row being edited,
the form with its boxes and the lists they offer, reloads that fail, a backup
restored under the page.

Checked: port, gas type and controller of every live detector, the map of every live
point and the whole file of every live map are there (`LookupsSucceed`); references
that nothing looks up are not among them, and the code lets them dangle: a controller
may keep a deleted port, a point a deleted detector, a rule a deleted object. Keys are unique among live rows (`UniqueAmongLive`); a page
deletes the row it had confirmed (`DeletedAsConfirmed`); a save changes only the
fields edited since the row was chosen, but for what reloads put into the form
(`SaveKeepsTheRest`). Two ports, controllers, detectors, maps, points, names,
codes, files, objects and rules, one gas type and one address, under symmetry:
two of a kind let one row take the key, the reference or the place another has
given up. At most one field is edited between two saves (`MaxEdited`), two calls
are made from a page and one elsewhere. The run may stop because ids are used up
(`CHECK_DEADLOCK FALSE`), which the database's never are. `is_enabled` is left
out: no operation reads it, and disabled rows only make fewer targets. Run
`controller_moved` has no page and is a disagreement (section 5).

### Users and AccountPages (run `users`)

Every call runs on the GUI thread and is one step of `Users`: first start,
creation, update, disabling, deletion, login, logout, password change, recovery,
activation and expiry of the licence, backup and restore, end and start of the
program. Sessions are in memory, users and licence in the database, so a restored
package brings back rows and `permission_version`s that sessions were not granted
on (`carried` marks a session that has lived through a restore). `AccountPages`
is the users page with its dialog, its filters and its cached rows, in the shell
the login leads to; a behaviour follows one session, or none.

Checked: one live administrator and no failing start (`AccountsSound`); sessions
that validate have the role of their user, rest on the current password unless
carried, and nobody is in a shell before changing the default password
(`SessionsSound`); a session that fails to validate never validates again unless
carried (`SessionsStayDead`); the page changes only the row chosen and the fields
edited (`AccountsEditedAsShown`). Two rows, names, passwords and sessions, three
versions, one restore, two changes by the page: enough for a user to be deleted
while another session is his, and for a restore to bring a version back.

### RealtimeView (run `realtime_view`)

The end of the polling cycle (`Persist`, `UpdateReadings` with the 200 ms throttle,
`CallBack`, `Ingest`), the bus, and one view of the three kinds: a callback only
queues a signal, a refresh reads twice with the workers going on between, a timer
debounces it, a disposed view is unsubscribed while signals are on their way. The
bigscreen rotates through configured pages and stays on its alarm page while its
snapshot has a focus. Checked: one alarm opens one popup and the alarm page
follows the focus (`ViewFollowsSnapshot`); alarms reach a loaded view, a
monitoring page catches up after a stop, the bigscreen shows an alarm that exists
(`PagesCatchUp`); a disposed view goes quiet (`DisposedGoesQuiet`). One port, two
detectors, two alarm rows, one queued signal, pages data and map; the bigscreen
compares the alarms of two detectors, the pages follow those of one. The run stops
when the rows are used up (`CHECK_DEADLOCK FALSE`). Fairness: threads run, timers
fire, the queue is delivered (weak); reading and applying a refresh (strong), since
a database that sometimes fails does not fail for ever. Nobody has to press a
button, stop acquisition or delete anything.

### Program (run `program`)

Lives of the program: `config.json` read at the start, truncated and then written
by a save, torn by a crash; the settings page of the local API with its start, stop
and save as sequences of steps; the host's server threads, which a `stop()` waits
for five seconds and may leave behind; scheduler, pool and shutdown. Checked: the
server threads alive are those that host, settings and page account for
(`ServersAccountedFor`); file, program and host agree at rest (`SettingsAgree`);
what is switched off or told to quit ends (`WindsDown`). Two ports and two threads:
a server left behind and a second. Fairness: the GUI thread goes on with what it
has begun, a server's thread with what it is told.

### Frames and DeviceDebug (run `query_pages`, with Records)

`Frames` has the two protocol adapters as functions on bytes: CRC-16 in both byte
orders, the request, validation in the order of the code, the parsed readings.
`DeviceDebug` is the debugging page over them, with a factory that keeps its first
protocol, devices that compute their CRC as a remainder of polynomials (not as the
code does) and a line that flips bits, cuts, swaps, echoes or brings another
unit's answer. A command that is refused leaves the page waiting (`SendRefused`), one
that cannot be sent or is not answered shows a diagnosis (`NotSent`, `Unanswered`).
`poll_once` is what the port worker makes of one answer: it asks by the requests
`_request_for_target` builds of configured addresses and leaves invalid readings out;
what it does with the readings is in `PortWorker`.

Checked: what turns green is what the device said, is about the read last handed to the service,
and damage never turns green (`GreenIsTrue`); requests are sound, intact answers are
read, and a poll stores one reading, of the configured detector, with the status its
device has, unless the answer was damaged (`LineUnderstood`). Ten commands (aligned and
not, one and several detectors, unit 0), two targets, every status of every kind of
device, flips of every nineteenth bit and of one in the function code: every field of a
frame is hit; one exchange in a behaviour, beside restarts and refused sends. Worker and
page share no state here, so a poll is explored beside an unused page only. `last` and
`polled` are histories and are forgotten once the page shows something else.

### Maintenance, MapPage, ChartPage and PageSide (run `maintenance`)

Three pages that keep what they have read and what was edited.

`Maintenance`: plans, the dialog that edits one, the page with its two lists, and the
reminders computed from plans, sensor lives and calibrations; time passes in half days
so that an instant may lie between two dates.

`MapPage`: the list of maps, the map shown, its points where they are drawn, and the
places points were dragged to that are not saved. `db` is the tables, `ui` the page with
its view model and its canvas, `drag` the point under the mouse. A reading or an alarm
starts the timer of a refresh (`_on_state_event`), and the refresh (`Timeout`) may fall
between two moves of a drag or while the deletion dialog is open; it puts all points
back and clears what is pending. A save writes point by point and reads the map again
after each (`save_point_position`); each read may be refused, or raise, which ends the
handler. Other pages delete detectors; a backup restored under the page leaves its rows
behind (`stale`).

`ChartPage`: the curve widget as functions (`set_series`, `_toggle_series`, `Latest`),
the state store's short cache behind the curves of the last minutes, and the curves of
the records with their editors, table, export and print. The page's tabs share nothing,
so a behaviour is of one.

Checked of what the pages show (`PagesAreTrue`): overdue work is among the cards of a
page just loaded and the title of a card agrees with its text; a point is drawn where it
was loaded unless its new place is pending and the buttons offer to save it; the legend
ticks the curves drawn, the current value is of one of them, the curves have the points
of the table below, both tell an error or none does. Of what is edited (`EditsAsShown`):
a saved dialog changes what its user changed; a save of the map writes points as they
were drawn when it was asked for, only their places, and all of them if it succeeds,
whatever was refreshed meanwhile; the map deleted is the one confirmed and is shown no
longer; what is exported is the answer to the last query with what was asked, and after a
failed query nothing. From one load to a later one an untouched plan stays listed and its
days left do not grow (`UrgencyOnlyGrows`).

Two detectors, one plan, two dates, half a day of time, three saves, one change of a
detector: a plan is edited, completed and overdue in one behaviour, and a detector
disappears under it. One map and one to upload, two points on two places, one restore,
from a database with both points or one: a save writes two points with a refresh between
them, and after a restore inserts instead of updating. Two curves, a cache of one
reading, two minutes, replies with points of both detectors, without values, and empty.

### ReadModel (run `read_model`)

The answers of the bigscreen, the map, the monitoring page and the API, and what the
screens make of them. A request reads in several moments (`request.left`), and cycles,
edits of the configuration, and restarts of the store fall between; a call of the GUI
thread excludes the edits. Checked: at rest all four tell the same of a detector, every
active alarm is shown but those of deleted detectors, and the headings add up
(`ScreensAgree`); what an answer says of a detector was true at a moment while it ran
(`AnswersHold`). Two detectors, one of them behind a controller, two alarm rows, one
edit, three writes between the moments of a call (one cycle, and its two halves split
over the moments, need three), a monitoring page of one card.

### Records (run `query_pages`, with DeviceDebug)

A pane of the records page with its form, the filters last asked, the action bar, the
table and the selection; the queries with their order, limit and offset; the export; the
curve of the chart page. The filters are the window, the status of an alarm (any, active,
recovered), the detector, and the place: what 位置编号 and, of alarms, 控制器 compare
with the detector as it is now (`place`), through a join. What they compare with columns
of the row (port, quality, type, actor) is as fixed as the detector's id, which stands
for it.

Every page of the table is a query of its own, and OFFSET counts the rows that match at
that moment. An alarm that recovers leaves the pages of 未恢复 and enters those of 已恢复;
a detector that is given another code or controller takes its old rows along
(`DetectorEdited`). So `walk` remembers the pages turned since the first, which rows have
come to match since (`came`) and whether any has gone (`gone`). Checked
(`RowsReadOnce`): while the same rows match, the pages hold the newest of them, each once
and in order; if rows have only come, one may be read twice but none is missed; if rows
have only gone, one may be missed but none is read twice; of a walk that has seen both
nothing is said. An export, one transaction, is the newest rows of the query the table
answers; a curve the oldest points of its detectors. What is deleted is the selected row
of the table or what the filters last queried match (`ActsOnWhatIsShown`).

Three rows at first, two of one time, a fourth written, five settings of the editors
(`Forms`: a window too wide, one inverted, an ordinary one with either status, or with a
place and a detector) beside the last hour that a reset leaves, two places (`Places`,
`Homes`), a clock that ticks once. Pages of one row: a row can come and go before and
behind the page shown, and up to four pages can be turned. With pages of one and two rows
TLC finds no error either, in three times the states; that the properties hold for every
size is proved.

## 4. What is proved

TLC checks the instances above; the theorems hold for every value of the
constants, so for any number of detectors, ports, rows, sessions, packages, bounds.
All proofs are checked by TLAPS with the SMT backend, Zenon and, for the temporal
steps, LS4. `PROJECT.json` lists the results. The shape is the same everywhere: an
inductive invariant with one lemma per action, from it the invariants and action
properties.

The constants are constrained only by the named assumption of each module
(`ConstantsAssumption` and `NoTxnAssumption` of `AlarmIngest`,
`AcquisitionAssumption`, `PortWorkerAssumption`, `BackupRestoreAssumption`,
`ShelfAssumption` and `ForeignAssumption`, `RowsAssumption` of `DeviceConfig`,
`MapsAssumption`, `PagesAssumption` of `ConfigPages` and of `AccountPages`,
`UsersAssumption`, `RealtimeAssumption`, `PortsAssumption` and `ThreadsAssumption`
of `Program`, `MaintenanceAssumption`, `MapPageAssumption`, `ChartAssumption`, `ReadAssumption`, `RecordsAssumption`):
marks such as "no row" differ from what they stand beside, functions have their
domains, bounds are numbers. TLC evaluates each of them.

**Alarm ingestion** (`AlarmIngestProofs`): `AlarmsTellConditionsAlways`,
`LinkageOnceHolds`, `HistoryKeptHolds`, `PeriodsImplemented`. The properties are not
inductive: they concern the committed tables, and a commit replaces these with
`txn.work`, so `IInv` states the same of the open transaction, and that its rows
continue the committed ones. Nor does "each rule at most once" follow from itself:
the next reading could open another row. So `IInv` remembers a witness
(`WitnessIn`): for every rule triggered in the current period there is an active row
that carries its record. The foreign key keeps that row from being deleted, and as
long as it is active `find_active` finds it and no row is inserted; when it is
recovered the period is over. The refinement maps each step to a step of
`AlarmPeriods` or to none; it needs that the part of a batch taken so far has the
effect the abstract batch will have (`TakenIn`).

**Acquisition** (`AcquisitionProofs`): `NoWriteDuringRestoreAlways`,
`PollersInOrderAlways`. `LockInv` ties status, lock and the set of active names
through every phase of a call; `CallInv` says which workers a call has in hand;
`LateInv` counts the writes of a cancelled worker. Where workers behave, `ThreadInv`
says that a worker alive is a handle of the service, or one that a stop waits for.

**Views** (also `AcquisitionProofs`): `ViewFollowsSnapshotAlways`, from `RowIdsInv`
(every alarm has its own id and room among the ids), `PopupInv` (a row that had its
popup keeps it as long as it is active) and `FocusInv`.

**Port worker** (`PortWorkerProofs`): `StoresFollowCycleAlways` and
`ReadingIsOwnAlways`. `StoresInv` follows the three writes through the end of a
cycle, `OfflineInv` and `CountInv` the counters; that a stored reading is the
detector's own needs that units differ (`OwnUnit`), which is a hypothesis of the
theorem and not of the module: behind a controller it is false (section 5).

**Backup** (`BackupRestoreProofs`): `ScheduleFollowsSettingsAlways`,
`AllOrNothingAlways`, `RestoreIsAloneAlways` from `LockInv`, `ScheduleInv` and
`FilesInv`; `RestoredMapsHaveFilesAlways` and `NewestStaysAlways` from
`SchemaInv`, `MapsInv` (a package that passes the check has the files of its maps,
its database being older than its list) and `RecordsInv` (for every record, in the
database or in any package, its file is on the shelf or one as new is);
`ShelfOfTheSide` carries both over to the composition.

**Configuration** (`DeviceConfigProofs`): `LookupsSucceedHolds`,
`UniqueAmongLiveHolds`, and under the pages `LookupsSucceedOnPages`,
`UniqueOnPages`, `DeletedAsConfirmedAlways`, `SaveKeepsTheRestAlways`. References
and uniqueness are inductive with the types; the files are not: a second row could be
inserted with the file of a first unless a file being uploaded is not yet the file
of a row (`UploadIsNew`). The pages need the tables and the backup to be sound
(`TablesInv`), the rows shown to be those of the table unless something is pending
(`ShownInv`), and the form to agree with the row it will be saved to in every field
neither edited nor refilled (`FormInv`). `BusAddressNeedsOneGuard` says what run
`controller_moved` is missing: if a controller changes its port only while no live
detector is behind it, a bus address belongs to one controller.

**Accounts** (`UsersProofs`): `AccountsSoundHolds`, `SessionsSoundHolds`,
`SessionsStayDeadHolds`, `PagesImplementUsers`, `PagesKeepAccounts`,
`PageShowsTheTable`, `AccountsEditedAsShownAlways`. Row 1 is the administrator for
ever, in the database and in the package; every session knows its row; versions
only grow between restores. The pages then need `ShownInv`: the cached rows are
those of the table while nothing was restored.

**Program** (`ProgramProofs`): `ServersAccountedForAlways`, `SettingsAgreeAlways`,
from `ServerInv` (which threads may be alive at each step of the page),
`SettingsInv` and `PageInv`.

**Screens** (`ScreensProofs`): `ScreensAgreeAlways`, `AnswersHoldAlways`,
`ActsOnWhatIsShownAlways`, `RowsReadOnceAlways`. `AnswersHold` rests on an
invariant per moment of each call (`BigscreenInv`, `MapInv`, `MonitorInv`,
`AlarmsInv`, `DevicesInv`) over a history of what was true of each detector since
the call began; `ScreensAgree` on `RowsAgree` (one active row per detector, of the
status last ingested), on `MostUrgentIsFirst` (a finite set of rows has a most urgent
one) and on counts: `CountedAlike` and `AddedUp` build the bijections between rows
and cards, and between a set and its groups. `ActsOnWhatIsShown` rests on
`PaneInv`: the bar's filters are those of the answer shown.
`RowsReadOnceAlways` rests on `PagesInv`, whose part `WalkOver` says of the pages turned
so far what they would be of the rows that match now: their front (`Foremost`) while
nothing has come or gone, all of it but what has come, or without repetition. A row is no
further back among fewer rows (`FrontOfFewer`), so the next page keeps each of the three
(`WalkOverPage`), and a write moves from the first to one of the others (`WalkOverOthers`,
`ObservedInv`). For the export and the curve it rests on `Iterated`: a loop that stops at
a short page has read the list up to there, by induction in the form of a set of numbers
closed under the step (`SetInduction`). Any number of rows, filters, places, sizes of
pages and batches.

**Pages** (also `ScreensProofs`): `CardsAreTrueAlways`, `UrgencyOnlyGrowsAlways`,
`EditKeepsTheRestAlways` of the plans, `MapPageKept`, `ChartPageKept`, and of the
composition `PagesAreTrueAlways` and `EditsAsShownAlways`. `MaintenanceInv` ties the page
to the plans it was loaded from. `MapPageInv` has five parts: the tables are sound
(`SoundTables`); canvas, items and pending agree (`Sheet`); while nothing was restored the
points loaded are rows of the table, in all but what this page writes (`UpToDate`); what
the mouse holds is drawn (`HandInv`); and during a save each point still to be written is
a row as it was shown (`SavingInv`), which no refresh between two points can change since
the rows to write were copied when the save began. `ChartPageInv` says of each widget
that it is the redrawing of its series (`SoundChart`), of the curves of the last minutes
that their points were received (`ReadingsInv`, `LiveInv`), and of the table that rows,
filters and the last answer agree whenever the export is offered (`PastInv`). The current
value is a point of greatest number, so that a finite set of numbers has a greatest one
is proved first (`MaxOfFinite`).

What is only model-checked, and why:

* liveness (`StopTakesEffect`, `FailureReported`, `AvailabilityFollows`,
  `PauseEnds`, `PagesCatchUp`, `DisposedGoesQuiet`, `WindsDown`): fairness and
  ENABLED are out of the prover's reach;
* `GreenIsTrue` and `LineUnderstood` of `DeviceDebug`: they rest on what the CRC
  computes, a RECURSIVE operator over the exclusive or of bytes, and no theorem can be stated in a
  module that reaches one;

Proof attempts that failed for a reason were findings, about the code or about a
bound, and changed what is stated:

* `AnswersHold`: an answer of the map page may hold a reading newer than the state
  store's, when a cycle falls between the store and the snapshots read after it; and
  the monitoring page reads the first page of its cards in one moment and the alarms
  of all detectors in another. Its bounds were raised (`MaxRaces`, `PageSize`) so that
  TLC shows both.
* `RestoredMapsHaveFiles`: two overlapping backups share a lock name, the first to end
  frees it, and a restore may then replace files between the other's copy of the
  database and its list of files. The package passes the check and has a row of a map
  with an older file (`torn`). With `MaxMade = 3` TLC could not show it; with 6 it does
  at depth 33.
* `RealtimeView`: with two ports the bound on alarm rows could be overrun, because each
  port in its cycle may still insert one; rows still due are now counted (`Due`).

## 5. Disagreements found

Run `controller_moved` must be found violated: `save_controller` updates `port_id`
without looking at the detectors behind the controller, which go on being polled on
the old port at its address, while another controller of that port may take the
address. `device_config_service.py:551` refuses to create such a detector, and
`docs/database-conventions.md:52` has addresses unique on a port. `PROJECT.json`
quotes both.

The documents promise without a condition that a restore excludes what else writes
(`docs/security-policy.md:64,82,119`, `docs/database-conventions.md:20,91`,
`docs/backend-standards.md:164`). The code keeps that only where workers end within the
timeout of `stop()` and no two backups have overlapped: `stop()` swallows the timeout of
a worker (`acquisition_service.py:226`) and releases the lock, so that a restore can meet
the worker's transaction; and the lock manager discards a name whoever else holds it
(`runtime_locks.py:49`), so that the first of two overlapping backups to end lets a
restore begin beside the other. `NoWriteDuringRestore` and `RestoreIsAlone` say what does
hold: the condition of the first is `~ setup.slow /\ ~ setup.fails`, of the second
`~ overlapped`. Without these TLC finds each violated, at depths 14 and 10.

The other cases met while modelling are in the models, as a guard of a property or
as what a history variable remembers, and are listed here with the place in the
code. Where a document can be read against the code, the item says so.

Acquisition and port worker

* `stop()` goes on after the timeout of a worker, so that the next start may put a second
  poller beside it; in ERROR it cancels nothing and yet answers 采集已停止
  (`acquisition_service.py:123-125`), so that after a restart a port may have two
  pollers. `slow` and `fails` of the setups.
* A worker failure before the status is RUNNING is dropped.
* A link that stays down for two attempts ends the worker, since `open()` is called
  without catching `ChannelError` (`port_worker.py:145`). `docs/backend-standards.md:145`
  gives reconnection to the acquisition code and FR-401 makes its interval a setting;
  neither says for how long it is tried.
* `TcpChannel.transact` takes the next bytes received (`tcp_channel.py:70-97`) and
  `validate_response` compares unit, function, length and CRC only, so behind one
  controller a late answer is stored as another detector's, and one late answer
  shifts all later ones of the connection.
* A deleted detector keeps its active alarm and its map point.

Backup and restore

* After overlapping backups (above) a package may hold a row of a map with an older file
  (`overlapped`, `torn`).
* The records of packages are in the database: a restore forgets later packages, whose
  files are then never purged, brings back records of purged ones, and loses the
  record of its own safety backup. `pre_restore` packages are never purged. Retention
  counts records, not files, and only in the directory just used.
* A backup that fails while writing leaves a partial file; two backups of one second
  and directory choose one name, and a name purged within the second is given again
  (`retaken`).
* After a package of an older schema is restored, newer packages are refused until a
  restart migrates. A restore leaves files that are not in the package. A crash between
  two replacements is neither finished nor undone at the next start
  (`backup_service.py:290`), while `docs/backend-standards.md:165` wants no partially
  trusted state after a failed restore.
* Nobody calls `register_scheduled_backup` at the start of the program; the restore
  panel's idea of a running acquisition and the schedule panel are not refreshed.

Configuration, maps and accounts pages

* `_set_combo` leaves a box as it is when the value is not offered, so a save may
  re-target a row whose reference the box does not list; reloading the detectors page
  puts the gas type's limits over those in the form; after a failed reload a deletion
  confirms a row that may have changed; saving twice after 新增 makes a second rule;
  ids handed out after a backup are handed out again once it is restored; saving an
  object always sends `adapter_type` "simulated".
* Deleting asks only who is looked up: `delete_port` asks the detectors
  (`device_config_service.py:217`) and leaves a controller on the deleted port,
  `delete_detector` (`:356`) leaves the point on the map and the detector in rules,
  `delete_object` (`linkage_service.py:94`) leaves the rules of the object.
* The users page is cached and not reloaded after a restore; it has no deletion, and
  `ResetPasswordDialog` and `RoleChangeDialog` are never opened; the forced password
  dialog cannot be left.
* `update_user` with a password does not raise `permission_version`; a restore brings
  old versions back; the login window's 修改密码 passes no session (`main.py:187`);
  `change_password` accepts the same password; the licence is not checked again after
  the login; `session.username` may be stale.

Screens, API and records

* After a failed `get_snapshot` the bigscreen stops refreshing
  (`bigscreen/view_models.py:113`), while FR-803 wants an alarm brought to the front. Nobody publishes
  "alarm.*" events; `main.py` opens the bigscreen with `auto_start=False` and nobody
  calls `load()`; nobody calls `set_page`.
* The monitoring page keeps cards of deleted detectors, reads the first page of
  snapshots only and lets a card pulse by its status alone; after a restart map and
  monitor show the last snapshot while the bigscreen shows offline; the API lists
  deleted detectors which its single call answers with 404; the active alarm of a
  deleted detector is counted and may hide the focus; the focus panel labels the
  trigger value 当前值.
* The records page may delete active alarm rows. An inverted window replaces the table
  by an error page (`records_page.py:141-143`: `collect` returns nothing and only the state of the
  table changes), and 删除选中, 批量清空 and 导出 go on acting on the
  row and the filters of the table that is hidden; `ActsOnWhatIsShown` takes these for
  shown. Before any query 批量清空 acts on the default week while the form shows an hour.
  Pages by OFFSET are not of one moment: rows are skipped when alarms recover between two
  pages of 未恢复 or a detector loses the code or controller asked for, and read twice when
  alarms recover between two pages of 已恢复, a detector is given that code or controller, or
  a row is written within the window. An export limit that
  is not a multiple of a hundred would read rows twice; negative values get a leading
  quote in xlsx (`export_service.py:163-167`). The chart shows the oldest hundred points
  and collects filters it does not pass (`chart_page.py:115-121`).
* A page turned after its filters were edited may show no records.

Program, debugging and maintenance

* The write of `config.json` is not atomic; `host._last_alert` is never cleared;
  `start_api` shows 已运行 over an error and a failed stop leaves it shown; an enabled API
  is not started with the program; the page takes ports 1..65535 and the facade
  1024..65535; shutdown never cancels the pool's tokens, and callbacks of the scheduler
  may outlive its two second join.
* The factory of the debugging page keeps the first protocol asked for; a protocol 1 read of a detector that does not begin at register 0
  is parsed as if it did; a refused send leaves 等待响应 shown; a click whose inputs the page
  refuses (`device_debug_page.py:116`) leaves the green badge of the read before it.
* A refresh of the map page that falls between two moves of a drag puts the point back
  and forgets what was pending, without a word (`map_canvas.py:66`); a map removed by a
  restore stays listed. `MapConfigService.update_map` has no caller in the interface.
* On the chart page a detector added to the ids comes up unticked if others were drawn;
  the detail table's `pageChanged` is connected to nothing.
* `_optional_iso_date` (`device_config_service.py:735-741`) accepts text with dashes in
  the right places, and one such date makes every load of the reminders fail; a plan that
  reminds on the day itself is saved with seven days (`int(remind or 7) or 7`); a plan due
  today is shown 已超期 1 天; the reminder of a calibration never ends; the plan of a
  deleted detector cannot be completed; nobody calls `register_scheduled_reminders`.

## 6. What is not modelled

Import, export and the validation of files (their content is data); the serial
channel (it writes a request and reads what has come, without emptying its input first, so
an answer that comes late can be read by a later request there as on TCP); the decimal value of a
concentration; several jobs of one scheduler; `set_protocol_mode`; the scheduled reminder job, which nothing
registers; the algorithm of the licence code; the middleware of the API; migrations
as such (the unique indexes they create are guards of `AlarmIngest`); the
assembly of services that only pass calls on; paths, logging and audit text;
widgets, styles and dialogs without state of their own; zoom and panning of the curves;
the details and the list of alarms beside a map. Hashes,
field validation and wording are abstracted. Time is "may have passed" except in
`Records`, `Maintenance` and `BackupShelf`, where it is a number.

`alarm_priority_enabled` of the bigscreen is taken to be on, its default
(`bigscreen_service.py:338,369`): switched off, the bigscreen has no focus, shows its
configured pages only, and of the properties of `RealtimeView` those about the focus say
nothing.

Two hazards have no property: the worker ended by a link that stays down, and a
crash between two replacements of a restore. The models contain both steps; section 5
quotes what the documents say of either.

------------------------------ MODULE Program ------------------------------
(***************************************************************************)
(* One life of the desktop program after another, seen from the thread     *)
(* that owns it: create_app_context reads config.json, the settings page   *)
(* saves the local API's settings and starts and stops its server, and     *)
(* AppContext.shutdown takes the threads down.  The page's operations are  *)
(* sequences of steps, because the file is truncated before it is written  *)
(* and because stop() waits, for five seconds at most, for a thread that   *)
(* runs on.  The process may die between any two steps.                    *)
(***************************************************************************)
EXTENDS Naturals, FiniteSets

CONSTANTS Ports,        \* the TCP ports the API may be given
          DefaultPort,  \* ApiConfig.port's default
          Threads       \* names for server threads: more than one may be alive

ASSUME PortsAssumption == DefaultPort \in Ports
ASSUME ThreadsAssumption == IsFiniteSet(Threads) /\ Threads # {} /\ "none" \notin Threads

ApiConfig == [enabled : BOOLEAN, port : Ports]
default_config == [enabled |-> FALSE, port |-> DefaultPort]
None == "none"
Missing == [text |-> "missing", api |-> default_config]
Torn == [text |-> "torn", api |-> default_config]
Saved(cfg) == [text |-> "saved", api |-> cfg]

VARIABLES
    file,       \* config.json: missing, torn (truncated and not rewritten), saved
    config,     \* the facade's and the context's current ApiConfig
    host,       \* LocalApiHost: its _api_config, its _thread, its _last_alert
    servers,    \* server threads: port, state, should_exit
    taken,      \* ports in use by other programs
    gui,        \* the owning thread: its step, the operation it is in, its input
    page,       \* the settings page: status shown, checkbox, the two buttons
    job,        \* the scheduler's thread: its step, and _cancelled
    polling     \* a pool worker is running a task that only a token ends

vars == <<file, config, host, servers, taken, gui, page, job, polling>>

Steps == {"off", "idle", "write", "fill", "join", "start", "started", "jobs", "pool"}
Operations == {None, "save", "start", "stop", "quit"}
Shown == {"stopped", "running", "error"}

\* What each variable may hold.
Files == [text : {"missing", "torn", "saved"}, api : ApiConfig]
Hosts == [cfg : ApiConfig, thread : Threads \union {None}, alert : BOOLEAN]
Servers == [port : Ports, state : {"dead", "starting", "serving"}, should_exit : BOOLEAN]
Guis == [step : Steps, op : Operations, command : ApiConfig]
Pages == [shown : Shown, checked : BOOLEAN, can_start : BOOLEAN, can_stop : BOOLEAN]
Jobs == [step : {None, "wait", "run", "ended"}, cancelled : BOOLEAN]

Dead == [port |-> DefaultPort, state |-> "dead", should_exit |-> FALSE]
Alive(t) == servers[t].state # "dead"
is_running == host.thread # None /\ Alive(host.thread)
At(step) == gui.step = step
Idle == [step |-> "idle", op |-> None, command |-> config]

(***************************************************************************)
(* The page.  _sync_action_buttons looks at the host once; nothing repeats *)
(* it when the server's thread ends by itself.                             *)
(***************************************************************************)
_sync_action_buttons(p, running) ==
    [p EXCEPT !.can_start = p.checked /\ ~running, !.can_stop = running]

update_status(p, status, running) ==
    _sync_action_buttons([p EXCEPT !.shown = status], running)

refresh_status(p, alert, running) ==
    update_status(p, IF alert THEN "error"
                     ELSE IF running THEN "running" ELSE "stopped", running)

reload(checked, alert, running) ==
    refresh_status([shown |-> "stopped", checked |-> checked,
                    can_start |-> FALSE, can_stop |-> FALSE], alert, running)

(***************************************************************************)
(* Start-up and the end of a life.                                         *)
(***************************************************************************)
load_config == IF file.text = "saved" THEN file.api ELSE default_config

Init ==
    /\ file = Missing
    /\ config = default_config
    /\ host = [cfg |-> default_config, thread |-> None, alert |-> FALSE]
    /\ servers = [t \in Threads |-> Dead]
    /\ taken \in SUBSET Ports
    /\ gui = [step |-> "off", op |-> None, command |-> default_config]
    /\ page = reload(FALSE, FALSE, FALSE)
    /\ job = [step |-> None, cancelled |-> FALSE]
    /\ polling = FALSE

\* create_app_context and _assemble_services; the API is not started here,
\* whatever the file says.  A missing file is written with the defaults.
create_app_context ==
    /\ At("off")
    /\ config' = load_config
    /\ file' = IF file = Missing THEN Saved(default_config) ELSE file
    /\ host' = [cfg |-> load_config, thread |-> None, alert |-> FALSE]
    /\ gui' = [step |-> "idle", op |-> None, command |-> load_config]
    /\ page' = reload(load_config.enabled, FALSE, FALSE)
    /\ UNCHANGED <<servers, taken, job, polling>>

\* Every thread goes with the process: they are daemons, or it was killed.
ProcessEnds ==
    /\ servers' = [t \in Threads |-> Dead]
    /\ gui' = [step |-> "off", op |-> None, command |-> default_config]
    /\ job' = [step |-> None, cancelled |-> FALSE]
    /\ polling' = FALSE
    /\ UNCHANGED <<file, config, host, taken, page>>

Crash == ~At("off") /\ ProcessEnds

(***************************************************************************)
(* The settings page: the checkbox, 保存配置, 启动 API, 停止 API, and the *)
(* page built anew after another login.                                    *)
(***************************************************************************)
Toggle ==
    /\ At("idle")
    /\ page' = [page EXCEPT !.checked = ~@]
    /\ UNCHANGED <<file, config, host, servers, taken, gui, job, polling>>

OpenPage ==
    /\ At("idle")
    /\ page' = reload(config.enabled, host.alert, is_running)
    /\ UNCHANGED <<file, config, host, servers, taken, gui, job, polling>>

save_config(port) ==
    /\ At("idle")
    /\ gui' = [step |-> "write", op |-> "save",
               command |-> [enabled |-> page.checked, port |-> port]]
    /\ UNCHANGED <<file, config, host, servers, taken, page, job, polling>>

start_api(port) ==
    /\ At("idle")
    /\ page.can_start /\ page.checked
    /\ gui' = [step |-> "write", op |-> "start",
               command |-> [enabled |-> TRUE, port |-> port]]
    /\ UNCHANGED <<file, config, host, servers, taken, page, job, polling>>

stop_api ==
    /\ At("idle")
    /\ page.can_stop
    /\ gui' = [Idle EXCEPT !.step = "join", !.op = "stop"]
    /\ servers' = IF host.thread = None THEN servers
                  ELSE [servers EXCEPT ![host.thread].should_exit = TRUE]
    /\ page' = [page EXCEPT !.can_stop = FALSE]
    /\ UNCHANGED <<file, config, host, taken, job, polling>>

(***************************************************************************)
(* save_api_config: the file, then the settings in memory, then the host.  *)
(***************************************************************************)
\* Mutant: the settings in memory are taken over before the file is written.
BugWrite ==
    /\ At("write")
    /\ file' = Torn
    /\ config' = gui.command
    /\ gui' = [gui EXCEPT !.step = "fill"]
    /\ UNCHANGED <<host, servers, taken, page, job, polling>>

write_default_config ==
    /\ At("write")
    /\ file' = Torn
    /\ gui' = [gui EXCEPT !.step = "fill"]
    /\ UNCHANGED <<config, host, servers, taken, page, job, polling>>

\* OSError, on opening the file or half-way: nothing else has changed.
WriteFails ==
    /\ At("write") \/ At("fill")
    /\ gui' = Idle
    /\ page' = IF gui.op = "start"
               THEN refresh_status(page, host.alert, is_running) ELSE page
    /\ UNCHANGED <<file, config, host, servers, taken, job, polling>>

\* update_config's second half, reached with or without a stop; the facade
\* returns and the page takes the saved settings over.
SavedTo(cfg, running) ==
    /\ gui' = IF gui.op = "start" THEN [gui EXCEPT !.step = "start"]
              ELSE [step |-> "idle", op |-> None, command |-> cfg]
    /\ page' = _sync_action_buttons([page EXCEPT !.checked = cfg.enabled], running)

should_stop == is_running /\ gui.command # host.cfg

save_api_config ==
    /\ At("fill")
    /\ file' = Saved(gui.command)
    /\ config' = gui.command
    /\ IF should_stop
       THEN /\ servers' = [servers EXCEPT ![host.thread].should_exit = TRUE]
            /\ gui' = [gui EXCEPT !.step = "join"]
            /\ UNCHANGED <<host, page>>
       ELSE /\ host' = [host EXCEPT !.cfg = gui.command]
            /\ SavedTo(gui.command, is_running)
            /\ UNCHANGED servers
    /\ UNCHANGED <<taken, job, polling>>

(***************************************************************************)
(* LocalApiHost.  Joined is the end of stop(): the thread is dead, or five *)
(* seconds have passed and it keeps its place in the host.                 *)
(***************************************************************************)
\* Mutant: a thread that outlives the join is forgotten.
BugLeftBy(thread) == None

LeftBy(thread) == IF thread # None /\ Alive(thread) THEN thread ELSE None

Joined ==
    /\ At("join")
    /\ host' = [host EXCEPT !.thread = LeftBy(host.thread),
                            !.cfg = IF gui.op \in {"save", "start"}
                                    THEN gui.command ELSE @]
    /\ CASE gui.op \in {"save", "start"} -> SavedTo(gui.command, is_running)
         [] gui.op = "stop" ->
              /\ gui' = Idle
              /\ page' = IF is_running THEN refresh_status(page, host.alert, TRUE)
                         ELSE update_status(page, "stopped", FALSE)
         [] OTHER -> gui' = [gui EXCEPT !.step = "jobs"] /\ UNCHANGED page
    /\ UNCHANGED <<file, config, servers, taken, job, polling>>

InUse(port) ==
    port \in taken \/ \E t \in Threads : servers[t].state = "serving"
                                         /\ servers[t].port = port

\* _port_available sets SO_REUSEADDR, with which Windows lets a port in use
\* be bound: the probe sees what it should, or nothing.
StartRefused ==
    /\ At("start")
    /\ ~is_running
    /\ InUse(host.cfg.port)
    /\ host' = [host EXCEPT !.alert = TRUE]
    /\ page' = update_status(page, "error", FALSE)
    /\ gui' = Idle
    /\ UNCHANGED <<file, config, servers, taken, job, polling>>

Start(t) ==
    /\ At("start")
    /\ host.cfg.enabled
    /\ IF is_running
       THEN UNCHANGED <<host, servers>>
       ELSE /\ ~Alive(t)
            /\ servers' = [servers EXCEPT ![t] =
                 [port |-> host.cfg.port, state |-> "starting", should_exit |-> FALSE]]
            /\ host' = [host EXCEPT !.thread = t]
    /\ gui' = [gui EXCEPT !.step = "started"]
    /\ UNCHANGED <<file, config, taken, page, job, polling>>

\* The host has said started=True.  A thread that has died meanwhile is shown
\* as running all the same, over whatever error it reported.
StartShown ==
    /\ At("started")
    /\ page' = IF is_running THEN refresh_status(page, host.alert, TRUE)
               ELSE update_status(page, "running", FALSE)
    /\ gui' = Idle
    /\ UNCHANGED <<file, config, host, servers, taken, job, polling>>

(***************************************************************************)
(* The server's thread.  `finally` clears the host only if the host still  *)
(* means this server.                                                      *)
(***************************************************************************)
ThreadEnds(t, alert) ==
    /\ servers' = [servers EXCEPT ![t] = Dead]
    /\ host' = [host EXCEPT !.alert = @ \/ alert,
                            !.thread = IF @ = t THEN None ELSE @]
    /\ UNCHANGED <<file, config, taken, gui, page, job, polling>>

Bind(t) ==
    /\ servers[t].state = "starting"
    /\ ~InUse(servers[t].port)
    /\ servers' = [servers EXCEPT ![t].state = "serving"]
    /\ UNCHANGED <<file, config, host, taken, gui, page, job, polling>>

\* uvicorn reports a port in use as an OSError or by leaving with SystemExit,
\* which no handler of _run_server sees.
BindFails(t) ==
    /\ servers[t].state = "starting"
    /\ InUse(servers[t].port)
    /\ \E alert \in BOOLEAN : ThreadEnds(t, alert)

ServerLeaves(t) ==
    /\ servers[t].state = "serving"
    /\ servers[t].should_exit
    /\ ThreadEnds(t, FALSE)

ServerFails(t) ==
    /\ servers[t].state = "serving"
    /\ ThreadEnds(t, TRUE)

OtherProgram(port) ==
    /\ ~\E t \in Threads : servers[t].state = "serving" /\ servers[t].port = port
    /\ taken' = IF port \in taken THEN taken \ {port} ELSE taken \union {port}
    /\ UNCHANGED <<file, config, host, servers, gui, page, job, polling>>

(***************************************************************************)
(* The scheduler's thread and a pool worker, as far as shutdown meets them.*)
(***************************************************************************)
every ==
    /\ At("idle")
    /\ job.step = None
    /\ job' = [step |-> "wait", cancelled |-> FALSE]
    /\ UNCHANGED <<file, config, host, servers, taken, gui, page, polling>>

_invoke ==
    /\ job.step = "wait" /\ ~job.cancelled
    /\ job' = [job EXCEPT !.step = "run"]
    /\ UNCHANGED <<file, config, host, servers, taken, gui, page, polling>>

_run_job ==
    /\ \/ job.step = "run"
       \/ job.step = "wait" /\ job.cancelled
    /\ job' = [job EXCEPT !.step = IF job.cancelled THEN "ended" ELSE "wait"]
    /\ UNCHANGED <<file, config, host, servers, taken, gui, page, polling>>

submit ==
    /\ At("idle") /\ ~polling
    /\ polling' = TRUE
    /\ UNCHANGED <<file, config, host, servers, taken, gui, page, job>>

cancel ==
    /\ At("idle") /\ polling
    /\ polling' = FALSE
    /\ UNCHANGED <<file, config, host, servers, taken, gui, page, job>>

(***************************************************************************)
(* AppContext.shutdown: the API host, the scheduler, the pool.             *)
(***************************************************************************)
shutdown ==
    /\ At("idle")
    /\ gui' = [Idle EXCEPT !.step = "join", !.op = "quit"]
    /\ servers' = IF host.thread = None THEN servers
                  ELSE [servers EXCEPT ![host.thread].should_exit = TRUE]
    /\ UNCHANGED <<file, config, host, taken, page, job, polling>>

\* Mutant: the shutdown waits for the job to end by itself.
BugCancelJobs ==
    /\ At("jobs") /\ job.step \in {None, "ended"}
    /\ gui' = [gui EXCEPT !.step = "pool"]
    /\ UNCHANGED <<file, config, host, servers, taken, page, job, polling>>

CancelJobs ==
    /\ At("jobs")
    /\ job' = [job EXCEPT !.cancelled = TRUE]
    /\ gui' = [gui EXCEPT !.step = "pool"]
    /\ UNCHANGED <<file, config, host, servers, taken, page, polling>>

\* Each job's thread was joined for two seconds at most, so it may still run;
\* the pool is waited for without a limit and its tokens are not cancelled.
PoolDone == At("pool") /\ ~polling /\ ProcessEnds

Page == \/ Toggle \/ OpenPage \/ stop_api
        \/ \E port \in Ports : save_config(port) \/ start_api(port)

Gui == \/ write_default_config \/ save_api_config \/ Joined \/ StartRefused
       \/ StartShown
       \/ \E t \in Threads : Start(t)
       \/ CancelJobs \/ PoolDone

Server(t) == Bind(t) \/ BindFails(t) \/ ServerLeaves(t)

Next ==
    \/ create_app_context
    \/ Page
    \/ Gui
    \/ WriteFails
    \/ \E t \in Threads : Server(t)
    \/ \E t \in Threads : ServerFails(t)
    \/ \E port \in Ports : OtherProgram(port)
    \/ every \/ _invoke \/ _run_job
    \/ submit \/ cancel
    \/ shutdown
    \/ Crash

\* The owning thread goes on with what it has begun, and a server's thread
\* with what it is told.  A callback, a click, a crash: nothing is promised.
Fairness == /\ WF_vars(Gui)
            /\ \A t \in Threads : WF_vars(Server(t))

Spec == Init /\ [][Next]_vars /\ Fairness

(***************************************************************************)
(* What is claimed.                                                        *)
(***************************************************************************)
\* The type of every variable.
TypeOK ==
    /\ file \in Files /\ config \in ApiConfig /\ host \in Hosts
    /\ servers \in [Threads -> Servers] /\ taken \subseteq Ports
    /\ gui \in Guis /\ page \in Pages /\ job \in Jobs /\ polling \in BOOLEAN

\* A stop that gives up after five seconds does not make room for a second
\* server beside the one that is still on its way out.
OneServer == \A t \in Threads : Alive(t) => t = host.thread

\* A server whose port is not the host's, or that the host's settings forbid,
\* has been told to leave: no setting is applied under a running server.
ServesTheSettings ==
    \A t \in Threads :
        Alive(t) => \/ servers[t].should_exit
                    \/ host.cfg.enabled /\ servers[t].port = host.cfg.port

\* When the page is at rest the file, the program and the host have the same
\* settings, but for a file that a failed write or a crash left truncated:
\* then the program runs on the last settings saved or on the defaults.
SettingsAgree ==
    At("idle") => /\ config = host.cfg
                  /\ file \in {Saved(config), Torn}

\* A page at rest that says 已停止 is right: no server is left behind.
StoppedIsStopped ==
    At("idle") /\ page.shown = "stopped" => \A t \in Threads : ~Alive(t)

\* start() is not reached while an old server is on its way out, which it
\* would report as started: the page's buttons see to it.
StartsFresh == At("start") => \A t \in Threads : ~Alive(t)

\* Whoever switches the API off gets rid of its server, however long the
\* server takes and whatever else is pressed.
DisabledGoesQuiet ==
    (~At("off") /\ ~config.enabled)
        ~> \/ At("off")
           \/ config.enabled
           \/ \A t \in Threads : ~Alive(t)

\* A program asked to quit ends, whatever its server and its jobs are doing,
\* unless a worker of the pool has still to be cancelled: nobody does it then.
QuitEnds == (gui.op = "quit" /\ ~polling) ~> At("off")

\* The threads alive are those the host, the settings and the page account for:
\* one server at most, of the settings in force, none behind 已停止 or a start.
ServersAccountedFor ==
    TypeOK /\ OneServer /\ ServesTheSettings /\ StoppedIsStopped /\ StartsFresh

\* What is switched off or told to quit comes to its end.
WindsDown == DisabledGoesQuiet /\ QuitEnds
=============================================================================

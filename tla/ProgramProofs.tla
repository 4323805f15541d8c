--------------------------- MODULE ProgramProofs ---------------------------
(***************************************************************************)
(* Proofs about Program, for every set of ports and of server threads: one *)
(* server at a time, under settings that the file, the program and the     *)
(* host agree on, with a page that does not say stopped beside a server.   *)
(***************************************************************************)
EXTENDS Program, TLAPS

\* What load_config returns is a configuration.
LEMMA LoadedConfig == ASSUME TypeOK PROVE load_config \in ApiConfig
BY PortsAssumption DEF TypeOK, load_config, Files, default_config, ApiConfig

\* A refresh of the page gives a page, whatever it finds.
LEMMA PageTypes ==
    ASSUME NEW p \in Pages, NEW alert \in BOOLEAN, NEW running \in BOOLEAN,
           NEW status \in Shown
    PROVE  /\ _sync_action_buttons(p, running) \in Pages
           /\ update_status(p, status, running) \in Pages
           /\ refresh_status(p, alert, running) \in Pages
BY DEF Pages, refresh_status, update_status, _sync_action_buttons, Shown

LEMMA ReloadTypes ==
    ASSUME NEW checked \in BOOLEAN, NEW alert \in BOOLEAN, NEW running \in BOOLEAN
    PROVE  reload(checked, alert, running) \in Pages
BY DEF Pages, reload, refresh_status, update_status, _sync_action_buttons, Shown

LEMMA RunningType == is_running \in BOOLEAN
BY DEF is_running

\* Telling a server to leave, and the idle state, keep their types.
LEMMA LeavingTypes ==
    ASSUME TypeOK, NEW t \in Threads
    PROVE  [servers EXCEPT ![t].should_exit = TRUE] \in [Threads -> Servers]
BY DEF TypeOK, Servers

LEMMA IdleType == ASSUME TypeOK PROVE Idle \in Guis
BY DEF TypeOK, Idle, Guis, Steps, Operations, None
-----------------------------------------------------------------------------
\* Every variable keeps its type.
LEMMA TypeInit == ASSUME Init PROVE TypeOK
<1>1. default_config \in ApiConfig
  BY PortsAssumption DEF default_config, ApiConfig
<1>2. file \in Files /\ config \in ApiConfig /\ host \in Hosts
  BY <1>1 DEF Init, Missing, Files, Hosts, None
<1>3. servers \in [Threads -> Servers] /\ taken \subseteq Ports
  BY PortsAssumption DEF Init, Dead, Servers
<1>4. gui \in Guis /\ page \in Pages
  BY <1>1, ReloadTypes DEF Init, Guis, Steps, Operations, None
<1>5. job \in Jobs /\ polling \in BOOLEAN
  BY DEF Init, Jobs, None
<1>6. QED
  BY <1>2, <1>3, <1>4, <1>5 DEF TypeOK

\* A life begins or ends.
LEMMA LifeTypes == ASSUME TypeOK, create_app_context \/ ProcessEnds PROVE TypeOK'
<1>1. CASE create_app_context
  <2>1. page' \in Pages
    BY <1>1, LoadedConfig, ReloadTypes DEF create_app_context, ApiConfig
  <2>2. file' \in Files
    BY <1>1, PortsAssumption
       DEF TypeOK, create_app_context, Files, Saved, default_config, ApiConfig
  <2>3. host' \in Hosts /\ gui' \in Guis /\ config' \in ApiConfig
    BY <1>1, LoadedConfig DEF create_app_context, Hosts, Guis, Steps, Operations, None
  <2>4. QED
    BY <1>1, <2>1, <2>2, <2>3 DEF TypeOK, create_app_context
<1>2. CASE ProcessEnds
  <2>1. servers' \in [Threads -> Servers] /\ job' \in Jobs
    BY <1>2, PortsAssumption DEF ProcessEnds, Dead, Servers, Jobs, None
  <2>2. gui' \in Guis
    BY <1>2, PortsAssumption
       DEF ProcessEnds, Guis, default_config, ApiConfig, Steps, Operations, None
  <2>3. QED
    BY <1>2, <2>1, <2>2 DEF TypeOK, ProcessEnds
<1>3. QED
  BY <1>1, <1>2

\* The page's clicks.
LEMMA PageStepTypes == ASSUME TypeOK, Page \/ shutdown PROVE TypeOK'
<1>1. CASE Toggle
  <2>1. page' \in Pages
    BY <1>1 DEF TypeOK, Toggle, Pages
  <2>2. QED
    BY <1>1, <2>1 DEF TypeOK, Toggle
<1>2. CASE OpenPage
  <2>1. page' \in Pages
    BY <1>2, ReloadTypes, RunningType DEF TypeOK, OpenPage, Hosts, ApiConfig
  <2>2. QED
    BY <1>2, <2>1 DEF TypeOK, OpenPage
<1>3. ASSUME NEW port \in Ports, save_config(port) \/ start_api(port) PROVE TypeOK'
  <2>1. page.checked \in BOOLEAN
    BY DEF TypeOK, Pages
  <2>2. [enabled |-> page.checked, port |-> port] \in ApiConfig
        /\ [enabled |-> TRUE, port |-> port] \in ApiConfig
    BY <2>1 DEF ApiConfig
  <2>3. \E cfg \in ApiConfig, op \in {"save", "start"} :
            gui' = [step |-> "write", op |-> op, command |-> cfg]
    BY <1>3, <2>2 DEF save_config, start_api
  <2>4. gui' \in Guis
    BY <2>3 DEF Guis, Steps, Operations
  <2>5. QED
    BY <1>3, <2>4 DEF TypeOK, save_config, start_api
<1>4. CASE stop_api \/ shutdown
  <2>1. servers' \in [Threads -> Servers]
    BY <1>4, LeavingTypes DEF TypeOK, stop_api, shutdown, Hosts, None
  <2>2. gui' \in Guis
    BY <1>4, IdleType DEF stop_api, shutdown, Guis, Steps, Operations
  <2>3. page' \in Pages
    BY <1>4 DEF TypeOK, stop_api, shutdown, Pages
  <2>4. QED
    BY <1>4, <2>1, <2>2, <2>3 DEF TypeOK, stop_api, shutdown
<1>5. QED
  BY <1>1, <1>2, <1>3, <1>4 DEF Page

\* Writing the file.
LEMMA WriteTypes ==
    ASSUME TypeOK, write_default_config \/ WriteFails PROVE TypeOK'
<1>1. CASE write_default_config
  <2>1. file' \in Files
    BY <1>1, PortsAssumption
       DEF write_default_config, Torn, Files, default_config, ApiConfig
  <2>2. gui' \in Guis
    BY <1>1 DEF TypeOK, write_default_config, Guis, Steps
  <2>3. QED
    BY <1>1, <2>1, <2>2 DEF TypeOK, write_default_config
<1>2. CASE WriteFails
  <2>1. host.alert \in BOOLEAN /\ page \in Pages
    BY DEF TypeOK, Hosts
  <2>2. refresh_status(page, host.alert, is_running) \in Pages
    BY <2>1, PageTypes, RunningType DEF Shown
  <2>3. page' \in Pages
    BY <1>2, <2>1, <2>2 DEF WriteFails
  <2>4. QED
    BY <1>2, <2>3, IdleType DEF TypeOK, WriteFails
<1>3. QED
  BY <1>1, <1>2

\* The end of a save, with or without a stop on the way.
LEMMA SavedToTypes ==
    ASSUME TypeOK, NEW cfg \in ApiConfig, NEW running \in BOOLEAN, SavedTo(cfg, running)
    PROVE  gui' \in Guis /\ page' \in Pages
<1>1. gui' \in Guis
  BY DEF TypeOK, SavedTo, Guis, Steps, Operations, None
<1>2. [page EXCEPT !.checked = cfg.enabled] \in Pages
  BY DEF TypeOK, Pages, ApiConfig
<1>3. QED
  BY <1>1, <1>2, PageTypes DEF SavedTo, Shown

LEMMA SaveTypes == ASSUME TypeOK, save_api_config PROVE TypeOK'
<1>1. gui.command \in ApiConfig
  BY DEF TypeOK, Guis
<1>2. file' \in Files /\ config' \in ApiConfig /\ host' \in Hosts
  BY <1>1 DEF TypeOK, save_api_config, Saved, Files, Hosts
<1>3. CASE should_stop
  <2>1. host.thread \in Threads
    BY <1>3 DEF TypeOK, should_stop, is_running, Hosts, None
  <2>2. servers' \in [Threads -> Servers]
    BY <1>3, <2>1, LeavingTypes DEF save_api_config
  <2>3. gui' \in Guis
    BY <1>3 DEF TypeOK, save_api_config, Guis, Steps
  <2>4. QED
    BY <1>2, <1>3, <2>2, <2>3 DEF TypeOK, save_api_config
<1>4. CASE ~ should_stop
  <2>1. gui' \in Guis /\ page' \in Pages
    BY <1>1, <1>4, RunningType, SavedToTypes DEF save_api_config
  <2>2. QED
    BY <1>2, <1>4, <2>1 DEF TypeOK, save_api_config
<1>5. QED
  BY <1>3, <1>4

LEMMA JoinedTypes == ASSUME TypeOK, Joined PROVE TypeOK'
<1>1. gui.command \in ApiConfig
  BY DEF TypeOK, Guis
<1>2. host' \in Hosts
  BY <1>1 DEF TypeOK, Joined, Hosts, LeftBy, None
<1>3. CASE gui.op \in {"save", "start"}
  BY <1>1, <1>2, <1>3, RunningType, SavedToTypes DEF TypeOK, Joined
<1>4. CASE gui.op = "stop"
  <2>1. page' \in Pages
    BY <1>4, PageTypes, RunningType DEF TypeOK, Joined, Hosts, Shown
  <2>2. QED
    BY <1>2, <1>4, <2>1, IdleType DEF TypeOK, Joined
<1>5. CASE gui.op \notin {"save", "start", "stop"}
  <2>1. gui' \in Guis
    BY <1>5 DEF TypeOK, Joined, Guis, Steps
  <2>2. QED
    BY <1>2, <1>5, <2>1 DEF TypeOK, Joined
<1>6. QED
  BY <1>3, <1>4, <1>5

\* Starting a server, and what the page shows of it.
LEMMA StartTypes ==
    ASSUME TypeOK, StartRefused \/ StartShown \/ \E t \in Threads : Start(t)
    PROVE  TypeOK'
<1>1. CASE StartRefused \/ StartShown
  <2>1. page' \in Pages
    BY <1>1, PageTypes DEF TypeOK, StartRefused, StartShown, Hosts, Shown
  <2>2. host' \in Hosts
    BY <1>1 DEF TypeOK, StartRefused, StartShown, Hosts
  <2>3. QED
    BY <1>1, <2>1, <2>2, IdleType DEF TypeOK, StartRefused, StartShown
<1>2. ASSUME NEW t \in Threads, Start(t) PROVE TypeOK'
  <2>1. gui' \in Guis
    BY <1>2 DEF TypeOK, Start, Guis, Steps
  <2>2. host' \in Hosts
    BY <1>2 DEF TypeOK, Start, Hosts
  <2>3. host.cfg.port \in Ports
    BY DEF TypeOK, Hosts, ApiConfig
  <2>4. servers' \in [Threads -> Servers]
    <3>1. [port |-> host.cfg.port, state |-> "starting", should_exit |-> FALSE] \in Servers
      BY <2>3 DEF Servers
    <3>2. QED
      BY <1>2, <3>1 DEF TypeOK, Start
  <2>5. QED
    BY <1>2, <2>1, <2>2, <2>4 DEF TypeOK, Start
<1>3. QED
  BY <1>1, <1>2

\* The servers' threads.
LEMMA ServerTypes ==
    ASSUME TypeOK, NEW t \in Threads, Server(t) \/ ServerFails(t) PROVE TypeOK'
<1>1. CASE Bind(t)
  <2>1. servers' \in [Threads -> Servers]
    BY <1>1 DEF TypeOK, Bind, Servers
  <2>2. QED
    BY <1>1, <2>1 DEF TypeOK, Bind
<1>2. ASSUME NEW alert \in BOOLEAN, ThreadEnds(t, alert) PROVE TypeOK'
  <2>1. servers' \in [Threads -> Servers]
    BY <1>2, PortsAssumption DEF TypeOK, ThreadEnds, Servers, Dead
  <2>2. host' \in Hosts
    BY <1>2 DEF TypeOK, ThreadEnds, Hosts, None
  <2>3. QED
    BY <1>2, <2>1, <2>2 DEF TypeOK, ThreadEnds
<1>3. QED
  BY <1>1, <1>2 DEF Server, BindFails, ServerLeaves, ServerFails

\* The jobs, the pool and the other programs.
LEMMA OtherTypes ==
    ASSUME TypeOK, \/ every \/ _invoke \/ _run_job \/ submit \/ cancel \/ CancelJobs
                   \/ \E port \in Ports : OtherProgram(port)
    PROVE  TypeOK'
<1>1. CASE every
  BY <1>1 DEF TypeOK, every, Jobs
<1>2. CASE _invoke
  BY <1>2 DEF TypeOK, _invoke, Jobs
<1>3. CASE _run_job
  BY <1>3 DEF TypeOK, _run_job, Jobs
<1>4. CASE submit \/ cancel
  BY <1>4 DEF TypeOK, submit, cancel
<1>5. CASE CancelJobs
  <2>1. gui' \in Guis
    BY <1>5 DEF TypeOK, CancelJobs, Guis, Steps
  <2>2. job' \in Jobs
    BY <1>5 DEF TypeOK, CancelJobs, Jobs
  <2>3. QED
    BY <1>5, <2>1, <2>2 DEF TypeOK, CancelJobs
<1>6. CASE \E port \in Ports : OtherProgram(port)
  BY <1>6 DEF TypeOK, OtherProgram
<1>7. QED
  BY <1>1, <1>2, <1>3, <1>4, <1>5, <1>6

LEMMA TypeStep == ASSUME TypeOK, [Next]_vars PROVE TypeOK'
<1>1. CASE Next
  BY <1>1, LifeTypes, PageStepTypes, WriteTypes, SaveTypes, JoinedTypes, StartTypes,
     ServerTypes, OtherTypes
     DEF Next, Gui, PoolDone, Crash
<1>2. CASE UNCHANGED vars
  BY <1>2 DEF TypeOK, vars
<1>3. QED
  BY <1>1, <1>2

\* Every variable holds a value of its kind, in every life of the program.
THEOREM TypeCorrect == Spec => []TypeOK
BY TypeInit, TypeStep, PTL DEF Spec
-----------------------------------------------------------------------------
\* The servers.  A server that is alive is the host's; between lives there is
\* none; and a stop under way has told every one of them to leave.
Quiet == \A t \in Threads : ~ Alive(t)

ServerInv ==
    /\ OneServer
    /\ ServesTheSettings
    /\ At("off") => Quiet
    /\ At("join") => \A t \in Threads : Alive(t) => servers[t].should_exit

LEMMA NotRunning == ASSUME TypeOK, OneServer, ~ is_running PROVE Quiet
BY ThreadsAssumption DEF OneServer, is_running, Quiet, None

LEMMA ServerInit == ASSUME Init PROVE ServerInv
BY DEF Init, ServerInv, OneServer, ServesTheSettings, Quiet, Alive, Dead, At

\* What leaves the host and the servers alone, and neither ends a life nor
\* begins a stop, leaves the invariant alone.
LEMMA ServersAlone ==
    ASSUME TypeOK, ServerInv, UNCHANGED <<host, servers>>,
           gui'.step = gui.step \/ gui'.step \notin {"off", "join"}
    PROVE  ServerInv'
BY DEF ServerInv, OneServer, ServesTheSettings, Quiet, Alive, At

\* A stop tells the host's server, the only one there may be, to leave.
LEMMA ServerStops ==
    ASSUME TypeOK, ServerInv, NEW t \in Threads, host.thread = t,
           servers' = [servers EXCEPT ![t].should_exit = TRUE], UNCHANGED host,
           gui'.step = "join"
    PROVE  ServerInv'
<1>1. \A u \in Threads : /\ servers'[u].state = servers[u].state
                        /\ servers'[u].port = servers[u].port
                        /\ servers'[u].should_exit = IF u = t THEN TRUE ELSE servers[u].should_exit
  BY DEF TypeOK, Servers
<1>2. QED
  BY <1>1, ZenonT(60) DEF ServerInv, OneServer, ServesTheSettings, Quiet, Alive, At

LEMMA ServerStep == ASSUME TypeOK, ServerInv, [Next]_vars PROVE ServerInv'
<1>1. CASE create_app_context
  BY <1>1 DEF create_app_context, ServerInv, OneServer, ServesTheSettings, Quiet, Alive, At
<1>2. CASE ProcessEnds
  BY <1>2 DEF ProcessEnds, ServerInv, OneServer, ServesTheSettings, Quiet, Alive, At, Dead
<1>3. CASE stop_api \/ shutdown
  <2>1. gui'.step = "join" /\ UNCHANGED host
    BY <1>3 DEF stop_api, shutdown, Idle
  <2>2. CASE host.thread = None
    <3>1. Quiet /\ UNCHANGED servers
      BY <1>3, <2>2, NotRunning DEF stop_api, shutdown, is_running, ServerInv
    <3>2. QED
      BY <2>1, <3>1 DEF ServerInv, OneServer, ServesTheSettings, Quiet, Alive, At
  <2>3. CASE host.thread # None
    BY <1>3, <2>1, <2>3, ServerStops DEF TypeOK, Hosts, stop_api, shutdown
  <2>4. QED
    BY <2>2, <2>3
<1>4. CASE save_api_config
  <2>1. CASE should_stop
    <3>1. host.thread \in Threads
      BY <2>1 DEF TypeOK, Hosts, should_stop, is_running
    <3>2. gui'.step = "join"
      BY <1>4, <2>1 DEF TypeOK, Guis, save_api_config
    <3>3. QED
      BY <1>4, <2>1, <3>1, <3>2, ServerStops DEF save_api_config
  <2>2. CASE ~ should_stop
    <3>1. gui'.step \in {"start", "idle"} /\ UNCHANGED servers
          /\ host' = [host EXCEPT !.cfg = gui.command]
      BY <1>4, <2>2 DEF TypeOK, Guis, save_api_config, SavedTo
    <3>2. host'.thread = host.thread /\ host'.cfg = gui.command
      BY <3>1 DEF TypeOK, Hosts
    <3>3. CASE is_running
      BY <2>2, <3>1, <3>2, <3>3
         DEF should_stop, ServerInv, OneServer, ServesTheSettings, Quiet, Alive, At
    <3>4. CASE ~ is_running
      <4>1. Quiet
        BY <3>4, NotRunning DEF ServerInv
      <4>2. QED
        BY <3>1, <4>1 DEF ServerInv, OneServer, ServesTheSettings, Quiet, Alive, At
    <3>5. QED
      BY <3>3, <3>4
  <2>3. QED
    BY <2>1, <2>2
<1>5. CASE Joined
  <2>1. gui'.step \in {"start", "idle", "jobs"} /\ UNCHANGED servers
    <3>1. CASE gui.op \in {"save", "start"}
      <4>1. SavedTo(gui.command, is_running) /\ UNCHANGED servers
        BY <1>5, <3>1 DEF Joined
      <4>2. QED
        BY <4>1 DEF TypeOK, Guis, SavedTo
    <3>2. CASE gui.op = "stop"
      BY <1>5, <3>2 DEF Joined, Idle
    <3>3. CASE gui.op \notin {"save", "start", "stop"}
      BY <1>5, <3>3 DEF TypeOK, Guis, Joined
    <3>4. QED
      BY <3>1, <3>2, <3>3
  <2>2. host'.thread = LeftBy(host.thread)
    BY <1>5 DEF TypeOK, Hosts, Joined
  <2>3. \A t \in Threads : Alive(t) => LeftBy(host.thread) = t
    BY ThreadsAssumption DEF ServerInv, OneServer, LeftBy, None
  <2>4. \A t \in Threads : Alive(t) => servers[t].should_exit
    BY <1>5 DEF ServerInv, Joined
  <2>5. QED
    BY <2>1, <2>2, <2>3, <2>4 DEF ServerInv, OneServer, ServesTheSettings, Quiet, Alive, At
<1>6. CASE StartRefused
  <2>1. /\ UNCHANGED servers /\ gui'.step = "idle"
        /\ host'.thread = host.thread /\ host'.cfg = host.cfg
    BY <1>6 DEF TypeOK, Hosts, StartRefused, Idle
  <2>2. QED
    BY <2>1 DEF ServerInv, OneServer, ServesTheSettings, Quiet, Alive, At
<1>7. ASSUME NEW t \in Threads, Start(t) PROVE ServerInv'
  <2>1. gui'.step = "started"
    BY <1>7 DEF TypeOK, Guis, Start
  <2>2. CASE is_running
    BY <1>7, <2>1, <2>2, ServersAlone DEF Start
  <2>3. CASE ~ is_running
    <3>1. Quiet
      BY <2>3, NotRunning DEF ServerInv
    <3>2. host'.thread = t /\ host'.cfg = host.cfg /\ host.cfg.enabled
      BY <1>7, <2>3 DEF TypeOK, Hosts, Start
    <3>3. /\ servers'[t].port = host.cfg.port
          /\ \A u \in Threads \ {t} : servers'[u] = servers[u]
      BY <1>7, <2>3 DEF TypeOK, Start
    <3>4. QED
      BY <2>1, <3>1, <3>2, <3>3
         DEF ServerInv, OneServer, ServesTheSettings, Quiet, Alive, At
  <2>4. QED
    BY <2>2, <2>3
<1>8. ASSUME NEW t \in Threads, NEW alert \in BOOLEAN, ThreadEnds(t, alert)
      PROVE  ServerInv'
  <2>1. /\ host'.cfg = host.cfg
        /\ host'.thread = IF host.thread = t THEN None ELSE host.thread
    BY <1>8 DEF TypeOK, Hosts, ThreadEnds
  <2>2. /\ servers'[t].state = "dead"
        /\ \A u \in Threads \ {t} : servers'[u] = servers[u]
        /\ UNCHANGED gui
    BY <1>8 DEF TypeOK, ThreadEnds, Dead
  <2>3. QED
    BY <2>1, <2>2 DEF ServerInv, OneServer, ServesTheSettings, Quiet, Alive, At
<1>9. ASSUME NEW t \in Threads, Bind(t) PROVE ServerInv'
  <2>1. /\ servers[t].state = "starting" /\ UNCHANGED <<host, gui>>
        /\ servers' = [servers EXCEPT ![t].state = "serving"]
    BY <1>9 DEF Bind
  <2>2. OneServer'
    BY <2>1 DEF TypeOK, ServerInv, OneServer, Alive
  <2>3. ServesTheSettings'
    BY <2>1 DEF TypeOK, Servers, ServerInv, ServesTheSettings, Alive
  <2>4. At("off")' => Quiet'
    BY <2>1 DEF TypeOK, ServerInv, Quiet, Alive, At
  <2>5. (At("join") => \A u \in Threads : Alive(u) => servers[u].should_exit)'
    BY <2>1 DEF TypeOK, Servers, ServerInv, Alive, At
  <2>6. QED
    BY <2>2, <2>3, <2>4, <2>5 DEF ServerInv
<1>10. CASE \/ Toggle \/ OpenPage
            \/ \E port \in Ports : \/ save_config(port) \/ start_api(port)
                                  \/ OtherProgram(port)
            \/ every \/ _invoke \/ _run_job \/ submit \/ cancel
  BY <1>10, ServersAlone
     DEF Toggle, OpenPage, save_config, start_api, OtherProgram, every, _invoke, _run_job,
         submit, cancel
<1>11. CASE write_default_config \/ WriteFails \/ StartShown \/ CancelJobs
  <2>1. gui'.step \in {"fill", "idle", "pool"} /\ UNCHANGED <<host, servers>>
    <3>1. CASE write_default_config \/ CancelJobs
      BY <1>11, <3>1 DEF TypeOK, Guis, write_default_config, CancelJobs
    <3>2. CASE WriteFails \/ StartShown
      <4>1. gui' = Idle /\ UNCHANGED <<host, servers>>
        BY <3>2 DEF WriteFails, StartShown
      <4>2. QED
        BY <4>1 DEF Idle
    <3>3. QED
      BY <1>11, <3>1, <3>2
  <2>2. QED
    BY <2>1, ServersAlone
<1>12. CASE UNCHANGED vars
  BY <1>12, ServersAlone DEF vars
<1>13. QED
  BY <1>1, <1>2, <1>3, <1>4, <1>5, <1>6, <1>7, <1>8, <1>9, <1>10, <1>11, <1>12
     DEF Next, Page, Gui, Server, PoolDone, Crash, BindFails, ServerLeaves, ServerFails

LEMMA ServersCorrect == Spec => []ServerInv
BY TypeInit, ServerInit, TypeCorrect, ServerStep, PTL DEF Spec

\* There is one server at a time, whatever a stop that gave up has left behind.
THEOREM OneServerAlways == Spec => []OneServer
BY ServersCorrect, PTL DEF ServerInv

\* No server runs on under settings that are no longer the host's.
THEOREM SettingsServed == Spec => []ServesTheSettings
BY ServersCorrect, PTL DEF ServerInv
-----------------------------------------------------------------------------
\* The settings.  Outside a save the three copies agree; within one the file
\* and the program are ahead of the host, which waits for its server.
Agreed == config = host.cfg /\ file \in {Saved(config), Torn}

SettingsInv ==
    /\ file \in {Missing, Torn} \union {Saved(cfg) : cfg \in ApiConfig}
    /\ gui.step \in {"idle", "write", "fill", "start", "started"} => Agreed
    /\ gui.step \in {"write", "fill"} => gui.op \in {"save", "start"}
    /\ At("join") => IF gui.op \in {"save", "start"}
                     THEN config = gui.command /\ file = Saved(config)
                     ELSE Agreed

\* What leaves the settings alone and goes from one place where they agree to
\* another leaves the invariant alone.
LEMMA SettingsAlone ==
    ASSUME TypeOK, SettingsInv, UNCHANGED <<file, config>>, host'.cfg = host.cfg,
           \/ gui'.step \in {"off", "jobs", "pool"}
           \/ UNCHANGED gui
           \/ Agreed /\ gui'.step = "join" /\ gui'.op \notin {"save", "start"}
           \/ Agreed /\ gui'.step \in {"idle", "start", "started"}
           \/ Agreed /\ gui'.step = "write" /\ gui'.op \in {"save", "start"}
    PROVE  SettingsInv'
BY DEF SettingsInv, Agreed, At, Saved, Missing, Torn

LEMMA SettingsStep == ASSUME TypeOK, ServerInv, SettingsInv, [Next]_vars PROVE SettingsInv'
<1>1. CASE create_app_context
  <2>1. /\ host'.cfg = load_config /\ config' = load_config /\ gui'.step = "idle"
        /\ file' = IF file = Missing THEN Saved(default_config) ELSE file
    BY <1>1 DEF create_app_context
  <2>2. CASE file = Missing
    BY <2>1, <2>2, PortsAssumption
       DEF SettingsInv, Agreed, At, load_config, Missing, Saved, default_config, ApiConfig
  <2>3. CASE file = Torn
    BY <2>1, <2>3 DEF SettingsInv, Agreed, At, load_config, Missing, Torn
  <2>4. ASSUME NEW cfg \in ApiConfig, file = Saved(cfg) PROVE SettingsInv'
    <3>1. file # Missing /\ load_config = cfg
      BY <2>4 DEF Missing, Saved, load_config
    <3>2. QED
      BY <2>1, <2>4, <3>1 DEF SettingsInv, Agreed, At
  <2>5. QED
    BY <2>2, <2>3, <2>4 DEF SettingsInv
<1>2. CASE ProcessEnds
  BY <1>2, SettingsAlone DEF ProcessEnds
<1>3. CASE \/ Toggle \/ OpenPage \/ \E port \in Ports : OtherProgram(port)
           \/ every \/ _invoke \/ _run_job \/ submit \/ cancel
  <2>1. UNCHANGED <<file, config, host, gui>>
    BY <1>3 DEF Toggle, OpenPage, OtherProgram, every, _invoke, _run_job, submit, cancel
  <2>2. QED
    BY <2>1, SettingsAlone
<1>15. ASSUME NEW port \in Ports, save_config(port) \/ start_api(port) PROVE SettingsInv'
  <2>1. Agreed /\ UNCHANGED <<file, config, host>>
    BY <1>15 DEF SettingsInv, At, save_config, start_api
  <2>2. gui'.step = "write" /\ gui'.op \in {"save", "start"}
    BY <1>15 DEF save_config, start_api
  <2>3. QED
    BY <2>1, <2>2, SettingsAlone
<1>4. CASE stop_api \/ shutdown
  <2>1. /\ Agreed /\ UNCHANGED <<file, config, host>>
        /\ gui'.step = "join" /\ gui'.op \in {"stop", "quit"}
    BY <1>4 DEF SettingsInv, At, stop_api, shutdown, Idle
  <2>2. QED
    BY <2>1, SettingsAlone
<1>5. CASE write_default_config
  <2>1. /\ Agreed /\ file' = Torn /\ UNCHANGED <<config, host>>
        /\ gui'.step = "fill" /\ gui'.op \in {"save", "start"}
    BY <1>5 DEF TypeOK, Guis, SettingsInv, At, write_default_config
  <2>2. QED
    BY <2>1 DEF SettingsInv, Agreed, At
<1>6. CASE WriteFails \/ StartShown
  <2>1. Agreed /\ UNCHANGED <<file, config, host>> /\ gui' = Idle
    BY <1>6 DEF SettingsInv, At, WriteFails, StartShown
  <2>2. QED
    BY <2>1, SettingsAlone DEF Idle
<1>7. CASE save_api_config
  <2>1. file' = Saved(gui.command) /\ config' = gui.command /\ gui.command \in ApiConfig
    BY <1>7 DEF TypeOK, Guis, save_api_config
  <2>2. CASE should_stop
    <3>1. gui'.step = "join" /\ gui'.command = gui.command /\ gui'.op = gui.op
      BY <1>7, <2>2 DEF TypeOK, Guis, save_api_config
    <3>2. gui.op \in {"save", "start"}
      BY <1>7 DEF SettingsInv, At, save_api_config
    <3>3. QED
      BY <2>1, <3>1, <3>2 DEF SettingsInv, At
  <2>3. CASE ~ should_stop
    <3>1. host'.cfg = gui.command
      BY <1>7, <2>3 DEF TypeOK, Hosts, save_api_config
    <3>2. gui'.step \in {"idle", "start"}
      BY <1>7, <2>3 DEF TypeOK, Guis, save_api_config, SavedTo
    <3>3. QED
      BY <2>1, <3>1, <3>2 DEF SettingsInv, Agreed, At
  <2>4. QED
    BY <2>2, <2>3
<1>8. CASE Joined
  <2>1. UNCHANGED <<file, config>>
    BY <1>8 DEF Joined
  <2>2. CASE gui.op \in {"save", "start"}
    <3>1. host'.cfg = gui.command /\ SavedTo(gui.command, is_running)
      BY <1>8, <2>2 DEF TypeOK, Hosts, Joined
    <3>2. gui'.step \in {"idle", "start"}
      BY <3>1 DEF TypeOK, Guis, SavedTo
    <3>3. config = gui.command /\ file = Saved(config)
      BY <1>8, <2>2 DEF SettingsInv, At, Joined
    <3>4. QED
      BY <2>1, <3>1, <3>2, <3>3 DEF SettingsInv, Agreed, At
  <2>3. CASE gui.op \notin {"save", "start"}
    <3>1. Agreed
      BY <1>8, <2>3 DEF SettingsInv, At, Joined
    <3>2. host'.cfg = host.cfg
      BY <1>8, <2>3 DEF TypeOK, Hosts, Joined
    <3>3. gui'.step \in {"idle", "jobs"}
      <4>1. CASE gui.op = "stop"
        BY <1>8, <4>1 DEF Joined, Idle
      <4>2. CASE gui.op # "stop"
        BY <1>8, <2>3, <4>2 DEF TypeOK, Guis, Joined
      <4>3. QED
        BY <4>1, <4>2
    <3>4. QED
      BY <2>1, <3>1, <3>2, <3>3, SettingsAlone
  <2>4. QED
    BY <2>2, <2>3
<1>9. CASE StartRefused
  <2>1. /\ Agreed /\ UNCHANGED <<file, config>> /\ gui' = Idle
        /\ host'.cfg = host.cfg
    BY <1>9 DEF TypeOK, Hosts, SettingsInv, At, StartRefused
  <2>2. QED
    BY <2>1, SettingsAlone DEF Idle
<1>10. ASSUME NEW t \in Threads, Start(t) PROVE SettingsInv'
  <2>1. Agreed /\ UNCHANGED <<file, config>> /\ gui'.step = "started"
    BY <1>10 DEF TypeOK, Guis, SettingsInv, At, Start
  <2>2. host'.cfg = host.cfg
    BY <1>10 DEF TypeOK, Hosts, Start
  <2>3. QED
    BY <2>1, <2>2, SettingsAlone
<1>11. ASSUME NEW t \in Threads, NEW alert \in BOOLEAN, ThreadEnds(t, alert)
       PROVE  SettingsInv'
  <2>1. UNCHANGED <<file, config, gui>> /\ host'.cfg = host.cfg
    BY <1>11 DEF TypeOK, Hosts, ThreadEnds
  <2>2. QED
    BY <2>1, SettingsAlone
<1>12. ASSUME NEW t \in Threads, Bind(t) PROVE SettingsInv'
  BY <1>12, SettingsAlone DEF Bind
<1>13. CASE CancelJobs
  <2>1. UNCHANGED <<file, config, host>> /\ gui'.step = "pool"
    BY <1>13 DEF TypeOK, Guis, CancelJobs
  <2>2. QED
    BY <2>1, SettingsAlone
<1>14. CASE UNCHANGED vars
  BY <1>14, SettingsAlone DEF vars
<1>16. QED
  BY <1>1, <1>2, <1>3, <1>4, <1>5, <1>6, <1>7, <1>8, <1>9, <1>10, <1>11, <1>12, <1>13, <1>14,
     <1>15
     DEF Next, Page, Gui, Server, PoolDone, Crash, BindFails, ServerLeaves, ServerFails

LEMMA SettingsInit == ASSUME Init PROVE SettingsInv
BY DEF Init, SettingsInv, At

LEMMA SettingsCorrect == Spec => []SettingsInv
BY SettingsInit, SettingsStep, TypeCorrect, ServersCorrect, PTL DEF Spec

\* At rest the file, the program and the host have the same settings, unless a
\* write that failed or was cut short has left the file torn.
THEOREM SettingsAgreeAlways == Spec => []SettingsAgree
<1>1. SettingsInv => SettingsAgree
  BY DEF SettingsInv, SettingsAgree, Agreed, At
<1>2. QED
  BY <1>1, SettingsCorrect, PTL
-----------------------------------------------------------------------------
\* The page.  While it can be used, and until a start it asked for has begun,
\* 已停止, a 启动 button that can be pressed and a start under way all mean
\* that there is no server.
PageInv ==
    /\ gui.step \in {"idle", "write", "fill", "join", "start"}
    /\ page.shown = "stopped" \/ page.can_start \/ gui.op = "start" \/ At("start")
    => Quiet

LEMMA PageInit == ASSUME Init PROVE PageInv
BY DEF Init, PageInv

\* A refresh that finds no server may say anything; one that finds a server
\* says neither stopped nor offers to start another.
LEMMA RefreshKnows ==
    ASSUME NEW p \in Pages, NEW alert \in BOOLEAN, NEW checked \in BOOLEAN
    PROVE  /\ LET q == refresh_status(p, alert, TRUE)
              IN  q.shown # "stopped" /\ ~ q.can_start
           /\ LET q == reload(checked, alert, TRUE)
              IN  q.shown # "stopped" /\ ~ q.can_start
           /\ LET q == _sync_action_buttons(p, TRUE)
              IN  q.shown = p.shown /\ ~ q.can_start
BY DEF Pages, reload, refresh_status, update_status, _sync_action_buttons, Shown

\* A step that leaves the servers no more alive, and what the page shows and
\* the operation under way as they were, leaves the invariant alone.
LEMMA PageAlone ==
    ASSUME TypeOK, PageInv, gui.step \in {"idle", "write", "fill", "join", "start"},
           page'.shown = page.shown, page'.can_start => page.can_start,
           gui'.op = "start" => gui.op = "start" \/ page.can_start,
           gui'.step = "start" => At("start") \/ gui.op = "start",
           \A t \in Threads : servers[t].state = "dead" => servers'[t].state = "dead"
    PROVE  PageInv'
BY DEF PageInv, Quiet, Alive, At

\* Without a server before and after the step there is nothing to show.
LEMMA PageQuiet == ASSUME Quiet, UNCHANGED servers PROVE PageInv'
BY DEF PageInv, Quiet, Alive

\* With one, a page that says so will do.
LEMMA PageKnows ==
    ASSUME page'.shown # "stopped", ~ page'.can_start, gui' = Idle PROVE PageInv'
BY DEF PageInv, Idle, At, None

\* The end of a save refreshes the buttons and nothing else.
LEMMA PageSaved ==
    ASSUME TypeOK, ServerInv, PageInv, gui.step \in {"fill", "join"}, NEW cfg \in ApiConfig,
           SavedTo(cfg, is_running), UNCHANGED servers
    PROVE  PageInv'
<1>1. CASE is_running
  <2>1. page'.shown = page.shown /\ ~ page'.can_start
    <3>1. [page EXCEPT !.checked = cfg.enabled] \in Pages
      BY DEF TypeOK, Pages, ApiConfig
    <3>2. [page EXCEPT !.checked = cfg.enabled].shown = page.shown
      BY DEF TypeOK, Pages
    <3>3. QED
      BY <1>1, <3>1, <3>2, RefreshKnows DEF SavedTo
  <2>2. /\ gui'.op = "start" => gui.op = "start"
        /\ gui'.step = "start" => gui.op = "start"
    BY DEF TypeOK, Guis, SavedTo, None
  <2>3. QED
    BY <2>1, <2>2, PageAlone
<1>2. CASE ~ is_running
  BY <1>2, NotRunning, PageQuiet DEF ServerInv
<1>3. QED
  BY <1>1, <1>2

LEMMA PageStep == ASSUME TypeOK, ServerInv, PageInv, [Next]_vars PROVE PageInv'
<1>p. page \in Pages /\ host.alert \in BOOLEAN /\ config.enabled \in BOOLEAN
  BY DEF TypeOK, Hosts, ApiConfig
<1>1. CASE create_app_context
  BY <1>1, PageQuiet DEF create_app_context, ServerInv
<1>2. CASE ProcessEnds
  BY <1>2 DEF ProcessEnds, PageInv, At
<1>3. CASE Toggle
  BY <1>3, <1>p, PageAlone DEF Toggle, Pages, At
<1>4. CASE OpenPage
  <2>1. CASE is_running
    <3>1. page'.shown # "stopped" /\ ~ page'.can_start /\ At("idle") /\ UNCHANGED <<gui, servers>>
      BY <1>4, <1>p, <2>1, RefreshKnows DEF OpenPage
    <3>2. QED
      BY <3>1 DEF PageInv, Quiet, Alive, At
  <2>2. CASE ~ is_running
    BY <1>4, <2>2, NotRunning, PageQuiet DEF OpenPage, ServerInv
  <2>3. QED
    BY <2>1, <2>2
<1>5. ASSUME NEW port \in Ports, save_config(port) \/ start_api(port) PROVE PageInv'
  BY <1>5, PageAlone DEF save_config, start_api, At
<1>6. CASE stop_api \/ shutdown
  <2>1. /\ At("idle") /\ gui'.step = "join" /\ gui'.op # "start"
        /\ page'.shown = page.shown /\ page'.can_start = page.can_start
    BY <1>6, <1>p DEF stop_api, shutdown, Idle, Pages
  <2>2. \A t \in Threads : servers[t].state = "dead" => servers'[t].state = "dead"
    BY <1>6 DEF TypeOK, Servers, stop_api, shutdown
  <2>3. QED
    BY <2>1, <2>2, PageAlone DEF At
<1>7. CASE write_default_config
  <2>1. /\ gui'.step = "fill" /\ gui'.op = gui.op /\ gui.step = "write"
        /\ UNCHANGED <<page, servers>>
    BY <1>7 DEF TypeOK, Guis, write_default_config, At
  <2>2. QED
    BY <2>1, PageAlone
<1>8. CASE WriteFails
  <2>1. CASE gui.op = "start"
    BY <1>8, <2>1, PageQuiet DEF WriteFails, PageInv, At
  <2>2. CASE gui.op # "start"
    BY <1>8, <2>2, PageAlone DEF WriteFails, Idle, At, None
  <2>3. QED
    BY <2>1, <2>2
<1>9. CASE save_api_config
  <2>1. gui.step = "fill" /\ gui.command \in ApiConfig
    BY <1>9 DEF TypeOK, Guis, save_api_config, At
  <2>2. CASE should_stop
    <3>1. gui'.step = "join" /\ gui'.op = gui.op /\ UNCHANGED page
      BY <1>9, <2>2 DEF TypeOK, Guis, save_api_config
    <3>2. \A t \in Threads : servers[t].state = "dead" => servers'[t].state = "dead"
      BY <1>9, <2>2 DEF TypeOK, Servers, save_api_config
    <3>3. QED
      BY <2>1, <3>1, <3>2, PageAlone
  <2>3. CASE ~ should_stop
    BY <1>9, <2>1, <2>3, PageSaved DEF save_api_config
  <2>4. QED
    BY <2>2, <2>3
<1>10. CASE Joined
  <2>1. gui.step = "join" /\ gui.command \in ApiConfig /\ UNCHANGED servers
    BY <1>10 DEF TypeOK, Guis, Joined, At
  <2>2. CASE gui.op \in {"save", "start"}
    BY <1>10, <2>1, <2>2, PageSaved DEF Joined
  <2>3. CASE gui.op = "stop" /\ is_running
    BY <1>10, <1>p, <2>3, RefreshKnows, PageKnows DEF Joined
  <2>4. CASE gui.op = "stop" /\ ~ is_running
    BY <2>1, <2>4, NotRunning, PageQuiet DEF ServerInv
  <2>5. CASE gui.op \notin {"save", "start", "stop"}
    <3>1. gui'.step = "jobs"
      BY <1>10, <2>5 DEF TypeOK, Guis, Joined
    <3>2. QED
      BY <3>1 DEF PageInv, At
  <2>6. QED
    BY <2>2, <2>3, <2>4, <2>5
<1>11. CASE StartRefused
  BY <1>11, NotRunning, PageQuiet DEF StartRefused, ServerInv
<1>12. ASSUME NEW t \in Threads, Start(t) PROVE PageInv'
  <2>1. gui'.step = "started"
    BY <1>12 DEF TypeOK, Guis, Start
  <2>2. QED
    BY <2>1 DEF PageInv, At
<1>13. CASE StartShown
  <2>1. CASE is_running
    BY <1>13, <1>p, <2>1, RefreshKnows, PageKnows DEF StartShown
  <2>2. CASE ~ is_running
    BY <1>13, <2>2, NotRunning, PageQuiet DEF StartShown, ServerInv
  <2>3. QED
    BY <2>1, <2>2
<1>14. CASE CancelJobs
  <2>1. gui'.step = "pool"
    BY <1>14 DEF TypeOK, Guis, CancelJobs
  <2>2. QED
    BY <2>1 DEF PageInv, At
<1>15. ASSUME NEW t \in Threads, NEW alert \in BOOLEAN, ThreadEnds(t, alert)
       PROVE  PageInv'
  <2>1. UNCHANGED <<gui, page>>
    BY <1>15 DEF ThreadEnds
  <2>2. \A u \in Threads : servers[u].state = "dead" => servers'[u].state = "dead"
    BY <1>15 DEF TypeOK, ThreadEnds, Dead
  <2>3. QED
    BY <2>1, <2>2 DEF PageInv, Quiet, Alive, At
<1>16. ASSUME NEW t \in Threads, Bind(t) PROVE PageInv'
  <2>1. ~ Quiet
    BY <1>16 DEF Bind, Quiet, Alive
  <2>2. UNCHANGED <<gui, page>>
    BY <1>16 DEF Bind
  <2>3. QED
    BY <2>1, <2>2 DEF PageInv, At
<1>17. CASE \/ every \/ _invoke \/ _run_job \/ submit \/ cancel
            \/ \E port \in Ports : OtherProgram(port)
  <2>1. UNCHANGED <<servers, gui, page>>
    BY <1>17 DEF every, _invoke, _run_job, submit, cancel, OtherProgram
  <2>2. QED
    BY <2>1 DEF PageInv, Quiet, Alive, At
<1>18. CASE UNCHANGED vars
  BY <1>18 DEF vars, PageInv, Quiet, Alive, At
<1>19. QED
  BY <1>1, <1>2, <1>3, <1>4, <1>5, <1>6, <1>7, <1>8, <1>9, <1>10, <1>11, <1>12, <1>13, <1>14,
     <1>15, <1>16, <1>17, <1>18
     DEF Next, Page, Gui, Server, PoolDone, Crash, BindFails, ServerLeaves, ServerFails

LEMMA PageCorrect == Spec => []PageInv
BY PageInit, PageStep, TypeCorrect, ServersCorrect, PTL DEF Spec

\* A page at rest that says 已停止 is right.
THEOREM StoppedIsStoppedAlways == Spec => []StoppedIsStopped
<1>1. PageInv => StoppedIsStopped
  BY DEF PageInv, StoppedIsStopped, Quiet, At
<1>2. QED
  BY <1>1, PageCorrect, PTL

\* start() is never reached beside an old server.
THEOREM StartsFreshAlways == Spec => []StartsFresh
<1>1. PageInv => StartsFresh
  BY DEF PageInv, StartsFresh, Quiet, At
<1>2. QED
  BY <1>1, PageCorrect, PTL

\* The threads alive are accounted for: the parts together.
THEOREM ServersAccountedForAlways == Spec => []ServersAccountedFor
  BY TypeCorrect, OneServerAlways, SettingsServed, StoppedIsStoppedAlways, StartsFreshAlways, PTL DEF ServersAccountedFor
=============================================================================

---------------------------- MODULE Acquisition ----------------------------
(***************************************************************************)
(* The acquisition service and its port workers as threads                 *)
(* (device/polling/acquisition_service.py, core/workers.py and the outer   *)
(* loop of device/polling/port_worker.py), with a restore thread that      *)
(* competes for the maintenance locks (services/backup_service.py).        *)
(*                                                                         *)
(* One service call at a time holds AcquisitionService._lock; svc is the   *)
(* progress of that call.  Workers run in the pool's threads and take the  *)
(* lock only in their failure callback.                                    *)
(***************************************************************************)
EXTENDS Naturals, RuntimeLocks

CONSTANTS Ports,        \* ids of the enabled ports
          MaxWorkers,   \* bound: workers ever submitted
          Setups        \* how installations differ: pool is max_workers of WorkerPool,
                        \* slow: a poll cycle may outlast stop_timeout_sec,
                        \* fails: a worker's run() may raise

WorkerIds == 1..MaxWorkers

ASSUME AcquisitionAssumption ==
    /\ Setups \subseteq [pool : Nat \ {0}, slow : BOOLEAN, fails : BOOLEAN]
    /\ MaxWorkers \in Nat
    /\ Ports # {}

VARIABLES setup,        \* the installation: never changes
          status,       \* _status.status; RECONNECTING is derived by get_status
          lockAcquired, \* _lock_acquired
          handles,      \* ids of the workers in _handles
          svc,          \* the call that holds _lock
          workers,      \* the submitted workers, in order of submission
          restore       \* restore_from_backup, from its lock to its release

serviceVars == <<status, lockAcquired, handles, svc>>
vars == <<setup, active, serviceVars, workers, restore>>

Idle == [phase |-> "idle", todo |-> {}, fresh |-> 0, waiting |-> {}, next |-> "NONE",
         by |-> "user"]

NoWorker(w)  == workers[w].phase = "none"
InDatabase(w) == workers[w].phase = "writing"
Alive(w)     == workers[w].phase \in {"opening", "checking", "polling", "writing"}
Finished(w)  == workers[w].phase \in {"done", "failed"}

\* A pool thread is busy until the done-callback of its task has returned.
Occupies(w) == Alive(w) \/ workers[w].cb = "due"

Init == /\ setup \in Setups
        /\ active = {}
        /\ status = "NOT_STARTED" /\ lockAcquired = FALSE /\ handles = {} /\ svc = Idle
        /\ workers = [w \in WorkerIds |->
                        [phase |-> "none", port |-> "none", cancelled |-> FALSE,
                         cb |-> "none", late |-> 0]]
        /\ restore = "idle"
-----------------------------------------------------------------------------
(* The service.                                                            *)

\* Mutant: start() does not notice that it runs already.
BugIsRunning == FALSE
IsRunning == status = "RUNNING" /\ handles # {}

\* _cancel_workers_locked: drop the handles, set every token, cancel the
\* futures that no thread has taken yet; the results are awaited afterwards.
Cancelled(w) == [workers[w] EXCEPT !.cancelled = TRUE,
                                   !.phase = IF @ = "queued" THEN "done" ELSE @]

CancelWorkers(next, by) ==
    /\ workers' = [w \in WorkerIds |-> IF w \in handles THEN Cancelled(w) ELSE workers[w]]
    /\ svc' = [Idle EXCEPT !.phase = "waiting", !.waiting = handles, !.next = next,
                           !.by = by]
    /\ handles' = {}

\* start() when a maintenance job is running.
StartRefused ==
    /\ svc = Idle /\ ~ IsRunning /\ HasConflict("acquisition")
    /\ status' = "ERROR"
    /\ UNCHANGED <<setup, active, lockAcquired, handles, svc, workers, restore>>

StartAcquires ==
    /\ svc = Idle /\ ~ IsRunning
    /\ Acquire("acquisition")
    /\ lockAcquired' = TRUE
    /\ svc' = [Idle EXCEPT !.phase = "loading"]
    /\ UNCHANGED <<setup, status, handles, workers, restore>>

\* _load_polling_configs finds no enabled port with a target.
StartWithoutPorts ==
    /\ svc.phase = "loading"
    /\ Release("acquisition") /\ lockAcquired' = FALSE
    /\ status' = "STOPPED" /\ svc' = Idle
    /\ UNCHANGED <<setup, handles, workers, restore>>

StartLoads(ports) ==
    /\ svc.phase = "loading" /\ ports # {}
    /\ handles' = {}
    /\ svc' = [svc EXCEPT !.phase = "submitting", !.todo = ports]
    /\ UNCHANGED <<setup, active, status, lockAcquired, workers, restore>>

\* executor.submit: the task may run before its done-callback is attached.
Submit(port) ==
    /\ svc.phase = "submitting" /\ svc.fresh = 0 /\ port \in svc.todo
    /\ \E w \in WorkerIds :
          /\ NoWorker(w) /\ \A v \in WorkerIds : NoWorker(v) => w <= v
          /\ workers' = [workers EXCEPT ![w].phase = "queued", ![w].port = port]
          /\ svc' = [svc EXCEPT !.todo = @ \ {port}, !.fresh = w]
    /\ UNCHANGED <<setup, active, status, lockAcquired, handles, restore>>

\* add_done_callback calls the callback here if the task has already failed;
\* _worker_failed then finds a status other than RUNNING and drops the error.
Attach ==
    /\ svc.phase = "submitting" /\ svc.fresh # 0
    /\ workers' = [workers EXCEPT ![svc.fresh].cb =
                      IF Finished(svc.fresh) THEN "called" ELSE "attached"]
    /\ handles' = handles \union {svc.fresh}
    /\ svc' = [svc EXCEPT !.fresh = 0]
    /\ UNCHANGED <<setup, active, status, lockAcquired, restore>>

StartSucceeds ==
    /\ svc.phase = "submitting" /\ svc.fresh = 0 /\ svc.todo = {}
    /\ status' = "RUNNING" /\ svc' = Idle
    /\ UNCHANGED <<setup, active, lockAcquired, handles, workers, restore>>

\* An exception while the configuration is read or a worker is built.
StartFails ==
    /\ svc.phase \in {"loading", "submitting"} /\ svc.fresh = 0
    /\ CancelWorkers("ERROR", "user")
    /\ UNCHANGED <<setup, active, status, lockAcquired, restore>>

\* stop(): a status other than RUNNING is answered at once.
Stop(by) ==
    /\ svc = Idle
    /\ IF IsRunning
       THEN CancelWorkers("STOPPED", by) /\ UNCHANGED status
       ELSE status' = "STOPPED" /\ UNCHANGED <<handles, svc, workers>>
    /\ UNCHANGED <<setup, active, lockAcquired>>

UserStops == Stop("user") /\ UNCHANGED restore

\* future.result(timeout=stop_timeout_sec) returns, or raises TimeoutError.
\* Mutant: the result is not waited for.
BugResultArrives(w) == svc.phase = "waiting" /\ w \in svc.waiting
ResultArrives(w) == svc.phase = "waiting" /\ w \in svc.waiting /\ Finished(w)

AwaitWorker(w) ==
    /\ \/ ResultArrives(w)
       \/ setup.slow /\ svc.phase = "waiting" /\ w \in svc.waiting
    /\ svc' = [svc EXCEPT !.waiting = @ \ {w}]
    /\ UNCHANGED <<setup, active, status, lockAcquired, handles, workers, restore>>

CallEnds ==
    /\ svc.phase = "waiting" /\ svc.waiting = {}
    /\ IF lockAcquired THEN Release("acquisition") ELSE UNCHANGED active
    /\ lockAcquired' = FALSE
    /\ status' = svc.next /\ svc' = Idle
    /\ restore' = IF svc.by = "restore" THEN "replacing" ELSE restore
    /\ UNCHANGED <<setup, handles, workers>>

\* _worker_failed, called by the pool thread of w.
\* Mutant: it expects the display status, which _status never holds.
BugReported == IF status = "RECONNECTING" THEN "ERROR" ELSE status
Reported == IF status = "RUNNING" THEN "ERROR" ELSE status

FailureCallback(w) ==
    /\ svc = Idle /\ workers[w].cb = "due"
    /\ status' = Reported
    /\ workers' = [workers EXCEPT ![w].cb = "called"]
    /\ UNCHANGED <<setup, active, lockAcquired, handles, svc, restore>>
-----------------------------------------------------------------------------
(* The workers.                                                            *)

WorkerStep(w, from, to) ==
    /\ workers[w].phase = from
    /\ workers' = [workers EXCEPT ![w].phase = to]
    /\ UNCHANGED <<setup, active, serviceVars, restore>>

\* The executor's queue is FIFO; _run_task raises at once if cancelled.
RunTask(w) ==
    /\ Cardinality({v \in WorkerIds : Occupies(v)}) < setup.pool
    /\ \A v \in WorkerIds : workers[v].phase = "queued" => w <= v
    /\ WorkerStep(w, "queued", "opening")

OpenPort(w) == WorkerStep(w, "opening", "checking")

\* while not token.is_cancelled.  Mutant: while True.
BugTokenCancelled(w) == FALSE
TokenCancelled(w) == workers[w].cancelled

LeaveLoop(w)  == TokenCancelled(w) /\ WorkerStep(w, "checking", "done")
EnterCycle(w) == ~ TokenCancelled(w) /\ WorkerStep(w, "checking", "polling")

\* All requests of the cycle are answered or have failed; no reading results.
PollNothing(w) == WorkerStep(w, "polling", "checking")

\* _persist_and_publish and ingest_readings: the cycle's database work.
StartWriting(w) ==
    /\ workers[w].phase = "polling"
    /\ workers' = [workers EXCEPT ![w].phase = "writing",
                                  ![w].late = IF workers[w].cancelled THEN @ + 1 ELSE @]
    /\ UNCHANGED <<setup, active, serviceVars, restore>>

FinishWriting(w) == WorkerStep(w, "writing", "checking")

\* open() or a database error ends run(); _handle_done reports it.
WorkerFails(w) ==
    /\ setup.fails
    /\ workers[w].phase \in {"opening", "polling", "writing"}
    /\ workers' = [workers EXCEPT ![w].phase = "failed",
                                  ![w].cb = IF @ = "attached" THEN "due" ELSE @]
    /\ UNCHANGED <<setup, active, serviceVars, restore>>
-----------------------------------------------------------------------------
(* The restore thread: restore_from_backup from its lock to its release.   *)

RestoreAcquires ==
    /\ restore = "idle"
    /\ Acquire("restore")
    /\ restore' = "locked"
    /\ UNCHANGED <<setup, serviceVars, workers>>

\* _stop_acquisition_for_restore calls stop().
RestoreStops ==
    /\ restore = "locked"
    /\ Stop("restore")
    /\ restore' = IF IsRunning THEN "stopping" ELSE "replacing"

RestoreEnds ==
    /\ restore \in {"locked", "replacing"}
    /\ Release("restore")
    /\ restore' = "idle"
    /\ UNCHANGED <<setup, serviceVars, workers>>
-----------------------------------------------------------------------------
Start == \/ StartRefused \/ StartAcquires \/ StartWithoutPorts
         \/ \E S \in SUBSET Ports : StartLoads(S)
         \/ \E p \in Ports : Submit(p)
         \/ Attach \/ StartSucceeds \/ StartFails

Worker(w) == \/ RunTask(w) \/ OpenPort(w) \/ LeaveLoop(w) \/ EnterCycle(w)
             \/ PollNothing(w) \/ StartWriting(w) \/ FinishWriting(w)

Restore == RestoreAcquires \/ RestoreStops \/ RestoreEnds

Next == \/ Start \/ UserStops \/ CallEnds
        \/ \E w \in WorkerIds : \/ AwaitWorker(w) \/ FailureCallback(w)
                                \/ Worker(w) \/ WorkerFails(w)
        \/ Restore

Spec == Init /\ [][Next]_vars

\* A thread that can run does run: the pool's threads, the callbacks, and the
\* call that is waiting for results.  Nobody is obliged to start, stop or restore.
Fairness == /\ \A w \in WorkerIds : /\ WF_vars(Worker(w)) /\ WF_vars(AwaitWorker(w))
                                    /\ WF_vars(FailureCallback(w))
            /\ WF_vars(CallEnds) /\ WF_vars(Attach) /\ WF_vars(StartSucceeds)

FairSpec == Spec /\ Fairness
-----------------------------------------------------------------------------
Phases == {"none", "queued", "opening", "checking", "polling", "writing", "done", "failed"}

WorkerRecord == [phase : Phases, port : Ports \union {"none"}, cancelled : BOOLEAN,
                 cb : {"none", "attached", "due", "called"}, late : Nat]

Calls == [phase : {"idle", "loading", "submitting", "waiting"}, todo : SUBSET Ports,
          fresh : WorkerIds \union {0}, waiting : SUBSET WorkerIds,
          next : {"NONE", "ERROR", "STOPPED"}, by : {"user", "restore"}]

\* Every variable holds a value of its kind.
TypeOK == /\ setup \in Setups
          /\ active \subseteq Operations
          /\ status \in {"NOT_STARTED", "RUNNING", "ERROR", "STOPPED"}
          /\ lockAcquired \in BOOLEAN
          /\ handles \subseteq WorkerIds
          /\ svc \in Calls
          /\ workers \in [WorkerIds -> WorkerRecord]
          /\ restore \in {"idle", "locked", "stopping", "replacing"}

\* While the service says RUNNING it holds the acquisition lock, so no restore
\* can begin, whatever workers died or were orphaned before.
RunningHoldsLock ==
    status = "RUNNING" =>
        lockAcquired /\ "acquisition" \in active /\ restore = "idle"

\* A cancelled worker starts at most one more database write: the token is
\* tested once per cycle, before the cycle.
OneMoreCycle == \A w \in WorkerIds : workers[w].late <= 1

\* Where workers do not die and cycles end within stop()'s timeout, no worker is
\* in a database transaction while restore replaces the files.
NoWriteDuringRestore ==
    ~ setup.slow /\ ~ setup.fails /\ restore = "replacing" => \A w \in WorkerIds : ~ InDatabase(w)

\* Where workers behave, a port is polled by one worker at a time, over stops and restarts.
OnePollerPerPort ==
    ~ setup.slow /\ ~ setup.fails =>
    \A v, w \in WorkerIds : Alive(v) /\ Alive(w) /\ workers[v].port = workers[w].port => v = w

\* There, STOPPED means that nothing polls and the lock is free.
StoppedIsQuiet ==
    ~ setup.slow /\ ~ setup.fails /\ status = "STOPPED" /\ svc = Idle =>
        "acquisition" \notin active /\ \A w \in WorkerIds : ~ Alive(w)

\* stop() always returns: the failure callback, which wants the lock that
\* stop() holds while it waits, cannot make it wait for ever.
StopReturns == svc.phase = "waiting" ~> svc = Idle

\* A cancelled worker comes to an end.
CancelledEnds == \A w \in WorkerIds : workers[w].cancelled ~> Finished(w)

\* The failure of a worker, once it is due to be reported, changes a status of
\* RUNNING, whoever holds the lock and whatever other workers do.
FailureReported ==
    \A w \in WorkerIds : status = "RUNNING" /\ workers[w].cb = "due" ~> status # "RUNNING"

\* Status, lock and threads tell the same story: RUNNING holds the lock, STOPPED
\* has neither lock nor pollers, a port has one poller and a cancelled one
\* starts at most one more write.
PollersInOrder ==
    TypeOK /\ RunningHoldsLock /\ OnePollerPerPort /\ StoppedIsQuiet /\ OneMoreCycle

\* stop() returns and what it has cancelled ends.
StopTakesEffect == StopReturns /\ CancelledEnds
=============================================================================

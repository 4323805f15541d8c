------------------------- MODULE AcquisitionProofs -------------------------
(***************************************************************************)
(* Proofs about Acquisition, for every set of ports, every pool and every  *)
(* number of workers, and about RealtimeView, for every set of detectors   *)
(* and every setting of the bigscreen's pages.                             *)
(*                                                                         *)
(* Acquisition.  One half of the argument is about the lock: the service   *)
(* knows whether it holds it, and while it holds it no restore is under    *)
(* way.  The other half is about the threads: where none dies and none is  *)
(* given up, each that lives or waits in the pool is in the service's      *)
(* hands, and no two of them have the same port.                           *)
(*                                                                         *)
(* RealtimeView.  A popup is opened for the id of a row, so it is opened   *)
(* once because no two rows share an id and an active row stays in the     *)
(* keys once it is there.                                                  *)
(***************************************************************************)
EXTENDS Acquisition, RealtimeView, FiniteSetTheorems, WellFoundedInduction, TLAPS

LockInv ==
    /\ lockAcquired <=> "acquisition" \in active
    /\ restore # "idle" <=> "restore" \in active
    /\ active \subseteq {"acquisition", "restore"}
    /\ lockAcquired => restore = "idle"
    /\ status = "RUNNING" \/ svc.phase # "idle" => lockAcquired

\* What a call has left at rest, and that a service that runs has workers.
CallInv ==
    /\ svc.by = "user"
    /\ svc.phase = "idle" => svc = Idle
    /\ svc.phase # "submitting" => svc.fresh = 0
    /\ svc.phase # "waiting" => svc.waiting = {}
    /\ svc.phase = "waiting" => svc.next # "NONE"
    /\ svc.phase \in {"loading", "submitting"} => status # "RUNNING"
    /\ status = "RUNNING" /\ svc.phase = "idle" => handles # {}
    /\ svc.phase = "submitting" => svc.todo # {} \/ svc.fresh # 0 \/ handles # {}

\* A write begun after the cancellation is the last one.
LateInv ==
    \A w \in WorkerIds :
        /\ workers[w].late <= 1
        /\ workers[w].late = 1 =>
              workers[w].cancelled /\ workers[w].phase \in {"writing", "checking", "done", "failed"}

WellBehaved == ~ setup.slow /\ ~ setup.fails
Busy(w)    == Alive(w) \/ workers[w].phase = "queued"
Tracked(w) == w \in handles \/ w \in svc.waiting \/ w = svc.fresh

ThreadInv ==
    /\ \A w \in WorkerIds : workers[w].cb # "due" /\ (Busy(w) => Tracked(w))
    /\ \A v, w \in WorkerIds :
          Busy(v) /\ Busy(w) /\ workers[v].port = workers[w].port => v = w
    /\ svc.phase \in {"loading", "waiting"} => handles = {}
    /\ svc.phase = "idle" /\ (handles # {} \/ lockAcquired) => status = "RUNNING"
    /\ svc.phase = "submitting" =>
          \A w \in WorkerIds : Tracked(w) => workers[w].port \notin svc.todo

IInv == TypeOK /\ LockInv /\ CallInv /\ LateInv /\ (WellBehaved => ThreadInv)
-----------------------------------------------------------------------------
LEMMA NoZero == 0 \notin WorkerIds /\ WorkerIds \subseteq Nat
BY AcquisitionAssumption DEF WorkerIds

LEMMA IdleCall == Idle \in Calls
BY DEF Idle, Calls

\* The lock of acquisition and that of restore exclude each other.
LEMMA Conflicts == /\ HasConflict("acquisition") <=> active \cap {"restore", "migration"} # {}
                   /\ "acquisition" \in active => HasConflict("restore")
BY DEF HasConflict, CONFLICTS

LEMMA InvInit == ASSUME Init PROVE IInv
<1>1. TypeOK
  <2>1. workers \in [WorkerIds -> WorkerRecord]
    BY DEF Init, WorkerRecord, Phases
  <2>2. QED
    BY <2>1, IdleCall DEF Init, TypeOK
<1>2. LockInv /\ CallInv
  BY DEF Init, LockInv, CallInv, Idle
<1>3. LateInv
  BY DEF Init, LateInv
<1>4. ThreadInv
  BY DEF Init, ThreadInv, Busy, Alive, Idle
<1>5. QED
  BY <1>1, <1>2, <1>3, <1>4 DEF IInv
-----------------------------------------------------------------------------
(* Steps of a call that leave the workers alone.                           *)

\* What such a step needs to keep of the threads.
LEMMA KeptThreads ==
    ASSUME ThreadInv, UNCHANGED workers,
           \A w \in WorkerIds : Tracked(w) => Tracked(w)',
           svc'.phase # "submitting",
           svc'.phase \in {"loading", "waiting"} => handles' = {},
           svc'.phase = "idle" /\ (handles' # {} \/ lockAcquired') => status' = "RUNNING"
    PROVE  ThreadInv'
<1>1. \A w \in WorkerIds : Busy(w)' = Busy(w)
  BY DEF Busy, Alive
<1>2. QED
  BY <1>1 DEF ThreadInv

LEMMA RefusedInv == ASSUME IInv, StartRefused PROVE IInv'
<1>1. /\ svc = Idle /\ status # "RUNNING" /\ status' = "ERROR" /\ ~ lockAcquired'
      /\ UNCHANGED <<setup, active, lockAcquired, handles, svc, workers, restore>>
  <2>1. ~ lockAcquired
    BY Conflicts DEF StartRefused, IInv, LockInv
  <2>2. QED
    BY <2>1 DEF StartRefused, IInv, CallInv, IsRunning, Idle
<1>2. TypeOK' /\ LockInv' /\ LateInv'
  BY <1>1 DEF IInv, TypeOK, LockInv, LateInv
<1>3. CallInv'
  BY <1>1 DEF IInv, CallInv, Idle
<1>4. ASSUME WellBehaved PROVE ThreadInv'
  <2>1. ThreadInv /\ handles = {}
    BY <1>1, <1>4 DEF IInv, ThreadInv, Idle
  <2>2. QED
    BY <1>1, <2>1, KeptThreads DEF Tracked, Idle
<1>5. QED
  BY <1>1, <1>2, <1>3, <1>4 DEF IInv, WellBehaved

LEMMA AcquiresInv == ASSUME IInv, StartAcquires PROVE IInv'
<1>1. /\ svc = Idle /\ status # "RUNNING" /\ lockAcquired' = TRUE
      /\ svc' \in Calls /\ svc'.phase = "loading" /\ svc'.by = "user" /\ svc'.fresh = 0
      /\ svc'.waiting = {}
      /\ ~ HasConflict("acquisition") /\ active' = active \union {"acquisition"}
      /\ UNCHANGED <<setup, status, handles, workers, restore>>
  BY IdleCall DEF StartAcquires, IInv, CallInv, IsRunning, Idle, Acquire, Calls
<1>2. TypeOK'
  BY <1>1 DEF IInv, TypeOK, Operations
<1>3. LockInv' /\ CallInv' /\ LateInv'
  BY <1>1, Conflicts DEF IInv, LockInv, CallInv, LateInv
<1>4. ASSUME WellBehaved PROVE ThreadInv'
  <2>1. ThreadInv /\ handles = {}
    BY <1>1, <1>4 DEF IInv, ThreadInv, Idle
  <2>2. QED
    BY <1>1, <2>1, KeptThreads DEF Tracked, Idle
<1>5. QED
  BY <1>1, <1>2, <1>3, <1>4 DEF IInv, WellBehaved

LEMMA WithoutPortsInv == ASSUME IInv, StartWithoutPorts PROVE IInv'
<1>1. /\ svc.phase = "loading" /\ active' = active \ {"acquisition"} /\ lockAcquired' = FALSE
      /\ status' = "STOPPED" /\ svc' = Idle /\ lockAcquired
      /\ svc.fresh = 0 /\ svc.waiting = {}
      /\ UNCHANGED <<setup, handles, workers, restore>>
  BY DEF StartWithoutPorts, IInv, LockInv, CallInv, Release
<1>2. TypeOK'
  BY <1>1, IdleCall DEF IInv, TypeOK
<1>3. LockInv' /\ CallInv' /\ LateInv'
  BY <1>1 DEF IInv, LockInv, CallInv, LateInv, Idle
<1>4. ASSUME WellBehaved PROVE ThreadInv'
  <2>1. ThreadInv /\ handles = {}
    BY <1>1, <1>4 DEF IInv, ThreadInv
  <2>2. QED
    BY <1>1, <2>1, KeptThreads DEF Tracked, Idle
<1>5. QED
  BY <1>1, <1>2, <1>3, <1>4 DEF IInv, WellBehaved

LEMMA LoadsInv == ASSUME IInv, NEW ports \in SUBSET Ports, StartLoads(ports) PROVE IInv'
<1>1. /\ svc.phase = "loading" /\ ports # {} /\ handles' = {}
      /\ svc' \in Calls /\ svc'.phase = "submitting" /\ svc'.todo = ports
      /\ svc'.by = svc.by /\ svc.fresh = 0 /\ svc'.fresh = 0
      /\ svc.waiting = {} /\ svc'.waiting = {}
      /\ UNCHANGED <<setup, active, status, lockAcquired, workers, restore>>
  BY DEF StartLoads, IInv, TypeOK, CallInv, Calls
<1>2. TypeOK'
  BY <1>1 DEF IInv, TypeOK
<1>3. LockInv' /\ CallInv' /\ LateInv'
  BY <1>1 DEF IInv, LockInv, CallInv, LateInv
<1>4. ASSUME WellBehaved PROVE ThreadInv'
  <2>1. ThreadInv /\ handles = {}
    BY <1>1, <1>4 DEF IInv, ThreadInv
  <2>2. \A w \in WorkerIds : ~ Tracked(w) /\ ~ Tracked(w)' /\ Busy(w)' = Busy(w)
    BY <1>1, <2>1, NoZero DEF Tracked, Busy, Alive
  <2>3. QED
    BY <1>1, <2>1, <2>2 DEF ThreadInv
<1>5. QED
  BY <1>1, <1>2, <1>3, <1>4 DEF IInv, WellBehaved

LEMMA SucceedsInv == ASSUME IInv, StartSucceeds PROVE IInv'
<1>1. /\ svc.phase = "submitting" /\ svc.fresh = 0 /\ svc.todo = {} /\ svc.waiting = {}
      /\ status' = "RUNNING" /\ svc' = Idle
      /\ UNCHANGED <<setup, active, lockAcquired, handles, workers, restore>>
  BY DEF StartSucceeds, IInv, CallInv
<1>2. TypeOK'
  BY <1>1, IdleCall DEF IInv, TypeOK
<1>3. LockInv' /\ CallInv' /\ LateInv'
  BY <1>1 DEF IInv, LockInv, CallInv, LateInv, Idle
<1>4. ASSUME WellBehaved PROVE ThreadInv'
  <2>1. ThreadInv
    BY <1>4 DEF IInv
  <2>2. QED
    BY <1>1, <2>1, NoZero, KeptThreads DEF Tracked, Idle
<1>5. QED
  BY <1>1, <1>2, <1>3, <1>4 DEF IInv, WellBehaved

LEMMA AwaitInv == ASSUME IInv, NEW w \in WorkerIds, AwaitWorker(w) PROVE IInv'
<1>1. /\ svc.phase = "waiting" /\ svc' = [svc EXCEPT !.waiting = @ \ {w}]
      /\ setup.slow \/ Finished(w)
      /\ UNCHANGED <<setup, active, status, lockAcquired, handles, workers, restore>>
  BY DEF AwaitWorker, ResultArrives
<1>2. /\ svc \in Calls /\ svc' \in Calls /\ svc'.phase = "waiting"
      /\ svc'.waiting = svc.waiting \ {w} /\ svc'.fresh = svc.fresh /\ svc'.by = svc.by
  BY <1>1 DEF IInv, TypeOK, Calls
<1>3. TypeOK'
  BY <1>1, <1>2 DEF IInv, TypeOK
<1>4. LockInv' /\ CallInv' /\ LateInv'
  BY <1>1, <1>2 DEF IInv, LockInv, CallInv, LateInv
<1>5. ASSUME WellBehaved PROVE ThreadInv'
  <2>1. ThreadInv /\ ~ Busy(w)
    BY <1>1, <1>5 DEF IInv, WellBehaved, Finished, Busy, Alive
  <2>2. \A v \in WorkerIds : Busy(v)' = Busy(v) /\ (Tracked(v) /\ v # w => Tracked(v)')
    BY <1>1, <1>2 DEF Busy, Alive, Tracked
  <2>3. QED
    BY <1>1, <1>2, <2>1, <2>2 DEF ThreadInv
<1>6. QED
  BY <1>1, <1>3, <1>4, <1>5 DEF IInv, WellBehaved

LEMMA CallEndsInv == ASSUME IInv, CallEnds PROVE IInv'
<1>1. /\ svc.phase = "waiting" /\ svc.waiting = {} /\ lockAcquired
      /\ Release("acquisition") /\ lockAcquired' = FALSE
      /\ status' = svc.next /\ svc' = Idle
      /\ UNCHANGED <<setup, handles, workers, restore>>
  BY DEF CallEnds, IInv, LockInv, CallInv
<1>2. svc.next \in {"NONE", "ERROR", "STOPPED"}
  BY DEF IInv, TypeOK, Calls
<1>3. svc.next # "NONE"
  BY <1>1 DEF IInv, CallInv
<1>4. TypeOK'
  BY <1>1, <1>2, <1>3, IdleCall DEF IInv, TypeOK, Release
<1>5. LockInv' /\ CallInv' /\ LateInv'
  BY <1>1, <1>2 DEF IInv, LockInv, CallInv, LateInv, Release, Idle
<1>6. ASSUME WellBehaved PROVE ThreadInv'
  <2>1. ThreadInv /\ svc.fresh = 0
    BY <1>1, <1>6 DEF IInv, CallInv
  <2>2. \A w \in WorkerIds : ~ Busy(w)' /\ workers'[w].cb # "due"
    BY <1>1, <2>1, NoZero DEF ThreadInv, Tracked, Busy, Alive
  <2>3. QED
    BY <1>1, <2>1, <2>2 DEF ThreadInv, Idle
<1>7. QED
  BY <1>1, <1>4, <1>5, <1>6 DEF IInv, WellBehaved
-----------------------------------------------------------------------------
(* Steps of a call that hand workers on.                                   *)

LEMMA SubmitInv == ASSUME IInv, NEW port \in Ports, Submit(port) PROVE IInv'
<1>1. PICK w \in WorkerIds :
          /\ NoWorker(w)
          /\ workers' = [workers EXCEPT ![w].phase = "queued", ![w].port = port]
          /\ svc' = [svc EXCEPT !.todo = @ \ {port}, !.fresh = w]
  BY DEF Submit
<1>2. /\ svc.phase = "submitting" /\ svc.fresh = 0 /\ port \in svc.todo
      /\ UNCHANGED <<setup, active, status, lockAcquired, handles, restore>>
  BY DEF Submit
<1>3. /\ svc' \in Calls /\ svc'.phase = "submitting" /\ svc'.todo = svc.todo \ {port}
      /\ svc'.fresh = w /\ svc'.waiting = svc.waiting /\ svc'.by = svc.by /\ svc'.next = svc.next
  BY <1>1, <1>2 DEF IInv, TypeOK, Calls
<1>4. /\ workers' \in [WorkerIds -> WorkerRecord]
      /\ workers'[w].phase = "queued" /\ workers'[w].port = port
      /\ workers'[w].late = workers[w].late /\ workers'[w].cb = workers[w].cb
      /\ \A v \in WorkerIds \ {w} : workers'[v] = workers[v]
  BY <1>1 DEF IInv, TypeOK, WorkerRecord, Phases
<1>5. TypeOK' /\ LockInv'
  BY <1>2, <1>3, <1>4 DEF IInv, TypeOK, LockInv
<1>6. CallInv'
  BY <1>2, <1>3, NoZero DEF IInv, CallInv
<1>7. LateInv'
  BY <1>1, <1>4 DEF IInv, LateInv, NoWorker, TypeOK, WorkerRecord
<1>8. ASSUME WellBehaved PROVE ThreadInv'
  <2>1. ThreadInv /\ ~ Busy(w)
    BY <1>1, <1>8 DEF IInv, NoWorker, Busy, Alive
  <2>2. \A v \in WorkerIds \ {w} : /\ Busy(v)' = Busy(v)
                                   /\ Tracked(v)' = Tracked(v)
    BY <1>2, <1>3, <1>4, NoZero DEF Busy, Alive, Tracked
  <2>3. Tracked(w)'
    BY <1>3 DEF Tracked
  <2>4. \A v \in WorkerIds \ {w} : Busy(v) => workers[v].port # port
    BY <1>2, <2>1 DEF ThreadInv
  <2>5. QED
    BY <1>2, <1>3, <1>4, <2>1, <2>2, <2>3, <2>4 DEF ThreadInv
<1>9. QED
  BY <1>2, <1>5, <1>6, <1>7, <1>8 DEF IInv, WellBehaved

LEMMA AttachInv == ASSUME IInv, Attach PROVE IInv'
<1> DEFINE w == svc.fresh
<1>1. /\ svc.phase = "submitting" /\ w \in WorkerIds
      /\ workers' = [workers EXCEPT ![w].cb = IF Finished(w) THEN "called" ELSE "attached"]
      /\ handles' = handles \union {w}
      /\ svc' = [svc EXCEPT !.fresh = 0]
      /\ UNCHANGED <<setup, active, status, lockAcquired, restore>>
  BY DEF Attach, IInv, TypeOK, Calls
<1>2. /\ svc' \in Calls /\ svc'.phase = "submitting" /\ svc'.todo = svc.todo /\ svc'.fresh = 0
      /\ svc'.waiting = svc.waiting /\ svc'.by = svc.by /\ svc'.next = svc.next
  BY <1>1 DEF IInv, TypeOK, Calls
<1>3. /\ workers' \in [WorkerIds -> WorkerRecord]
      /\ \A v \in WorkerIds :
            /\ workers'[v].phase = workers[v].phase /\ workers'[v].port = workers[v].port
            /\ workers'[v].late = workers[v].late /\ workers'[v].cancelled = workers[v].cancelled
            /\ workers'[v].cb \in {workers[v].cb, "called", "attached"}
  BY <1>1 DEF IInv, TypeOK, WorkerRecord, Phases
<1> HIDE DEF w
<1>4. TypeOK' /\ LockInv'
  BY <1>1, <1>2, <1>3 DEF IInv, TypeOK, LockInv
<1>5. CallInv' /\ LateInv'
  BY <1>1, <1>2, <1>3 DEF IInv, CallInv, LateInv
<1>6. ASSUME WellBehaved PROVE ThreadInv'
  <2>1. ThreadInv
    BY <1>6 DEF IInv
  <2>2. \A v \in WorkerIds : Busy(v)' = Busy(v) /\ Tracked(v)' = Tracked(v)
    BY <1>1, <1>2, <1>3, NoZero DEF Busy, Alive, Tracked, w
  <2>3. QED
    BY <1>1, <1>2, <1>3, <2>1, <2>2 DEF ThreadInv
<1>7. QED
  BY <1>1, <1>4, <1>5, <1>6 DEF IInv, WellBehaved

\* The workers of a stopped or failed service are awaited.
LEMMA CancelledInv ==
    ASSUME IInv, lockAcquired, NEW next \in {"ERROR", "STOPPED"}, CancelWorkers(next, "user"),
           svc.fresh = 0, svc.waiting = {},
           UNCHANGED <<setup, active, status, lockAcquired, restore>>
    PROVE  IInv'
<1>1. /\ svc' \in Calls /\ svc'.phase = "waiting" /\ svc'.waiting = handles /\ svc'.next = next
      /\ svc'.by = "user" /\ svc'.fresh = 0 /\ handles' = {}
  BY DEF CancelWorkers, Idle, Calls, IInv, TypeOK
<1>2. /\ workers' \in [WorkerIds -> WorkerRecord]
      /\ \A w \in WorkerIds :
            /\ workers'[w].phase \in {workers[w].phase, "done"} /\ workers'[w].late = workers[w].late
            /\ workers[w].phase # "queued" => workers'[w].phase = workers[w].phase
            /\ workers'[w].port = workers[w].port /\ workers'[w].cb = workers[w].cb
            /\ workers[w].cancelled => workers'[w].cancelled
  <2>1. \A w \in WorkerIds : workers[w] \in WorkerRecord
    BY DEF IInv, TypeOK
  <2>2. \A w \in WorkerIds :
            /\ Cancelled(w) \in WorkerRecord
            /\ Cancelled(w).phase = IF workers[w].phase = "queued" THEN "done" ELSE workers[w].phase
            /\ Cancelled(w).late = workers[w].late /\ Cancelled(w).port = workers[w].port
            /\ Cancelled(w).cb = workers[w].cb
    BY <2>1 DEF Cancelled, WorkerRecord, Phases
  <2>3. \A w \in WorkerIds : Cancelled(w).cancelled
    BY <2>1 DEF Cancelled, WorkerRecord
  <2>4. workers' = [w \in WorkerIds |-> IF w \in handles THEN Cancelled(w) ELSE workers[w]]
    BY DEF CancelWorkers
  <2>5. QED
    BY <2>1, <2>2, <2>3, <2>4
<1>3. TypeOK' /\ LockInv'
  BY <1>1, <1>2 DEF IInv, TypeOK, LockInv
<1>4. CallInv' /\ LateInv'
  BY <1>1, <1>2 DEF IInv, CallInv, LateInv
<1>5. ASSUME WellBehaved PROVE ThreadInv'
  <2>1. ThreadInv
    BY <1>5 DEF IInv
  <2>2. \A w \in WorkerIds : (Busy(w)' => Busy(w)) /\ Tracked(w)' = Tracked(w)
    BY <1>1, <1>2 DEF Busy, Alive, Tracked
  <2>3. QED
    BY <1>1, <1>2, <2>1, <2>2 DEF ThreadInv
<1>6. QED
  BY <1>3, <1>4, <1>5 DEF IInv, WellBehaved

\* A service that does not run is only called stopped.
LEMMA StoppedInv ==
    ASSUME IInv, svc = Idle, ~ IsRunning, status' = "STOPPED",
           UNCHANGED <<setup, active, lockAcquired, handles, svc, workers, restore>>
    PROVE  IInv'
<1>1. status # "RUNNING"
  BY DEF IInv, CallInv, IsRunning, Idle
<1>2. TypeOK' /\ LockInv' /\ CallInv' /\ LateInv'
  BY DEF IInv, TypeOK, LockInv, CallInv, LateInv, Idle
<1>3. ASSUME WellBehaved PROVE ThreadInv'
  <2>1. ThreadInv
    BY <1>3 DEF IInv
  <2>2. handles = {} /\ ~ lockAcquired
    BY <1>1, <2>1 DEF ThreadInv, Idle
  <2>3. QED
    BY <2>1, <2>2, KeptThreads DEF Tracked, Idle
<1>4. QED
  BY <1>2, <1>3 DEF IInv, WellBehaved

LEMMA StartFailsInv == ASSUME IInv, StartFails PROVE IInv'
BY CancelledInv DEF StartFails, IInv, LockInv, CallInv

LEMMA UserStopsInv == ASSUME IInv, UserStops PROVE IInv'
<1>1. svc = Idle /\ UNCHANGED <<setup, active, lockAcquired, restore>>
  BY DEF UserStops, Stop
<1>2. CASE IsRunning
  BY <1>1, <1>2, CancelledInv DEF UserStops, Stop, IsRunning, IInv, LockInv, Idle
<1>3. CASE ~ IsRunning
  BY <1>1, <1>3, StoppedInv DEF UserStops, Stop
<1>4. QED
  BY <1>2, <1>3
-----------------------------------------------------------------------------
(* The workers and the restore thread.                                     *)

\* A worker moves from one phase to another; a busy one has been busy.
LEMMA MovedInv ==
    ASSUME IInv, NEW w \in WorkerIds, NEW to \in Phases,
           NEW late \in Nat, NEW cb \in {"none", "attached", "due", "called"},
           workers' = [workers EXCEPT ![w].phase = to, ![w].late = late, ![w].cb = cb],
           to \in {"opening", "checking", "polling", "writing"} => Busy(w),
           to # "queued",
           late <= 1,
           late = 1 => /\ workers[w].cancelled
                       /\ to \in {"writing", "checking", "done", "failed"},
           WellBehaved => cb # "due",
           svc' = svc, status' = status \/ (~ WellBehaved /\ status' = "ERROR"),
           UNCHANGED <<setup, active, lockAcquired, handles, restore>>
    PROVE  IInv'
<1>1. workers[w] \in WorkerRecord
  BY DEF IInv, TypeOK
<1>2. /\ workers' \in [WorkerIds -> WorkerRecord]
      /\ workers'[w].phase = to /\ workers'[w].late = late /\ workers'[w].cb = cb
      /\ workers'[w].port = workers[w].port /\ workers'[w].cancelled = workers[w].cancelled
      /\ \A v \in WorkerIds \ {w} : workers'[v] = workers[v]
  BY <1>1 DEF IInv, TypeOK, WorkerRecord
<1>3. TypeOK' /\ LockInv'
  BY <1>2 DEF IInv, TypeOK, LockInv
<1>4. CallInv'
  BY DEF IInv, CallInv
<1>5. LateInv'
  BY <1>2 DEF IInv, LateInv
<1>6. ASSUME WellBehaved PROVE ThreadInv'
  <2>1. ThreadInv /\ status' = status
    BY <1>6 DEF IInv
  <2>2. \A v \in WorkerIds : (Busy(v)' => Busy(v)) /\ Tracked(v)' = Tracked(v)
    BY <1>2 DEF Busy, Alive, Tracked
  <2>3. \A v \in WorkerIds : workers'[v].port = workers[v].port /\ workers'[v].cb # "due"
    BY <1>2, <1>6, <2>1 DEF ThreadInv
  <2>4. QED
    BY <2>1, <2>2, <2>3 DEF ThreadInv
<1>7. QED
  BY <1>3, <1>4, <1>5, <1>6 DEF IInv, WellBehaved

\* A step of the thread that changes the phase alone.
LEMMA PhaseInv ==
    ASSUME IInv, NEW w \in WorkerIds, NEW from \in Phases, NEW to \in Phases,
           WorkerStep(w, from, to), to \notin {"none", "queued", "failed"},
           from \in {"queued", "opening", "checking", "polling", "writing"},
           to \in {"opening", "polling"} => (workers[w].late = 1 => FALSE)
    PROVE  IInv'
<1>1. workers[w] \in WorkerRecord
  BY DEF IInv, TypeOK
<1>2. workers' = [workers EXCEPT ![w].phase = to, ![w].late = workers[w].late,
                                 ![w].cb = workers[w].cb]
  BY <1>1 DEF WorkerStep, IInv, TypeOK, WorkerRecord
<1>3. Busy(w)
  BY DEF WorkerStep, Busy, Alive
<1>4. /\ workers[w].late \in Nat /\ workers[w].cb \in {"none", "attached", "due", "called"}
      /\ workers[w].late <= 1
  BY <1>1 DEF WorkerRecord, IInv, LateInv
<1>5. workers[w].late = 1 => workers[w].cancelled /\ to \in {"writing", "checking", "done", "failed"}
  BY <1>4 DEF IInv, LateInv, Phases
<1>6. WellBehaved => workers[w].cb # "due"
  BY DEF IInv, ThreadInv
<1>7. UNCHANGED <<setup, active, status, lockAcquired, handles, svc, restore>>
  BY DEF WorkerStep, serviceVars
<1>8. QED
  BY <1>2, <1>3, <1>4, <1>5, <1>6, <1>7, MovedInv

LEMMA WorkerInv == ASSUME IInv, NEW w \in WorkerIds, Worker(w) PROVE IInv'
<1>1. workers[w].phase \in {"queued", "opening", "polling"} => workers[w].late # 1
  BY DEF IInv, LateInv
<1>2. CASE RunTask(w)
  BY <1>1, <1>2, PhaseInv DEF RunTask, WorkerStep, Phases
<1>3. CASE OpenPort(w) \/ PollNothing(w) \/ FinishWriting(w) \/ LeaveLoop(w)
  BY <1>3, PhaseInv DEF OpenPort, PollNothing, FinishWriting, LeaveLoop, Phases
<1>4. CASE EnterCycle(w)
  <2>1. workers[w].late # 1
    BY <1>4 DEF EnterCycle, TokenCancelled, IInv, LateInv
  <2>2. QED
    BY <1>4, <2>1, PhaseInv DEF EnterCycle, Phases
<1>5. CASE StartWriting(w)
  <2> DEFINE late == IF workers[w].cancelled THEN workers[w].late + 1 ELSE workers[w].late
  <2>1. workers[w] \in WorkerRecord /\ workers[w].late = 0 /\ workers[w].phase = "polling"
    <3>1. workers[w] \in WorkerRecord /\ workers[w].phase = "polling"
      BY <1>5 DEF StartWriting, IInv, TypeOK
    <3>2. workers[w].late \in Nat /\ workers[w].late <= 1
      BY <3>1 DEF WorkerRecord, IInv, LateInv
    <3>3. QED
      BY <1>1, <3>1, <3>2
  <2>2. late \in Nat /\ late <= 1 /\ (late = 1 => workers[w].cancelled)
    BY <2>1
  <2>3. workers' = [workers EXCEPT ![w].phase = "writing", ![w].late = late,
                                   ![w].cb = workers[w].cb]
    BY <1>5, <2>1 DEF StartWriting, IInv, TypeOK, WorkerRecord
  <2>4. Busy(w) /\ (WellBehaved => workers[w].cb # "due")
    BY <2>1 DEF Busy, Alive, IInv, ThreadInv
  <2>5. UNCHANGED <<setup, active, status, lockAcquired, handles, svc, restore>>
    BY <1>5 DEF StartWriting, serviceVars
  <2>6. workers[w].cb \in {"none", "attached", "due", "called"}
    BY <2>1 DEF WorkerRecord
  <2> HIDE DEF late
  <2>7. QED
    BY <2>2, <2>3, <2>4, <2>5, <2>6, MovedInv DEF Phases
<1>6. QED
  BY <1>2, <1>3, <1>4, <1>5 DEF Worker

LEMMA WorkerFailsInv == ASSUME IInv, NEW w \in WorkerIds, WorkerFails(w) PROVE IInv'
<1> DEFINE cb == IF workers[w].cb = "attached" THEN "due" ELSE workers[w].cb
<1>1. workers[w] \in WorkerRecord
  BY DEF IInv, TypeOK
<1>2. workers' = [workers EXCEPT ![w].phase = "failed", ![w].late = workers[w].late, ![w].cb = cb]
  BY <1>1 DEF WorkerFails, IInv, TypeOK, WorkerRecord
<1>3. /\ cb \in {"none", "attached", "due", "called"} /\ workers[w].late \in Nat
      /\ workers[w].late <= 1 /\ (workers[w].late = 1 => workers[w].cancelled)
  BY <1>1 DEF WorkerRecord, IInv, LateInv
<1>4. ~ WellBehaved /\ UNCHANGED <<setup, active, status, lockAcquired, handles, svc, restore>>
  BY DEF WorkerFails, WellBehaved, serviceVars
<1> HIDE DEF cb
<1>5. QED
  BY <1>2, <1>3, <1>4, MovedInv DEF Phases

LEMMA CallbackInv == ASSUME IInv, NEW w \in WorkerIds, FailureCallback(w) PROVE IInv'
<1>1. /\ svc = Idle /\ workers[w].cb = "due"
      /\ workers' = [workers EXCEPT ![w].cb = "called"]
      /\ status' = IF status = "RUNNING" THEN "ERROR" ELSE status
      /\ UNCHANGED <<setup, active, lockAcquired, handles, svc, restore>>
  BY DEF FailureCallback, Reported
<1>2. ~ WellBehaved
  BY <1>1 DEF IInv, ThreadInv
<1>3. workers' \in [WorkerIds -> WorkerRecord]
  BY <1>1 DEF IInv, TypeOK, WorkerRecord
<1>4. \A v \in WorkerIds : /\ workers'[v].phase = workers[v].phase
                           /\ workers'[v].late = workers[v].late
                           /\ workers'[v].cancelled = workers[v].cancelled
  BY <1>1 DEF IInv, TypeOK, WorkerRecord
<1>5. TypeOK' /\ LockInv' /\ CallInv'
  BY <1>1, <1>3 DEF IInv, TypeOK, LockInv, CallInv, Idle
<1>6. LateInv'
  BY <1>4 DEF IInv, LateInv
<1>7. QED
  BY <1>1, <1>2, <1>5, <1>6 DEF IInv, WellBehaved

\* A restore finds no acquisition to stop: its lock was refused to it otherwise.
LEMMA RestoreInv == ASSUME IInv, Restore PROVE IInv'
<1>1. CASE RestoreAcquires
  <2>1. /\ restore = "idle" /\ restore' = "locked" /\ active' = active \union {"restore"}
        /\ "acquisition" \notin active
        /\ UNCHANGED <<setup, status, lockAcquired, handles, svc, workers>>
    BY <1>1, Conflicts DEF RestoreAcquires, Acquire, serviceVars
  <2>2. TypeOK' /\ LockInv' /\ CallInv' /\ LateInv' /\ (ThreadInv => ThreadInv')
    BY <2>1 DEF IInv, TypeOK, LockInv, CallInv, LateInv, ThreadInv, Operations,
                Busy, Alive, Tracked
  <2>3. QED
    BY <2>1, <2>2 DEF IInv, WellBehaved
<1>2. CASE RestoreStops
  <2>1. svc = Idle /\ ~ IsRunning /\ restore = "locked" /\ ~ lockAcquired
    BY <1>2 DEF RestoreStops, Stop, IsRunning, IInv, LockInv, CallInv, Idle
  <2>2. /\ status' = "STOPPED" /\ restore' = "replacing"
        /\ UNCHANGED <<setup, active, lockAcquired, handles, svc, workers>>
    BY <1>2, <2>1 DEF RestoreStops, Stop
  <2>3. TypeOK' /\ LockInv' /\ CallInv' /\ LateInv'
    BY <2>1, <2>2 DEF IInv, TypeOK, LockInv, CallInv, LateInv, Idle
  <2>4. ASSUME WellBehaved PROVE ThreadInv'
    <3>1. ThreadInv /\ handles = {}
      BY <2>1, <2>4 DEF IInv, ThreadInv, IsRunning, Idle
    <3>2. QED
      BY <2>1, <2>2, <3>1, KeptThreads DEF Tracked, Idle
  <2>5. QED
    BY <2>2, <2>3, <2>4 DEF IInv, WellBehaved
<1>3. CASE RestoreEnds
  <2>1. /\ restore \in {"locked", "replacing"} /\ restore' = "idle"
        /\ active' = active \ {"restore"}
        /\ UNCHANGED <<setup, status, lockAcquired, handles, svc, workers>>
    BY <1>3 DEF RestoreEnds, Release, serviceVars
  <2>2. TypeOK' /\ LockInv' /\ CallInv' /\ LateInv' /\ (ThreadInv => ThreadInv')
    BY <2>1 DEF IInv, TypeOK, LockInv, CallInv, LateInv, ThreadInv, Busy, Alive, Tracked
  <2>3. QED
    BY <2>1, <2>2 DEF IInv, WellBehaved
<1>4. QED
  BY <1>1, <1>2, <1>3 DEF Restore
-----------------------------------------------------------------------------
LEMMA InvStep == ASSUME IInv, [Next]_vars PROVE IInv'
<1>1. ASSUME Start PROVE IInv'
  BY <1>1, RefusedInv, AcquiresInv, WithoutPortsInv, LoadsInv, SubmitInv, AttachInv,
     SucceedsInv, StartFailsInv DEF Start
<1>2. ASSUME NEW w \in WorkerIds,
             AwaitWorker(w) \/ FailureCallback(w) \/ Worker(w) \/ WorkerFails(w)
      PROVE  IInv'
  BY <1>2, AwaitInv, CallbackInv, WorkerInv, WorkerFailsInv
<1>3. CASE UNCHANGED vars
  <2>1. UNCHANGED <<setup, active, status, lockAcquired, handles, svc, workers, restore>>
    BY <1>3 DEF vars, serviceVars
  <2>2. QED
    BY <2>1 DEF IInv, TypeOK, LockInv, CallInv, LateInv, ThreadInv, WellBehaved,
                Busy, Alive, Tracked
<1>4. QED
  BY <1>1, <1>2, <1>3, UserStopsInv, CallEndsInv, RestoreInv DEF Next

\* The strengthened invariant holds whatever is called and whichever thread runs.
THEOREM Invariance == Spec => []IInv
BY InvInit, InvStep, PTL DEF Spec

\* Every variable holds a value of its kind.
THEOREM TypeCorrect == Spec => []TypeOK
<1>1. IInv => TypeOK
  BY DEF IInv
<1>2. QED
  BY <1>1, Invariance, PTL

\* A service that says RUNNING holds the acquisition lock, and no restore is
\* under way.
THEOREM RunningHoldsLockAlways == Spec => []RunningHoldsLock
<1>1. IInv => RunningHoldsLock
  BY DEF IInv, LockInv, RunningHoldsLock
<1>2. QED
  BY <1>1, Invariance, PTL

\* A cancelled worker starts at most one more database write.
THEOREM OneMoreCycleAlways == Spec => []OneMoreCycle
<1>1. IInv => OneMoreCycle
  BY DEF IInv, LateInv, OneMoreCycle
<1>2. QED
  BY <1>1, Invariance, PTL

\* Nothing that is not running has a worker, once no call is under way.
LEMMA QuietWithoutLock ==
    ASSUME IInv, WellBehaved, svc = Idle, status # "RUNNING"
    PROVE  ~ lockAcquired /\ \A w \in WorkerIds : ~ Busy(w)
<1>1. handles = {} /\ ~ lockAcquired
  BY DEF IInv, ThreadInv, Idle
<1>2. \A w \in WorkerIds : ~ Tracked(w)
  BY <1>1, NoZero DEF Tracked, Idle
<1>3. QED
  BY <1>1, <1>2 DEF IInv, ThreadInv

\* Where threads behave, none is in a database transaction while the files are
\* replaced.
THEOREM NoWriteDuringRestoreAlways == Spec => []NoWriteDuringRestore
<1>1. ASSUME IInv, WellBehaved, restore = "replacing", NEW w \in WorkerIds PROVE ~ InDatabase(w)
  <2>1. svc = Idle /\ status # "RUNNING"
    BY <1>1 DEF IInv, LockInv, CallInv
  <2>2. QED
    BY <1>1, <2>1, QuietWithoutLock DEF Busy, Alive, InDatabase
<1>2. IInv => NoWriteDuringRestore
  BY <1>1 DEF NoWriteDuringRestore, WellBehaved
<1>3. QED
  BY <1>2, Invariance, PTL

\* There, a port is polled by one worker at a time.
THEOREM OnePollerPerPortAlways == Spec => []OnePollerPerPort
<1>1. IInv => OnePollerPerPort
  BY DEF IInv, ThreadInv, OnePollerPerPort, WellBehaved, Busy
<1>2. QED
  BY <1>1, Invariance, PTL

\* There, STOPPED means that nothing polls and that the lock is free.
THEOREM StoppedIsQuietAlways == Spec => []StoppedIsQuiet
<1>1. ASSUME IInv, WellBehaved, status = "STOPPED", svc = Idle
      PROVE  "acquisition" \notin active /\ \A w \in WorkerIds : ~ Alive(w)
  BY <1>1, QuietWithoutLock DEF IInv, LockInv, Busy
<1>2. IInv => StoppedIsQuiet
  BY <1>1 DEF StoppedIsQuiet, WellBehaved
<1>3. QED
  BY <1>2, Invariance, PTL

\* Status, lock and threads tell the same story: the parts together.
THEOREM PollersInOrderAlways == Spec => []PollersInOrder
  BY TypeCorrect, RunningHoldsLockAlways, OnePollerPerPortAlways, StoppedIsQuietAlways, OneMoreCycleAlways, PTL DEF PollersInOrder
-----------------------------------------------------------------------------
(* RealtimeView: what a view shows, for every set of detectors and ports.  *)

\* Every row has its own id, and there is room for the rows still to be opened.
RowIdsInv ==
    /\ \A d \in Detectors : /\ alarm[d].id <= opened
                            /\ alarm[d].id = 0 => alarm[d].type = "normal"
    /\ \A d, e \in Detectors : alarm[d].id = alarm[e].id /\ alarm[d].id # 0 => d = e
    /\ opened + Cardinality(Due) <= MaxAlarms

\* A row that has had its popup is in the keys while it is active.
PopupInv ==
    \A a \in AlarmIds :
        /\ toasts[a] \in {0, 1}
        /\ toasts[a] # 0 =>
              a <= opened /\ \A d \in Detectors : alarm[d].id = a =>
                                 a \in popups /\ alarm[d].type \in PopupStatuses

\* Only the bigscreen has a focus.
FocusInv ==
    /\ kind # "bigscreen" => shown.focus = NoFocus /\ got.focus = NoFocus
    /\ AlarmPageWhileFocus

ViewInv == ViewTypeOK /\ RowIdsInv /\ PopupInv /\ FocusInv

LEMMA ViewAssumptions ==
    /\ MaxAlarms \in Nat /\ MaxQueued \in Nat /\ MaxQueued # 0
    /\ PortOf \in [Detectors -> PortIds] /\ IsFiniteSet(PortIds)
    /\ \A choice \in PageChoices : choice \in Seq(SUPPORTED_PAGES) /\ choice # <<>>
BY RealtimeAssumption

LEMMA DueIsFinite ==
    /\ IsFiniteSet(Due) /\ Cardinality(Due) \in Nat
<1>1. Due \in SUBSET PortIds
  BY DEF Due
<1>2. IsFiniteSet(Due)
  BY <1>1, ViewAssumptions, FS_Subset
<1>3. QED
  BY <1>2, FS_CardinalityType

LEMMA KnownStatuses ==
    /\ "normal" \in AllStatuses /\ "normal" \notin PopupStatuses
    /\ \A k \in Kinds, d \in Detectors : \A s \in Readings[k][d] : s \in AllStatuses
BY DEF AllStatuses, PopupStatuses

LEMMA BlankDisplay ==
    Blank \in Displays /\ Blank.focus = NoFocus
<1>1. NoRow \in Rows
  BY KnownStatuses, ViewAssumptions DEF NoRow, Rows
<1>2. NoFocus \in 0..MaxAlarms
  BY ViewAssumptions DEF NoFocus
<1>3. QED
  BY <1>1, <1>2 DEF Blank, Displays

LEMMA ViewStarts == ViewInit => ViewInv
<1>1. SUFFICES ASSUME ViewInit PROVE ViewInv
  OBVIOUS
<1>0. /\ kind \in Kinds /\ pages \in PageChoices /\ acquisition = "running"
      /\ step = [p \in PortIds |-> Rest] /\ table = [d \in Detectors |-> "normal"]
      /\ alarm = [d \in Detectors |-> NoRow] /\ opened = 0 /\ live = Detectors /\ queued = 0
      /\ phase = "idle" /\ got = Blank /\ shown = Blank /\ page = "data" /\ popups = {}
      /\ toasts = [a \in AlarmIds |-> 0]
  BY <1>1, Zenon DEF ViewInit
<1>2. /\ step \in [PortIds -> {Rest} \union Steps] /\ \A p \in PortIds : step[p] = Rest
      /\ table \in [Detectors -> AllStatuses] /\ alarm \in [Detectors -> Rows]
      /\ \A d \in Detectors : alarm[d] = NoRow
  BY <1>0, KnownStatuses, ViewAssumptions DEF NoRow, Rows
<1>3. opened = 0 /\ opened \in 0..MaxAlarms /\ queued \in 0..MaxQueued /\ live \subseteq Detectors
  BY <1>0, ViewAssumptions
<1>4. {recent, subscribed, disposed, timer, loaded, error, rotating} \subseteq BOOLEAN
  BY <1>1, Zenon DEF ViewInit
<1>5. got \in Displays /\ shown \in Displays /\ got.focus = NoFocus /\ shown.focus = NoFocus
  BY <1>0, BlankDisplay
<1>6. /\ page \in ToSet(pages) \union {"alarm", "data"} /\ page # "alarm" /\ kind \in Kinds
      /\ pages \in PageChoices /\ acquisition \in {"running", "stopping", "stopped"}
      /\ phase \in {"idle", "reading", "between"}
  BY <1>0
<1>7. popups \subseteq AlarmIds /\ toasts \in [AlarmIds -> 0..2] /\ \A a \in AlarmIds : toasts[a] = 0
  BY <1>0, ViewAssumptions
<1>8. ViewTypeOK
  BY <1>2, <1>3, <1>4, <1>5, <1>6, <1>7 DEF ViewTypeOK
<1>9. Due = {} /\ Cardinality(Due) = 0
  BY <1>2, FS_EmptySet DEF Due
<1>10. RowIdsInv
  BY <1>2, <1>3, <1>9, ViewAssumptions DEF RowIdsInv, NoRow
<1>11. PopupInv
  BY <1>7 DEF PopupInv
<1>12. FocusInv
  BY <1>5, <1>6 DEF FocusInv, AlarmPageWhileFocus
<1>13. QED
  BY <1>8, <1>10, <1>11, <1>12 DEF ViewInv

\* A cycle under way is about a detector of its own port.
LEMMA CycleOf ==
    ASSUME ViewTypeOK, NEW p \in PortIds,
           step[p].at \in {"persisted", "publish", "call", "ingest"}
    PROVE  /\ step[p] \in Steps /\ step[p] # Rest
           /\ step[p].d \in Detectors /\ PortOf[step[p].d] = p
<1>1. step[p] # Rest
  BY DEF Rest
<1>2. step[p] \in Steps /\ PortOf[step[p].d] = p
  BY <1>1 DEF ViewTypeOK
<1>3. QED
  BY <1>1, <1>2 DEF Steps

LEMMA StepMoves ==
    ASSUME ViewTypeOK, NEW p \in PortIds, NEW d \in Detectors, PortOf[d] = p,
           NEW where \in {"persisted", "publish", "call", "ingest"},
           step' = [step EXCEPT ![p] = At(where, d)]
    PROVE  /\ step' \in [PortIds -> {Rest} \union Steps]
           /\ \A q \in PortIds : step'[q] # Rest => PortOf[step'[q].d] = q
           /\ step'[p] # Rest /\ step'[p].d = d
           /\ \A q \in PortIds \ {p} : step'[q] = step[q]
<1>1. At(where, d) \in Steps /\ At(where, d).d = d /\ At(where, d) # Rest
  BY DEF At, Steps, Rest
<1>2. step \in [PortIds -> {Rest} \union Steps]
      /\ \A q \in PortIds : step[q] # Rest => PortOf[step[q].d] = q
  BY DEF ViewTypeOK
<1>3. QED
  BY <1>1, <1>2

LEMMA StepRests ==
    ASSUME ViewTypeOK, NEW p \in PortIds, step' = [step EXCEPT ![p] = Rest]
    PROVE  /\ step' \in [PortIds -> {Rest} \union Steps]
           /\ \A q \in PortIds : step'[q] # Rest => PortOf[step'[q].d] = q
           /\ step'[p] = Rest /\ \A q \in PortIds \ {p} : step'[q] = step[q]
<1>1. step \in [PortIds -> {Rest} \union Steps]
      /\ \A q \in PortIds : step[q] # Rest => PortOf[step[q].d] = q
  BY DEF ViewTypeOK
<1>2. QED
  BY <1>1

\* What each action of a cycle does to the rows still to be opened.
LEMMA PersistDue ==
    ASSUME ViewTypeOK, NEW p \in PortIds, NEW d \in Detectors, NEW s \in Readings[kind][d],
           Persist(p, d, s)
    PROVE  /\ p \notin Due
           /\ Due' = IF OpensRow(d, s) THEN Due \union {p} ELSE Due
<1>1. p \notin Due
  BY DEF Persist, Due
<1>2. /\ step'[p] # Rest /\ step'[p].d = d /\ \A q \in PortIds \ {p} : step'[q] = step[q]
  BY StepMoves DEF Persist
<1>3. alarm' = alarm /\ table'[d] = s /\ \A e \in Detectors \ {d} : table'[e] = table[e]
  BY DEF Persist, ViewTypeOK
<1>4. \A e \in Detectors : \A t : OpensRow(e, t)' <=> OpensRow(e, t)
  BY <1>3 DEF OpensRow
<1>5. \A q \in PortIds \ {p} : step[q] # Rest =>
          step[q].d \in Detectors /\ step[q].d # d /\ step'[q] = step[q]
  <2>1. PortOf[d] = p
    BY DEF Persist
  <2>2. \A q \in PortIds : step[q] # Rest => step[q] \in Steps /\ PortOf[step[q].d] = q
    BY DEF ViewTypeOK
  <2>3. QED
    BY <1>2, <2>1, <2>2 DEF Steps
<1>6. \A q \in PortIds \ {p} : q \in Due' <=> q \in Due
  BY <1>2, <1>3, <1>5 DEF Due, OpensRow
<1>7. p \in Due' <=> OpensRow(d, s)
  BY <1>2, <1>3 DEF Due, OpensRow
<1>8. Due \subseteq PortIds /\ Due' \subseteq PortIds
  BY DEF Due
<1>9. QED
  BY <1>1, <1>6, <1>7, <1>8

LEMMA CycleDue ==
    ASSUME ViewTypeOK, NEW p \in PortIds, UpdateReadings(p) \/ CopyCallbacks(p) \/ CallBack(p)
    PROVE  Due' = Due
<1>1. UNCHANGED <<table, alarm>>
  BY DEF UpdateReadings, CopyCallbacks, CallBack
<1>2. step[p].at \in {"persisted", "publish", "call", "ingest"}
  BY DEF UpdateReadings, CopyCallbacks, CallBack
<1>3. \E where \in {"persisted", "publish", "call", "ingest"} :
          step' = [step EXCEPT ![p] = At(where, step[p].d)]
  BY DEF UpdateReadings, CopyCallbacks, CallBack
<1>4. /\ step[p] # Rest /\ step'[p] # Rest /\ step'[p].d = step[p].d
      /\ \A q \in PortIds \ {p} : step'[q] = step[q]
  <2>1. PICK where \in {"persisted", "publish", "call", "ingest"} :
            step' = [step EXCEPT ![p] = At(where, step[p].d)]
    BY <1>3
  <2>2. step[p].d \in Detectors /\ PortOf[step[p].d] = p /\ step[p] # Rest
    BY <1>2, CycleOf
  <2> DEFINE d == step[p].d
  <2> HIDE DEF d
  <2>3. step' = [step EXCEPT ![p] = At(where, d)] /\ d \in Detectors /\ PortOf[d] = p
    BY <2>1, <2>2 DEF d
  <2>4. step'[p] # Rest /\ step'[p].d = d /\ \A q \in PortIds \ {p} : step'[q] = step[q]
    BY <2>3, StepMoves, ZenonT(60)
  <2>5. QED
    BY <2>2, <2>4 DEF d
<1>5. QED
  BY <1>1, <1>4 DEF Due, OpensRow

LEMMA IngestDue ==
    ASSUME ViewTypeOK, NEW p \in PortIds, Ingest(p)
    PROVE  /\ Due' = Due \ {p}
           /\ p \in Due <=> OpensRow(step[p].d, table[step[p].d])
<1>1. step[p] # Rest /\ step[p].d \in Detectors /\ PortOf[step[p].d] = p
  BY CycleOf DEF Ingest
<1>2. /\ step'[p] = Rest /\ \A q \in PortIds \ {p} : step'[q] = step[q]
      /\ table' = table
  BY StepRests DEF Ingest
<1>3. \A e \in Detectors \ {step[p].d} : alarm'[e] = alarm[e]
  BY DEF Ingest, ViewTypeOK
<1>4. \A q \in PortIds \ {p} : step[q] # Rest => step[q].d \in Detectors \ {step[p].d}
  <2>1. \A q \in PortIds : step[q] # Rest => step[q] \in Steps /\ PortOf[step[q].d] = q
    BY DEF ViewTypeOK
  <2>2. QED
    BY <1>1, <2>1 DEF Steps
<1>5. \A q \in PortIds \ {p} : q \in Due' <=> q \in Due
  BY <1>2, <1>3, <1>4 DEF Due, OpensRow
<1>6. p \notin Due' /\ (p \in Due <=> OpensRow(step[p].d, table[step[p].d]))
  <2>1. p \notin Due'
    BY <1>2 DEF Due
  <2>2. p \in Due <=> OpensRow(step[p].d, table[step[p].d])
    BY <1>1 DEF Due
  <2>3. QED
    BY <2>1, <2>2
<1>7. Due \subseteq PortIds /\ Due' \subseteq PortIds
  BY DEF Due
<1>8. QED
  BY <1>5, <1>6, <1>7

\* A reading that opens a row finds room for it.
LEMMA RoomForRow ==
    ASSUME ViewTypeOK, RowIdsInv, NEW p \in Due
    PROVE  /\ Cardinality(Due \ {p}) = Cardinality(Due) - 1 /\ opened < MaxAlarms
           /\ opened + 1 + Cardinality(Due \ {p}) <= MaxAlarms
<1>1. Cardinality(Due \ {p}) = Cardinality(Due) - 1
  BY DueIsFinite, FS_RemoveElement
<1>2. IsFiniteSet(Due \ {p})
  BY DueIsFinite, FS_RemoveElement
<1>3. Cardinality(Due \ {p}) \in Nat /\ Cardinality(Due) \in Nat
  BY <1>2, DueIsFinite, FS_CardinalityType
<1>4. opened \in Nat /\ MaxAlarms \in Nat /\ opened + Cardinality(Due) <= MaxAlarms
  BY ViewAssumptions DEF ViewTypeOK, RowIdsInv
<1>5. QED
  BY <1>1, <1>3, <1>4

\* The parts of ViewTypeOK.
FlagsOK == {recent, subscribed, disposed, timer, loaded, error, rotating} \subseteq BOOLEAN
TablesOK ==
    /\ kind \in Kinds /\ pages \in PageChoices
    /\ acquisition \in {"running", "stopping", "stopped"}
    /\ step \in [PortIds -> {Rest} \union Steps]
    /\ \A p \in PortIds : step[p] # Rest => PortOf[step[p].d] = p
    /\ table \in [Detectors -> AllStatuses]
    /\ alarm \in [Detectors -> Rows] /\ opened \in 0..MaxAlarms /\ live \subseteq Detectors
GuiOK ==
    /\ queued \in 0..MaxQueued /\ phase \in {"idle", "reading", "between"}
    /\ got \in Displays /\ shown \in Displays
    /\ page \in ToSet(pages) \union {"alarm", "data"}
    /\ popups \subseteq AlarmIds /\ toasts \in [AlarmIds -> 0..2]

LEMMA TypeParts == ViewTypeOK <=> FlagsOK /\ TablesOK /\ GuiOK
BY Zenon DEF ViewTypeOK, FlagsOK, TablesOK, GuiOK

LEMMA FlagsStep == ViewTypeOK /\ [ViewNext]_realtimeVars => FlagsOK'
<1>1. SUFFICES ASSUME ViewTypeOK, [ViewNext]_realtimeVars PROVE FlagsOK'
  OBVIOUS
<1>2. /\ recent \in BOOLEAN /\ subscribed \in BOOLEAN /\ disposed \in BOOLEAN
      /\ timer \in BOOLEAN /\ loaded \in BOOLEAN /\ error \in BOOLEAN /\ rotating \in BOOLEAN
  BY <1>1, Zenon DEF ViewTypeOK
<1>3. ApplyBigscreen => rotating' \in BOOLEAN
  <2>1. (Len(pages) > 1) \in BOOLEAN
    BY SMT
  <2>2. QED
    BY <2>1, Zenon DEF ApplyBigscreen
<1> USE DEF ViewNext, realtimeVars, feedVars, busVars, viewVars, Work, Apply, Persist,
     UpdateReadings, CopyCallbacks, CallBack, Ingest, WindowEnds, StopAcquisition, Stopped,
     DeleteDetector, Load, Deliver, TimerFires, ReadFirst, ReadFails, ApplyMonitor, ApplyMap,
     Rotate, Dispose
<1>4. rotating' \in BOOLEAN
  BY <1>1, <1>2, <1>3, Zenon
<1> USE DEF ApplyBigscreen
<1>5. recent' \in BOOLEAN
  BY <1>1, <1>2, Zenon
<1>6. subscribed' \in BOOLEAN
  BY <1>1, <1>2, Zenon DEF Unsubscribe
<1>7. disposed' \in BOOLEAN
  BY <1>1, <1>2, Zenon
<1>8. timer' \in BOOLEAN
  BY <1>1, <1>2, Zenon DEF ScheduleRefresh, Again
<1>9. loaded' \in BOOLEAN
  BY <1>1, <1>2, Zenon
<1>10. error' \in BOOLEAN
  BY <1>1, <1>2, Zenon
<1>11. QED
  BY <1>4, <1>5, <1>6, <1>7, <1>8, <1>9, <1>10, Zenon DEF FlagsOK

LEMMA TablesStep ==
    ASSUME ViewTypeOK, RowIdsInv, [ViewNext]_realtimeVars PROVE TablesOK' /\ RowIdsInv'
<1>1. TablesOK
  BY TypeParts
<1>2. Cardinality(Due) \in Nat /\ IsFiniteSet(Due) /\ opened \in Nat /\ MaxAlarms \in Nat
  BY <1>1, DueIsFinite, ViewAssumptions DEF TablesOK
<1>3. ASSUME UNCHANGED <<kind, pages, step, table, alarm, opened>>, live' \subseteq live,
             acquisition' \in {"running", "stopping", "stopped"}
      PROVE  TablesOK' /\ RowIdsInv'
  <2>1. Due' = Due
    BY <1>3 DEF Due, OpensRow
  <2>2. TablesOK'
    BY <1>1, <1>3 DEF TablesOK
  <2>3. QED
    BY <1>3, <2>1, <2>2 DEF RowIdsInv
<1>4. ASSUME NEW p \in PortIds, NEW d \in Detectors, NEW s \in Readings[kind][d], Persist(p, d, s)
      PROVE  TablesOK' /\ RowIdsInv'
  <2>1. UNCHANGED <<kind, pages, acquisition, alarm, opened, live>>
    BY <1>4 DEF Persist
  <2>2. /\ step' \in [PortIds -> {Rest} \union Steps]
        /\ \A q \in PortIds : step'[q] # Rest => PortOf[step'[q].d] = q
    BY <1>4, StepMoves DEF Persist
  <2>3. table' \in [Detectors -> AllStatuses]
    BY <1>1, <1>4, KnownStatuses DEF Persist, TablesOK
  <2>4. TablesOK'
    BY <1>1, <2>1, <2>2, <2>3 DEF TablesOK
  <2>5. opened + Cardinality(Due') <= MaxAlarms
    <3>1. CASE OpensRow(d, s)
      <4>1. Due' = Due \union {p} /\ p \notin Due
        BY <1>4, <3>1, PersistDue
      <4>2. Cardinality(Due') = Cardinality(Due) + 1
        BY <1>2, <4>1, FS_AddElement
      <4>3. opened + Cardinality(Due) < MaxAlarms
        BY <1>4, <3>1 DEF Persist
      <4>4. QED
        BY <1>2, <4>2, <4>3
    <3>2. CASE ~ OpensRow(d, s)
      BY <1>4, <3>2, PersistDue DEF RowIdsInv
    <3>3. QED
      BY <3>1, <3>2
  <2>6. QED
    BY <2>1, <2>4, <2>5 DEF RowIdsInv
<1>5. ASSUME NEW p \in PortIds, UpdateReadings(p) \/ CopyCallbacks(p) \/ CallBack(p)
      PROVE  TablesOK' /\ RowIdsInv'
  <2>1. UNCHANGED <<kind, pages, acquisition, table, alarm, opened, live>>
    BY <1>5 DEF UpdateReadings, CopyCallbacks, CallBack
  <2>2. /\ step[p].at \in {"persisted", "publish", "call", "ingest"}
        /\ \E where \in {"persisted", "publish", "call", "ingest"} :
              step' = [step EXCEPT ![p] = At(where, step[p].d)]
    BY <1>5 DEF UpdateReadings, CopyCallbacks, CallBack
  <2>3. PICK where \in {"persisted", "publish", "call", "ingest"} :
            step' = [step EXCEPT ![p] = At(where, step[p].d)]
    BY <2>2
  <2>4. step[p].d \in Detectors /\ PortOf[step[p].d] = p
    BY <2>2, CycleOf
  <2> DEFINE d == step[p].d
  <2> HIDE DEF d
  <2>5. step' = [step EXCEPT ![p] = At(where, d)] /\ d \in Detectors /\ PortOf[d] = p
    BY <2>3, <2>4 DEF d
  <2>6. /\ step' \in [PortIds -> {Rest} \union Steps]
        /\ \A q \in PortIds : step'[q] # Rest => PortOf[step'[q].d] = q
    BY <2>5, StepMoves
  <2>7. TablesOK'
    BY <1>1, <2>1, <2>6 DEF TablesOK
  <2>8. QED
    BY <1>5, <2>1, <2>7, CycleDue DEF RowIdsInv
<1>6. ASSUME NEW p \in PortIds, Ingest(p) PROVE TablesOK' /\ RowIdsInv'
  <2> DEFINE d == step[p].d
             s == table[d]
             row == [id |-> opened + 1, type |-> s]
  <2>1. d \in Detectors
    BY <1>6, CycleOf DEF Ingest
  <2>2. UNCHANGED <<kind, pages, acquisition, table, live>>
    BY <1>6 DEF Ingest
  <2>3. /\ step' \in [PortIds -> {Rest} \union Steps]
        /\ \A q \in PortIds : step'[q] # Rest => PortOf[step'[q].d] = q
    BY <1>6, StepRests DEF Ingest
  <2>4. Due' = Due \ {p} /\ (p \in Due <=> OpensRow(d, s))
    BY <1>6, IngestDue
  <2>5. s \in AllStatuses
    BY <1>1, <2>1 DEF TablesOK
  <2>6. CASE OpensRow(d, s)
    <3>1. opened < MaxAlarms /\ opened + 1 + Cardinality(Due') <= MaxAlarms
      BY <2>4, <2>6, RoomForRow
    <3>2. opened' = opened + 1 /\ alarm' = [alarm EXCEPT ![d] = row] /\ s # "normal"
      BY <1>6, <2>6 DEF Ingest, OpensRow
    <3>3. row \in Rows
      BY <1>2, <2>5, <3>1 DEF Rows
    <3>4. row.id = opened + 1 /\ row.type = s
      OBVIOUS
    <3> HIDE DEF row, d, s
    <3>5. alarm' \in [Detectors -> Rows] /\ opened' \in 0..MaxAlarms
      <4>1. alarm' \in [Detectors -> Rows]
        BY <1>1, <3>2, <3>3 DEF TablesOK
      <4>2. opened' \in 0..MaxAlarms
        BY <1>2, <3>1, <3>2
      <4>3. QED
        BY <4>1, <4>2
    <3>6. TablesOK'
      BY <1>1, <2>2, <2>3, <3>5 DEF TablesOK
    <3>7. alarm'[d] = row /\ \A e \in Detectors \ {d} : alarm'[e] = alarm[e]
      BY <1>1, <2>1, <3>2 DEF TablesOK
    <3>8. \A e \in Detectors : alarm[e].id \in Nat /\ alarm[e].id <= opened
      BY <1>1 DEF TablesOK, Rows, RowIdsInv
    <3>9. \A e \in Detectors : alarm'[e].id <= opened' /\ (alarm'[e].id = 0 => alarm'[e].type = "normal")
      BY <1>2, <3>2, <3>4, <3>7, <3>8 DEF RowIdsInv
    <3>10. \A e, f \in Detectors : alarm'[e].id = alarm'[f].id /\ alarm'[e].id # 0 => e = f
      <4>1. SUFFICES ASSUME NEW e \in Detectors, NEW f \in Detectors,
                            alarm'[e].id = alarm'[f].id, alarm'[e].id # 0
                     PROVE  e = f
        OBVIOUS
      <4>2. CASE e # d /\ f # d
        BY <3>7, <4>1, <4>2 DEF RowIdsInv
      <4>3. \A g \in Detectors \ {d} : alarm'[g].id # opened + 1
        BY <1>2, <3>7, <3>8
      <4>4. alarm'[d].id = opened + 1
        BY <3>4, <3>7
      <4>5. QED
        BY <4>1, <4>2, <4>3, <4>4
    <3>11. QED
      BY <3>1, <3>2, <3>6, <3>9, <3>10 DEF RowIdsInv
  <2>7. CASE ~ OpensRow(d, s)
    <3>1. opened' = opened /\ Due' = Due
      BY <1>6, <2>4, <2>7 DEF Ingest
    <3>2. alarm' = [alarm EXCEPT ![d] = IF s = "normal" THEN NoRow ELSE @]
      BY <1>6, <2>7 DEF Ingest
    <3>3. NoRow \in Rows /\ NoRow.id = 0 /\ NoRow.type = "normal"
      BY KnownStatuses, <1>2 DEF NoRow, Rows
    <3> HIDE DEF d, s
    <3>4. \A e \in Detectors : alarm'[e] = alarm[e] \/ alarm'[e] = NoRow
      BY <1>1, <3>2 DEF TablesOK
    <3>5. alarm' \in [Detectors -> Rows]
      BY <1>1, <2>1, <3>2, <3>3 DEF TablesOK
    <3>6. TablesOK'
      BY <1>1, <2>2, <2>3, <3>1, <3>5 DEF TablesOK
    <3>7. \A e \in Detectors : alarm'[e].id <= opened' /\ (alarm'[e].id = 0 => alarm'[e].type = "normal")
      BY <1>2, <3>1, <3>3, <3>4 DEF RowIdsInv
    <3>8. \A e, f \in Detectors : alarm'[e].id = alarm'[f].id /\ alarm'[e].id # 0 => e = f
      BY <3>3, <3>4 DEF RowIdsInv
    <3>9. QED
      BY <3>1, <3>6, <3>7, <3>8 DEF RowIdsInv
  <2>8. QED
    BY <2>6, <2>7
<1>7. CASE StopAcquisition \/ Stopped \/ \E d \in Detectors : DeleteDetector(d)
  <2>1. UNCHANGED <<kind, pages, step, table, alarm, opened>>
    BY <1>7, Zenon DEF StopAcquisition, Stopped, DeleteDetector
  <2>2. live' \subseteq live /\ acquisition' \in {"running", "stopping", "stopped"}
    BY <1>1, <1>7 DEF StopAcquisition, Stopped, DeleteDetector, TablesOK
  <2>3. QED
    BY <1>3, <2>1, <2>2
<1>8. CASE WindowEnds \/ Load \/ Deliver \/ TimerFires \/ ReadFirst \/ ReadFails \/ Apply
           \/ Rotate \/ Dispose \/ UNCHANGED realtimeVars
  <2>1. UNCHANGED <<kind, pages, acquisition, step, table, alarm, opened, live>>
    BY <1>8, Zenon DEF WindowEnds, Load, Deliver, TimerFires, ReadFirst, ReadFails, Apply, ApplyMonitor,
       ApplyMap, ApplyBigscreen, Rotate, Dispose, realtimeVars, feedVars
  <2>2. QED
    BY <1>1, <1>3, <2>1 DEF TablesOK
<1>9. QED
  BY <1>4, <1>5, <1>6, <1>7, <1>8 DEF ViewNext, Work

\* The natural numbers are well founded, so a set of them has a least element.
LT == {ss \in Nat \X Nat : ss[1] < ss[2]}

LEMMA LessIsWellFounded == IsWellFoundedOn(LT, Nat)
<1>1. LT = OpToRel(<, Nat)
  BY Zenon DEF LT, OpToRel
<1>2. QED
  BY <1>1, NatLessThanWellFounded, Zenon

LEMMA MinIsLeast ==
    ASSUME NEW T \in SUBSET Nat, T # {} PROVE Min(T) \in T /\ \A y \in T : Min(T) <= y
<1>1. PICK x \in T : \A y \in T : ~ (<<y, x>> \in LT)
  BY LessIsWellFounded, WFMin, Zenon
<1>2. ASSUME NEW y \in T PROVE x <= y
  <2>1. y < x => <<y, x>> \in LT
    BY DEF LT
  <2>2. QED
    BY <1>1, <2>1
<1>3. QED
  BY <1>1, <1>2 DEF Min

\* The alarm page is not one of the configured pages, of which there is at least one.
LEMMA ConfiguredPages ==
    ASSUME ViewTypeOK
    PROVE  /\ Len(pages) \in Nat /\ Len(pages) >= 1 /\ DOMAIN pages = 1..Len(pages)
           /\ \A i \in 1..Len(pages) : pages[i] \in ToSet(pages) /\ pages[i] # "alarm"
           /\ Head(pages) \in ToSet(pages) /\ Head(pages) # "alarm"
<1>1. pages \in Seq(SUPPORTED_PAGES) /\ pages # <<>>
  BY ViewAssumptions DEF ViewTypeOK
<1>2. Len(pages) \in Nat /\ Len(pages) >= 1 /\ DOMAIN pages = 1..Len(pages) /\ Head(pages) = pages[1]
  BY <1>1
<1>3. \A i \in 1..Len(pages) : pages[i] \in SUPPORTED_PAGES
  BY <1>1
<1>4. \A i \in 1..Len(pages) : pages[i] \in ToSet(pages) /\ pages[i] # "alarm"
  BY <1>2, <1>3 DEF ToSet, SUPPORTED_PAGES
<1>5. QED
  BY <1>2, <1>4

\* The rotator turns to a configured page.
LEMMA TurnedIsConfigured ==
    ASSUME ViewTypeOK PROVE Turned \in ToSet(pages) /\ Turned # "alarm"
<1> DEFINE places == {Len(pages)} \union {i \in DOMAIN pages : pages[i] = page}
<1>1. places \in SUBSET (1..Len(pages)) /\ places \in SUBSET Nat /\ places # {}
  BY ConfiguredPages
<1>2. Index(page) \in 1..Len(pages)
  <2>1. Index(page) = Min(places)
    BY DEF Index
  <2> HIDE DEF places
  <2>2. Min(places) \in places
    BY <1>1, MinIsLeast
  <2>3. QED
    BY <1>1, <2>1, <2>2
<1>3. CASE Index(page) = Len(pages)
  BY <1>3, ConfiguredPages DEF Turned
<1>4. CASE Index(page) # Len(pages)
  <2>1. Index(page) + 1 \in 1..Len(pages)
    BY <1>2, <1>4, ConfiguredPages
  <2>2. QED
    BY <1>4, <2>1, ConfiguredPages DEF Turned
<1>5. QED
  BY <1>3, <1>4

\* The focus is the row of an active alarm, or none.
LEMMA FocusFits == ASSUME ViewTypeOK PROVE Focus \in 0..MaxAlarms
<1>1. alarm \in [Detectors -> Rows] /\ Active \subseteq Detectors
  BY DEF ViewTypeOK, Active
<1>2. CASE \E d \in Active : d \in live /\ \A e \in Active \ {d} : MoreUrgent(d, e)
  <2> DEFINE first == CHOOSE d \in Active : \A e \in Active \ {d} : MoreUrgent(d, e)
  <2>1. first \in Active
    BY <1>2
  <2>2. Focus = alarm[first].id
    BY <1>2 DEF Focus
  <2> HIDE DEF first
  <2>3. QED
    BY <1>1, <2>1, <2>2 DEF Rows
<1>3. CASE ~ \E d \in Active : d \in live /\ \A e \in Active \ {d} : MoreUrgent(d, e)
  BY <1>3, ViewAssumptions DEF Focus, NoFocus
<1>4. QED
  BY <1>2, <1>3

\* What a refresh reads, and what the monitoring page makes of it.
LEMMA ReadsFit ==
    ASSUME ViewTypeOK
    PROVE  /\ ReadStatuses \in Displays /\ ReadStatuses.focus = NoFocus
           /\ ReadAlarms \in Displays
           /\ kind # "bigscreen" => ReadAlarms.focus = NoFocus
           /\ \A display \in Displays :
                 LET known == [display EXCEPT !.alarms = alarm, !.acquisition = Status]
                 IN  known \in Displays /\ known.focus = display.focus
<1>1. /\ alarm \in [Detectors -> Rows] /\ table \in [Detectors -> AllStatuses]
      /\ Blank \in Displays /\ Blank.focus = NoFocus /\ Focus \in 0..MaxAlarms
      /\ NoFocus \in 0..MaxAlarms
  BY BlankDisplay, FocusFits, ViewAssumptions DEF ViewTypeOK, NoFocus
<1>2. table \in [Detectors -> AllStatuses \union {"none"}]
  BY <1>1
<1>3. ReadStatuses \in Displays /\ ReadStatuses.focus = NoFocus
  BY <1>1, <1>2 DEF ReadStatuses, Displays
<1>4. ReadAlarms \in Displays /\ (kind # "bigscreen" => ReadAlarms.focus = NoFocus)
  BY <1>1 DEF ReadAlarms, Displays
<1>5. Status \in {"none", "running", "stopped"}
  BY DEF Status
<1>6. QED
  BY <1>1, <1>3, <1>4, <1>5 DEF Displays

\* The keys of the popups are ids of rows.
LEMMA EligibleAreRows ==
    ASSUME ViewTypeOK, RowIdsInv
    PROVE  /\ Eligible(alarm) \subseteq AlarmIds
           /\ \A a \in Eligible(alarm) :
                 a <= opened /\ \A d \in Detectors : alarm[d].id = a => alarm[d].type \in PopupStatuses
           /\ \A a \in AlarmIds, d \in Detectors :
                 alarm[d].id = a /\ alarm[d].type \in PopupStatuses => a \in Eligible(alarm)
<1>1. /\ \A d \in Detectors : alarm[d] \in Rows /\ alarm[d].id \in 0..MaxAlarms /\ alarm[d].id <= opened
      /\ \A d \in Detectors : alarm[d].id = 0 => alarm[d].type \notin PopupStatuses
  BY KnownStatuses DEF ViewTypeOK, RowIdsInv, Rows
<1>2. ASSUME NEW a \in Eligible(alarm)
      PROVE  a \in AlarmIds /\ a <= opened
             /\ \A d \in Detectors : alarm[d].id = a => alarm[d].type \in PopupStatuses
  <2>1. PICK e \in Detectors : alarm[e].type \in PopupStatuses /\ alarm[e].id = a
    BY <1>2 DEF Eligible
  <2>2. a # 0 /\ a \in 0..MaxAlarms /\ a <= opened
    BY <1>1, <2>1
  <2>3. a \in AlarmIds
    BY <2>2, ViewAssumptions DEF AlarmIds
  <2>4. \A d \in Detectors : alarm[d].id = a => d = e
    BY <2>1, <2>2 DEF RowIdsInv
  <2>5. QED
    BY <2>1, <2>2, <2>3, <2>4
<1>3. \A a \in AlarmIds, d \in Detectors :
          alarm[d].id = a /\ alarm[d].type \in PopupStatuses => a \in Eligible(alarm)
  BY DEF Eligible
<1>4. QED
  BY <1>2, <1>3

LEMMA NotifyStep ==
    ASSUME ViewTypeOK, RowIdsInv, PopupInv, ApplyMonitor
    PROVE  /\ popups' \subseteq AlarmIds /\ toasts' \in [AlarmIds -> 0..2]
           /\ PopupInv'
<1>1. /\ popups' = Eligible(alarm) /\ UNCHANGED <<alarm, opened>>
      /\ toasts' = [a \in AlarmIds |-> IF a \in Eligible(alarm) \ popups /\ toasts[a] < 2
                                         THEN toasts[a] + 1 ELSE toasts[a]]
  BY DEF ApplyMonitor, Notify, feedVars
<1>2. toasts \in [AlarmIds -> 0..2]
  BY DEF ViewTypeOK
<1>3. popups' \subseteq AlarmIds /\ toasts' \in [AlarmIds -> 0..2]
  BY <1>1, <1>2, EligibleAreRows
<1>4. ASSUME NEW a \in AlarmIds
      PROVE  /\ toasts'[a] \in {0, 1}
             /\ toasts'[a] # 0 =>
                   a <= opened /\ \A d \in Detectors : alarm[d].id = a =>
                                      a \in popups' /\ alarm[d].type \in PopupStatuses
  <2>1. toasts[a] \in {0, 1}
    BY DEF PopupInv
  <2>2. CASE a \in Eligible(alarm) \ popups
    <3>1. PICK e \in Detectors : alarm[e].id = a
      BY <2>2 DEF Eligible
    <3>2. toasts[a] = 0
      BY <2>1, <2>2, <3>1 DEF PopupInv
    <3>3. toasts'[a] = 1
      BY <1>1, <2>2, <3>2
    <3>4. QED
      BY <1>1, <2>2, <3>3, EligibleAreRows
  <2>3. CASE a \notin Eligible(alarm) \ popups
    <3>1. toasts'[a] = toasts[a]
      BY <1>1, <2>3
    <3>2. QED
      BY <1>1, <2>1, <3>1, EligibleAreRows DEF PopupInv
  <2>4. QED
    BY <2>2, <2>3
<1>5. AlarmIds' = AlarmIds
  BY DEF AlarmIds
<1>6. PopupInv'
  BY <1>1, <1>4, <1>5 DEF PopupInv
<1>7. QED
  BY <1>3, <1>6

\* A row keeps its popup: only a refresh of the monitoring page opens or closes
\* popups, and only the ingestion of a reading changes the rows.
LEMMA PopupStep ==
    ASSUME ViewTypeOK, RowIdsInv, PopupInv, [ViewNext]_realtimeVars PROVE PopupInv'
<1>1. ASSUME UNCHANGED <<alarm, opened, popups, toasts>> PROVE PopupInv'
  BY <1>1 DEF PopupInv, AlarmIds
<1>2. ASSUME NEW p \in PortIds, Ingest(p) PROVE PopupInv'
  <2> DEFINE d == step[p].d
             s == table[d]
  <2>1. UNCHANGED <<popups, toasts>> /\ opened \in Nat
    BY <1>2 DEF Ingest, viewVars, ViewTypeOK
  <2>2. opened' = opened + 1 \/ opened' = opened
    BY <1>2 DEF Ingest
  <2>3. alarm' = [alarm EXCEPT ![d] = CASE s = "normal" -> NoRow
                                        [] OpensRow(d, s) -> [id |-> opened + 1, type |-> s]
                                        [] OTHER -> @]
    BY <1>2 DEF Ingest
  <2> HIDE DEF d, s
  <2>4. \A e \in Detectors : alarm'[e] = alarm[e] \/ alarm'[e].id = 0 \/ alarm'[e].id = opened + 1
    BY <2>3 DEF ViewTypeOK, NoRow
  <2>5. ASSUME NEW a \in AlarmIds, toasts[a] # 0
        PROVE  a <= opened' /\ \A e \in Detectors : alarm'[e].id = a =>
                                   a \in popups /\ alarm'[e].type \in PopupStatuses
    <3>1. a <= opened /\ a # 0 /\ a \in Nat
      BY <2>5, ViewAssumptions DEF PopupInv, AlarmIds
    <3>2. \A e \in Detectors : alarm'[e].id = a => alarm'[e] = alarm[e]
      BY <2>1, <2>4, <3>1
    <3>3. QED
      BY <2>1, <2>2, <2>5, <3>1, <3>2 DEF PopupInv
  <2>6. QED
    BY <2>1, <2>5 DEF PopupInv, AlarmIds
<1>3. CASE ApplyMonitor
  BY <1>3, NotifyStep
<1>4. CASE \E p \in PortIds : Work(p)
  <2>1. PICK p \in PortIds : Work(p)
    BY <1>4
  <2>2. Ingest(p) \/ UNCHANGED <<alarm, opened, popups, toasts>>
    BY <2>1, Zenon DEF Work, Persist, UpdateReadings, CopyCallbacks, CallBack, viewVars
  <2>3. QED
    BY <1>1, <1>2, <2>2
<1>5. CASE \/ WindowEnds \/ StopAcquisition \/ Stopped \/ \E d \in Detectors : DeleteDetector(d)
           \/ Load \/ Deliver \/ TimerFires \/ ReadFirst \/ ReadFails \/ ApplyMap \/ ApplyBigscreen
           \/ Rotate \/ Dispose \/ UNCHANGED realtimeVars
  <2>1. UNCHANGED <<alarm, opened, popups, toasts>>
    BY <1>5, Zenon DEF WindowEnds, StopAcquisition, Stopped, DeleteDetector, Load, Deliver,
       TimerFires, ReadFirst, ReadFails, ApplyMap, ApplyBigscreen, Rotate, Dispose,
       realtimeVars, feedVars, viewVars
  <2>2. QED
    BY <1>1, <2>1
<1>6. QED
  BY <1>3, <1>4, <1>5 DEF ViewNext, Apply

\* The page of the bigscreen follows its snapshot, and what was read is a display.
LEMMA FocusStep ==
    ASSUME ViewTypeOK, FocusInv, [ViewNext]_realtimeVars
    PROVE  /\ got' \in Displays /\ shown' \in Displays
           /\ page' \in ToSet(pages) \union {"alarm", "data"}
           /\ FocusInv'
<1>1. /\ got \in Displays /\ shown \in Displays /\ page \in ToSet(pages) \union {"alarm", "data"}
      /\ kind # "bigscreen" => shown.focus = NoFocus /\ got.focus = NoFocus
      /\ page = "alarm" <=> shown.focus # NoFocus
  BY DEF ViewTypeOK, FocusInv, AlarmPageWhileFocus
<1>2. Blank \in Displays /\ Blank.focus = NoFocus
  BY BlankDisplay
<1>3. kind' = kind /\ NoFocus' = NoFocus
  <2>1. kind' = kind
    BY Zenon DEF ViewNext, Work, Persist, UpdateReadings, CopyCallbacks, CallBack, Ingest,
       WindowEnds, StopAcquisition, Stopped, DeleteDetector, Load, Deliver, TimerFires, ReadFirst,
       ReadFails, Apply, ApplyMonitor, ApplyMap, ApplyBigscreen, Rotate, Dispose, realtimeVars
  <2>2. QED
    BY <2>1 DEF NoFocus
<1>4. ASSUME /\ got' \in Displays /\ shown' \in Displays
             /\ page' \in ToSet(pages) \union {"alarm", "data"}
             /\ kind # "bigscreen" => shown'.focus = NoFocus /\ got'.focus = NoFocus
             /\ page' = "alarm" <=> shown'.focus # NoFocus
      PROVE  /\ got' \in Displays /\ shown' \in Displays
             /\ page' \in ToSet(pages) \union {"alarm", "data"} /\ FocusInv'
  BY <1>3, <1>4 DEF FocusInv, AlarmPageWhileFocus
<1>5. CASE ReadFirst
  <2>1. UNCHANGED <<shown, page>> /\ (got' = ReadStatuses \/ got' = ReadAlarms)
        /\ (kind # "monitor" => got' = ReadAlarms)
    BY <1>5 DEF ReadFirst
  <2>2. got' \in Displays /\ (kind # "bigscreen" => got'.focus = NoFocus)
    BY <2>1, ReadsFit
  <2>3. QED
    BY <1>1, <1>4, <2>1, <2>2
<1>6. CASE ReadFails
  <2>1. got' = Blank /\ page' = page /\ (shown' = shown \/ (kind = "map" /\ shown' = Blank))
    BY <1>6 DEF ReadFails
  <2>2. kind = "map" => kind # "bigscreen"
    OBVIOUS
  <2>3. QED
    BY <1>1, <1>2, <1>4, <2>1, <2>2
<1>7. CASE ApplyMonitor
  <2>1. got' = Blank /\ page' = page /\ kind = "monitor"
        /\ shown' = [got EXCEPT !.alarms = alarm, !.acquisition = Status]
    BY <1>7 DEF ApplyMonitor
  <2>2. shown' \in Displays /\ shown'.focus = got.focus
    BY <1>1, <2>1, ReadsFit
  <2>3. QED
    BY <1>1, <1>2, <1>4, <2>1, <2>2
<1>8. CASE ApplyMap
  <2>1. got' = Blank /\ page' = page /\ kind = "map" /\ shown' = got
    BY <1>8 DEF ApplyMap
  <2>2. QED
    BY <1>1, <1>2, <1>4, <2>1
<1>9. CASE ApplyBigscreen
  <2>1. got' = Blank /\ kind = "bigscreen" /\ shown' = got
        /\ page' = CASE got.focus # NoFocus -> "alarm"
                     [] got.focus = NoFocus /\ ~ Contains(pages, page) -> Head(pages)
                     [] OTHER -> page
    BY <1>9 DEF ApplyBigscreen, ShowFocus
  <2>2. Contains(pages, page) => page \in ToSet(pages) /\ page # "alarm"
    BY ConfiguredPages DEF Contains
  <2>3. page' \in ToSet(pages) \union {"alarm", "data"} /\ (page' = "alarm" <=> got.focus # NoFocus)
    <3>1. CASE got.focus # NoFocus
      BY <2>1, <3>1
    <3>2. CASE got.focus = NoFocus /\ ~ Contains(pages, page)
      BY <2>1, <3>2, ConfiguredPages
    <3>3. CASE got.focus = NoFocus /\ Contains(pages, page)
      BY <2>1, <2>2, <3>3
    <3>4. QED
      BY <3>1, <3>2, <3>3
  <2>4. QED
    BY <1>1, <1>2, <1>4, <2>1, <2>3
<1>10. CASE Rotate
  <2>1. UNCHANGED <<got, shown>> /\ page' = IF shown.focus # NoFocus THEN "alarm" ELSE Turned
    BY <1>10 DEF Rotate, NextPage
  <2>2. page' \in ToSet(pages) \union {"alarm", "data"} /\ (page' = "alarm" <=> shown.focus # NoFocus)
    BY <2>1, TurnedIsConfigured
  <2>3. QED
    BY <1>1, <1>4, <2>1, <2>2
<1>11. CASE \/ \E p \in PortIds : Work(p)
            \/ WindowEnds \/ StopAcquisition \/ Stopped \/ \E d \in Detectors : DeleteDetector(d)
            \/ Load \/ Deliver \/ TimerFires \/ Dispose \/ UNCHANGED realtimeVars
  <2>1. UNCHANGED <<got, shown, page>>
    BY <1>11, Zenon DEF Work, Persist, UpdateReadings, CopyCallbacks, CallBack, Ingest,
       WindowEnds, StopAcquisition, Stopped, DeleteDetector, Load, Deliver, TimerFires, Dispose,
       realtimeVars, viewVars
  <2>2. QED
    BY <1>1, <1>4, <2>1
<1>12. QED
  BY <1>5, <1>6, <1>7, <1>8, <1>9, <1>10, <1>11 DEF ViewNext, Apply

LEMMA GuiStep ==
    ASSUME ViewTypeOK, RowIdsInv, PopupInv, FocusInv, [ViewNext]_realtimeVars PROVE GuiOK'
<1>1. GuiOK /\ MaxQueued \in Nat /\ MaxQueued # 0
  BY TypeParts, ViewAssumptions
<1>2. queued' \in 0..MaxQueued
  <2>1. \/ queued' = queued
        \/ Emit
        \/ queued > 0 /\ queued' = queued - 1
    BY Zenon DEF ViewNext, Work, Persist, UpdateReadings, CopyCallbacks, CallBack, Ingest,
       WindowEnds, StopAcquisition, Stopped, DeleteDetector, Load, Deliver, TimerFires, ReadFirst,
       ReadFails, Apply, ApplyMonitor, ApplyMap, ApplyBigscreen, Rotate, Dispose, realtimeVars,
       busVars
  <2>2. QED
    BY <1>1, <2>1 DEF Emit, GuiOK
<1>3. phase' \in {"idle", "reading", "between"}
  BY <1>1, Zenon DEF GuiOK, ViewNext, Work, Persist, UpdateReadings, CopyCallbacks, CallBack, Ingest,
     WindowEnds, StopAcquisition, Stopped, DeleteDetector, Load, Deliver, TimerFires, ReadFirst,
     ReadFails, Apply, ApplyMonitor, ApplyMap, ApplyBigscreen, Rotate, Dispose, realtimeVars,
     viewVars
<1>4. pages' = pages
  BY Zenon DEF ViewNext, Work, Persist, UpdateReadings, CopyCallbacks, CallBack, Ingest,
     WindowEnds, StopAcquisition, Stopped, DeleteDetector, Load, Deliver, TimerFires, ReadFirst,
     ReadFails, Apply, ApplyMonitor, ApplyMap, ApplyBigscreen, Rotate, Dispose, realtimeVars
<1>5. popups' \subseteq AlarmIds /\ toasts' \in [AlarmIds -> 0..2]
  <2>1. CASE ApplyMonitor
    BY <2>1, NotifyStep
  <2>2. CASE ~ ApplyMonitor
    <3>1. UNCHANGED <<popups, toasts>>
      BY <2>2, Zenon DEF ViewNext, Work, Persist, UpdateReadings, CopyCallbacks, CallBack, Ingest,
         WindowEnds, StopAcquisition, Stopped, DeleteDetector, Load, Deliver, TimerFires, ReadFirst,
         ReadFails, Apply, ApplyMap, ApplyBigscreen, Rotate, Dispose, realtimeVars, viewVars
    <3>2. QED
      BY <1>1, <3>1 DEF GuiOK
  <2>3. QED
    BY <2>1, <2>2
<1>6. /\ got' \in Displays /\ shown' \in Displays
      /\ page' \in ToSet(pages) \union {"alarm", "data"}
  BY FocusStep
<1>7. AlarmIds' = AlarmIds /\ Displays' = Displays /\ ToSet(pages)' = ToSet(pages)
  BY <1>4 DEF AlarmIds, Displays, Rows, AllStatuses, ToSet
<1>8. QED
  BY <1>2, <1>3, <1>5, <1>6, <1>7 DEF GuiOK

\* With the types, the ids of the alarms, the popups and the focus, all of it inductive.
THEOREM ViewInvariance == ViewSpec => []ViewInv
<1>1. ASSUME ViewInv, [ViewNext]_realtimeVars PROVE ViewInv'
  <2>1. ViewTypeOK /\ RowIdsInv /\ PopupInv /\ FocusInv
    BY <1>1 DEF ViewInv
  <2>2. FlagsOK' /\ TablesOK' /\ RowIdsInv'
    BY <1>1, <2>1, FlagsStep, TablesStep
  <2>3. GuiOK'
    BY <1>1, <2>1, GuiStep
  <2>4. PopupInv' /\ FocusInv'
    BY <1>1, <2>1, PopupStep, FocusStep
  <2>5. ViewTypeOK'
    BY <2>2, <2>3, TypeParts, PTL
  <2>6. QED
    BY <2>2, <2>4, <2>5 DEF ViewInv
<1>2. QED
  BY <1>1, ViewStarts, PTL DEF ViewSpec

\* A view shows what its last snapshot says: one popup for one row of alarm_records,
\* however often the page is refreshed or fails to be, and the bigscreen's alarm
\* page exactly while there is a focus, for every set of detectors and ports and
\* every setting of the pages.
THEOREM ViewFollowsSnapshotAlways == ViewSpec => []ViewFollowsSnapshot
<1>1. ViewInv => ViewFollowsSnapshot
  <2>1. SUFFICES ASSUME ViewInv PROVE ViewFollowsSnapshot
    OBVIOUS
  <2>2. PopupOncePerPeriod
    BY <2>1 DEF ViewInv, PopupInv, PopupOncePerPeriod
  <2>3. QED
    BY <2>1, <2>2 DEF ViewInv, FocusInv, ViewFollowsSnapshot
<1>2. QED
  BY <1>1, ViewInvariance, PTL
=============================================================================

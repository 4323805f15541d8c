----------------------------- MODULE PortWorker -----------------------------
(***************************************************************************)
(* One port worker (device/polling/port_worker.py) with its channel        *)
(* (device/channels/tcp_channel.py) and the devices behind it: the polling *)
(* cycle, failure counting, reconnection, offline marking, and the three   *)
(* steps that take a reading to the database, the state store and the      *)
(* alarm service.  AlarmIngest models the last of these in detail.         *)
(***************************************************************************)
EXTENDS Naturals

CONSTANTS N,            \* detectors 1..N, in the order of the requests of a cycle
          Unit,         \* Unit[d]: the Modbus unit address that answers for d
          Threshold,    \* failure_threshold
          Statuses,     \* what a device may report; "normal" is one of them
          Setups        \* how installations differ: the modes their devices may be
                        \* in, and whether a database write may raise

Detectors == 1..N
None      == [from |-> 0, status |-> "none"]
Bad       == [from |-> 0, status |-> "bad"]
Frames    == [from : Detectors, status : Statuses]
Offline   == [from |-> 0, status |-> "offline"]
Readings  == Frames \union {Offline, None}
Modes     == {"ok", "slow", "silent", "garbled"}

ASSUME PortWorkerAssumption ==
    /\ N \in Nat \ {0} /\ Threshold \in Nat \ {0}
    /\ DOMAIN Unit = Detectors
    /\ Setups \subseteq [modes : SUBSET Modes, dbMayFail : BOOLEAN]
    /\ "normal" \in Statuses /\ Statuses \cap {"none", "bad", "offline"} = {}

VARIABLES setup,        \* the installation: never changes
          pc,           \* where run() is
          part,         \* which list _persist_and_publish is working on
          next,         \* the request of the cycle being sent; N + 1 after the last
          opened,       \* _opened
          fresh,        \* the channel poll_once took at its start is still open
          failures,     \* _failures_by_detector, counted up to Threshold
          offlineIds,   \* _offline_detector_ids
          failing,      \* _consecutive_failures > 0
          valid,        \* valid_readings of the cycle, by detector
          offline,      \* detectors with an entry in offline_readings
          cancelled,    \* the worker's token
          snapshot,     \* realtime_snapshots
          published,    \* StateStore
          alarm,        \* the condition the alarm service last ingested
          seen,         \* history: detectors this worker object has persisted
          link,         \* the gateway or cable: "up" or "down"
          conn,         \* the connection under the open channel
          late,         \* a frame in the receive buffer, answer to an older request
          mode          \* mode[d]: how the device of d behaves now

cycleVars  == <<part, next, fresh, valid, offline>>
countVars  == <<failures, offlineIds, failing>>
storeVars  == <<snapshot, published, alarm, seen>>
deviceVars == <<setup, link, mode>>
vars == <<pc, opened, cancelled, conn, late, cycleVars, countVars, storeVars, deviceVars>>

NoReadings == [d \in Detectors |-> None]

Init == /\ setup \in Setups
        /\ pc = "opening" /\ part = "valid" /\ next = 1 /\ opened = FALSE /\ fresh = FALSE
        /\ failures = [d \in Detectors |-> 0] /\ offlineIds = {} /\ failing = FALSE
        /\ valid = NoReadings /\ offline = {} /\ cancelled = FALSE
        /\ snapshot = NoReadings /\ published = NoReadings
        /\ alarm = [d \in Detectors |-> "none"] /\ seen = {}
        /\ link = "up" /\ conn = "none" /\ late = None
        /\ mode = [d \in Detectors |-> "ok"]

Ended == pc \in {"closed", "dead"}
-----------------------------------------------------------------------------
(* run(): open, loop until cancelled, close.                               *)

\* open() on a port that is not open: a new channel object each time.
OpenSucceeds == link = "up" /\ opened' = TRUE /\ conn' = "live" /\ failing' = FALSE
OpenRaises   == link = "down" /\ opened' = FALSE /\ conn' = "none" /\ failing' = TRUE

RunOpens ==
    /\ pc = "opening"
    /\ \/ OpenSucceeds /\ pc' = "top"
       \/ OpenRaises /\ pc' = "dead"
    /\ UNCHANGED <<cancelled, late, cycleVars, failures, offlineIds, storeVars, deviceVars>>

\* close(): the channel is dropped with whatever its buffer holds.
CloseChannel == opened' = FALSE /\ conn' = "none" /\ late' = None

RunEnds ==
    /\ pc = "top" /\ cancelled
    /\ pc' = "closed" /\ CloseChannel
    /\ UNCHANGED <<cancelled, cycleVars, countVars, storeVars, deviceVars>>

\* poll_once opens the port itself when the last reconnection failed; an
\* error here is not caught and ends run().
BeginCycle ==
    /\ pc = "top" /\ ~ cancelled
    /\ \/ opened /\ pc' = "cycle" /\ fresh' = TRUE /\ UNCHANGED <<opened, conn, failing>>
       \/ ~ opened /\ OpenSucceeds /\ pc' = "cycle" /\ fresh' = TRUE
       \/ ~ opened /\ OpenRaises /\ pc' = "dead" /\ UNCHANGED fresh
    /\ next' = 1 /\ valid' = NoReadings /\ offline' = {} /\ part' = "valid"
    /\ UNCHANGED <<cancelled, late, failures, offlineIds, storeVars, deviceVars>>
-----------------------------------------------------------------------------
(* One request of the cycle.                                               *)

Sending(d) == pc = "cycle" /\ next = d /\ d \in Detectors

\* The channel answers at all: it is the open one and its peer is there.
Talking(d) == Sending(d) /\ fresh /\ conn = "live"

\* validate_response: the frame must carry the unit address of the request;
\* a response does not name the registers it answers for.
\* Mutant: the unit address is not compared.
BugAccepts(d, frame) == frame # Bad
Accepts(d, frame) == frame # Bad /\ Unit[frame.from] = Unit[d]

\* _record_success, and the reading joins valid_readings.
RecordSuccess(d, frame) ==
    /\ valid' = [valid EXCEPT ![d] = frame]
    /\ failures' = [failures EXCEPT ![d] = 0]
    /\ offlineIds' = offlineIds \ {d}
    /\ failing' = FALSE

\* An invalid response counts neither as a success nor as a failure.
TakeFrame(d, frame) ==
    IF Accepts(d, frame) THEN RecordSuccess(d, frame) ELSE UNCHANGED <<valid, countVars>>

NextRequest == next' = next + 1 /\ UNCHANGED <<pc, part, cancelled, storeVars, deviceVars>>

\* The device answers in time on an empty buffer.
Answered(d) ==
    /\ Talking(d) /\ late = None /\ mode[d] \in {"ok", "garbled"}
    /\ \E s \in Statuses :
          TakeFrame(d, IF mode[d] = "ok" THEN [from |-> d, status |-> s] ELSE Bad)
    /\ NextRequest /\ UNCHANGED <<opened, conn, late, fresh, offline>>

\* recv returns what is already buffered; the answer to d arrives after it.
AnsweredByLateFrame(d) ==
    /\ Talking(d) /\ late # None
    /\ TakeFrame(d, late)
    /\ late' \in CASE mode[d] \in {"ok", "slow"} -> {[from |-> d, status |-> s] : s \in Statuses}
                   [] mode[d] = "garbled" -> {Bad}
                   [] mode[d] = "silent"  -> {None}
    /\ NextRequest /\ UNCHANGED <<opened, conn, fresh, offline>>

\* recv returns the buffered frame and the answer together: a length error.
AnsweredTogether(d) ==
    /\ Talking(d) /\ late # None /\ mode[d] \in {"ok", "garbled"}
    /\ TakeFrame(d, Bad)
    /\ late' = None
    /\ NextRequest /\ UNCHANGED <<opened, conn, fresh, offline>>

\* _handle_channel_failure up to the reconnection.
CountFailure(d) ==
    failures' = [failures EXCEPT ![d] = IF @ < Threshold THEN @ + 1 ELSE @]

\* ... and after it: below the threshold nothing is reported.
MarkOffline(d, count) ==
    IF count < Threshold
    THEN UNCHANGED <<offline, offlineIds>>
    ELSE offline' = offline \union {d} /\ offlineIds' = offlineIds \union {d}

\* TIMEOUT, also when the peer has just closed the connection (recv of
\* nothing); it never leads to a reconnection.
TimesOut(d) ==
    /\ Sending(d) /\ fresh
    /\ \/ /\ conn = "live" /\ late = None /\ mode[d] \in {"slow", "silent"}
          /\ late' \in IF mode[d] = "slow" THEN {[from |-> d, status |-> s] : s \in Statuses}
                       ELSE {None}
          /\ UNCHANGED conn
       \/ conn = "closing" /\ conn' = "reset" /\ late' = None
    /\ CountFailure(d) /\ failing' = TRUE
    /\ MarkOffline(d, failures'[d])
    /\ NextRequest /\ UNCHANGED <<opened, fresh, valid>>

\* NOT_OPEN, CONNECTION_FAILED or IO_ERROR: close and wait before reopening.
\* poll_once keeps the channel it took, so every later request fails NOT_OPEN.
ConnectionFails(d) ==
    /\ Sending(d)
    /\ ~ fresh \/ conn = "reset"
    /\ CountFailure(d) /\ failing' = TRUE
    /\ CloseChannel /\ fresh' = FALSE
    /\ pc' = "reconnecting"
    /\ UNCHANGED <<part, next, valid, offline, offlineIds, cancelled, storeVars, deviceVars>>

\* The end of _reopen_after_failure; a ChannelError is swallowed.
Reconnects(d) ==
    /\ pc = "reconnecting" /\ next = d
    /\ OpenSucceeds \/ OpenRaises
    /\ MarkOffline(d, failures[d])
    /\ pc' = "cycle" /\ next' = next + 1
    /\ UNCHANGED <<part, late, fresh, valid, failures, cancelled, storeVars, deviceVars>>
-----------------------------------------------------------------------------
(* The end of the cycle: _persist_and_publish for valid, then for offline. *)

\* Mutant: a cycle with one failure in it is thrown away.
BugHasValid == \A d \in Detectors : valid[d] # None
HasValid == \E d \in Detectors : valid[d] # None

CycleDone ==
    /\ pc = "cycle" /\ next = N + 1
    /\ part' = IF HasValid THEN "valid" ELSE "offline"
    /\ pc' = IF HasValid \/ offline # {} THEN "persist" ELSE "top"
    /\ UNCHANGED <<next, opened, fresh, valid, offline, conn, late, cancelled, countVars,
                   storeVars, deviceVars>>

\* The readings _persist_and_publish was called with.
Batch == [d \in Detectors |-> IF part = "valid" THEN valid[d]
                              ELSE IF d \in offline THEN Offline ELSE None]
Update(table, batch) == [d \in Detectors |-> IF batch[d] # None THEN batch[d] ELSE table[d]]

\* One transaction: upsert the snapshots, add the running records that are due.
Persist ==
    /\ pc = "persist"
    /\ snapshot' = Update(snapshot, Batch)
    /\ seen' = seen \union {d \in Detectors : Batch[d] # None}
    /\ pc' = "publish"
    /\ UNCHANGED <<opened, cancelled, conn, late, cycleVars, countVars, published, alarm,
                   deviceVars>>

\* Mutant: the state store is not told.
BugPublish ==
    /\ pc = "publish" /\ pc' = "ingest"
    /\ UNCHANGED <<opened, cancelled, conn, late, cycleVars, countVars, storeVars, deviceVars>>

Publish ==
    /\ pc = "publish"
    /\ published' = Update(published, Batch)
    /\ pc' = "ingest"
    /\ UNCHANGED <<opened, cancelled, conn, late, cycleVars, countVars, snapshot, alarm, seen,
                   deviceVars>>

MorePart == part = "valid" /\ offline # {}

\* AlarmService.ingest_readings: a transaction of its own.
Ingest ==
    /\ pc = "ingest"
    /\ alarm' = [d \in Detectors |-> IF Batch[d] # None THEN Batch[d].status ELSE alarm[d]]
    /\ IF MorePart THEN part' = "offline" /\ pc' = "persist"
                   ELSE UNCHANGED part /\ pc' = "top"
    /\ UNCHANGED <<next, opened, fresh, valid, offline, conn, late, cancelled, countVars,
                   snapshot, published, seen, deviceVars>>

\* A database error in either transaction ends run().
DatabaseFails ==
    /\ setup.dbMayFail /\ pc \in {"persist", "ingest"}
    /\ pc' = "dead" /\ CloseChannel
    /\ UNCHANGED <<cancelled, cycleVars, countVars, storeVars, deviceVars>>
-----------------------------------------------------------------------------
(* The surroundings.                                                       *)

\* WorkerHandle.cancel.
Cancel == /\ ~ cancelled /\ ~ Ended /\ cancelled' = TRUE
          /\ UNCHANGED <<pc, opened, conn, late, cycleVars, countVars, storeVars, deviceVars>>

\* The service starts a new worker object on the port.
Restart ==
    /\ Ended
    /\ pc' = "opening" /\ cancelled' = FALSE /\ opened' = FALSE
    /\ part' = "valid" /\ next' = 1 /\ fresh' = FALSE /\ valid' = NoReadings /\ offline' = {}
    /\ failures' = [d \in Detectors |-> 0] /\ offlineIds' = {} /\ failing' = FALSE
    /\ seen' = {}
    /\ UNCHANGED <<conn, late, snapshot, published, alarm, deviceVars>>

\* The peer goes away: it closes the connection, or resets it.
LinkDown ==
    /\ link = "up" /\ link' = "down"
    /\ conn' \in IF conn = "live" THEN {"closing", "reset"} ELSE {conn}
    /\ UNCHANGED <<pc, opened, cancelled, late, cycleVars, countVars, storeVars, setup,
                   mode>>

LinkUp ==
    /\ link = "down" /\ link' = "up"
    /\ UNCHANGED <<pc, opened, cancelled, conn, late, cycleVars, countVars, storeVars, setup,
                   mode>>

\* "ok": answers in time; "slow": after the timeout; "silent": never;
\* "garbled": in time, with a frame that fails validation.
SetMode(d, m) ==
    /\ mode[d] # m /\ m \in setup.modes
    /\ mode' = [mode EXCEPT ![d] = m]
    /\ UNCHANGED <<pc, opened, cancelled, conn, late, cycleVars, countVars, storeVars, setup,
                   link>>

Request(d) == \/ Answered(d) \/ AnsweredByLateFrame(d) \/ AnsweredTogether(d)
              \/ TimesOut(d) \/ ConnectionFails(d) \/ Reconnects(d)

Work == \/ RunOpens \/ RunEnds \/ BeginCycle
        \/ \E d \in Detectors : Request(d)
        \/ CycleDone \/ Persist \/ Publish \/ Ingest

Environment == \/ Cancel \/ Restart \/ LinkDown \/ LinkUp
               \/ \E d \in Detectors, m \in Modes : SetMode(d, m)

Next == Work \/ DatabaseFails \/ Environment

Spec == Init /\ [][Next]_vars

\* The worker's thread runs; the devices, the link, cancellation and restart
\* are left to chance.
FairSpec == Spec /\ WF_vars(Work)
-----------------------------------------------------------------------------
\* Every variable holds a value of its kind.
TypeOK ==
    /\ setup \in Setups
    /\ pc \in {"opening", "top", "cycle", "reconnecting", "persist", "publish", "ingest",
               "closed", "dead"}
    /\ part \in {"valid", "offline"} /\ next \in 1..(N + 1)
    /\ opened \in BOOLEAN /\ fresh \in BOOLEAN /\ failing \in BOOLEAN
    /\ cancelled \in BOOLEAN
    /\ failures \in [Detectors -> 0..Threshold] /\ offlineIds \subseteq Detectors
    /\ valid \in [Detectors -> Frames \union {None}] /\ offline \subseteq Detectors
    /\ snapshot \in [Detectors -> Readings] /\ published \in [Detectors -> Readings]
    /\ alarm \in [Detectors -> Statuses \union {"none", "offline"}]
    /\ seen \subseteq Detectors
    /\ link \in {"up", "down"} /\ conn \in {"none", "live", "closing", "reset"}
    /\ late \in Frames \union {None, Bad}
    /\ mode \in [Detectors -> Modes]

\* Between cycles the three copies of a detector's state agree: the snapshot
\* table, the state store and the alarm service have all taken the reading, for
\* every detector this worker has written at least once.
StoresAgree ==
    pc = "top" => \A d \in seen : /\ published[d] = snapshot[d]
                                  /\ alarm[d] = snapshot[d].status

\* Between cycles the worker calls a detector offline exactly when it has used
\* up its threshold, and then the database says so too.
OfflineAgrees ==
    pc = "top" => \A d \in Detectors :
        /\ d \in offlineIds <=> failures[d] = Threshold
        /\ d \in offlineIds => snapshot[d] = Offline

\* The stored reading of a detector came from that detector, although late
\* answers stay in the receive buffer and are read by later requests.
ReadingIsOwn == \A d \in Detectors : snapshot[d] \in Frames => snapshot[d].from = d

Running == ~ Ended

\* No answer is left in the buffer to be taken for the answer to a later
\* request: one neighbour that answers late puts every answer behind by one,
\* and neither of the two promises below can then be made.
Prompt == late = None

\* A detector that has stopped answering is stored as offline for good, as long
\* as its worker runs, whatever the other devices and the link do, but for
\* answering late.
SilentGoesOffline ==
    \A d \in Detectors :
        <>[](mode[d] = "silent" /\ Prompt /\ Running) => <>[](snapshot[d] = Offline)

\* A detector that answers again over a working link is stored as online again.
OnlineAgain ==
    \A d \in Detectors :
        <>[](mode[d] = "ok" /\ link = "up" /\ Prompt /\ Running)
            => <>[](snapshot[d] \in Frames)

\* Between cycles the three stores agree with each other and with the worker's
\* own counters, whatever the channel did in the cycle.
StoresFollowCycle == TypeOK /\ StoresAgree /\ OfflineAgrees

\* Silence is stored as offline in the end, and an answer as online.
AvailabilityFollows == SilentGoesOffline /\ OnlineAgain
=============================================================================

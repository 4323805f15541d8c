-------------------------- MODULE PortWorkerProofs --------------------------
(***************************************************************************)
(* Proofs about PortWorker, for every number of detectors, every threshold *)
(* and every installation.  What the promises of the quiet moments between *)
(* two cycles rest on is said of every moment: how far a request, a batch  *)
(* of readings or a reconnection has come.                                 *)
(***************************************************************************)
EXTENDS PortWorker, TLAPS

\* Each detector is asked once in a cycle.
CycleInv ==
    pc \in {"cycle", "reconnecting"} =>
        \A d \in Detectors : d >= next => valid[d] = None /\ d \notin offline

\* A detector that answered in this cycle is not offline.
ValidInv == \A d \in Detectors : valid[d] # None => d \notin offlineIds

\* The threshold is used up and the detector marked in two steps only around a
\* reconnection.
CountInv ==
    \A d \in Detectors :
        /\ d \in offlineIds => failures[d] = Threshold
        /\ ~ (pc = "reconnecting" /\ d = next) => (failures[d] = Threshold => d \in offlineIds)

\* The offline readings of the cycle are still to be written.
OfflineDue == \/ pc \in {"cycle", "reconnecting", "persist"}
              \/ pc \in {"publish", "ingest"} /\ part = "valid"

OfflineInv ==
    Running => \A d \in offlineIds : snapshot[d] = Offline \/ (OfflineDue /\ d \in offline)

\* What the state store and the alarm service have still to take.
StoresInv ==
    Running => \A d \in seen :
        /\ pc \in {"publish", "ingest"} /\ Batch[d] # None => snapshot[d] = Batch[d]
        /\ ~ (pc = "publish" /\ Batch[d] # None) => published[d] = snapshot[d]
        /\ ~ (pc \in {"publish", "ingest"} /\ Batch[d] # None) => alarm[d] = snapshot[d].status

IInv == TypeOK /\ CycleInv /\ ValidInv /\ CountInv /\ OfflineInv /\ StoresInv
-----------------------------------------------------------------------------
\* Readings of the five kinds differ.
LEMMA Kinds ==
    /\ None # Bad /\ None # Offline /\ Bad # Offline
    /\ None \notin Frames /\ Bad \notin Frames /\ Offline \notin Frames
BY DEF None, Bad, Offline, Frames, Detectors

LEMMA BatchType == ASSUME TypeOK PROVE Batch \in [Detectors -> Readings]
BY DEF TypeOK, Batch, Readings

LEMMA Numbers ==
    /\ N \in Nat /\ 1 \in 1..(N + 1) /\ \A d \in Detectors : d + 1 \in 1..(N + 1)
    /\ Threshold \in Nat /\ 0 \in 0..Threshold
BY PortWorkerAssumption DEF Detectors

LEMMA NoReadingsType == /\ NoReadings \in [Detectors -> Frames \union {None}]
                        /\ NoReadings \in [Detectors -> Readings]
BY DEF NoReadings, Readings

LEMMA InvInit == ASSUME Init PROVE IInv
<1>1. TypeOK
  <2>1. mode \in [Detectors -> Modes] /\ failures \in [Detectors -> 0..Threshold]
    BY Numbers DEF Init, Modes
  <2>2. alarm \in [Detectors -> Statuses \union {"none", "offline"}]
    BY DEF Init
  <2>3. /\ valid \in [Detectors -> Frames \union {None}] /\ snapshot \in [Detectors -> Readings]
        /\ published \in [Detectors -> Readings] /\ next \in 1..(N + 1)
    BY Numbers, NoReadingsType DEF Init
  <2>4. QED
    BY <2>1, <2>2, <2>3 DEF Init, TypeOK
<1>2. QED
  BY <1>1, PortWorkerAssumption
     DEF Init, IInv, CycleInv, ValidInv, CountInv, OfflineInv, StoresInv, NoReadings

LEMMA OpeningInv == ASSUME IInv, RunOpens \/ RunEnds PROVE IInv'
<1>1. /\ pc' \in {"top", "dead", "closed"} /\ pc \in {"opening", "top"}
      /\ opened' \in BOOLEAN /\ failing' \in BOOLEAN /\ late' \in {late, None}
      /\ conn' \in {"none", "live"}
      /\ UNCHANGED <<cancelled, cycleVars, failures, offlineIds, storeVars, deviceVars>>
  BY DEF RunOpens, RunEnds, OpenSucceeds, OpenRaises, CloseChannel, IInv, TypeOK, countVars
<1>2. TypeOK'
  BY <1>1 DEF IInv, TypeOK, cycleVars, storeVars, deviceVars
<1>3. (CycleInv /\ ValidInv /\ CountInv)'
  BY <1>1 DEF IInv, CycleInv, ValidInv, CountInv, cycleVars
<1>4. (OfflineInv /\ StoresInv)'
  BY <1>1 DEF IInv, OfflineInv, StoresInv, OfflineDue, Running, Ended, Batch, cycleVars, storeVars
<1>5. QED
  BY <1>2, <1>3, <1>4 DEF IInv

LEMMA BeginCycleInv == ASSUME IInv, BeginCycle PROVE IInv'
<1>1. /\ pc = "top" /\ pc' \in {"cycle", "dead"}
      /\ opened' \in BOOLEAN /\ failing' \in BOOLEAN /\ fresh' \in BOOLEAN
      /\ conn' \in {"none", "live", "closing", "reset"}
      /\ next' = 1 /\ valid' = NoReadings /\ offline' = {} /\ part' = "valid"
      /\ UNCHANGED <<cancelled, late, failures, offlineIds, storeVars, deviceVars>>
  BY DEF BeginCycle, OpenSucceeds, OpenRaises, IInv, TypeOK
<1>2. TypeOK'
  <2>1. /\ valid' \in [Detectors -> Frames \union {None}] /\ next' \in 1..(N + 1)
        /\ offline' \subseteq Detectors
    BY <1>1, Numbers, NoReadingsType
  <2>2. QED
    BY <1>1, <2>1 DEF IInv, TypeOK, storeVars, deviceVars
<1>3. (CycleInv /\ ValidInv /\ CountInv)'
  BY <1>1 DEF IInv, CycleInv, ValidInv, CountInv, NoReadings
<1>4. (OfflineInv /\ StoresInv)'
  BY <1>1 DEF IInv, OfflineInv, StoresInv, OfflineDue, Running, Ended, Batch, storeVars
<1>5. QED
  BY <1>2, <1>3, <1>4 DEF IInv
-----------------------------------------------------------------------------
\* A frame, whatever it is, is taken by one detector and the cycle moves on.
LEMMA TakenInv ==
    ASSUME IInv, NEW d \in Detectors, NEW frame \in Frames \union {Bad}, Sending(d),
           TakeFrame(d, frame), NextRequest, late' \in Frames \union {None, Bad},
           UNCHANGED <<opened, conn, fresh, offline>>
    PROVE  IInv'
<1>1. /\ pc = "cycle" /\ pc' = "cycle" /\ next = d /\ next' = next + 1
      /\ UNCHANGED <<part, cancelled, storeVars, deviceVars, offline>>
  BY DEF Sending, NextRequest
<1>2. CASE Accepts(d, frame)
  <2>1. /\ frame \in Frames
        /\ valid' = [valid EXCEPT ![d] = frame] /\ failures' = [failures EXCEPT ![d] = 0]
        /\ offlineIds' = offlineIds \ {d} /\ failing' = FALSE
    BY <1>2 DEF Accepts, TakeFrame, RecordSuccess
  <2>2. TypeOK'
    <3>1. valid' \in [Detectors -> Frames \union {None}]
      BY <2>1 DEF IInv, TypeOK
    <3>2. failures' \in [Detectors -> 0..Threshold] /\ next' \in 1..(N + 1)
      BY <1>1, <2>1, Numbers DEF IInv, TypeOK
    <3>3. QED
      BY <1>1, <2>1, <3>1, <3>2 DEF IInv, TypeOK, storeVars, deviceVars
  <2>3. CycleInv'
    BY <1>1, <2>1 DEF IInv, TypeOK, CycleInv, Detectors
  <2>4. (ValidInv /\ CountInv)'
    BY <1>1, <2>1, PortWorkerAssumption DEF IInv, TypeOK, ValidInv, CountInv, Detectors
  <2>5. (OfflineInv /\ StoresInv)'
    BY <1>1, <2>1 DEF IInv, TypeOK, OfflineInv, StoresInv, OfflineDue, Running, Ended, storeVars
  <2>6. QED
    BY <2>2, <2>3, <2>4, <2>5 DEF IInv
<1>3. CASE ~ Accepts(d, frame)
  <2>1. UNCHANGED <<valid, failures, offlineIds, failing>>
    BY <1>3 DEF TakeFrame, countVars
  <2>2. TypeOK'
    BY <1>1, <2>1, Numbers DEF IInv, TypeOK, storeVars, deviceVars
  <2>3. CycleInv'
    BY <1>1, <2>1 DEF IInv, TypeOK, CycleInv, Detectors
  <2>4. (ValidInv /\ CountInv)'
    BY <1>1, <2>1 DEF IInv, ValidInv, CountInv
  <2>5. (OfflineInv /\ StoresInv)'
    BY <1>1, <2>1 DEF IInv, OfflineInv, StoresInv, OfflineDue, Running, Ended, storeVars
  <2>6. QED
    BY <2>2, <2>3, <2>4, <2>5 DEF IInv
<1>4. QED
  BY <1>2, <1>3

LEMMA AnsweredInv ==
    ASSUME IInv, NEW d \in Detectors,
           Answered(d) \/ AnsweredByLateFrame(d) \/ AnsweredTogether(d)
    PROVE  IInv'
<1>1. CASE Answered(d)
  <2>1. PICK s \in Statuses :
          TakeFrame(d, IF mode[d] = "ok" THEN [from |-> d, status |-> s] ELSE Bad)
    BY <1>1 DEF Answered
  <2>2. (IF mode[d] = "ok" THEN [from |-> d, status |-> s] ELSE Bad) \in Frames \union {Bad}
    BY DEF Frames
  <2>3. Sending(d) /\ NextRequest /\ late' = None /\ UNCHANGED <<opened, conn, fresh, offline>>
    BY <1>1 DEF Answered, Talking
  <2>4. QED
    BY <2>1, <2>2, <2>3, TakenInv
<1>2. CASE AnsweredByLateFrame(d)
  <2>1. /\ late \in Frames \union {Bad} /\ TakeFrame(d, late) /\ Sending(d) /\ NextRequest
        /\ UNCHANGED <<opened, conn, fresh, offline>>
    BY <1>2 DEF AnsweredByLateFrame, Talking, IInv, TypeOK
  <2>2. mode[d] \in Modes
    BY DEF IInv, TypeOK
  <2>3. late' \in Frames \union {None, Bad}
    BY <1>2, <2>2 DEF AnsweredByLateFrame, Frames, Modes
  <2>4. QED
    BY <2>1, <2>3, TakenInv
<1>3. CASE AnsweredTogether(d)
  BY <1>3, TakenInv DEF AnsweredTogether, Talking
<1>4. QED
  BY <1>1, <1>2, <1>3
-----------------------------------------------------------------------------
\* A failure below the threshold marks nothing, at the threshold it marks one.
LEMMA FailedInv ==
    ASSUME IInv, NEW d \in Detectors, NEW count \in [Detectors -> 0..Threshold],
           pc \in {"cycle", "reconnecting"}, pc' = "cycle", next = d, next' = next + 1,
           \A e \in Detectors \ {d} : count[e] = failures[e],
           d \in offlineIds => count[d] = Threshold,
           failures' = count, MarkOffline(d, count[d]), valid' = valid,
           UNCHANGED <<part, cancelled, storeVars, deviceVars>>,
           opened' \in BOOLEAN, fresh' \in BOOLEAN, failing' \in BOOLEAN,
           conn' \in {"none", "live", "closing", "reset"}, late' \in Frames \union {None, Bad}
    PROVE  IInv'
<1>1. /\ offline \subseteq Detectors /\ offlineIds \subseteq Detectors /\ valid[d] = None
      /\ Threshold \in Nat /\ count[d] \in 0..Threshold
  BY PortWorkerAssumption DEF IInv, TypeOK, CycleInv, Detectors
<1>2. \/ count[d] < Threshold /\ UNCHANGED <<offline, offlineIds>>
      \/ /\ count[d] = Threshold
         /\ offline' = offline \union {d} /\ offlineIds' = offlineIds \union {d}
  BY <1>1 DEF MarkOffline
<1>3. TypeOK'
  <2>1. next' \in 1..(N + 1) /\ offline' \subseteq Detectors /\ offlineIds' \subseteq Detectors
    BY <1>1, <1>2, Numbers
  <2>2. QED
    BY <2>1 DEF IInv, TypeOK, storeVars, deviceVars
<1>4. CycleInv'
  BY <1>1, <1>2 DEF IInv, TypeOK, CycleInv, Detectors
<1>5. ValidInv'
  BY <1>1, <1>2 DEF IInv, ValidInv
<1>6. CountInv'
  BY <1>1, <1>2 DEF IInv, CountInv
<1>7. (OfflineInv /\ StoresInv)'
  BY <1>1, <1>2 DEF IInv, OfflineInv, StoresInv, OfflineDue, Running, Ended, storeVars
<1>8. QED
  BY <1>3, <1>4, <1>5, <1>6, <1>7 DEF IInv

LEMMA Counted ==
    ASSUME IInv, NEW d \in Detectors, CountFailure(d), pc = "cycle"
    PROVE  /\ failures' \in [Detectors -> 0..Threshold]
           /\ \A e \in Detectors \ {d} : failures'[e] = failures[e]
           /\ d \in offlineIds => failures'[d] = Threshold
BY PortWorkerAssumption DEF IInv, TypeOK, CountInv, CountFailure

LEMMA TimesOutInv == ASSUME IInv, NEW d \in Detectors, TimesOut(d) PROVE IInv'
<1>1. /\ pc = "cycle" /\ pc' = "cycle" /\ next = d /\ next' = next + 1
      /\ CountFailure(d) /\ MarkOffline(d, failures'[d]) /\ failing' = TRUE
      /\ UNCHANGED <<part, cancelled, storeVars, deviceVars, opened, fresh, valid>>
  BY DEF TimesOut, Sending, NextRequest
<1>2. conn' \in {"none", "live", "closing", "reset"} /\ late' \in Frames \union {None, Bad}
  <2>1. conn \in {"none", "live", "closing", "reset"}
    BY DEF IInv, TypeOK
  <2>2. QED
    BY <2>1 DEF TimesOut, Frames
<1>3. opened' \in BOOLEAN /\ fresh' \in BOOLEAN
  BY <1>1 DEF IInv, TypeOK
<1>4. QED
  BY <1>1, <1>2, <1>3, Counted, FailedInv

LEMMA ConnectionFailsInv == ASSUME IInv, NEW d \in Detectors, ConnectionFails(d) PROVE IInv'
<1>1. /\ pc = "cycle" /\ pc' = "reconnecting" /\ next = d /\ CountFailure(d)
      /\ failing' = TRUE /\ opened' = FALSE /\ conn' = "none" /\ late' = None /\ fresh' = FALSE
      /\ UNCHANGED <<part, next, valid, offline, offlineIds, cancelled, storeVars, deviceVars>>
  BY DEF ConnectionFails, Sending, CloseChannel
<1>2. TypeOK'
  BY <1>1, Counted DEF IInv, TypeOK, storeVars, deviceVars
<1>3. (CycleInv /\ ValidInv)'
  BY <1>1 DEF IInv, CycleInv, ValidInv
<1>4. CountInv'
  BY <1>1, Counted DEF IInv, CountInv
<1>5. (OfflineInv /\ StoresInv)'
  BY <1>1 DEF IInv, OfflineInv, StoresInv, OfflineDue, Running, Ended, storeVars
<1>6. QED
  BY <1>2, <1>3, <1>4, <1>5 DEF IInv

LEMMA ReconnectsInv == ASSUME IInv, NEW d \in Detectors, Reconnects(d) PROVE IInv'
<1>1. /\ pc = "reconnecting" /\ pc' = "cycle" /\ next = d /\ next' = next + 1
      /\ MarkOffline(d, failures[d])
      /\ UNCHANGED <<part, late, fresh, valid, failures, cancelled, storeVars, deviceVars>>
      /\ opened' \in BOOLEAN /\ failing' \in BOOLEAN /\ conn' \in {"none", "live"}
  BY DEF Reconnects, OpenSucceeds, OpenRaises
<1>2. /\ failures \in [Detectors -> 0..Threshold] /\ fresh \in BOOLEAN
      /\ late \in Frames \union {None, Bad}
      /\ d \in offlineIds => failures[d] = Threshold
  BY DEF IInv, TypeOK, CountInv
<1>3. QED
  BY <1>1, <1>2, FailedInv
-----------------------------------------------------------------------------
LEMMA CycleDoneInv == ASSUME IInv, CycleDone PROVE IInv'
<1>1. /\ pc = "cycle" /\ part' \in {"valid", "offline"}
      /\ pc' = IF HasValid \/ offline # {} THEN "persist" ELSE "top"
      /\ UNCHANGED <<next, opened, fresh, valid, offline, conn, late, cancelled, failures,
                     offlineIds, failing, snapshot, published, alarm, seen, setup, link, mode>>
  BY DEF CycleDone, countVars, storeVars, deviceVars
<1>2. TypeOK'
  BY <1>1 DEF IInv, TypeOK
<1>3. (CycleInv /\ ValidInv /\ CountInv)'
  BY <1>1 DEF IInv, CycleInv, ValidInv, CountInv
<1>4. OfflineInv'
  BY <1>1 DEF IInv, OfflineInv, OfflineDue, Running, Ended
<1>5. StoresInv'
  BY <1>1 DEF IInv, StoresInv, Running, Ended
<1>6. QED
  BY <1>2, <1>3, <1>4, <1>5 DEF IInv

\* A table after a batch.
LEMMA Updated ==
    ASSUME NEW table \in [Detectors -> Readings], NEW batch \in [Detectors -> Readings]
    PROVE  /\ Update(table, batch) \in [Detectors -> Readings]
           /\ \A d \in Detectors :
                 /\ batch[d] # None => Update(table, batch)[d] = batch[d]
                 /\ batch[d] = None => Update(table, batch)[d] = table[d]
BY DEF Update

LEMMA PersistInv == ASSUME IInv, Persist PROVE IInv'
<1>1. /\ pc = "persist" /\ pc' = "publish" /\ snapshot' = Update(snapshot, Batch)
      /\ seen' = seen \union {d \in Detectors : Batch[d] # None}
      /\ UNCHANGED <<opened, cancelled, conn, late, part, next, fresh, valid, offline, failures,
                     offlineIds, failing, published, alarm, setup, link, mode>>
  BY DEF Persist, cycleVars, countVars, deviceVars
<1>2. /\ snapshot' \in [Detectors -> Readings]
      /\ \A d \in Detectors : /\ Batch[d] # None => snapshot'[d] = Batch[d]
                              /\ Batch[d] = None => snapshot'[d] = snapshot[d]
  BY <1>1, BatchType, Updated DEF IInv, TypeOK
<1>3. Batch' = Batch
  BY <1>1 DEF Batch
<1>4. TypeOK'
  BY <1>1, <1>2 DEF IInv, TypeOK
<1>5. (CycleInv /\ ValidInv /\ CountInv)'
  BY <1>1 DEF IInv, CycleInv, ValidInv, CountInv
<1>6. OfflineInv'
  <2>1. SUFFICES ASSUME NEW d \in offlineIds
                 PROVE  snapshot'[d] = Offline \/ (part = "valid" /\ d \in offline)
    BY <1>1 DEF OfflineInv, OfflineDue, Running, Ended
  <2>2. d \in Detectors /\ valid[d] = None /\ (snapshot[d] = Offline \/ d \in offline)
    BY <1>1 DEF IInv, TypeOK, ValidInv, OfflineInv, Running, Ended
  <2>3. CASE part = "valid"
    <3>1. Batch[d] = None
      BY <2>2, <2>3 DEF Batch
    <3>2. QED
      BY <1>2, <2>2, <2>3, <3>1
  <2>4. CASE part = "offline"
    <3>1. Batch[d] = IF d \in offline THEN Offline ELSE None
      BY <2>2, <2>4 DEF Batch
    <3>2. QED
      BY <1>2, <2>2, <3>1, Kinds
  <2>5. QED
    BY <2>3, <2>4 DEF IInv, TypeOK
<1>7. StoresInv'
  <2>1. SUFFICES ASSUME NEW d \in seen'
                 PROVE  /\ Batch[d] # None => snapshot'[d] = Batch[d]
                        /\ Batch[d] = None => published[d] = snapshot'[d]
                        /\ Batch[d] = None => alarm[d] = snapshot'[d].status
    BY <1>1, <1>3 DEF StoresInv
  <2>2. d \in Detectors /\ (Batch[d] = None => d \in seen)
    BY <1>1 DEF IInv, TypeOK
  <2>3. d \in seen => published[d] = snapshot[d] /\ alarm[d] = snapshot[d].status
    BY <1>1 DEF IInv, StoresInv, Running, Ended
  <2>4. QED
    BY <1>2, <2>2, <2>3
<1>8. QED
  BY <1>4, <1>5, <1>6, <1>7 DEF IInv

LEMMA PublishInv == ASSUME IInv, Publish PROVE IInv'
<1>1. /\ pc = "publish" /\ pc' = "ingest" /\ published' = Update(published, Batch)
      /\ UNCHANGED <<opened, cancelled, conn, late, part, next, fresh, valid, offline, failures,
                     offlineIds, failing, snapshot, alarm, seen, setup, link, mode>>
  BY DEF Publish, cycleVars, countVars, deviceVars
<1>2. /\ published' \in [Detectors -> Readings]
      /\ \A d \in Detectors : /\ Batch[d] # None => published'[d] = Batch[d]
                              /\ Batch[d] = None => published'[d] = published[d]
  BY <1>1, BatchType, Updated DEF IInv, TypeOK
<1>3. Batch' = Batch
  BY <1>1 DEF Batch
<1>4. TypeOK'
  BY <1>1, <1>2 DEF IInv, TypeOK
<1>5. (CycleInv /\ ValidInv /\ CountInv /\ OfflineInv)'
  BY <1>1 DEF IInv, CycleInv, ValidInv, CountInv, OfflineInv, OfflineDue, Running, Ended
<1>6. StoresInv'
  <2>1. SUFFICES ASSUME NEW d \in seen
                 PROVE  /\ Batch[d] # None => snapshot[d] = Batch[d]
                        /\ published'[d] = snapshot[d]
                        /\ Batch[d] = None => alarm[d] = snapshot[d].status
    BY <1>1, <1>3 DEF StoresInv
  <2>2. /\ d \in Detectors
        /\ Batch[d] # None => snapshot[d] = Batch[d]
        /\ Batch[d] = None => published[d] = snapshot[d] /\ alarm[d] = snapshot[d].status
    BY <1>1 DEF IInv, TypeOK, StoresInv, Running, Ended
  <2>3. QED
    BY <1>2, <2>2
<1>7. QED
  BY <1>4, <1>5, <1>6 DEF IInv

LEMMA IngestInv == ASSUME IInv, Ingest PROVE IInv'
<1>1. /\ pc = "ingest"
      /\ alarm' = [d \in Detectors |-> IF Batch[d] # None THEN Batch[d].status ELSE alarm[d]]
      /\ \/ part = "valid" /\ part' = "offline" /\ pc' = "persist"
         \/ pc' = "top" /\ part' = part /\ (part = "valid" => offline = {})
      /\ UNCHANGED <<next, opened, fresh, valid, offline, conn, late, cancelled, failures,
                     offlineIds, failing, snapshot, published, seen, setup, link, mode>>
  BY DEF Ingest, MorePart, countVars, deviceVars
<1>2. \A d \in Detectors : Batch[d].status \in Statuses \union {"none", "offline"}
  BY BatchType DEF IInv, Readings, Frames, Offline, None
<1>3. TypeOK'
  BY <1>1, <1>2 DEF IInv, TypeOK
<1>4. (CycleInv /\ ValidInv /\ CountInv)'
  BY <1>1 DEF IInv, CycleInv, ValidInv, CountInv
<1>5. OfflineInv'
  BY <1>1 DEF IInv, OfflineInv, OfflineDue, Running, Ended
<1>6. StoresInv'
  <2>1. SUFFICES ASSUME NEW d \in seen
                 PROVE  published[d] = snapshot[d] /\ alarm'[d] = snapshot[d].status
    BY <1>1 DEF StoresInv
  <2>2. /\ d \in Detectors /\ published[d] = snapshot[d]
        /\ Batch[d] # None => snapshot[d] = Batch[d]
        /\ Batch[d] = None => alarm[d] = snapshot[d].status
    BY <1>1 DEF IInv, TypeOK, StoresInv, Running, Ended
  <2>3. QED
    BY <1>1, <2>2
<1>7. QED
  BY <1>3, <1>4, <1>5, <1>6 DEF IInv
-----------------------------------------------------------------------------
LEMMA SurroundingsInv ==
    ASSUME IInv, \/ DatabaseFails \/ Cancel \/ LinkDown \/ LinkUp \/ UNCHANGED vars
                 \/ \E d \in Detectors, m \in Modes : SetMode(d, m)
    PROVE  IInv'
<1>1. /\ pc' = pc \/ (pc' = "dead" /\ pc # "reconnecting")
      /\ UNCHANGED <<part, next, fresh, valid, offline, failures, offlineIds, failing, snapshot,
                     published, alarm, seen, setup>>
  BY DEF DatabaseFails, Cancel, LinkDown, LinkUp, SetMode, vars,
         cycleVars, countVars, storeVars, deviceVars
<1>2. TypeOK'
  <2>1. /\ opened' \in BOOLEAN /\ cancelled' \in BOOLEAN /\ link' \in {"up", "down"}
        /\ conn' \in {"none", "live", "closing", "reset"} /\ late' \in Frames \union {None, Bad}
    BY DEF DatabaseFails, Cancel, LinkDown, LinkUp, SetMode, vars, CloseChannel, deviceVars,
           IInv, TypeOK
  <2>2. mode' \in [Detectors -> Modes]
    BY DEF DatabaseFails, Cancel, LinkDown, LinkUp, SetMode, vars, deviceVars, IInv, TypeOK
  <2>3. QED
    BY <1>1, <2>1, <2>2 DEF IInv, TypeOK
<1>3. (CycleInv /\ ValidInv /\ CountInv)'
  BY <1>1 DEF IInv, CycleInv, ValidInv, CountInv
<1>4. (OfflineInv /\ StoresInv)'
  BY <1>1 DEF IInv, OfflineInv, StoresInv, OfflineDue, Running, Ended, Batch
<1>5. QED
  BY <1>2, <1>3, <1>4 DEF IInv

LEMMA RestartInv == ASSUME IInv, Restart PROVE IInv'
<1>1. TypeOK'
  <2>1. /\ failures' \in [Detectors -> 0..Threshold] /\ next' \in 1..(N + 1)
        /\ valid' \in [Detectors -> Frames \union {None}]
    BY Numbers, NoReadingsType DEF Restart
  <2>2. QED
    BY <2>1 DEF Restart, IInv, TypeOK, deviceVars
<1>2. QED
  BY <1>1, PortWorkerAssumption
     DEF Restart, IInv, CycleInv, ValidInv, CountInv, OfflineInv, StoresInv, NoReadings

LEMMA InvStep == ASSUME IInv, [Next]_vars PROVE IInv'
<1>1. ASSUME NEW d \in Detectors, Request(d) PROVE IInv'
  BY <1>1, AnsweredInv, TimesOutInv, ConnectionFailsInv, ReconnectsInv DEF Request
<1>2. ASSUME Work PROVE IInv'
  BY <1>1, <1>2, OpeningInv, BeginCycleInv, CycleDoneInv, PersistInv, PublishInv, IngestInv
     DEF Work
<1>3. ASSUME Environment PROVE IInv'
  BY <1>3, RestartInv, SurroundingsInv DEF Environment
<1>4. QED
  BY <1>2, <1>3, SurroundingsInv DEF Next

\* The strengthened invariant holds throughout every life of the worker.
THEOREM Invariance == Spec => []IInv
BY InvInit, InvStep, PTL DEF Spec

\* Every variable holds a value of its kind.
THEOREM TypeCorrect == Spec => []TypeOK
<1>1. IInv => TypeOK
  BY DEF IInv
<1>2. QED
  BY <1>1, Invariance, PTL

\* Between cycles the snapshot table, the state store and the alarm service agree
\* about every detector this worker has written.
THEOREM StoresAgreeAlways == Spec => []StoresAgree
<1>1. IInv => StoresAgree
  BY DEF IInv, StoresInv, StoresAgree, Running, Ended
<1>2. QED
  BY <1>1, Invariance, PTL

\* Between cycles a detector is called offline exactly when it has used up its
\* threshold, and then the database says so too.
THEOREM OfflineAgreesAlways == Spec => []OfflineAgrees
<1>1. IInv => OfflineAgrees
  BY DEF IInv, TypeOK, CountInv, OfflineInv, OfflineDue, OfflineAgrees, Running, Ended
<1>2. QED
  BY <1>1, Invariance, PTL
-----------------------------------------------------------------------------
\* Units tell the detectors of a port apart, as they do unless one controller
\* answers for several.
OwnUnit == \A d, e \in Detectors : Unit[d] = Unit[e] => d = e

\* The readings of the cycle and the stored ones are those of their detectors.
OwnInv == \A d \in Detectors : /\ valid[d] \in Frames => valid[d].from = d
                               /\ snapshot[d] \in Frames => snapshot[d].from = d

LEMMA TakenIsOwn ==
    ASSUME OwnUnit, TypeOK, OwnInv, NEW d \in Detectors, NEW frame \in Frames \union {Bad},
           TakeFrame(d, frame), UNCHANGED snapshot
    PROVE  OwnInv'
<1>1. CASE Accepts(d, frame)
  <2>1. frame.from \in Detectors /\ frame.from = d
    BY <1>1 DEF Accepts, OwnUnit, Frames
  <2>2. QED
    BY <1>1, <2>1 DEF TakeFrame, RecordSuccess, OwnInv, TypeOK
<1>2. CASE ~ Accepts(d, frame)
  BY <1>2 DEF TakeFrame, OwnInv
<1>3. QED
  BY <1>1, <1>2

LEMMA OwnStep == ASSUME OwnUnit, IInv, OwnInv, [Next]_vars PROVE OwnInv'
<1>1. ASSUME NEW d \in Detectors, Answered(d) PROVE OwnInv'
  <2>1. PICK s \in Statuses :
          TakeFrame(d, IF mode[d] = "ok" THEN [from |-> d, status |-> s] ELSE Bad)
    BY <1>1 DEF Answered
  <2>2. (IF mode[d] = "ok" THEN [from |-> d, status |-> s] ELSE Bad) \in Frames \union {Bad}
    BY DEF Frames
  <2>3. UNCHANGED snapshot
    BY <1>1 DEF Answered, NextRequest, storeVars
  <2>4. QED
    BY <2>1, <2>2, <2>3, TakenIsOwn DEF IInv
<1>2. ASSUME NEW d \in Detectors, AnsweredByLateFrame(d) \/ AnsweredTogether(d) PROVE OwnInv'
  <2>1. UNCHANGED snapshot
    BY <1>2 DEF AnsweredByLateFrame, AnsweredTogether, NextRequest, storeVars
  <2>2. CASE AnsweredByLateFrame(d)
    <3>1. late \in Frames \union {Bad} /\ TakeFrame(d, late)
      BY <2>2 DEF AnsweredByLateFrame, IInv, TypeOK
    <3>2. QED
      BY <2>1, <3>1, TakenIsOwn DEF IInv
  <2>3. CASE AnsweredTogether(d)
    BY <2>1, <2>3, TakenIsOwn DEF AnsweredTogether, IInv
  <2>4. QED
    BY <1>2, <2>2, <2>3
<1>3. CASE BeginCycle \/ Restart
  BY <1>3, Kinds DEF BeginCycle, Restart, OwnInv, NoReadings, storeVars
<1>4. CASE Persist
  <2>1. snapshot' = Update(snapshot, Batch) /\ valid' = valid
    BY <1>4 DEF Persist, cycleVars
  <2>2. \A d \in Detectors : snapshot'[d] \in {snapshot[d], valid[d], Offline}
    BY <2>1 DEF Update, Batch
  <2>3. QED
    BY <2>1, <2>2, Kinds DEF OwnInv
<1>5. ASSUME UNCHANGED <<valid, snapshot>> PROVE OwnInv'
  BY <1>5 DEF OwnInv
<1>6. ASSUME NEW d \in Detectors, TimesOut(d) \/ ConnectionFails(d) \/ Reconnects(d)
      PROVE  UNCHANGED <<valid, snapshot>>
  BY <1>6 DEF TimesOut, ConnectionFails, Reconnects, NextRequest, storeVars
<1>7. ASSUME RunOpens \/ RunEnds \/ CycleDone \/ Publish \/ Ingest
      PROVE  UNCHANGED <<valid, snapshot>>
  BY <1>7 DEF RunOpens, RunEnds, CycleDone, Publish, Ingest, cycleVars, storeVars
<1>8. ASSUME \/ DatabaseFails \/ Cancel \/ LinkDown \/ LinkUp \/ UNCHANGED vars
             \/ \E d \in Detectors, m \in Modes : SetMode(d, m)
      PROVE  UNCHANGED <<valid, snapshot>>
  BY <1>8 DEF DatabaseFails, Cancel, LinkDown, LinkUp, SetMode, vars, cycleVars, storeVars
<1>9. QED
  BY <1>1, <1>2, <1>3, <1>4, <1>5, <1>6, <1>7, <1>8 DEF Next, Work, Environment, Request

\* A stored reading came from its own detector, late answers notwithstanding,
\* when no two detectors of the port share a unit address.
THEOREM ReadingIsOwnAlways == OwnUnit => (Spec => []ReadingIsOwn)
<1> SUFFICES ASSUME OwnUnit PROVE Spec => []ReadingIsOwn
  OBVIOUS
<1>1. Init => OwnInv
  BY Kinds DEF Init, OwnInv, NoReadings
<1>2. IInv /\ OwnInv /\ [Next]_vars => OwnInv'
  BY OwnStep
<1>3. OwnInv => ReadingIsOwn
  BY DEF OwnInv, ReadingIsOwn
<1>4. QED
  BY <1>1, <1>2, <1>3, Invariance, PTL DEF Spec

\* The three stores and the counters agree between cycles: the parts together.
THEOREM StoresFollowCycleAlways == Spec => []StoresFollowCycle
  BY TypeCorrect, StoresAgreeAlways, OfflineAgreesAlways, PTL DEF StoresFollowCycle
=============================================================================
